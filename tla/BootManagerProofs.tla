------------------------- MODULE BootManagerProofs -------------------------
(***************************************************************************)
(* Theorems about BootManager, for every set of option numbers, devices    *)
(* and firmware images and every sequence of boots, edits, updates and     *)
(* power losses: what the boot options are once they are set up, where the *)
(* hot keys lead, and which devices and consoles BeforeConsole provides.   *)
(***************************************************************************)
EXTENDS BootManager, SequenceLemmas, FiniteSetTheorems

\* The recursion of Selected.
IsSelection(sel, list, S) ==
  sel = [i \in 0 .. Len(list) |->
           IF i = 0 THEN <<>>
           ELSE IF list[i] \in S THEN Append(sel[i - 1], list[i]) ELSE sel[i - 1]]

\* Its values, one by one.
LEMMA SelectionStep ==
  ASSUME NEW X, NEW list \in Seq(X), NEW S, NEW sel, IsSelection(sel, list, S)
  PROVE  /\ sel[0] = <<>>
         /\ \A i \in 1 .. Len(list) :
              sel[i] = IF list[i] \in S THEN Append(sel[i - 1], list[i]) ELSE sel[i - 1]
<1> DEFINE n == Len(list)
           F(i) == IF i = 0 THEN <<>>
                   ELSE IF list[i] \in S THEN Append(sel[i - 1], list[i]) ELSE sel[i - 1]
<1>1. n \in Nat
  OBVIOUS
<1>2. sel = [i \in 0 .. n |-> F(i)]
  BY Zenon DEF IsSelection
<1>3. F(0) = <<>> /\ \A i \in 1 .. n :
        F(i) = IF list[i] \in S THEN Append(sel[i - 1], list[i]) ELSE sel[i - 1]
  <2>1. \A i \in 1 .. n : i # 0
    OBVIOUS
  <2>2. QED
    BY <2>1, Zenon
<1> HIDE DEF F, n
<1>4. sel[0] = F(0) /\ \A i \in 1 .. n : sel[i] = F(i)
  BY <1>1, <1>2
<1>5. QED
  BY <1>3, <1>4, Zenon DEF n

\* The recursion has a solution, and Selected is the last value of one.
LEMMA SelectionExists ==
  ASSUME NEW X, NEW list \in Seq(X), NEW S
  PROVE  \E sel \in [0 .. Len(list) -> Seq(X)] :
           /\ IsSelection(sel, list, S)
           /\ Selected(list, S) = sel[Len(list)]
<1> DEFINE n == Len(list)
           G == [i \in 1 .. n |-> [s \in Seq(X) |->
                   IF list[i] \in S THEN Append(s, list[i]) ELSE s]]
<1>0. n \in Nat
  OBVIOUS
<1>1. G \in [1 .. n -> [Seq(X) -> Seq(X)]]
  OBVIOUS
<1>2. <<>> \in Seq(X)
  OBVIOUS
<1>3. PICK f \in [0 .. n -> Seq(X)] : f[0] = <<>> /\ \A i \in 1 .. n : f[i] = G[i][f[i - 1]]
  <2> DEFINE empty == <<>>
             Lists == Seq(X)
  <2> HIDE DEF n, G, empty, Lists
  <2>0. empty \in Lists
    BY <1>2, Zenon DEF empty, Lists
  <2>1. G \in [1 .. n -> [Lists -> Lists]]
    BY <1>1, Zenon DEF Lists
  <2>2. \E f : IsRecursion(f, n, Lists, empty, G)
    BY <1>0, <2>0, <2>1, PrefixRecursion
  <2>3. QED
    BY <2>2, Zenon DEF IsRecursion, empty, Lists
<1>4. ASSUME NEW i \in 1 .. n
      PROVE  f[i] = IF list[i] \in S THEN Append(f[i - 1], list[i]) ELSE f[i - 1]
  <2>1. f[i - 1] \in Seq(X)
    OBVIOUS
  <2>2. f[i] = G[i][f[i - 1]]
    BY <1>3
  <2>3. QED
    BY <2>1, <2>2
<1>5. IsSelection(f, list, S)
  <2> DEFINE F(i) == IF i = 0 THEN <<>>
                     ELSE IF list[i] \in S THEN Append(f[i - 1], list[i]) ELSE f[i - 1]
  <2>1. f[0] = F(0)
    BY <1>3, Zenon
  <2>2. ASSUME NEW i \in 1 .. n PROVE f[i] = F(i)
    <3>1. i # 0
      BY <1>0
    <3>2. QED
      BY <1>4, <3>1, Zenon
  <2>3. f = [i \in 0 .. n |-> F(i)]
    <3> DEFINE Lists == Seq(X)
    <3>1. f \in [0 .. n -> Lists]
      BY <1>3
    <3> HIDE DEF F, n, Lists
    <3>2. QED
      BY <1>0, <2>1, <2>2, <3>1
  <2>4. QED
    BY <2>3, Zenon DEF IsSelection
<1> DEFINE sel == CHOOSE s : IsSelection(s, list, S)
<1>6. IsSelection(sel, list, S)
  BY <1>5
<1>7. Selected(list, S) = sel[Len(list)]
  BY DEF Selected, IsSelection
<1>8. sel \in [0 .. n -> Seq(X)]
  <2> HIDE DEF sel
  <2> DEFINE T == {i \in 0 .. n : sel[i] \in Seq(X)}
  <2>0. sel[0] = <<>> /\ \A i \in 1 .. n :
          sel[i] = IF list[i] \in S THEN Append(sel[i - 1], list[i]) ELSE sel[i - 1]
    BY <1>6, SelectionStep
  <2>1. 0 \in T
    <3>1. 0 \in 0 .. n
      OBVIOUS
    <3>2. QED
      BY <1>2, <2>0, <3>1, Zenon
  <2>2. ASSUME NEW i \in 1 .. n, i - 1 \in T PROVE i \in T
    <3>1. i \in 0 .. n /\ list[i] \in X
      OBVIOUS
    <3>2. \A s \in Seq(X), x \in X : Append(s, x) \in Seq(X)
      OBVIOUS
    <3>3. QED
      BY <2>0, <2>2, <3>1, <3>2, Zenon
  <2>3. 0 .. n \subseteq T
    <3> HIDE DEF T, n
    <3>1. QED
      BY <1>0, <2>1, <2>2, IntervalInduction
  <2>4. QED
    BY <1>6, <2>3 DEF IsSelection
<1>9. QED
  BY <1>6, <1>7, <1>8

\* Of an empty list nothing is selected;
LEMMA SelectedEmpty ==
  ASSUME NEW S
  PROVE  Selected(<<>>, S) = <<>>
<1>1. <<>> \in Seq({})
  OBVIOUS
<1>2. PICK sel : IsSelection(sel, <<>>, S) /\ Selected(<<>>, S) = sel[Len(<<>>)]
  BY <1>1, SelectionExists
<1>3. QED
  BY <1>2 DEF IsSelection

\* of a longer list, its last element too if it is in the set;
LEMMA SelectedAppend ==
  ASSUME NEW X, NEW list \in Seq(X), NEW x \in X, NEW S
  PROVE  Selected(Append(list, x), S) =
           IF x \in S THEN Append(Selected(list, S), x) ELSE Selected(list, S)
<1> DEFINE long == Append(list, x)
           n == Len(list)
<1>1. long \in Seq(X) /\ Len(long) = n + 1 /\ long[n + 1] = x
      /\ \A i \in 1 .. n : long[i] = list[i]
  OBVIOUS
<1>2. PICK f : IsSelection(f, list, S) /\ Selected(list, S) = f[Len(list)]
  BY SelectionExists
<1>3. PICK g : IsSelection(g, long, S) /\ Selected(long, S) = g[Len(long)]
  <2> HIDE DEF long
  <2>1. QED
    BY <1>1, SelectionExists
<1> HIDE DEF long
<1>a. f[0] = <<>> /\ \A i \in 1 .. n :
        f[i] = IF list[i] \in S THEN Append(f[i - 1], list[i]) ELSE f[i - 1]
  BY <1>2, SelectionStep
<1>b. g[0] = <<>> /\ \A i \in 1 .. n + 1 :
        g[i] = IF long[i] \in S THEN Append(g[i - 1], long[i]) ELSE g[i - 1]
  BY <1>1, <1>3, SelectionStep
<1> DEFINE T == {i \in 0 .. n : f[i] = g[i]}
<1>4. 0 \in T
  BY <1>a, <1>b
<1>5. ASSUME NEW i \in 1 .. n, i - 1 \in T PROVE i \in T
  BY <1>1, <1>a, <1>b, <1>5
<1>6. 0 .. n \subseteq T
  <2> HIDE DEF T
  <2>1. n \in Nat
    OBVIOUS
  <2> HIDE DEF n
  <2>2. QED
    BY <2>1, <1>4, <1>5, IntervalInduction
<1>7. f[n] = g[n]
  BY <1>6
<1>8. g[n + 1] = IF x \in S THEN Append(g[n], x) ELSE g[n]
  BY <1>1, <1>b
<1>9. QED
  BY <1>1, <1>2, <1>3, <1>7, <1>8 DEF long

\* and a selection is a list of the same kind.
LEMMA SelectedType ==
  ASSUME NEW X, NEW list \in Seq(X), NEW S
  PROVE  Selected(list, S) \in Seq(X)
BY SelectionExists

\* The elements of a selection are those of the list that are in the set.
LEMMA SelectedElements ==
  ASSUME NEW X, NEW list \in Seq(X), NEW S
  PROVE  ToSet(Selected(list, S)) = ToSet(list) \cap S
<1> DEFINE P == {l \in Seq(X) : ToSet(Selected(l, S)) = ToSet(l) \cap S}
<1>1. <<>> \in P
  <2>1. <<>> \in Seq(X)
    OBVIOUS
  <2>2. ToSet(Selected(<<>>, S)) = ToSet(<<>>) \cap S
    BY SelectedEmpty, ToSetEmpty, Zenon
  <2>3. QED
    BY <2>1, <2>2, Zenon
<1>2. ASSUME NEW l \in Seq(X), NEW x \in X, l \in P PROVE Append(l, x) \in P
  <2> DEFINE long == Append(l, x)
             some == Selected(l, S)
  <2>1. long \in Seq(X)
    OBVIOUS
  <2>2. some \in Seq(X) /\ ToSet(some) = ToSet(l) \cap S
    BY <1>2, SelectedType, Zenon
  <2>3. Selected(long, S) = IF x \in S THEN Append(some, x) ELSE some
    BY SelectedAppend, Zenon
  <2>4. ToSet(long) = ToSet(l) \cup {x} /\ ToSet(Append(some, x)) = ToSet(some) \cup {x}
    BY <2>2, ToSetAppend
  <2> HIDE DEF long, some
  <2>5. ToSet(Selected(long, S)) = ToSet(long) \cap S
    <3>1. CASE x \in S
      BY <2>2, <2>3, <2>4, <3>1
    <3>2. CASE x \notin S
      BY <2>2, <2>3, <2>4, <3>2
    <3>3. QED
      BY <3>1, <3>2
  <2>6. QED
    BY <2>1, <2>5, Zenon DEF long
<1>3. Seq(X) \subseteq P
  <2> HIDE DEF P
  <2>1. QED
    BY <1>1, <1>2, SequenceInduction, Zenon
<1>4. QED
  BY <1>3, Zenon

\* A selection depends on the set no further than the list goes.
LEMMA SelectedAgree ==
  ASSUME NEW X, NEW list \in Seq(X), NEW S, NEW T,
         \A x \in ToSet(list) : x \in S <=> x \in T
  PROVE  Selected(list, S) = Selected(list, T)
<1> DEFINE Alike(l) == \A x \in ToSet(l) : x \in S <=> x \in T
           P == {l \in Seq(X) : Alike(l) => Selected(l, S) = Selected(l, T)}
<1>1. <<>> \in P
  <2>1. <<>> \in Seq(X)
    OBVIOUS
  <2>2. QED
    BY <2>1, SelectedEmpty, Zenon
<1>2. ASSUME NEW l \in Seq(X), NEW x \in X, l \in P PROVE Append(l, x) \in P
  <2> DEFINE long == Append(l, x)
  <2>1. long \in Seq(X)
    OBVIOUS
  <2>2. ToSet(long) = ToSet(l) \cup {x}
    BY ToSetAppend
  <2>3. /\ Selected(long, S) = IF x \in S THEN Append(Selected(l, S), x) ELSE Selected(l, S)
        /\ Selected(long, T) = IF x \in T THEN Append(Selected(l, T), x) ELSE Selected(l, T)
    BY SelectedAppend, Zenon
  <2> HIDE DEF long
  <2>4. ASSUME Alike(long) PROVE Selected(long, S) = Selected(long, T)
    <3>1. Alike(l) /\ (x \in S <=> x \in T)
      BY <2>2, <2>4
    <3>2. Selected(l, S) = Selected(l, T)
      BY <1>2, <3>1, Zenon
    <3>3. QED
      BY <2>3, <3>1, <3>2, Zenon
  <2>5. QED
    BY <2>1, <2>4, Zenon DEF long
<1>3. Seq(X) \subseteq P
  <2> HIDE DEF P
  <2>1. QED
    BY <1>1, <1>2, SequenceInduction, Zenon
<1>4. QED
  BY <1>3, Zenon

\* Selecting twice is selecting what is in both sets.
LEMMA SelectedTwice ==
  ASSUME NEW X, NEW list \in Seq(X), NEW S, NEW T
  PROVE  Selected(Selected(list, S), T) = Selected(list, S \cap T)
<1> DEFINE P == {l \in Seq(X) : Selected(Selected(l, S), T) = Selected(l, S \cap T)}
<1>1. <<>> \in P
  <2>1. <<>> \in Seq(X)
    OBVIOUS
  <2>2. QED
    BY <2>1, SelectedEmpty, Zenon
<1>2. ASSUME NEW l \in Seq(X), NEW x \in X, l \in P PROVE Append(l, x) \in P
  <2> DEFINE long == Append(l, x)
             some == Selected(l, S)
  <2>1. long \in Seq(X)
    OBVIOUS
  <2>2. some \in Seq(X) /\ Selected(some, T) = Selected(l, S \cap T)
    BY <1>2, SelectedType, Zenon
  <2>3. /\ Selected(long, S) = IF x \in S THEN Append(some, x) ELSE some
        /\ Selected(long, S \cap T) =
             IF x \in S \cap T THEN Append(Selected(l, S \cap T), x) ELSE Selected(l, S \cap T)
    BY SelectedAppend, Zenon
  <2>4. Selected(Append(some, x), T) =
          IF x \in T THEN Append(Selected(some, T), x) ELSE Selected(some, T)
    BY <2>2, SelectedAppend, Zenon
  <2> HIDE DEF long, some
  <2>5. Selected(Selected(long, S), T) = Selected(long, S \cap T)
    <3>1. CASE x \in S /\ x \in T
      BY <2>2, <2>3, <2>4, <3>1, Zenon
    <3>2. CASE x \in S /\ x \notin T
      BY <2>2, <2>3, <2>4, <3>2, Zenon
    <3>3. CASE x \notin S
      BY <2>2, <2>3, <3>3, Zenon
    <3>4. QED
      BY <3>1, <3>2, <3>3, Zenon
  <2>6. QED
    BY <2>1, <2>5, Zenon DEF long
<1>3. Seq(X) \subseteq P
  <2> HIDE DEF P
  <2>1. QED
    BY <1>1, <1>2, SequenceInduction, Zenon
<1>4. QED
  BY <1>3, Zenon

-----------------------------------------------------------------------------
\* BootOrder and Boot; an option outside BootOrder is never one of the user's, since
\* only firmware's own options are written by a boot that may be cut off.
OptionsFit ==
  /\ BootOrder \in Seq(Numbers)
  /\ DOMAIN Boot \subseteq Numbers
  /\ \A n \in DOMAIN Boot : Boot[n].path \in FvFilePaths \cup OtherPaths
  /\ \A n \in DOMAIN Boot \ ToSet(BootOrder) : Boot[n].path \in FvFilePaths

\* Between the two writes of an option there is nothing of the user's to lose.
Pending ==
  /\ pc \in {"add", "addMenu", "addLast"} =>
       number \in Numbers /\ (number \in DOMAIN Boot => Boot[number].path \in FvFilePaths)
  /\ pc = "delete" => (number \in DOMAIN Boot => IsStale(Boot[number].path))

\* The list that the scan works on says what the variables say, as far as they are
\* still there.
Accurate ==
  pc \in {"scan", "delete"} =>
    \A i \in DOMAIN BootOptions :
      BootOptions[i].number \in DOMAIN Boot
        => Boot[BootOptions[i].number] = BootOptions[i].option

\* All of it, the invariant of the boot options.
OptionsInv == firmware \in Firmwares /\ OptionsFit /\ Pending /\ Accurate

\* BootOrder without a number,
LEMMA WithoutElements ==
  ASSUME BootOrder \in Seq(Numbers), NEW n
  PROVE  Without(n) \in Seq(Numbers) /\ ToSet(Without(n)) = ToSet(BootOrder) \ {n}
<1>1. ToSet(BootOrder) \cap (ToSet(BootOrder) \ {n}) = ToSet(BootOrder) \ {n}
  OBVIOUS
<1>2. QED
  BY <1>1, SelectedType, SelectedElements, Zenon DEF Without

\* and with one more.
LEMMA OrderAppended ==
  ASSUME BootOrder \in Seq(Numbers), NEW n \in Numbers
  PROVE  /\ Append(BootOrder, n) \in Seq(Numbers)
         /\ ToSet(Append(BootOrder, n)) = ToSet(BootOrder) \cup {n}
BY ToSetAppend

\* What the writes of Boot#### variables change.
LEMMA SetVariableEffect ==
  ASSUME NEW n, NEW option
  PROVE  /\ DOMAIN SetVariable(n, option) = DOMAIN Boot \cup {n}
         /\ SetVariable(n, option)[n] = option
         /\ \A m \in DOMAIN Boot \ {n} : SetVariable(n, option)[m] = Boot[m]
BY DEF SetVariable

\* What their deletion changes.
LEMMA DeleteVariableEffect ==
  ASSUME NEW n
  PROVE  /\ DOMAIN DeleteVariable(n) = DOMAIN Boot \ {n}
         /\ \A m \in DOMAIN Boot \ {n} : DeleteVariable(n)[m] = Boot[m]
BY DEF DeleteVariable

\* Writing an option keeps the invariant if it is in BootOrder or points into
\* firmware.
LEMMA OptionSet ==
  ASSUME OptionsFit, NEW n \in Numbers, NEW option, Boot' = SetVariable(n, option),
         BootOrder' \in Seq(Numbers), ToSet(BootOrder) \subseteq ToSet(BootOrder'),
         \/ option.path \in FvFilePaths
         \/ option.path \in OtherPaths /\ n \in ToSet(BootOrder')
         \/ n \in DOMAIN Boot /\ option.path = Boot[n].path
  PROVE  OptionsFit'
<1>1. /\ DOMAIN Boot' = DOMAIN Boot \cup {n}
      /\ Boot'[n] = option
      /\ \A m \in DOMAIN Boot \ {n} : Boot'[m] = Boot[m]
  BY DEF SetVariable
<1>2. ASSUME NEW m \in DOMAIN Boot'
      PROVE  /\ m \in Numbers /\ Boot'[m].path \in FvFilePaths \cup OtherPaths
             /\ m \notin ToSet(BootOrder') => Boot'[m].path \in FvFilePaths
  <2>1. CASE m = n
    BY <1>1, <2>1 DEF OptionsFit
  <2>2. CASE m # n
    BY <1>1, <2>2 DEF OptionsFit
  <2>3. QED
    BY <2>1, <2>2
<1>3. QED
  BY <1>2 DEF OptionsFit, FvFilePaths

\* The first write of an addition keeps it, and takes no number that is in use;
LEMMA AddingStarted ==
  ASSUME OptionsFit, NEW option, option.path \in FvFilePaths, StartAdding(option)
  PROVE  /\ OptionsFit'
         /\ number' \in Numbers \ ToSet(BootOrder)
         /\ number' \in DOMAIN Boot' => Boot'[number'].path \in FvFilePaths
<1>1. number' \in Numbers \ ToSet(BootOrder)
  BY DEF StartAdding, FreeNumber
<1>2. CASE Boot' = SetVariable(number', option) /\ UNCHANGED BootOrder
  <2>1. PICK n \in Numbers : n = number' /\ Boot' = SetVariable(n, option)
    BY <1>1, <1>2
  <2>2. OptionsFit'
    BY <1>2, <2>1, OptionSet DEF OptionsFit
  <2>3. Boot'[n] = option
    BY <2>1, SetVariableEffect
  <2>4. QED
    BY <1>1, <2>1, <2>2, <2>3
<1>3. CASE BootOrder' = Append(BootOrder, number') /\ UNCHANGED Boot
  <2>1. BootOrder' \in Seq(Numbers) /\ ToSet(BootOrder') = ToSet(BootOrder) \cup {number'}
    BY <1>1, <1>3, OrderAppended DEF OptionsFit
  <2>2. QED
    BY <1>1, <1>3, <2>1, Zenon DEF OptionsFit
<1>4. QED
  BY <1>2, <1>3 DEF StartAdding

\* so do both writes;
LEMMA AddingFinished ==
  ASSUME OptionsFit, NEW option, option.path \in FvFilePaths, number \in Numbers,
         FinishAdding(option)
  PROVE  OptionsFit' /\ ToSet(BootOrder') = ToSet(BootOrder) \cup {number}
<1>1. BootOrder' \in Seq(Numbers) /\ ToSet(BootOrder') = ToSet(BootOrder) \cup {number}
  <2>1. CASE number \in ToSet(BootOrder)
    BY <2>1 DEF FinishAdding, OptionsFit
  <2>2. CASE number \notin ToSet(BootOrder)
    BY <2>2, OrderAppended DEF FinishAdding, OptionsFit
  <2>3. QED
    BY <2>1, <2>2
<1>2. Boot' = SetVariable(number, option)
  BY DEF FinishAdding
<1>3. QED
  BY <1>1, <1>2, OptionSet

\* so does a deletion, if what is left outside BootOrder points into firmware;
LEMMA OptionDeleted ==
  ASSUME OptionsFit, NEW n,
         \/ BootOrder' = Without(n) /\ Boot' = DeleteVariable(n)
         \/ BootOrder' = Without(n) /\ UNCHANGED Boot /\ (n \in DOMAIN Boot => Boot[n].path \in FvFilePaths)
         \/ Boot' = DeleteVariable(n) /\ UNCHANGED BootOrder
  PROVE  OptionsFit'
<1>1. Without(n) \in Seq(Numbers) /\ ToSet(Without(n)) = ToSet(BootOrder) \ {n}
  BY WithoutElements DEF OptionsFit
<1>2. CASE BootOrder' = Without(n) /\ Boot' = DeleteVariable(n)
  BY <1>1, <1>2, DeleteVariableEffect, Zenon DEF OptionsFit
<1>3. CASE BootOrder' = Without(n) /\ UNCHANGED Boot /\ (n \in DOMAIN Boot => Boot[n].path \in FvFilePaths)
  BY <1>1, <1>3, Zenon DEF OptionsFit
<1>4. CASE Boot' = DeleteVariable(n) /\ UNCHANGED BootOrder
  BY <1>4, DeleteVariableEffect, Zenon DEF OptionsFit
<1>5. QED
  BY <1>2, <1>3, <1>4

\* and so does what the user or the operating system does.
LEMMA EditKeepsOptions ==
  ASSUME OptionsFit, Edit
  PROVE  OptionsFit'
<1>1. ASSUME NEW n \in Numbers, NEW p \in OtherPaths, FreeNumber(n),
             Boot' = SetVariable(n, Option(p, TRUE)),
             BootOrder' \in {Append(BootOrder, n), <<n>> \o BootOrder}
      PROVE  OptionsFit'
  <2>1. BootOrder' \in Seq(Numbers) /\ ToSet(BootOrder') = ToSet(BootOrder) \cup {n}
    <3>1. CASE BootOrder' = Append(BootOrder, n)
      BY <3>1, OrderAppended DEF OptionsFit
    <3>2. CASE BootOrder' = <<n>> \o BootOrder
      <4> DEFINE k == Len(BootOrder)
      <4>1. /\ BootOrder' \in Seq(Numbers)
            /\ k \in Nat /\ DOMAIN BootOrder = 1 .. k /\ DOMAIN BootOrder' = 1 .. k + 1
            /\ BootOrder'[1] = n
            /\ \A i \in 1 .. k : BootOrder'[i + 1] = BootOrder[i]
        BY <3>2 DEF OptionsFit
      <4> HIDE DEF k
      <4>2. \A i \in 2 .. k + 1 : BootOrder'[i] = BootOrder[i - 1]
        BY <4>1
      <4>3. ToSet(BootOrder') \subseteq ToSet(BootOrder) \cup {n}
        <5> SUFFICES ASSUME NEW i \in 1 .. k + 1
                     PROVE  BootOrder'[i] \in ToSet(BootOrder) \cup {n}
          BY <4>1 DEF ToSet
        <5>1. CASE i = 1
          BY <4>1, <5>1
        <5>2. CASE i # 1
          <6>1. i - 1 \in 1 .. k /\ i \in 2 .. k + 1
            BY <4>1, <5>2
          <6>2. QED
            BY <4>1, <4>2, <6>1 DEF ToSet
        <5>3. QED
          BY <5>1, <5>2
      <4>4. ToSet(BootOrder) \cup {n} \subseteq ToSet(BootOrder')
        BY <4>1 DEF ToSet
      <4>5. QED
        BY <4>1, <4>3, <4>4
    <3>3. QED
      BY <1>1, <3>1, <3>2
  <2>2. Option(p, TRUE).path \in OtherPaths
    BY DEF Option
  <2>3. QED
    BY <1>1, <2>1, <2>2, OptionSet
<1>2. ASSUME NEW n \in DOMAIN Boot, Boot' = SetVariable(n, Option(Boot[n].path, ~Boot[n].active)),
             UNCHANGED BootOrder
      PROVE  OptionsFit'
  <2>1. Option(Boot[n].path, ~Boot[n].active).path = Boot[n].path
    BY DEF Option
  <2>2. QED
    BY <1>2, <2>1, OptionSet DEF OptionsFit
<1>3. ASSUME NEW n \in DOMAIN Boot, Boot' = DeleteVariable(n), BootOrder' = Without(n)
      PROVE  OptionsFit'
  BY <1>3, OptionDeleted
<1>4. QED
  BY <1>1, <1>2, <1>3, Zenon DEF Edit

\* Places at which nothing is said of number and of the scan.
Plain == {"off", "bridges", "displays", "outputs", "consoles", "fixed", "F2", "ESC", "mmioRng",
          "pciRng", "console", "register", "list", "booted", "trying", "menu"}

\* What the steps of a boot do that neither add nor delete options.
LEMMA QuietSteps ==
  ASSUME \/ PowerOn \/ PowerOff \/ ConnectRootBridges \/ ConnectDisplays \/ LocateOutputs
         \/ AddOutput \/ UpdateConsoleVariable \/ (pc = "F2" /\ pc' = AfterF2 /\ AddKeyOption("F2"))
         \/ (pc = "ESC" /\ pc' = "mmioRng" /\ AddKeyOption("ESC"))
         \/ ConnectVirtioRng \/ ConnectVirtioPciRng \/ ConnectAll \/ TryOptions
  PROVE  UNCHANGED <<BootOrder, Boot, firmware>> /\ pc' \in Plain \ {"list", "booted"}
BY DEF PowerOn, PowerOff, ConnectRootBridges, ConnectDisplays, LocateOutputs, AddOutput,
       UpdateConsoleVariable, AfterF2, AddKeyOption, ConnectVirtioRng, ConnectVirtioPciRng,
       ConnectAll, TryOptions, ConnectThose, vars, bmVars, Plain

\* The shell and the menu are files of the firmware.
LEMMA FirmwareFiles ==
  ASSUME firmware \in Firmwares
  PROVE  /\ firmware.shell \in firmware.files /\ firmware.menu \in firmware.files
         /\ firmware.files \subseteq FvFilePaths
BY BootAssumption DEF FvFilePaths

\* The path of an option.
LEMMA OptionPath ==
  ASSUME NEW p, NEW a
  PROVE  Option(p, a).path = p
BY DEF Option

\* Looking for the menu, and adding it, keeps the invariant of the options.
LEMMA MenuStepKeepsOptions ==
  ASSUME OptionsInv, NEW found \in Plain, NEW add \in {"addMenu", "addLast"},
         GetBootManagerMenu(found, add) \/ (pc = add /\ AddMenu(add, found))
  PROVE  OptionsInv'
<1>1. Option(firmware.menu, TRUE).path \in FvFilePaths
  BY FirmwareFiles, OptionPath DEF OptionsInv
<1>2. UNCHANGED firmware /\ pc' \in {found, add}
  BY DEF GetBootManagerMenu, AddMenu
<1>3. OptionsFit' /\ (pc' = add => /\ number' \in Numbers
                                   /\ number' \in DOMAIN Boot' => Boot'[number'].path \in FvFilePaths)
  <2>1. CASE pc' = found /\ UNCHANGED <<BootOrder, Boot>>
    BY <2>1 DEF OptionsInv, OptionsFit, FvFilePaths, Plain
  <2>2. CASE StartAdding(Option(firmware.menu, TRUE))
    BY <1>1, <2>2, AddingStarted DEF OptionsInv
  <2>3. CASE AddMenu(add, found)
    <3>1. number \in Numbers /\ FinishAdding(Option(firmware.menu, TRUE)) /\ pc' = found
      BY <2>3 DEF AddMenu, OptionsInv, Pending
    <3>2. QED
      BY <1>1, <3>1, AddingFinished DEF OptionsInv, Plain
  <2>4. QED
    BY <2>1, <2>2, <2>3 DEF GetBootManagerMenu
<1>4. QED
  BY <1>2, <1>3 DEF OptionsInv, Pending, Accurate, FvFilePaths, Plain

\* So does every step of setting up the options.
LEMMA SetUpKeepsOptions ==
  ASSUME OptionsInv, SetUpOptions
  PROVE  OptionsInv'
<1>1. Option(firmware.shell, TRUE).path \in FvFilePaths
  BY FirmwareFiles, OptionPath DEF OptionsInv
<1>2. CASE RegisterShell
  <2>1. CASE pc' = "list" /\ UNCHANGED <<BootOrder, Boot>>
    BY <1>2, <2>1 DEF RegisterShell, OptionsInv, OptionsFit, Pending, Accurate, FvFilePaths
  <2>2. CASE pc' = "add" /\ StartAdding(Option(firmware.shell, TRUE))
    BY <1>1, <1>2, <2>2, AddingStarted
    DEF RegisterShell, OptionsInv, Pending, Accurate, FvFilePaths
  <2>3. QED
    BY <1>2, <2>1, <2>2 DEF RegisterShell
<1>3. CASE AddShell
  <2>1. number \in Numbers /\ FinishAdding(Option(firmware.shell, TRUE))
    BY <1>3 DEF AddShell, OptionsInv, Pending
  <2>2. OptionsFit'
    BY <1>1, <2>1, AddingFinished DEF OptionsInv
  <2>3. QED
    BY <1>3, <2>2 DEF AddShell, OptionsInv, Pending, Accurate
<1>4. CASE ListOptions
  <2> DEFINE present == Selected(BootOrder, DOMAIN Boot)
  <2>1. BootOptions' = [i \in DOMAIN present |-> Numbered(present[i])]
    BY <1>4 DEF ListOptions, GetLoadOptions, OptionsOf
  <2>2. \A i \in DOMAIN BootOptions' : BootOptions'[i].option = Boot[BootOptions'[i].number]
    <3> HIDE DEF present
    <3>1. QED
      BY <2>1 DEF Numbered
  <2>3. QED
    BY <1>4, <2>2 DEF ListOptions, OptionsInv, OptionsFit, Pending, Accurate, FvFilePaths
<1>5. CASE ScanOption
  <2> DEFINE this == BootOptions[Index]
  <2>1. CASE IsStale(this.option.path)
    <3>1. /\ number' = this.number /\ pc' = "delete" /\ UNCHANGED <<firmware, BootOptions>>
          /\ \/ BootOrder' = Without(this.number) /\ UNCHANGED Boot
             \/ Boot' = DeleteVariable(this.number) /\ UNCHANGED BootOrder
      BY <1>5, <2>1 DEF ScanOption
    <3>2. this.number \in DOMAIN Boot => Boot[this.number] = this.option
      BY <1>5 DEF ScanOption, OptionsInv, Accurate
    <3>3. OptionsFit'
      BY <2>1, <3>1, <3>2, OptionDeleted DEF OptionsInv, IsStale
    <3>4. \A n \in DOMAIN Boot' : n \in DOMAIN Boot /\ Boot'[n] = Boot[n]
      BY <3>1, DeleteVariableEffect
    <3>5. Pending'
      BY <2>1, <3>1, <3>2, <3>4 DEF Pending, IsStale, FvFilePaths
    <3>6. Accurate'
      BY <1>5, <3>1, <3>4 DEF OptionsInv, Accurate, ScanOption
    <3>7. QED
      BY <3>1, <3>3, <3>5, <3>6 DEF OptionsInv
  <2>2. CASE ~IsStale(this.option.path)
    BY <1>5, <2>2 DEF ScanOption, OptionsInv, OptionsFit, Pending, Accurate, FvFilePaths
  <2>3. QED
    BY <2>1, <2>2
<1>6. CASE DeleteOption
  <2>1. OptionsFit'
    BY <1>6, OptionDeleted DEF DeleteOption, OptionsInv
  <2>2. \A n \in DOMAIN Boot' : n \in DOMAIN Boot /\ Boot'[n] = Boot[n]
    BY <1>6, DeleteVariableEffect DEF DeleteOption
  <2>3. QED
    BY <1>6, <2>1, <2>2 DEF DeleteOption, OptionsInv, Pending, Accurate
<1>7. CASE EndScan
  BY <1>7 DEF EndScan, OptionsInv, OptionsFit, Pending, Accurate, FvFilePaths
<1>8. QED
  BY <1>2, <1>3, <1>4, <1>5, <1>6, <1>7 DEF SetUpOptions

\* The invariant holds throughout.
LEMMA OptionsInvariant == BootSpec => []OptionsInv
<1>1. BootInit => OptionsInv
  <2> SUFFICES ASSUME BootInit PROVE OptionsInv
    OBVIOUS
  <2>1. BootOrder \in Seq(Numbers) /\ DOMAIN Boot = {} /\ pc = "off" /\ firmware \in Firmwares
    BY DEF BootInit, OptionsInit
  <2>2. QED
    BY <2>1 DEF OptionsInv, OptionsFit, Pending, Accurate
<1>2. OptionsInv /\ [BootNext]_allVars => OptionsInv'
  <2> SUFFICES ASSUME OptionsInv, [BootNext]_allVars PROVE OptionsInv'
    OBVIOUS
  <2>a. ASSUME UNCHANGED <<BootOrder, Boot, firmware>>, pc' \in Plain PROVE OptionsInv'
    BY <2>a DEF Plain, OptionsInv, OptionsFit, Pending, Accurate, FvFilePaths
  <2>1. CASE Edit
    <3>1. OptionsFit'
      BY <2>1, EditKeepsOptions DEF OptionsInv
    <3>2. QED
      BY <2>1, <3>1 DEF Edit, OptionsInv, Pending, Accurate
  <2>2. CASE UpdateFirmware
    BY <2>2 DEF UpdateFirmware, OptionsInv, OptionsFit, Pending, Accurate, FvFilePaths
  <2>3. CASE RegisterMenu \/ UnableToBoot
    <3>1. {"F2", "menu"} \subseteq Plain
      BY DEF Plain
    <3>2. QED
      BY <2>3, <3>1, MenuStepKeepsOptions DEF RegisterMenu, UnableToBoot, AddMenu
  <2>4. CASE SetUpOptions
    BY <2>4, SetUpKeepsOptions
  <2>5. CASE UNCHANGED allVars
    BY <2>5 DEF allVars, vars, OptionsInv, OptionsFit, Pending, Accurate, FvFilePaths, IsStale
  <2>6. QED
    BY <2>a, <2>1, <2>2, <2>3, <2>4, <2>5, QuietSteps
    DEF BootNext, BeforeConsole, AfterConsole, PlatformRegisterOptionsAndKeys
<1>3. QED
  BY <1>1, <1>2, PTL DEF BootSpec

-----------------------------------------------------------------------------
\* What a deletion does, with one of its two writes done or with both.
LEMMA OptionUnlisted ==
  ASSUME BootOrder \in Seq(Numbers), NEW n,
         \/ BootOrder' = Without(n) /\ Boot' = DeleteVariable(n)
         \/ BootOrder' = Without(n) /\ UNCHANGED Boot
         \/ Boot' = DeleteVariable(n) /\ UNCHANGED BootOrder
  PROVE  Listed' = Listed \ {n} /\ \A m \in Listed' : Boot'[m] = Boot[m]
<1>1. ToSet(Without(n)) = ToSet(BootOrder) \ {n}
  BY WithoutElements
<1>2. DOMAIN DeleteVariable(n) = DOMAIN Boot \ {n}
      /\ \A m \in DOMAIN Boot \ {n} : DeleteVariable(n)[m] = Boot[m]
  BY DeleteVariableEffect
<1>3. CASE BootOrder' = Without(n) /\ Boot' = DeleteVariable(n)
  BY <1>1, <1>2, <1>3 DEF Listed
<1>4. CASE BootOrder' = Without(n) /\ UNCHANGED Boot
  BY <1>1, <1>4 DEF Listed
<1>5. CASE Boot' = DeleteVariable(n) /\ UNCHANGED BootOrder
  BY <1>2, <1>5 DEF Listed
<1>6. QED
  BY <1>3, <1>4, <1>5

\* What an addition does, up to the first of its two writes and after both.
LEMMA OptionListed ==
  ASSUME BootOrder \in Seq(Numbers), NEW option
  PROVE  /\ StartAdding(option) =>
              /\ number' \in Numbers \ ToSet(BootOrder)
              /\ Listed \subseteq Listed' /\ Listed' \subseteq Listed \cup {number'}
              /\ \A m \in Listed : Boot'[m] = Boot[m]
         /\ number \in Numbers /\ FinishAdding(option) =>
              /\ Listed' = Listed \cup {number} /\ Boot'[number] = option
              /\ \A m \in Listed \ {number} : Boot'[m] = Boot[m]
<1>1. ASSUME StartAdding(option)
      PROVE  /\ number' \in Numbers \ ToSet(BootOrder)
             /\ Listed \subseteq Listed' /\ Listed' \subseteq Listed \cup {number'}
             /\ \A m \in Listed : Boot'[m] = Boot[m]
  <2>1. PICK n \in Numbers \ ToSet(BootOrder) : n = number'
    BY <1>1 DEF StartAdding, FreeNumber
  <2>2. CASE Boot' = SetVariable(n, option) /\ UNCHANGED BootOrder
    <3>1. DOMAIN Boot' = DOMAIN Boot \cup {n} /\ \A m \in DOMAIN Boot \ {n} : Boot'[m] = Boot[m]
      BY <2>2 DEF SetVariable
    <3>2. QED
      BY <2>1, <2>2, <3>1 DEF Listed
  <2>3. CASE BootOrder' = Append(BootOrder, n) /\ UNCHANGED Boot
    <3>1. ToSet(BootOrder') = ToSet(BootOrder) \cup {n}
      BY <2>3, OrderAppended
    <3>2. QED
      BY <2>1, <2>3, <3>1 DEF Listed
  <2>4. QED
    BY <1>1, <2>1, <2>2, <2>3 DEF StartAdding
<1>2. ASSUME number \in Numbers, FinishAdding(option)
      PROVE  /\ Listed' = Listed \cup {number} /\ Boot'[number] = option
             /\ \A m \in Listed \ {number} : Boot'[m] = Boot[m]
  <2>1. ToSet(BootOrder') = ToSet(BootOrder) \cup {number}
    BY <1>2, OrderAppended DEF FinishAdding
  <2>2. /\ DOMAIN Boot' = DOMAIN Boot \cup {number} /\ Boot'[number] = option
        /\ \A m \in DOMAIN Boot \ {number} : Boot'[m] = Boot[m]
    BY <1>2 DEF FinishAdding, SetVariable
  <2>3. QED
    BY <2>1, <2>2 DEF Listed
<1>3. QED
  BY <1>1, <1>2

\* The places after the shell was registered.
AfterShell == {"list", "scan", "delete", "booted"}

\* The shell is there from then on; while it is being added there is no other.
ShellKept ==
  /\ pc \in AfterShell => Shells # {}
  /\ pc = "add" => Shells \subseteq {number}

\* No step of setting up the options loses the shell: it is not stale.
LEMMA ShellsUnlessDeleted ==
  ASSUME OptionsInv, ShellKept, SetUpOptions
  PROVE  ShellKept'
<1> DEFINE shell == Option(firmware.shell, TRUE)
<1>0. BootOrder \in Seq(Numbers) /\ UNCHANGED firmware
  BY DEF OptionsInv, OptionsFit, SetUpOptions, RegisterShell, AddShell, ListOptions, ScanOption,
         DeleteOption, EndScan
<1>1. CASE RegisterShell
  <2>1. CASE ShellIsRegistered /\ pc' = "list" /\ UNCHANGED <<number, BootOrder, Boot>>
    BY <1>0, <2>1 DEF ShellKept, ShellIsRegistered, Shells, Listed, AfterShell
  <2>2. CASE ~ShellIsRegistered /\ pc' = "add" /\ StartAdding(shell)
    <3>1. /\ Listed' \subseteq Listed \cup {number'}
          /\ \A m \in Listed : Boot'[m] = Boot[m]
      BY <1>0, <2>2, OptionListed
    <3>2. \A m \in Listed : Boot[m] # shell
      BY <2>2 DEF ShellIsRegistered
    <3>3. QED
      BY <1>0, <2>2, <3>1, <3>2 DEF ShellKept, Shells, AfterShell
  <2>3. QED
    BY <1>1, <2>1, <2>2 DEF RegisterShell
<1>2. CASE AddShell
  <2>1. number \in Numbers /\ FinishAdding(shell) /\ pc' = "list"
    BY <1>2 DEF AddShell, OptionsInv, Pending
  <2>2. number \in Listed' /\ Boot'[number] = shell
    BY <1>0, <2>1, OptionListed
  <2>3. number \in Shells'
    BY <1>0, <2>2 DEF Shells
  <2>4. QED
    BY <2>1, <2>3 DEF ShellKept, AfterShell
<1>3. CASE ListOptions \/ EndScan
  BY <1>3 DEF ListOptions, EndScan, ShellKept, Shells, Listed, AfterShell
<1>4. CASE ScanOption \/ DeleteOption
  <2>1. CASE UNCHANGED <<BootOrder, Boot>> /\ pc' = "scan"
    BY <1>0, <1>4, <2>1 DEF ScanOption, DeleteOption, ShellKept, Shells, Listed, AfterShell
  <2>2. ASSUME NEW n, n \in DOMAIN Boot => IsStale(Boot[n].path),
               \/ BootOrder' = Without(n) /\ Boot' = DeleteVariable(n)
               \/ BootOrder' = Without(n) /\ UNCHANGED Boot
               \/ Boot' = DeleteVariable(n) /\ UNCHANGED BootOrder
        PROVE  Shells' = Shells
    <3>1. Listed' = Listed \ {n} /\ \A m \in Listed' : Boot'[m] = Boot[m]
      BY <1>0, <2>2, OptionUnlisted
    <3>2. n \notin Shells
      <4> SUFFICES ASSUME n \in Shells PROVE FALSE
        OBVIOUS
      <4>1. n \in DOMAIN Boot /\ Boot[n].path = firmware.shell
        BY OptionPath DEF Shells, Listed
      <4>2. firmware.shell \in firmware.files
        BY FirmwareFiles DEF OptionsInv
      <4>3. QED
        BY <2>2, <4>1, <4>2 DEF IsStale
    <3>3. QED
      BY <1>0, <3>1, <3>2 DEF Shells
  <2>3. CASE pc' = "delete" /\ ScanOption
    <3> DEFINE this == BootOptions[Index]
    <3>1. this.number \in DOMAIN Boot => IsStale(Boot[this.number].path)
      BY <2>3 DEF ScanOption, OptionsInv, Accurate
    <3>2. \/ BootOrder' = Without(this.number) /\ UNCHANGED Boot
          \/ Boot' = DeleteVariable(this.number) /\ UNCHANGED BootOrder
      BY <2>3 DEF ScanOption
    <3>3. QED
      BY <2>2, <2>3, <3>1, <3>2 DEF ShellKept, AfterShell, ScanOption
  <2>4. CASE DeleteOption
    BY <2>2, <2>4 DEF DeleteOption, ShellKept, AfterShell, OptionsInv, Pending
  <2>5. QED
    BY <1>4, <2>1, <2>3, <2>4 DEF ScanOption
<1>5. QED
  BY <1>1, <1>2, <1>3, <1>4 DEF SetUpOptions

\* This holds throughout, and also after a boot that was cut off.
LEMMA ShellInvariant == BootSpec => []ShellKept
<1>1. BootInit => ShellKept
  BY DEF BootInit, OptionsInit, ShellKept, AfterShell
<1>2. OptionsInv /\ ShellKept /\ [BootNext]_allVars => ShellKept'
  <2> SUFFICES ASSUME OptionsInv, ShellKept, [BootNext]_allVars PROVE ShellKept'
    OBVIOUS
  <2>a. ASSUME pc' \notin AfterShell \cup {"add"} PROVE ShellKept'
    BY <2>a DEF ShellKept
  <2>1. CASE Edit \/ UpdateFirmware \/ RegisterMenu \/ UnableToBoot
    BY <2>1, <2>a DEF Edit, UpdateFirmware, RegisterMenu, UnableToBoot, GetBootManagerMenu, AddMenu, AfterShell
  <2>2. CASE SetUpOptions
    BY <2>2, ShellsUnlessDeleted
  <2>3. CASE UNCHANGED allVars
    BY <2>3 DEF allVars, vars, ShellKept, Shells, Listed
  <2>4. QED
    BY <2>a, <2>1, <2>2, <2>3, QuietSteps
    DEF BootNext, BeforeConsole, AfterConsole, PlatformRegisterOptionsAndKeys, AfterShell, Plain
<1>3. QED
  BY <1>1, <1>2, OptionsInvariant, PTL DEF BootSpec

\* A stale option is still ahead of the scan, and none is left once it has ended.
StaleAhead ==
  /\ pc \in {"scan", "delete"} =>
       /\ Index \in Nat \ {0}
       /\ \E k \in Nat : DOMAIN BootOptions = 1 .. k
       /\ \A n \in Listed : IsStale(Boot[n].path) =>
            \E i \in DOMAIN BootOptions : i >= Index /\ BootOptions[i].number = n
  /\ pc = "delete" => BootOptions[Index].number = number
  /\ pc = "booted" => \A n \in Listed : ~IsStale(Boot[n].path)

\* The scan passes no stale option.
LEMMA ScanAdvances ==
  ASSUME OptionsInv, StaleAhead, SetUpOptions
  PROVE  StaleAhead'
<1>0. BootOrder \in Seq(Numbers) /\ UNCHANGED firmware
  BY DEF OptionsInv, OptionsFit, SetUpOptions, RegisterShell, AddShell, ListOptions, ScanOption,
         DeleteOption, EndScan
<1>1. CASE RegisterShell \/ AddShell
  BY <1>1 DEF RegisterShell, AddShell, StaleAhead
<1>2. CASE ListOptions
  <2> DEFINE present == Selected(BootOrder, DOMAIN Boot)
  <2>1. present \in Seq(Numbers) /\ ToSet(present) = Listed
    BY <1>0, SelectedType, SelectedElements, Zenon DEF Listed
  <2>2. BootOptions' = [i \in DOMAIN present |-> Numbered(present[i])]
    BY <1>2 DEF ListOptions, GetLoadOptions, OptionsOf
  <2>3. Index' = 1 /\ pc' = "scan" /\ UNCHANGED <<BootOrder, Boot>>
    BY <1>2 DEF ListOptions
  <2> HIDE DEF present
  <2>4. DOMAIN BootOptions' = 1 .. Len(present) /\ Len(present) \in Nat
    BY <2>1, <2>2
  <2>5. ASSUME NEW n \in Listed
        PROVE  \E i \in DOMAIN BootOptions' : i >= 1 /\ BootOptions'[i].number = n
    <3>1. PICK i \in DOMAIN present : present[i] = n
      BY <2>1 DEF ToSet
    <3>2. BootOptions'[i].number = n /\ i \in DOMAIN BootOptions'
      BY <2>2, <3>1 DEF Numbered
    <3>3. QED
      BY <2>4, <3>2
  <2>6. Listed' = Listed
    BY <2>3 DEF Listed
  <2>7. QED
    BY <1>0, <2>3, <2>4, <2>5, <2>6 DEF StaleAhead
<1>3. CASE ScanOption
  <2> DEFINE this == BootOptions[Index]
  <2>0. /\ Index \in Nat \ {0} /\ \E k \in Nat : DOMAIN BootOptions = 1 .. k
        /\ Index \in DOMAIN BootOptions /\ UNCHANGED BootOptions
    BY <1>3 DEF ScanOption, StaleAhead
  <2>1. CASE IsStale(this.option.path)
    <3>1. /\ number' = this.number /\ pc' = "delete" /\ UNCHANGED <<BootOptions, Index>>
          /\ \/ BootOrder' = Without(this.number) /\ UNCHANGED Boot
             \/ Boot' = DeleteVariable(this.number) /\ UNCHANGED BootOrder
      BY <1>3, <2>1 DEF ScanOption
    <3>2. Listed' \subseteq Listed /\ \A m \in Listed' : Boot'[m] = Boot[m]
      BY <1>0, <3>1, OptionUnlisted
    <3>3. QED
      BY <1>0, <1>3, <3>1, <3>2 DEF ScanOption, StaleAhead, IsStale
  <2>2. CASE ~IsStale(this.option.path)
    <3>1. Index' = Index + 1 /\ UNCHANGED <<BootOrder, Boot, pc>>
      BY <1>3, <2>2 DEF ScanOption
    <3>2. this.number \in DOMAIN Boot => ~IsStale(Boot[this.number].path)
      BY <1>3, <2>0, <2>2 DEF ScanOption, OptionsInv, Accurate
    <3>3. ASSUME NEW n \in Listed, IsStale(Boot[n].path)
          PROVE  \E i \in DOMAIN BootOptions : i >= Index + 1 /\ BootOptions[i].number = n
      <4>1. PICK i \in DOMAIN BootOptions : i >= Index /\ BootOptions[i].number = n
        BY <1>3, <3>3 DEF ScanOption, StaleAhead
      <4>2. i # Index
        BY <3>2, <3>3, <4>1 DEF Listed
      <4>3. QED
        BY <2>0, <4>1, <4>2
    <3>4. QED
      BY <1>0, <1>3, <2>0, <3>1, <3>3 DEF ScanOption, StaleAhead, Listed, IsStale
  <2>3. QED
    BY <2>1, <2>2
<1>4. CASE DeleteOption
  <2>1. Listed' = Listed \ {number} /\ \A m \in Listed' : Boot'[m] = Boot[m]
    BY <1>0, <1>4, OptionUnlisted DEF DeleteOption
  <2>2. /\ Index \in Nat \ {0} /\ \E k \in Nat : DOMAIN BootOptions = 1 .. k
        /\ Index' = Index + 1 /\ pc' = "scan" /\ UNCHANGED BootOptions
        /\ BootOptions[Index].number = number
    BY <1>4 DEF DeleteOption, StaleAhead
  <2>3. ASSUME NEW n \in Listed', IsStale(Boot[n].path)
        PROVE  \E i \in DOMAIN BootOptions : i >= Index + 1 /\ BootOptions[i].number = n
    <3>1. PICK i \in DOMAIN BootOptions : i >= Index /\ BootOptions[i].number = n
      BY <1>4, <2>1, <2>3 DEF DeleteOption, StaleAhead
    <3>2. i # Index
      BY <2>1, <2>2, <3>1
    <3>3. QED
      BY <2>2, <3>1, <3>2
  <2>4. QED
    BY <1>0, <2>1, <2>2, <2>3 DEF StaleAhead, IsStale
<1>5. CASE EndScan
  <2>1. PICK k \in Nat : DOMAIN BootOptions = 1 .. k
    BY <1>5 DEF EndScan, StaleAhead
  <2>2. Index \in Nat \ {0} /\ Index \notin 1 .. k
    BY <1>5, <2>1 DEF EndScan, StaleAhead
  <2>3. \A n \in Listed : ~IsStale(Boot[n].path)
    BY <1>5, <2>1, <2>2 DEF EndScan, StaleAhead
  <2>4. QED
    BY <1>5, <2>3 DEF EndScan, StaleAhead, Listed, IsStale
<1>6. QED
  BY <1>1, <1>2, <1>3, <1>4, <1>5 DEF SetUpOptions

\* This holds throughout.
LEMMA ScanInvariant == BootSpec => []StaleAhead
<1>1. BootInit => StaleAhead
  BY DEF BootInit, OptionsInit, StaleAhead
<1>2. OptionsInv /\ StaleAhead /\ [BootNext]_allVars => StaleAhead'
  <2> SUFFICES ASSUME OptionsInv, StaleAhead, [BootNext]_allVars PROVE StaleAhead'
    OBVIOUS
  <2>a. ASSUME pc' \notin {"scan", "delete", "booted"} PROVE StaleAhead'
    BY <2>a DEF StaleAhead
  <2>1. CASE Edit \/ UpdateFirmware \/ RegisterMenu \/ UnableToBoot
    BY <2>1, <2>a DEF Edit, UpdateFirmware, RegisterMenu, UnableToBoot, GetBootManagerMenu, AddMenu
  <2>2. CASE SetUpOptions
    BY <2>2, ScanAdvances
  <2>3. CASE UNCHANGED allVars
    BY <2>3 DEF allVars, vars, StaleAhead, Listed, IsStale
  <2>4. QED
    BY <2>a, <2>1, <2>2, <2>3, QuietSteps
    DEF BootNext, BeforeConsole, AfterConsole, PlatformRegisterOptionsAndKeys, Plain
<1>3. QED
  BY <1>1, <1>2, OptionsInvariant, PTL DEF BootSpec

\* Whatever earlier boots were cut off and whatever was edited, once the options are
\* set up the shell of this firmware is one of them.
THEOREM ShellAlwaysBootable == BootSpec => []ShellBootable
<1>1. ShellKept => ShellBootable
  BY DEF ShellKept, ShellBootable, AfterShell
<1>2. QED
  BY <1>1, ShellInvariant, PTL

\* RemoveStaleFvFileOptions leaves no option that points into firmware that is gone,
\* although it deletes options while it goes through the list of them.
THEOREM NoOptionStale == BootSpec => []NoStaleOption
<1>1. OptionsInv /\ StaleAhead => NoStaleOption
  BY DEF OptionsInv, OptionsFit, StaleAhead, NoStaleOption, Listed, IsStale
<1>2. QED
  BY <1>1, OptionsInvariant, ScanInvariant, PTL

\* The numbers of the user's options.
UserNumbers == {n \in DOMAIN Boot : Boot[n].path \in OtherPaths}

\* A step that writes or deletes one option that points into firmware leaves the
\* user's options as they were and in their order.
LEMMA UserUntouched ==
  ASSUME OptionsInv, OptionsFit', NEW n,
         n \in DOMAIN Boot => Boot[n].path \in FvFilePaths,
         n \in DOMAIN Boot' => Boot'[n].path \in FvFilePaths,
         DOMAIN Boot' \ {n} = DOMAIN Boot \ {n},
         \A m \in DOMAIN Boot \ {n} : Boot'[m] = Boot[m],
         \/ BootOrder' \in {BootOrder, Without(n)}
         \/ n \in Numbers /\ BootOrder' = Append(BootOrder, n)
  PROVE  UserOptions' = UserOptions
<1> DEFINE U == UserNumbers
           list == Selected(BootOrder, U)
<1>1. BootOrder \in Seq(Numbers) /\ BootOrder' \in Seq(Numbers)
  BY DEF OptionsInv, OptionsFit
<1>2. FvFilePaths \cap OtherPaths = {}
  BY BootAssumption DEF FvFilePaths
<1>3. n \notin U /\ U' = U
  BY <1>2 DEF UserNumbers
<1>4. Selected(BootOrder', U) = list
  <2>1. CASE BootOrder' = BootOrder
    BY <2>1
  <2>2. CASE n \in Numbers /\ BootOrder' = Append(BootOrder, n)
    BY <1>1, <1>3, <2>2, SelectedAppend
  <2>3. CASE BootOrder' = Without(n)
    <3>1. Selected(BootOrder', U) = Selected(BootOrder, (ToSet(BootOrder) \ {n}) \cap U)
      BY <1>1, <2>3, SelectedTwice DEF Without
    <3>2. \A x \in ToSet(BootOrder) : x \in (ToSet(BootOrder) \ {n}) \cap U <=> x \in U
      BY <1>3
    <3>3. QED
      BY <1>1, <3>1, <3>2, SelectedAgree
  <2>4. QED
    BY <2>1, <2>2, <2>3
<1>5. UserOptions = [i \in DOMAIN list |-> [number |-> list[i], option |-> Boot[list[i]]]]
  BY DEF UserOptions, UserNumbers, OptionsOf, Numbered
<1>6. UserOptions' = [i \in DOMAIN list |-> [number |-> list[i], option |-> Boot'[list[i]]]]
  <2>1. UserOptions' = [i \in DOMAIN Selected(BootOrder', U') |->
                          [number |-> Selected(BootOrder', U')[i],
                           option |-> Boot'[Selected(BootOrder', U')[i]]]]
    BY DEF UserOptions, UserNumbers, OptionsOf, Numbered
  <2>2. QED
    BY <1>3, <1>4, <2>1
<1>7. \A i \in DOMAIN list : Boot'[list[i]] = Boot[list[i]]
  <2>1. ToSet(list) = ToSet(BootOrder) \cap U
    BY <1>1, SelectedElements
  <2>2. \A i \in DOMAIN list : list[i] \in U
    BY <2>1 DEF ToSet
  <2>3. QED
    BY <1>3, <2>2 DEF UserNumbers
<1>8. QED
  BY <1>5, <1>6, <1>7, Zenon

\* Adding such an option is such a step: a number outside BootOrder is never that of
\* an option of the user's.
LEMMA AddingTouchesNoUser ==
  ASSUME OptionsInv, NEW option, option.path \in FvFilePaths,
         StartAdding(option) \/ (pc \in {"add", "addMenu", "addLast"} /\ FinishAdding(option))
  PROVE  UserOptions' = UserOptions
<1>1. CASE StartAdding(option)
  <2>1. /\ OptionsFit' /\ number' \in Numbers \ ToSet(BootOrder)
        /\ number' \in DOMAIN Boot' => Boot'[number'].path \in FvFilePaths
    BY <1>1, AddingStarted DEF OptionsInv
  <2>2. PICK n \in Numbers \ ToSet(BootOrder) : n = number'
    BY <2>1
  <2>3. n \in DOMAIN Boot => Boot[n].path \in FvFilePaths
    BY <2>2 DEF OptionsInv, OptionsFit
  <2>4. /\ DOMAIN Boot' \ {n} = DOMAIN Boot \ {n}
        /\ \A m \in DOMAIN Boot \ {n} : Boot'[m] = Boot[m]
    BY <1>1, <2>2 DEF StartAdding, SetVariable
  <2>5. BootOrder' = BootOrder \/ BootOrder' = Append(BootOrder, n)
    BY <1>1, <2>2 DEF StartAdding
  <2>6. QED
    BY <2>1, <2>2, <2>3, <2>4, <2>5, UserUntouched
<1>2. CASE pc \in {"add", "addMenu", "addLast"} /\ FinishAdding(option)
  <2>1. number \in Numbers /\ (number \in DOMAIN Boot => Boot[number].path \in FvFilePaths)
    BY <1>2 DEF OptionsInv, Pending
  <2>2. OptionsFit'
    BY <1>2, <2>1, AddingFinished DEF OptionsInv
  <2>3. /\ DOMAIN Boot' = DOMAIN Boot \cup {number} /\ Boot'[number] = option
        /\ \A m \in DOMAIN Boot \ {number} : Boot'[m] = Boot[m]
    BY <1>2 DEF FinishAdding, SetVariable
  <2>4. BootOrder' = BootOrder \/ BootOrder' = Append(BootOrder, number)
    BY <1>2 DEF FinishAdding
  <2>5. QED
    BY <2>1, <2>2, <2>3, <2>4, UserUntouched
<1>3. QED
  BY <1>1, <1>2

\* Deleting one is such a step too.
LEMMA DeletionTouchesNoUser ==
  ASSUME OptionsInv, NEW n, n \in DOMAIN Boot => Boot[n].path \in FvFilePaths,
         \/ BootOrder' = Without(n) /\ Boot' = DeleteVariable(n)
         \/ BootOrder' = Without(n) /\ UNCHANGED Boot
         \/ Boot' = DeleteVariable(n) /\ UNCHANGED BootOrder
  PROVE  UserOptions' = UserOptions
<1>1. OptionsFit'
  BY OptionDeleted DEF OptionsInv
<1>2. /\ n \in DOMAIN Boot' => Boot'[n].path \in FvFilePaths
      /\ DOMAIN Boot' \ {n} = DOMAIN Boot \ {n}
      /\ \A m \in DOMAIN Boot \ {n} : Boot'[m] = Boot[m]
  BY DEF DeleteVariable, FvFilePaths
<1>3. BootOrder' \in {BootOrder, Without(n)}
  OBVIOUS
<1>4. QED
  BY <1>1, <1>2, <1>3, UserUntouched

\* Setting up the options never removes, changes nor reorders an option of the user's.
THEOREM UserOptionsAlwaysKept == BootSpec => UserOptionsKept
<1>1. OptionsInv /\ [BootNext]_allVars => [SetUpOptions => UserOptions' = UserOptions]_vars
  <2> SUFFICES ASSUME OptionsInv, SetUpOptions PROVE UserOptions' = UserOptions
    OBVIOUS
  <2>a. ASSUME UNCHANGED <<BootOrder, Boot>> PROVE UserOptions' = UserOptions
    <3>1. UserNumbers' = UserNumbers
      BY <2>a DEF UserNumbers
    <3>2. QED
      BY <2>a, <3>1 DEF UserOptions, UserNumbers, OptionsOf, Numbered
  <2>b. Option(firmware.shell, TRUE).path \in FvFilePaths
    BY FirmwareFiles, OptionPath DEF OptionsInv
  <2>1. CASE RegisterShell
    BY <2>1, <2>a, <2>b, AddingTouchesNoUser DEF RegisterShell
  <2>2. CASE AddShell
    BY <2>2, <2>b, AddingTouchesNoUser DEF AddShell
  <2>3. CASE ListOptions \/ EndScan
    BY <2>3, <2>a DEF ListOptions, EndScan
  <2>4. CASE ScanOption
    <3> DEFINE this == BootOptions[Index]
    <3>1. CASE IsStale(this.option.path)
      <4>1. this.number \in DOMAIN Boot => Boot[this.number].path \in FvFilePaths
        BY <2>4, <3>1 DEF ScanOption, OptionsInv, Accurate, IsStale
      <4>2. \/ BootOrder' = Without(this.number) /\ UNCHANGED Boot
            \/ Boot' = DeleteVariable(this.number) /\ UNCHANGED BootOrder
        BY <2>4, <3>1 DEF ScanOption
      <4>3. QED
        BY <4>1, <4>2, DeletionTouchesNoUser
    <3>2. CASE ~IsStale(this.option.path)
      BY <2>4, <2>a, <3>2 DEF ScanOption
    <3>3. QED
      BY <3>1, <3>2
  <2>5. CASE DeleteOption
    BY <2>5, DeletionTouchesNoUser DEF DeleteOption, OptionsInv, Pending, IsStale
  <2>6. QED
    BY <2>1, <2>2, <2>3, <2>4, <2>5 DEF SetUpOptions
<1>2. QED
  BY <1>1, OptionsInvariant, PTL DEF BootSpec, UserOptionsKept

\* There are finitely many options.
LEMMA ListedFinite ==
  ASSUME BootOrder \in Seq(Numbers)
  PROVE  IsFiniteSet(Listed)
<1> DEFINE P == {l \in Seq(Numbers) : IsFiniteSet(ToSet(l))}
<1>1. <<>> \in P
  <2>1. <<>> \in Seq(Numbers)
    OBVIOUS
  <2>2. QED
    BY <2>1, ToSetEmpty, FS_EmptySet, Zenon
<1>2. ASSUME NEW l \in Seq(Numbers), NEW n \in Numbers, l \in P PROVE Append(l, n) \in P
  <2>1. Append(l, n) \in Seq(Numbers)
    OBVIOUS
  <2>2. ToSet(Append(l, n)) = ToSet(l) \cup {n}
    BY ToSetAppend
  <2>3. QED
    BY <1>2, <2>1, <2>2, FS_AddElement, Zenon
<1>3. Seq(Numbers) \subseteq P
  <2> HIDE DEF P
  <2>1. QED
    BY <1>1, <1>2, SequenceInduction, Zenon
<1>4. QED
  BY <1>3, FS_Subset, Zenon DEF Listed

\* Booting again adds no second shell, also after a boot that was cut off between the
\* two writes of the shell's option.
THEOREM ShellNeverDuplicated == BootSpec => ShellNotDuplicated
<1>1. OptionsInv /\ ShellKept /\ [BootNext]_allVars
      => [SetUpOptions => Cardinality(Shells') <= 1 \/ Cardinality(Shells') <= Cardinality(Shells)]_vars
  <2> SUFFICES ASSUME OptionsInv, ShellKept, SetUpOptions
               PROVE  Cardinality(Shells') <= 1 \/ Cardinality(Shells') <= Cardinality(Shells)
    OBVIOUS
  <2> DEFINE shell == Option(firmware.shell, TRUE)
  <2>0. BootOrder \in Seq(Numbers) /\ UNCHANGED firmware
    BY DEF OptionsInv, OptionsFit, SetUpOptions, RegisterShell, AddShell, ListOptions, ScanOption,
           DeleteOption, EndScan
  \* No step adds more than one shell, and none is added to another.
  <2>1. ASSUME NEW n, Shells' \subseteq {n} PROVE Cardinality(Shells') <= 1
    <3>1. IsFiniteSet({n}) /\ Cardinality({n}) = 1
      BY FS_Singleton
    <3>2. QED
      BY <2>1, <3>1, FS_Subset
  <2>2. ASSUME Shells' \subseteq Shells PROVE Cardinality(Shells') <= Cardinality(Shells)
    <3>1. IsFiniteSet(Shells)
      BY <2>0, ListedFinite, FS_Subset DEF Shells
    <3>2. QED
      BY <2>2, <3>1, FS_Subset
  <2>3. ASSUME UNCHANGED <<BootOrder, Boot>> PROVE Shells' \subseteq Shells
    BY <2>0, <2>3 DEF Shells, Listed
  <2>4. ASSUME NEW n, \/ BootOrder' = Without(n) /\ Boot' = DeleteVariable(n)
                      \/ BootOrder' = Without(n) /\ UNCHANGED Boot
                      \/ Boot' = DeleteVariable(n) /\ UNCHANGED BootOrder
        PROVE  Shells' \subseteq Shells
    <3>1. Listed' \subseteq Listed /\ \A m \in Listed' : Boot'[m] = Boot[m]
      BY <2>0, <2>4, OptionUnlisted
    <3>2. QED
      BY <2>0, <3>1 DEF Shells
  <2>5. CASE RegisterShell
    <3>1. CASE UNCHANGED <<BootOrder, Boot>>
      BY <2>2, <2>3, <3>1
    <3>2. CASE ~ShellIsRegistered /\ pc' = "add" /\ StartAdding(shell)
      <4>1. /\ Listed' \subseteq Listed \cup {number'}
            /\ \A m \in Listed : Boot'[m] = Boot[m]
        BY <2>0, <3>2, OptionListed
      <4>2. \A m \in Listed : Boot[m] # shell
        BY <3>2 DEF ShellIsRegistered
      <4>3. PICK n : n = number'
        OBVIOUS
      <4>4. Shells' \subseteq {n}
        BY <2>0, <4>1, <4>2, <4>3 DEF Shells
      <4>5. QED
        BY <2>1, <4>4
    <3>3. QED
      BY <2>5, <3>1, <3>2 DEF RegisterShell
  <2>6. CASE AddShell
    <3>1. number \in Numbers /\ FinishAdding(shell) /\ Shells \subseteq {number}
      BY <2>6 DEF AddShell, OptionsInv, Pending, ShellKept
    <3>2. Listed' = Listed \cup {number} /\ \A m \in Listed \ {number} : Boot'[m] = Boot[m]
      BY <2>0, <3>1, OptionListed
    <3>3. Shells' \subseteq {number}
      BY <2>0, <3>1, <3>2 DEF Shells
    <3>4. QED
      BY <2>1, <3>3
  <2>7. CASE ListOptions \/ EndScan
    BY <2>2, <2>3, <2>7 DEF ListOptions, EndScan
  <2>8. CASE ScanOption \/ DeleteOption
    BY <2>2, <2>3, <2>4, <2>8 DEF ScanOption, DeleteOption
  <2>9. QED
    BY <2>5, <2>6, <2>7, <2>8 DEF SetUpOptions
<1>2. QED
  BY <1>1, OptionsInvariant, ShellInvariant, PTL DEF BootSpec, ShellNotDuplicated

-----------------------------------------------------------------------------
\* The keys that are mapped.
Keys == {"F2", "ESC"}

\* The option of a key is in BootOrder, and it is as it was when it was mapped.
Leads(key) ==
  keys[key].number \in Listed /\ Boot[keys[key].number] = keys[key].option

\* A key leads to its option, also past the shell that is being added, or its
\* option points into firmware that is gone.
Led(key) ==
  \/ IsStale(keys[key].option.path)
  \/ Leads(key) /\ (pc = "add" => keys[key].number # number)

\* The places after both keys were mapped.
Mapped == {"mmioRng", "pciRng", "console", "register", "add", "list", "scan", "delete", "booted"}

\* What a key is mapped to was the menu of some firmware.
MenuMapped ==
  /\ DOMAIN keys = Keys
  /\ \A key \in Keys :
       \/ keys[key] = Unmapped
       \/ keys[key].option.path \in FvFilePaths
          /\ keys[key].option.path.file = firmware.menu.file

\* From the place where a key is mapped on it leads to its option, unless it was found
\* with an option outside BootOrder.
KeysKept ==
  /\ pc \in Keys => number \in Menus
  /\ pc \in Mapped \cup {"ESC"} => "F2" \in strays \/ Led("F2")
  /\ pc \in Mapped => "ESC" \in strays \/ Led("ESC")

\* The invariant of the keys.
KeysInv == MenuMapped /\ KeysKept

\* To lead to an option is to be valid and in BootOrder.
LEMMA LeadsValid ==
  ASSUME NEW key
  PROVE  Leads(key) <=> IsValid(key) /\ ~IsStray(key)
BY DEF Leads, IsValid, IsStray, Listed

\* A valid key is mapped to a menu.
LEMMA LeadsToMenu ==
  ASSUME OptionsInv, MenuMapped, NEW key \in Keys, IsValid(key)
  PROVE  /\ keys[key].option.path \in FvFilePaths
         /\ keys[key].option.path.file = firmware.menu.file
<1>1. keys[key].number \in Nat
  BY BootAssumption DEF IsValid, OptionsInv, OptionsFit
<1>2. keys[key] # Unmapped
  BY <1>1 DEF Unmapped
<1>3. QED
  BY <1>2 DEF MenuMapped

\* A key survives every step of setting up the options: a number that is given to the
\* shell or deleted is not that of its option, unless that is stale.
LEMMA KeysThroughSetUp ==
  ASSUME OptionsInv, SetUpOptions, UNCHANGED keys, NEW key \in Keys, Led(key)
  PROVE  Led(key)'
<1> DEFINE k == keys[key].number
<1>0. BootOrder \in Seq(Numbers) /\ UNCHANGED firmware
  BY DEF OptionsInv, OptionsFit, SetUpOptions, RegisterShell, AddShell, ListOptions, ScanOption,
         DeleteOption, EndScan
<1>1. CASE IsStale(keys[key].option.path)
  BY <1>0, <1>1 DEF Led, IsStale, FvFilePaths
<1>2. CASE ~IsStale(keys[key].option.path)
  <2>0. Leads(key) /\ (pc = "add" => k # number)
    BY <1>2 DEF Led
  <2>a. ASSUME k \in Listed', Boot'[k] = Boot[k] PROVE Leads(key)'
    BY <2>0, <2>a DEF Leads
  <2>b. ASSUME UNCHANGED <<BootOrder, Boot>> PROVE Leads(key)'
    BY <2>0, <2>a, <2>b DEF Leads, Listed
  <2>c. ASSUME NEW n, n \in DOMAIN Boot => IsStale(Boot[n].path),
               \/ BootOrder' = Without(n) /\ Boot' = DeleteVariable(n)
               \/ BootOrder' = Without(n) /\ UNCHANGED Boot
               \/ Boot' = DeleteVariable(n) /\ UNCHANGED BootOrder
        PROVE  Leads(key)'
    <3>1. Listed' = Listed \ {n} /\ \A m \in Listed' : Boot'[m] = Boot[m]
      BY <1>0, <2>c, OptionUnlisted
    <3>2. k # n
      BY <1>2, <2>0, <2>c DEF Leads, Listed
    <3>3. QED
      BY <2>0, <2>a, <3>1, <3>2 DEF Leads
  <2>1. CASE RegisterShell
    <3>1. CASE pc' = "list" /\ UNCHANGED <<BootOrder, Boot>>
      BY <2>b, <3>1 DEF Led
    <3>2. CASE pc' = "add" /\ StartAdding(Option(firmware.shell, TRUE))
      <4>1. /\ number' \in Numbers \ ToSet(BootOrder)
            /\ Listed \subseteq Listed' /\ \A m \in Listed : Boot'[m] = Boot[m]
        BY <1>0, <3>2, OptionListed
      <4>2. k # number'
        BY <2>0, <4>1 DEF Leads, Listed
      <4>3. Leads(key)'
        BY <2>0, <2>a, <4>1 DEF Leads
      <4>4. QED
        BY <4>2, <4>3 DEF Led
    <3>3. QED
      BY <2>1, <3>1, <3>2 DEF RegisterShell
  <2>2. CASE AddShell
    <3>1. number \in Numbers /\ FinishAdding(Option(firmware.shell, TRUE)) /\ k # number
      BY <2>0, <2>2 DEF AddShell, OptionsInv, Pending
    <3>2. Listed' = Listed \cup {number} /\ \A m \in Listed \ {number} : Boot'[m] = Boot[m]
      BY <1>0, <3>1, OptionListed
    <3>3. Leads(key)'
      BY <2>0, <2>a, <3>1, <3>2 DEF Leads
    <3>4. QED
      BY <2>2, <3>3 DEF AddShell, Led
  <2>3. CASE ListOptions \/ EndScan
    BY <2>3, <2>b DEF ListOptions, EndScan, Led
  <2>4. CASE ScanOption
    <3> DEFINE this == BootOptions[Index]
    <3>1. CASE IsStale(this.option.path)
      <4>1. this.number \in DOMAIN Boot => IsStale(Boot[this.number].path)
        BY <2>4, <3>1 DEF ScanOption, OptionsInv, Accurate
      <4>2. /\ pc' = "delete"
            /\ \/ BootOrder' = Without(this.number) /\ UNCHANGED Boot
               \/ Boot' = DeleteVariable(this.number) /\ UNCHANGED BootOrder
        BY <2>4, <3>1 DEF ScanOption
      <4>3. QED
        BY <2>c, <4>1, <4>2 DEF Led
    <3>2. CASE ~IsStale(this.option.path)
      BY <2>4, <2>b, <3>2 DEF ScanOption, Led
    <3>3. QED
      BY <3>1, <3>2
  <2>5. CASE DeleteOption
    BY <2>5, <2>c DEF DeleteOption, OptionsInv, Pending, Led
  <2>6. QED
    BY <2>1, <2>2, <2>3, <2>4, <2>5 DEF SetUpOptions
<1>3. QED
  BY <1>1, <1>2

\* It survives the edits that EfiBootManagerRefreshAllBootOption makes.
LEMMA KeysThroughEdit ==
  ASSUME OptionsInv, MenuMapped, pc = "register", Edit, NEW key \in Keys, Led(key)
  PROVE  Led(key)'
<1> DEFINE k == keys[key].number
<1>0. UNCHANGED <<firmware, pc, keys>> /\ BootOrder \in Seq(Numbers)
  BY DEF Edit, bmVars, OptionsInv, OptionsFit
<1>1. CASE IsStale(keys[key].option.path)
  BY <1>0, <1>1 DEF Led, IsStale, FvFilePaths
<1>2. CASE Leads(key)
  <2>0. keys[key].option.path \in FvFilePaths
    BY <1>2, LeadsValid, LeadsToMenu
  <2>1. ASSUME NEW n \in Numbers, NEW option, FreeNumber(n), Boot' = SetVariable(n, option),
               BootOrder' \in {Append(BootOrder, n), <<n>> \o BootOrder}
        PROVE  k \in Listed' /\ Boot'[k] = Boot[k]
    <3>1. k # n
      BY <1>2, <2>1 DEF Leads, Listed, FreeNumber
    <3>2. k \in ToSet(BootOrder')
      <4>1. PICK i \in 1 .. Len(BootOrder) : BootOrder[i] = k
        BY <1>0, <1>2 DEF Leads, Listed, ToSet
      <4>2. CASE BootOrder' = Append(BootOrder, n)
        BY <1>0, <1>2, <4>2, OrderAppended DEF Leads, Listed
      <4>3. CASE BootOrder' = <<n>> \o BootOrder
        <5>1. i + 1 \in DOMAIN BootOrder' /\ BootOrder'[i + 1] = k
          BY <1>0, <4>1, <4>3
        <5>2. QED
          BY <5>1 DEF ToSet
      <4>4. QED
        BY <2>1, <4>2, <4>3
    <3>3. QED
      BY <1>2, <2>1, <3>1, <3>2 DEF Leads, Listed, SetVariable
  <2>2. ASSUME NEW n, n \in DOMAIN Boot, Boot[n].path \in OtherPaths,
               Boot' = DeleteVariable(n), BootOrder' = Without(n)
        PROVE  k \in Listed' /\ Boot'[k] = Boot[k]
    <3>1. k # n
      BY <1>2, <2>0, <2>2, BootAssumption DEF Leads, FvFilePaths
    <3>2. Listed' = Listed \ {n} /\ \A m \in Listed' : Boot'[m] = Boot[m]
      BY <1>0, <2>2, OptionUnlisted
    <3>3. QED
      BY <1>2, <3>1, <3>2 DEF Leads
  <2>3. k \in Listed' /\ Boot'[k] = Boot[k]
    BY <2>1, <2>2 DEF Edit
  <2>4. Leads(key)'
    BY <1>0, <1>2, <2>3 DEF Leads
  <2>5. QED
    BY <1>0, <2>4 DEF Led
<1>3. QED
  BY <1>1, <1>2 DEF Led

\* Mapping a key leads it to the menu and does nothing to the other.
LEMMA KeyMapped ==
  ASSUME OptionsInv, MenuMapped, NEW key \in Keys, number \in Menus, AddKeyOption(key), pc' # "add"
  PROVE  /\ MenuMapped'
         /\ key \in strays' \/ Led(key)'
         /\ \A other \in Keys \ {key} :
              (other \in strays \/ Led(other)) /\ pc # "add" => other \in strays' \/ Led(other)'
<1>0. UNCHANGED <<BootOrder, Boot, firmware, number>> /\ Listed' = Listed
  BY DEF AddKeyOption, Listed
<1>1. number \in Listed /\ IsMenu(Boot[number].path)
  BY DEF Menus
<1>2. CASE ~IsValid(key) /\ keys' = [keys EXCEPT ![key] = Numbered(number)] /\ UNCHANGED strays
  <2>1. /\ DOMAIN keys' = Keys
        /\ keys'[key].number = number /\ keys'[key].option = Boot[number]
        /\ \A other \in Keys \ {key} : keys'[other] = keys[other]
    BY <1>2 DEF Numbered, MenuMapped
  <2>2. MenuMapped'
    BY <1>0, <1>1, <2>1 DEF MenuMapped, IsMenu, FvFilePaths
  <2>3. Leads(key)'
    BY <1>0, <1>1, <2>1 DEF Leads
  <2>4. QED
    BY <1>0, <1>2, <2>1, <2>2, <2>3 DEF Led, Leads, IsStale, FvFilePaths
<1>3. CASE IsValid(key) /\ UNCHANGED keys
           /\ strays' = IF IsStray(key) THEN strays \cup {key} ELSE strays
  <2>1. MenuMapped'
    BY <1>0, <1>3 DEF MenuMapped, FvFilePaths
  <2>2. key \in strays' \/ Leads(key)
    BY <1>3, LeadsValid
  <2>3. QED
    BY <1>0, <1>3, <2>1, <2>2 DEF Led, Leads, IsStale, FvFilePaths
<1>4. QED
  BY <1>2, <1>3 DEF AddKeyOption

\* The invariant holds throughout.
LEMMA KeysInvariant == BootSpec => []KeysInv
<1>1. BootInit => KeysInv
  BY DEF BootInit, OptionsInit, KeysInv, MenuMapped, KeysKept, Keys, Mapped
<1>2. OptionsInv /\ KeysInv /\ [BootNext]_allVars => KeysInv'
  <2> SUFFICES ASSUME OptionsInv, KeysInv, [BootNext]_allVars PROVE KeysInv'
    OBVIOUS
  \* A step that maps no key, and leads to a place where nothing is said of them.
  <2>a. ASSUME UNCHANGED <<keys, firmware>> PROVE MenuMapped'
    BY <2>a DEF KeysInv, MenuMapped, FvFilePaths
  <2>b. ASSUME pc' \notin Keys \cup Mapped PROVE KeysKept'
    BY <2>b DEF KeysKept, Keys
  <2>c. ASSUME UNCHANGED <<BootOrder, Boot, firmware, keys, strays, number>>,
               \/ pc' = pc
               \/ pc \in Mapped \ {"add"} /\ pc' \in Mapped \ {"add"}
        PROVE  KeysInv'
    <3>1. \A key \in Keys : Led(key) => Led(key)'
      BY <2>c DEF Led, Leads, Listed, IsStale, FvFilePaths, Mapped
    <3>2. number \in Menus => (number \in Menus)'
      BY <2>c DEF Menus, Listed, IsMenu, FvFilePaths
    <3>3. QED
      BY <2>a, <2>c, <3>1, <3>2 DEF KeysInv, KeysKept, Keys, Mapped
  <2>1. CASE Edit
    <3>1. MenuMapped'
      BY <2>1, <2>a DEF Edit, bmVars
    <3>2. CASE pc = "register"
      BY <2>1, <3>1, <3>2, KeysThroughEdit DEF Edit, bmVars, KeysInv, KeysKept, Keys, Mapped
    <3>3. CASE pc = "trying"
      BY <2>1, <2>b, <3>1, <3>3 DEF Edit, KeysInv, Keys, Mapped
    <3>4. QED
      BY <2>1, <3>2, <3>3 DEF Edit
  <2>2. CASE UpdateFirmware
    <3>1. firmware' \in Firmwares /\ firmware'.menu.file = firmware.menu.file /\ UNCHANGED keys
      BY <2>2, MenuAssumption DEF UpdateFirmware, OptionsInv, bmVars
    <3>2. MenuMapped'
      BY <3>1 DEF KeysInv, MenuMapped, FvFilePaths
    <3>3. QED
      BY <2>2, <2>b, <3>2 DEF UpdateFirmware, KeysInv, Keys, Mapped
  <2>3. CASE PowerOn \/ PowerOff \/ ConnectRootBridges \/ ConnectDisplays \/ LocateOutputs
             \/ AddOutput
    <3>1. pc' \notin Keys \cup Mapped /\ UNCHANGED <<keys, firmware>>
      BY <2>3 DEF PowerOn, PowerOff, ConnectRootBridges, ConnectDisplays, LocateOutputs, AddOutput,
                  ConnectThose, bmVars, Keys, Mapped
    <3>2. QED
      BY <2>a, <2>b, <3>1 DEF KeysInv
  <2>4. CASE UpdateConsoleVariable
    BY <2>4, <2>c DEF UpdateConsoleVariable, vars
  <2>5. CASE RegisterMenu
    <3>0. UNCHANGED <<keys, firmware>> /\ pc' \in {"addMenu", "F2"}
      BY <2>5 DEF RegisterMenu, GetBootManagerMenu, AddMenu, bmVars
    <3>1. CASE pc' = "addMenu"
      BY <2>a, <2>b, <3>0, <3>1 DEF KeysInv, Keys, Mapped
    <3>2. CASE pc' = "F2"
      <4>1. CASE UNCHANGED <<BootOrder, Boot>> /\ number' \in Menus
        <5>1. Menus' = Menus
          BY <3>0, <4>1 DEF Menus, Listed, IsMenu, FvFilePaths
        <5>2. QED
          BY <2>a, <3>0, <3>2, <4>1, <5>1 DEF KeysInv, KeysKept, Keys, Mapped
      <4>2. CASE AddMenu("addMenu", "F2")
        <5>1. number \in Numbers /\ FinishAdding(Option(firmware.menu, TRUE)) /\ UNCHANGED number
          BY <4>2 DEF AddMenu, FinishAdding, OptionsInv, Pending
        <5>2. number \in Listed' /\ Boot'[number] = Option(firmware.menu, TRUE)
          BY <5>1, OptionListed DEF OptionsInv, OptionsFit
        <5>3. firmware.menu \in FvFilePaths /\ firmware.menu \in firmware.files
          BY FirmwareFiles DEF OptionsInv
        <5>4. (number \in Menus)'
          BY <3>0, <5>1, <5>2, <5>3, OptionPath DEF Menus, IsMenu, FvFilePaths
        <5>5. QED
          BY <2>a, <3>0, <3>2, <5>4 DEF KeysInv, KeysKept, Keys, Mapped
      <4>3. QED
        BY <2>5, <3>2, <4>1, <4>2 DEF RegisterMenu, GetBootManagerMenu
    <3>3. QED
      BY <3>0, <3>1, <3>2
  <2>6. CASE pc = "F2" /\ pc' = AfterF2 /\ AddKeyOption("F2")
    <3>1. MenuMapped' /\ ("F2" \in strays' \/ Led("F2")')
      BY <2>6, KeyMapped DEF AfterF2, KeysInv, KeysKept, Keys
    <3>2. Menus' = Menus /\ UNCHANGED number
      BY <2>6 DEF AddKeyOption, Menus, Listed, IsMenu, FvFilePaths
    <3>3. QED
      BY <2>6, <3>1, <3>2 DEF AfterF2, KeysInv, KeysKept, Keys, Mapped
  <2>7. CASE pc = "ESC" /\ pc' = "mmioRng" /\ AddKeyOption("ESC")
    <3>1. /\ MenuMapped' /\ ("ESC" \in strays' \/ Led("ESC")')
          /\ "F2" \in strays' \/ Led("F2")'
      BY <2>7, KeyMapped DEF KeysInv, KeysKept, Keys, Mapped
    <3>2. QED
      BY <2>7, <3>1 DEF KeysInv, KeysKept, Keys, Mapped
  <2>8. CASE ConnectVirtioRng \/ ConnectVirtioPciRng \/ ConnectAll
    BY <2>8, <2>c DEF ConnectVirtioRng, ConnectVirtioPciRng, ConnectAll, ConnectThose, Mapped
  <2>9. CASE SetUpOptions /\ UNCHANGED <<bmVars, edits, boots>>
    <3>1. pc \in Mapped /\ pc' \in Mapped /\ UNCHANGED <<keys, strays, firmware>>
      BY <2>9 DEF SetUpOptions, RegisterShell, AddShell, ListOptions, ScanOption, DeleteOption,
                  EndScan, Mapped, bmVars
    <3>2. QED
      BY <2>9, <2>a, <3>1, KeysThroughSetUp DEF KeysInv, KeysKept, Keys, Mapped
  <2>10. CASE TryOptions \/ UnableToBoot
    <3>1. pc' \notin Keys \cup Mapped /\ UNCHANGED <<keys, firmware>>
      BY <2>10 DEF TryOptions, UnableToBoot, GetBootManagerMenu, AddMenu, bmVars, Keys, Mapped
    <3>2. QED
      BY <2>a, <2>b, <3>1 DEF KeysInv
  <2>11. CASE UNCHANGED allVars
    BY <2>11, <2>c DEF allVars, vars, bmVars
  <2>12. QED
    BY <2>1, <2>2, <2>3, <2>4, <2>5, <2>6, <2>7, <2>8, <2>9, <2>10, <2>11
    DEF BootNext, BeforeConsole, AfterConsole, PlatformRegisterOptionsAndKeys
<1>3. QED
  BY <1>1, <1>2, OptionsInvariant, PTL DEF BootSpec

\* Once the options are set up both keys open the menu, but for a key that is still
\* mapped to the menu of firmware that is gone and one whose option was outside BootOrder.
THEOREM HotKeysAlwaysMapped == BootSpec => []HotKeysMapped
<1>1. OptionsInv /\ KeysInv => HotKeysMapped
  <2> SUFFICES ASSUME OptionsInv, KeysInv, pc = "booted", NEW key \in Keys \ strays,
                      ~IsStale(keys[key].option.path)
               PROVE  OpensMenu(key)
    BY DEF HotKeysMapped, IsStale, Keys
  <2>1. IsValid(key)
    BY LeadsValid DEF KeysInv, KeysKept, Led, Mapped, Keys
  <2>2. keys[key].option.path \in FvFilePaths /\ keys[key].option.path.file = firmware.menu.file
    BY <2>1, LeadsToMenu DEF KeysInv
  <2>3. IsMenu(keys[key].option.path)
    BY <2>2 DEF IsMenu, IsStale
  <2>4. QED
    BY <2>1, <2>3 DEF OpensMenu
<1>2. QED
  BY <1>1, OptionsInvariant, KeysInvariant, PTL

-----------------------------------------------------------------------------
Displaying == {h \in Handles : h.kind = "pci" /\ IsPciDisplay(h)}
MmioRngs   == {h \in VirtioHandles : IsVirtioRng(h)}
PciRngs    == {h \in Handles : h.kind = "pci" /\ IsVirtioPciRng(h)}

\* What is connected at each place of BeforeConsole.
ConnectedSoFar ==
  /\ pc \in {"off", "bridges"} => connected = {}
  /\ pc = "displays" => connected = BridgeHandles
  /\ pc \in {"outputs", "consoles", "fixed", "addMenu", "F2", "ESC", "mmioRng"}
       => connected = BridgeHandles \cup Displaying
  /\ pc = "pciRng" => connected = BridgeHandles \cup Displaying \cup MmioRngs
  /\ pc = "console" => connected = BridgeHandles \cup Displaying \cup MmioRngs \cup PciRngs

\* With its bridge connected, every PCI device has its handle.
LEMMA PciHandlesKnown ==
  ASSUME BridgeHandles \subseteq connected
  PROVE  PciIoHandles = {h \in Handles : h.kind = "pci"}
BY HandlesAssumption DEF PciIoHandles, BridgeHandles

\* This holds throughout.
LEMMA ConnectedInvariant == BootSpec => []ConnectedSoFar
<1>1. BootInit => ConnectedSoFar
  BY DEF BootInit, OptionsInit, ConnectedSoFar
<1>2. ConnectedSoFar /\ [BootNext]_allVars => ConnectedSoFar'
  <2> SUFFICES ASSUME ConnectedSoFar, [BootNext]_allVars PROVE ConnectedSoFar'
    OBVIOUS
  <2> DEFINE Places == {"off", "bridges", "displays", "outputs", "consoles", "fixed",
                        "addMenu", "F2", "ESC", "mmioRng", "pciRng", "console"}
  \* A step of the rest of a boot.
  <2>a. ASSUME pc' \notin Places PROVE ConnectedSoFar'
    BY <2>a DEF ConnectedSoFar
  \* A step that connects nothing.
  <2>b. ASSUME connected' = connected, pc' = pc PROVE ConnectedSoFar'
    BY <2>b DEF ConnectedSoFar, BridgeHandles, Displaying, MmioRngs, PciRngs, VirtioHandles
  \* A step between the displays and the entropy sources.
  <2>c. ASSUME connected' = connected,
               pc \in {"consoles", "fixed", "addMenu", "F2", "ESC"},
               pc' \in {"consoles", "fixed", "addMenu", "F2", "ESC", "mmioRng"}
        PROVE  ConnectedSoFar'
    BY <2>c DEF ConnectedSoFar, BridgeHandles, Displaying, MmioRngs, PciRngs, VirtioHandles
  <2>1. CASE Edit
    BY <2>1, <2>b DEF Edit, bmVars
  <2>2. CASE UpdateFirmware
    BY <2>2, <2>b DEF UpdateFirmware, bmVars
  <2>3. CASE PowerOn
    BY <2>3 DEF PowerOn, bmVars, ConnectedSoFar
  <2>4. CASE PowerOff
    BY <2>4 DEF PowerOff, ConnectedSoFar
  <2>5. CASE ConnectRootBridges
    BY <2>5 DEF ConnectRootBridges, ConnectThose, ConnectedSoFar, BridgeHandles
  <2>6. CASE ConnectDisplays
    <3>1. PciIoHandles = {h \in Handles : h.kind = "pci"}
      BY <2>6, PciHandlesKnown DEF ConnectDisplays, ConnectedSoFar
    <3>2. connected' = BridgeHandles \cup Displaying
      BY <2>6, <3>1 DEF ConnectDisplays, ConnectThose, ConnectedSoFar, Displaying
    <3>3. QED
      BY <2>6, <3>2 DEF ConnectDisplays, ConnectedSoFar, BridgeHandles, Displaying
  <2>7. CASE LocateOutputs
    BY <2>7 DEF LocateOutputs, ConnectThose, ConnectedSoFar
  <2>8. CASE AddOutput \/ UpdateConsoleVariable
    BY <2>8, <2>b, <2>c DEF AddOutput, ConnectThose, UpdateConsoleVariable, vars
  <2>9. CASE PlatformRegisterOptionsAndKeys
    BY <2>9, <2>c
    DEF PlatformRegisterOptionsAndKeys, RegisterMenu, GetBootManagerMenu, AddMenu, AddKeyOption,
        AfterF2, bmVars
  <2>10. CASE ConnectVirtioRng
    BY <2>10 DEF ConnectVirtioRng, ConnectThose, ConnectedSoFar, MmioRngs
  <2>11. CASE ConnectVirtioPciRng
    <3>1. PciIoHandles = {h \in Handles : h.kind = "pci"}
      BY <2>11, PciHandlesKnown DEF ConnectVirtioPciRng, ConnectedSoFar
    <3>2. connected' = BridgeHandles \cup Displaying \cup MmioRngs \cup PciRngs
      BY <2>11, <3>1 DEF ConnectVirtioPciRng, ConnectThose, ConnectedSoFar, PciRngs
    <3>3. QED
      BY <2>11, <3>2 DEF ConnectVirtioPciRng, ConnectedSoFar
  <2>12. CASE ConnectAll
    BY <2>12, <2>a DEF ConnectAll
  <2>13. CASE SetUpOptions
    BY <2>13, <2>a DEF SetUpOptions, RegisterShell, AddShell, ListOptions, ScanOption,
                       DeleteOption, EndScan
  <2>14. CASE TryOptions
    BY <2>14, <2>a DEF TryOptions
  <2>15. CASE UnableToBoot
    BY <2>15, <2>a DEF UnableToBoot, GetBootManagerMenu, AddMenu
  <2>16. CASE UNCHANGED allVars
    BY <2>16, <2>b DEF allVars, vars, bmVars
  <2>17. QED
    BY <2>1, <2>2, <2>3, <2>4, <2>5, <2>6, <2>7, <2>8, <2>9, <2>10, <2>11, <2>12, <2>13,
       <2>14, <2>15, <2>16
    DEF BootNext, BeforeConsole, AfterConsole
<1>3. QED
  BY <1>1, <1>2, PTL DEF BootSpec

\* A virtio device that the PCI filter accepts is an entropy source, and every
\* entropy source is accepted by the filter of its transport.
LEMMA FiltersExact ==
  ASSUME NEW h \in Handles, h.virtio # "no"
  PROVE  h.virtio = "entropy" <=> h \in MmioRngs \cup PciRngs
BY HandlesAssumption
DEF MmioRngs, PciRngs, VirtioHandles, IsVirtioRng, IsVirtioPciRng, IsModern, IsTransitional,
    VIRTIO_VENDOR_ID, VIRTIO_SUBSYSTEM_ENTROPY_SOURCE

\* Before the consoles start, exactly the entropy sources among the virtio devices
\* are connected, but for displays.
THEOREM EntropyAlwaysConnected == BootSpec => []EntropyConnected
<1>1. ConnectedSoFar => EntropyConnected
  <2> SUFFICES ASSUME ConnectedSoFar, pc = "console", NEW h \in Handles
               PROVE  /\ h.virtio = "entropy" => h \in connected
                      /\ h.virtio \notin {"no", "entropy"} /\ h \in connected
                           => h.kind = "pci" /\ h.display
    BY DEF EntropyConnected
  <2>1. connected = BridgeHandles \cup Displaying \cup MmioRngs \cup PciRngs
    BY DEF ConnectedSoFar
  <2>2. h.virtio # "no" => h \notin BridgeHandles
    BY HandlesAssumption DEF BridgeHandles
  <2>3. h \in Displaying => h.kind = "pci" /\ h.display
    BY DEF Displaying, IsPciDisplay
  <2>4. QED
    BY <2>1, <2>2, <2>3, FiltersExact
<1>2. QED
  BY <1>1, ConnectedInvariant, PTL

-----------------------------------------------------------------------------
\* The console variables, the devices that are listed by name, the displays that
\* BeforeConsole can know of, and every update it may make.
Variables == {"ConIn", "ConOut", "ErrOut"}
Fixed     == {"usb", "goldfish", "serial"}
Screens   ==
  {h \in Handles : (h.kind = "framebuffer" \/ (h.kind = "pci" /\ IsPciDisplay(h))) /\ h.path}
AllWrites == {Write(v, d) : v \in Variables, d \in Fixed \cup {h.name : h \in Handles}}

\* A device is listed, or about to be; a display shows the console and the errors.
Coming(v, d) == d \in consoles[v] \/ Write(v, d) \in ToSet(writes)
Shown(h)     == h.name \in consoles["ConOut"] \cap consoles["ErrOut"]

\* The variables, and when there is nothing to write.
ListsFit ==
  /\ DOMAIN consoles = Variables
  /\ fullIn \in Nat /\ boots \in Nat /\ fullIn <= boots
  /\ writes \in Seq(AllWrites) /\ outputs \subseteq Handles
  /\ pc \notin {"consoles", "fixed"} => writes = <<>>
  /\ pc \in {"bridges", "displays", "outputs"} => fullIn # boots

\* No display shows the errors alone.
ErrorsShown ==
  /\ consoles["ErrOut"] \subseteq consoles["ConOut"] \cup {"serial"}
  /\ pc = "consoles" =>
       \/ writes = <<>>
       \/ \E h \in Handles : writes = OutputWrites(h)
       \/ \E h \in Handles : writes = <<Write("ErrOut", h.name)>> /\ h.name \in consoles["ConOut"]
  /\ pc = "fixed" => ToSet(writes) \subseteq ToSet(FixedWrites)

\* What is listed by now, unless a variable was full.
ListedSoFar ==
  fullIn # boots =>
    /\ pc = "consoles" => \A h \in Screens \ outputs :
                            Coming("ConOut", h.name) /\ Coming("ErrOut", h.name)
    /\ pc = "fixed" =>
         /\ \A h \in Screens : Shown(h)
         /\ \A w \in ToSet(FixedWrites) : Coming(w.variable, w.device)
    /\ pc \in {"addMenu", "F2", "ESC", "mmioRng", "pciRng", "console"} =>
         /\ \A h \in Screens : Shown(h)
         /\ \A w \in ToSet(FixedWrites) : w.device \in consoles[w.variable]

\* The invariant of the consoles.
ConsolesInv == ListsFit /\ ErrorsShown /\ ListedSoFar

\* What BeforeConsole writes after the displays,
LEMMA FixedList ==
  /\ FixedWrites \in Seq(AllWrites)
  /\ ToSet(FixedWrites) =
       {Write("ConIn", "usb"), Write("ConIn", "goldfish"), Write("ConIn", "serial"),
        Write("ConOut", "serial"), Write("ErrOut", "serial")}
<1>1. \A v \in Variables, d \in Fixed : Write(v, d) \in AllWrites
  BY DEF AllWrites
<1>2. DOMAIN FixedWrites = 1 .. 5
  BY DEF FixedWrites
<1>3. FixedWrites \in Seq(AllWrites)
  BY <1>1 DEF FixedWrites, Variables, Fixed
<1>4. ToSet(FixedWrites) = {FixedWrites[i] : i \in {1, 2, 3, 4, 5}}
  BY <1>2 DEF ToSet
<1>5. QED
  BY <1>3, <1>4 DEF FixedWrites

\* and what AddOutput writes for one.
LEMMA OutputList ==
  ASSUME NEW h \in Handles
  PROVE  /\ OutputWrites(h) \in Seq(AllWrites)
         /\ OutputWrites(h) # <<>>
         /\ Head(OutputWrites(h)) = Write("ConOut", h.name)
         /\ Tail(OutputWrites(h)) = <<Write("ErrOut", h.name)>>
         /\ ToSet(OutputWrites(h)) = {Write("ConOut", h.name), Write("ErrOut", h.name)}
<1>1. {Write("ConOut", h.name), Write("ErrOut", h.name)} \subseteq AllWrites
  BY DEF AllWrites, Variables
<1>2. DOMAIN OutputWrites(h) = {1, 2}
  BY DEF OutputWrites
<1>3. ToSet(OutputWrites(h)) = {OutputWrites(h)[1], OutputWrites(h)[2]}
  BY <1>2 DEF ToSet
<1>4. QED
  BY <1>1, <1>3 DEF OutputWrites

\* The fields of an update.
LEMMA WriteFields ==
  ASSUME NEW v, NEW d
  PROVE  Write(v, d).variable = v /\ Write(v, d).device = d
BY DEF Write

\* An update of a variable, done or failed, keeps the invariant.
LEMMA OneWrite ==
  ASSUME ConsolesInv, UpdateConsoleVariable
  PROVE  ConsolesInv'
<1> DEFINE w == Head(writes)
           Done == /\ consoles' = [consoles EXCEPT ![w.variable] = @ \cup {w.device}]
                   /\ writes' = Tail(writes) /\ UNCHANGED fullIn
           Failed == /\ fullIn = 0 /\ writes' = AfterFailure(w)
                     /\ fullIn' = boots /\ UNCHANGED consoles
<1>1. /\ pc \in {"consoles", "fixed"} /\ writes # <<>> /\ UNCHANGED <<pc, boots, outputs>>
      /\ Done \/ Failed
  BY DEF UpdateConsoleVariable, vars
<1>2. /\ writes \in Seq(AllWrites) /\ ToSet(writes) = {w} \cup ToSet(Tail(writes))
      /\ w \in AllWrites /\ Tail(writes) \in Seq(AllWrites)
  BY <1>1, HeadAndRest DEF ConsolesInv, ListsFit
<1>3. PICK v \in Variables, d \in Fixed \cup {h.name : h \in Handles} : w = Write(v, d)
  BY <1>2 DEF AllWrites
<1>4. w.variable = v /\ w.device = d
  BY <1>3, WriteFields
<1>5. DOMAIN consoles = Variables /\ fullIn \in Nat /\ boots \in Nat /\ fullIn <= boots
  BY DEF ConsolesInv, ListsFit
<1>6. CASE Failed
  <2>1. writes' \in Seq(AllWrites)
    BY <1>2, <1>6 DEF AfterFailure
  <2>2. ListsFit'
    BY <1>1, <1>5, <1>6, <2>1 DEF ConsolesInv, ListsFit
  <2>3. ListedSoFar'
    BY <1>1, <1>6 DEF ListedSoFar
  <2>4. CASE pc = "fixed"
    BY <1>1, <1>2, <1>6, <2>2, <2>3, <2>4 DEF AfterFailure, ConsolesInv, ErrorsShown
  <2>5. CASE pc = "consoles"
    <3>1. CASE v = "ConOut"
      BY <1>1, <1>4, <1>6, <2>2, <2>3, <2>5, <3>1 DEF AfterFailure, ConsolesInv, ErrorsShown
    <3>2. CASE v # "ConOut"
      <4>1. PICK h \in Handles : writes = <<Write("ErrOut", h.name)>>
        BY <1>1, <1>4, <2>5, <3>2, OutputList, WriteFields DEF ConsolesInv, ErrorsShown
      <4>2. writes' = <<>>
        BY <1>4, <1>6, <3>2, <4>1 DEF AfterFailure
      <4>3. QED
        BY <1>1, <1>6, <2>2, <2>3, <2>5, <4>2 DEF ConsolesInv, ErrorsShown
    <3>3. QED
      BY <3>1, <3>2
  <2>6. QED
    BY <1>1, <2>4, <2>5
<1>7. CASE Done
  <2>1. /\ DOMAIN consoles' = Variables /\ consoles'[v] = consoles[v] \cup {d}
        /\ \A u \in Variables \ {v} : consoles'[u] = consoles[u]
    BY <1>4, <1>5, <1>7
  <2>2. ListsFit'
    BY <1>1, <1>2, <1>5, <1>7, <2>1 DEF ConsolesInv, ListsFit
  <2>3. \A u \in Variables : consoles[u] \subseteq consoles'[u]
    BY <2>1
  <2>4. ASSUME NEW u \in Variables, NEW e, Coming(u, e) PROVE Coming(u, e)'
    <3>1. CASE e \in consoles[u]
      BY <2>3, <3>1 DEF Coming
    <3>2. CASE Write(u, e) = w
      BY <1>3, <2>1, <3>2, WriteFields DEF Coming
    <3>3. CASE Write(u, e) \in ToSet(Tail(writes))
      BY <1>7, <3>3 DEF Coming
    <3>4. QED
      BY <1>2, <2>4, <3>1, <3>2, <3>3 DEF Coming
  <2>5. ListedSoFar'
    <3> SUFFICES ASSUME fullIn # boots PROVE ListedSoFar'
      BY <1>1, <1>7 DEF ListedSoFar
    <3>1. \A h \in Screens : Shown(h) => Shown(h)'
      BY <2>3 DEF Shown, Variables
    <3>2. \A x \in ToSet(FixedWrites) : x.variable \in Variables
      BY FixedList, WriteFields DEF Variables
    <3>3. CASE pc = "consoles"
      <4>1. ASSUME NEW h \in Screens \ outputs
            PROVE  Coming("ConOut", h.name)' /\ Coming("ErrOut", h.name)'
        BY <2>4, <3>3 DEF ConsolesInv, ListedSoFar, Variables
      <4>2. QED
        BY <1>1, <3>3, <4>1 DEF ListedSoFar
    <3>4. CASE pc = "fixed"
      <4>1. ASSUME NEW x \in ToSet(FixedWrites)
            PROVE  Coming(x.variable, x.device)'
        BY <2>4, <3>2, <3>4 DEF ConsolesInv, ListedSoFar
      <4>2. (ToSet(FixedWrites))' = ToSet(FixedWrites)
        BY DEF FixedWrites, Write, ToSet
      <4>3. QED
        BY <1>1, <3>1, <3>4, <4>1, <4>2 DEF ConsolesInv, ListedSoFar
    <3>5. QED
      BY <1>1, <3>3, <3>4
  <2>6. CASE pc = "fixed"
    <3>1. ToSet(writes) \subseteq ToSet(FixedWrites)
      BY <2>6 DEF ConsolesInv, ErrorsShown
    <3>2. v = "ErrOut" => d = "serial"
      <4>1. \A x \in ToSet(FixedWrites) : x.variable = "ErrOut" => x.device = "serial"
        BY FixedList, WriteFields
      <4>2. QED
        BY <1>2, <1>4, <3>1, <4>1
    <3>3. consoles'["ErrOut"] \subseteq consoles'["ConOut"] \cup {"serial"}
      BY <2>1, <2>3, <3>2 DEF ConsolesInv, ErrorsShown, Variables
    <3>4. QED
      BY <1>1, <1>2, <1>7, <2>2, <2>5, <2>6, <3>1, <3>3 DEF ConsolesInv, ErrorsShown
  <2>7. CASE pc = "consoles"
    <3>1. CASE \E h \in Handles : writes = OutputWrites(h)
      <4>1. PICK h \in Handles : writes = OutputWrites(h)
        BY <3>1
      <4>2. v = "ConOut" /\ d = h.name /\ writes' = <<Write("ErrOut", h.name)>>
        BY <1>4, <1>7, <4>1, OutputList, WriteFields
      <4>3. consoles'["ErrOut"] \subseteq consoles'["ConOut"] \cup {"serial"}
            /\ h.name \in consoles'["ConOut"]
        BY <2>1, <2>3, <4>2 DEF ConsolesInv, ErrorsShown, Variables
      <4>4. QED
        BY <1>1, <2>2, <2>5, <2>7, <4>2, <4>3 DEF ConsolesInv, ErrorsShown
    <3>2. CASE \E h \in Handles : writes = <<Write("ErrOut", h.name)>> /\ h.name \in consoles["ConOut"]
      <4>1. PICK h \in Handles : writes = <<Write("ErrOut", h.name)>> /\ h.name \in consoles["ConOut"]
        BY <3>2
      <4>2. v = "ErrOut" /\ d = h.name /\ writes' = <<>>
        BY <1>4, <1>7, <4>1, WriteFields
      <4>3. consoles'["ErrOut"] \subseteq consoles'["ConOut"] \cup {"serial"}
        BY <2>1, <2>3, <4>1, <4>2 DEF ConsolesInv, ErrorsShown, Variables
      <4>4. QED
        BY <1>1, <2>2, <2>5, <2>7, <4>2, <4>3 DEF ConsolesInv, ErrorsShown
    <3>3. QED
      BY <1>1, <2>7, <3>1, <3>2 DEF ConsolesInv, ErrorsShown
  <2>8. QED
    BY <1>1, <2>6, <2>7
<1>8. QED
  BY <1>1, <1>6, <1>7

\* So does starting on the next display, and coming to the end of them.
LEMMA OutputAdded ==
  ASSUME ConsolesInv, AddOutput
  PROVE  ConsolesInv'
<1>1. pc = "consoles" /\ writes = <<>> /\ UNCHANGED <<consoles, fullIn, boots>>
  BY DEF AddOutput, ConnectThose
<1>2. \A v, d : Coming(v, d) <=> d \in consoles[v]
  BY <1>1, ToSetEmpty DEF Coming
<1>3. CASE \E h \in outputs : outputs' = outputs \ {h} /\ writes' = OutputWrites(h) /\ UNCHANGED pc
  <2>1. PICK h \in outputs : outputs' = outputs \ {h} /\ writes' = OutputWrites(h) /\ UNCHANGED pc
    BY <1>3
  <2>2. h \in Handles
    BY DEF ConsolesInv, ListsFit
  <2>3. ListsFit'
    BY <1>1, <2>1, <2>2, OutputList DEF ConsolesInv, ListsFit
  <2>4. ErrorsShown'
    BY <1>1, <2>1, <2>2 DEF ConsolesInv, ErrorsShown
  <2>5. ASSUME fullIn # boots, NEW g \in Screens \ outputs'
        PROVE  Coming("ConOut", g.name)' /\ Coming("ErrOut", g.name)'
    <3>1. CASE g = h
      <4>1. {Write("ConOut", g.name), Write("ErrOut", g.name)} \subseteq ToSet(writes')
        BY <2>1, <2>2, <3>1, OutputList
      <4>2. QED
        BY <4>1 DEF Coming
    <3>2. CASE g # h
      <4>1. g.name \in consoles["ConOut"] /\ g.name \in consoles["ErrOut"]
        BY <1>1, <1>2, <2>1, <2>5, <3>2 DEF ConsolesInv, ListedSoFar
      <4>2. QED
        BY <1>1, <4>1 DEF Coming
    <3>3. QED
      BY <3>1, <3>2
  <2>6. ListedSoFar'
    BY <1>1, <2>1, <2>5 DEF ListedSoFar
  <2>7. QED
    BY <2>3, <2>4, <2>6 DEF ConsolesInv
<1>4. CASE outputs = {} /\ UNCHANGED outputs /\ writes' = FixedWrites /\ pc' = "fixed"
  <2>1. ListsFit'
    BY <1>1, <1>4, FixedList DEF ConsolesInv, ListsFit
  <2>2. ErrorsShown'
    <3>1. (ToSet(FixedWrites))' = ToSet(FixedWrites)
      BY DEF FixedWrites, Write, ToSet
    <3>2. QED
      BY <1>1, <1>4, <3>1 DEF ConsolesInv, ErrorsShown
  <2>3. ASSUME fullIn # boots, NEW h \in Screens PROVE Shown(h)'
    <3>1. h.name \in consoles["ConOut"] /\ h.name \in consoles["ErrOut"]
      BY <1>1, <1>2, <1>4, <2>3 DEF ConsolesInv, ListedSoFar
    <3>2. QED
      BY <1>1, <3>1 DEF Shown
  <2>4. ASSUME NEW w \in ToSet(FixedWrites) PROVE Coming(w.variable, w.device)'
    <3>1. Write(w.variable, w.device) = w
      BY FixedList, WriteFields
    <3>2. QED
      BY <1>4, <3>1 DEF Coming
  <2>5. (ToSet(FixedWrites))' = ToSet(FixedWrites)
    BY DEF FixedWrites, Write, ToSet
  <2>6. ListedSoFar'
    BY <1>1, <1>4, <2>3, <2>4, <2>5 DEF ListedSoFar
  <2>7. QED
    BY <2>1, <2>2, <2>6 DEF ConsolesInv
<1>5. QED
  BY <1>3, <1>4 DEF AddOutput

\* When the displays are located every one was connected.
LEMMA ScreensConnected ==
  ASSUME ConnectedSoFar, pc = "outputs"
  PROVE  Screens \subseteq OutputHandles
BY DEF ConnectedSoFar, Screens, OutputHandles, GopHandles, Displaying, IsPciDisplay

\* The invariant holds throughout.
LEMMA ConsolesInvariant == BootSpec => []ConsolesInv
<1>1. BootInit => ConsolesInv
  <2> SUFFICES ASSUME BootInit PROVE ConsolesInv
    OBVIOUS
  <2>1. /\ DOMAIN consoles = Variables /\ consoles["ErrOut"] = {}
        /\ writes = <<>> /\ outputs = {} /\ fullIn = 0 /\ boots = 0 /\ pc = "off"
    BY DEF BootInit, OptionsInit, Variables
  <2>2. QED
    BY <2>1 DEF ConsolesInv, ListsFit, ErrorsShown, ListedSoFar
<1>2. ConnectedSoFar /\ ConsolesInv /\ [BootNext]_allVars => ConsolesInv'
  <2> SUFFICES ASSUME ConnectedSoFar, ConsolesInv, [BootNext]_allVars PROVE ConsolesInv'
    OBVIOUS
  <2> DEFINE Full == {"addMenu", "F2", "ESC", "mmioRng", "pciRng", "console"}
             Early == {"bridges", "displays", "outputs"}
  <2>0. (ToSet(FixedWrites))' = ToSet(FixedWrites)
    BY DEF FixedWrites, Write, ToSet
  \* A step outside the updates of the variables.
  <2>a. ASSUME UNCHANGED <<consoles, outputs, writes, fullIn, boots>>,
               pc \notin {"consoles", "fixed"}, pc' \notin {"consoles", "fixed"},
               pc' \in Early => pc \in Early, pc' \in Full => pc \in Full
        PROVE  ConsolesInv'
    BY <2>0, <2>a DEF ConsolesInv, ListsFit, ErrorsShown, ListedSoFar, Shown
  <2>1. CASE Edit \/ UpdateFirmware
    BY <2>1, <2>a DEF Edit, UpdateFirmware, bmVars
  <2>2. CASE PowerOn
    <3>1. /\ pc = "off" /\ pc' = "bridges" /\ boots' = boots + 1
          /\ UNCHANGED <<consoles, outputs, writes, fullIn>>
      BY <2>2 DEF PowerOn, bmVars
    <3>2. ListsFit'
      BY <3>1 DEF ConsolesInv, ListsFit
    <3>3. QED
      BY <3>1, <3>2 DEF ConsolesInv, ErrorsShown, ListedSoFar
  <2>3. CASE PowerOff
    <3>1. /\ pc' = "off" /\ writes' = <<>> /\ outputs' = {}
          /\ UNCHANGED <<consoles, fullIn, boots>>
      BY <2>3 DEF PowerOff
    <3>2. QED
      BY <3>1 DEF ConsolesInv, ListsFit, ErrorsShown, ListedSoFar
  <2>4. CASE ConnectRootBridges \/ ConnectDisplays
    BY <2>4, <2>a DEF ConnectRootBridges, ConnectDisplays, ConnectThose
  <2>5. CASE LocateOutputs
    <3>1. /\ pc = "outputs" /\ pc' = "consoles" /\ outputs' = OutputHandles
          /\ UNCHANGED <<consoles, writes, fullIn, boots>>
      BY <2>5 DEF LocateOutputs, ConnectThose
    <3>2. Screens \subseteq outputs' /\ outputs' \subseteq Handles
      BY <3>1, ScreensConnected DEF OutputHandles, GopHandles
    <3>3. writes' = <<>>
      BY <3>1 DEF ConsolesInv, ListsFit
    <3>4. QED
      BY <3>1, <3>2, <3>3 DEF ConsolesInv, ListsFit, ErrorsShown, ListedSoFar
  <2>6. CASE AddOutput
    BY <2>6, OutputAdded
  <2>7. CASE UpdateConsoleVariable
    BY <2>7, OneWrite
  <2>8. CASE RegisterMenu
    <3>1. CASE pc = "fixed" /\ writes = <<>> /\ GetBootManagerMenu("F2", "addMenu")
      <4>1. pc' \in {"F2", "addMenu"} /\ UNCHANGED <<consoles, outputs, writes, fullIn, boots>>
        BY <3>1 DEF GetBootManagerMenu, bmVars
      <4>2. fullIn # boots => \A w \in ToSet(FixedWrites) : w.device \in consoles[w.variable]
        BY <3>1, ToSetEmpty DEF ConsolesInv, ListedSoFar, Coming
      <4>3. QED
        BY <2>0, <3>1, <4>1, <4>2 DEF ConsolesInv, ListsFit, ErrorsShown, ListedSoFar, Shown
    <3>2. CASE AddMenu("addMenu", "F2")
      BY <2>a, <3>2 DEF AddMenu, bmVars
    <3>3. QED
      BY <2>8, <3>1, <3>2 DEF RegisterMenu
  <2>9. CASE \/ pc = "F2" /\ pc' = AfterF2 /\ AddKeyOption("F2")
             \/ pc = "ESC" /\ pc' = "mmioRng" /\ AddKeyOption("ESC")
    BY <2>9, <2>a DEF AfterF2, AddKeyOption
  <2>10. CASE ConnectVirtioRng \/ ConnectVirtioPciRng \/ ConnectAll
    BY <2>10, <2>a DEF ConnectVirtioRng, ConnectVirtioPciRng, ConnectAll, ConnectThose
  <2>11. CASE SetUpOptions /\ UNCHANGED <<bmVars, edits, boots>>
    BY <2>11, <2>a DEF SetUpOptions, RegisterShell, AddShell, ListOptions, ScanOption,
                       DeleteOption, EndScan, bmVars
  <2>12. CASE TryOptions \/ UnableToBoot
    BY <2>12, <2>a DEF TryOptions, UnableToBoot, GetBootManagerMenu, AddMenu, bmVars
  <2>13. CASE UNCHANGED allVars
    BY <2>0, <2>13 DEF allVars, vars, bmVars, ConsolesInv, ListsFit, ErrorsShown, ListedSoFar, Coming,
                       Shown
  <2>14. QED
    BY <2>1, <2>2, <2>3, <2>4, <2>5, <2>6, <2>7, <2>8, <2>9, <2>10, <2>11, <2>12, <2>13
    DEF BootNext, BeforeConsole, AfterConsole, PlatformRegisterOptionsAndKeys
<1>3. QED
  BY <1>1, <1>2, ConnectedInvariant, PTL DEF BootSpec

\* Before the consoles start every console is listed, unless a variable was full in this
\* boot; and no display ever shows the errors without showing the console.
THEOREM ConsolesAlwaysComplete == BootSpec => []ConsolesComplete
<1>1. ConsolesInv => ConsolesComplete
  <2> SUFFICES ASSUME ConsolesInv PROVE ConsolesComplete
    OBVIOUS
  <2>1. Displays = {h.name : h \in Screens}
    BY DEF Displays, Screens
  <2>2. "serial" \notin Displays
    BY <2>1, NamesAssumption DEF Screens
  <2>3. ASSUME pc = "console", fullIn # boots
        PROVE  /\ {"usb", "goldfish", "serial"} \subseteq consoles["ConIn"]
               /\ Displays \cup {"serial"} \subseteq consoles["ConOut"] \cap consoles["ErrOut"]
    <3>1. /\ \A h \in Screens : Shown(h)
          /\ \A w \in ToSet(FixedWrites) : w.device \in consoles[w.variable]
      BY <2>3 DEF ConsolesInv, ListedSoFar
    <3>2. /\ {"usb", "goldfish", "serial"} \subseteq consoles["ConIn"]
          /\ "serial" \in consoles["ConOut"] \cap consoles["ErrOut"]
      BY <3>1, FixedList, WriteFields
    <3>3. QED
      BY <2>1, <3>1, <3>2 DEF Shown
  <2>4. QED
    BY <2>2, <2>3 DEF ConsolesComplete, ConsolesInv, ErrorsShown
<1>2. QED
  BY <1>1, ConsolesInvariant, PTL

=============================================================================
