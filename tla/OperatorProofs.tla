--------------------------- MODULE OperatorProofs ---------------------------
(***************************************************************************)
(* Theorems about Operators, for every device tree, every width of a cell, *)
(* every page size, every size of a pixel and every array: what the        *)
(* drivers are told about their devices, what the frame buffer driver      *)
(* publishes, what keys yield, what the SMBIOS driver logs, and that it    *)
(* sorts.                                                                  *)
(***************************************************************************)
EXTENDS Operators, DeviceTreeProofs, FiniteSetTheorems

\* Every answer is that of the function that was called.
Answered ==
  /\ input \in {KeyboardInput} \cup Calls
  /\ input.kind = "discover" =>
       result \in {Failure("none"), DiscoverMmioRange(input.tree, input.end, "device", input.minSize)}
  /\ input.kind = "display" =>
       result \in {Failure("none"), SimpleFbDxeInitialize(input.tree, input.end)}
  /\ input.kind = "smbios" =>
       result \in {Failure("none"), [status |-> "SUCCESS", table |-> SmbiosTable]}
  /\ input.kind = "sort" =>
       result \in {Failure("none"), [status |-> "SUCCESS", array |-> SortedArray]}

\* A call is made once and answered by its function.
LEMMA AnsweredAlways == CallSpec => []Answered
<1>1. CallInit => Answered
  BY DEF CallInit, Answered
<1>2. Answered /\ [CallNext]_operatorVars => Answered'
  <2> SUFFICES ASSUME Answered, [CallNext]_operatorVars PROVE Answered'
    OBVIOUS
  <2>1. CASE UNCHANGED callVars
    BY <2>1 DEF Answered, callVars, SmbiosTable, SortedArray, Estimate
  <2>2. CASE Discover
    BY <2>2 DEF Discover, Answered
  <2>3. CASE StartDisplay
    BY <2>3 DEF StartDisplay, Answered
  <2>4. CASE LogSmbios
    BY <2>4 DEF LogSmbios, Answered, SmbiosTable, Estimate
  <2>5. CASE Sort
    BY <2>5 DEF Sort, Answered, SortedArray
  <2>6. QED
    BY <2>1, <2>2, <2>3, <2>4, <2>5 DEF CallNext, Press, Release, Event, operatorVars
<1>3. QED
  BY <1>1, <1>2, PTL DEF CallSpec

-----------------------------------------------------------------------------
\* A status is okay or ok, as one string, or disables the node.
LEMMA FirstNul ==
  ASSUME NEW s, s \in Seq(ToSet(s)), NEW n \in DOMAIN s, s[n] = NUL
  PROVE  /\ StrnLen(s) \in Nat /\ StrnLen(s) + 1 \in 1 .. Len(s)
         /\ s[StrnLen(s) + 1] = NUL
<1>1. Len(s) \in Nat /\ DOMAIN s = 1 .. Len(s)
  OBVIOUS
<1> DEFINE S == {i \in DOMAIN s : s[i] = NUL}
<1>2. PICK i \in S : \A j \in S : i <= j
  <2>1. S \subseteq Nat /\ S # {}
    BY <1>1
  <2>2. QED
    BY <2>1, LeastNatural
<1>3. IsFirstNul(s, i)
  <2>1. \A j \in 1 .. (i - 1) : j \in DOMAIN s /\ ~(i <= j)
    BY <1>1
  <2>2. QED
    BY <1>2, <2>1 DEF IsFirstNul
<1> DEFINE first == CHOOSE k \in DOMAIN s : IsFirstNul(s, k)
<1>4. first \in DOMAIN s /\ IsFirstNul(s, first)
  BY <1>2, <1>3
<1>5. StrnLen(s) = first - 1
  BY DEF StrnLen
<1> HIDE DEF first
<1>6. StrnLen(s) + 1 = first
  BY <1>1, <1>4, <1>5
<1>7. first \in Nat \ {0} /\ s[first] = NUL
  BY <1>1, <1>4 DEF IsFirstNul
<1>8. QED
  BY <1>1, <1>4, <1>5, <1>6, <1>7

\* A sequence of one element.
LEMMA OneElement ==
  ASSUME NEW X, NEW s \in Seq(X), Len(s) = 1, NEW e, s[1] = e
  PROVE  s = <<e>>
OBVIOUS

\* NodeIsEnabled is what the specification of a device tree says.
LEMMA EnabledStatus ==
  ASSUME NEW node, IsNode(node)
  PROVE  NodeIsEnabled(node) <=> IsEnabled(node)
<1> DEFINE s == node.status
           okay == IsString(s) /\ SubSeq(s, 1, StrnLen(s)) \in {<<"okay">>, <<"ok">>}
<1>1. CASE s = Absent
  BY <1>1 DEF NodeIsEnabled, IsEnabled
<1>2. CASE s # Absent
  <2>1. s \in Seq(ToSet(s))
    BY <1>2 DEF IsNode
  <2>2. (NodeIsEnabled(node) <=> okay) /\ (IsEnabled(node) <=> s \in {<<"okay", NUL>>, <<"ok", NUL>>})
    BY <1>2 DEF NodeIsEnabled, IsEnabled
  <2> HIDE DEF s
  <2>3. Len(s) \in Nat /\ DOMAIN s = 1 .. Len(s)
    BY <2>1
  <2>4. ASSUME okay PROVE s \in {<<"okay", NUL>>, <<"ok", NUL>>}
    <3>1. Len(s) > 0 /\ StrnLen(s) = Len(s) - 1
      BY <2>1, <2>3, <2>4 DEF IsString
    <3>2. \E n \in DOMAIN s : s[n] = NUL
      BY <2>3, <3>1 DEF StrnLen
    <3>3. s[Len(s)] = NUL
      <4>1. s[StrnLen(s) + 1] = NUL
        BY <2>1, <3>2, FirstNul
      <4>2. StrnLen(s) + 1 = Len(s)
        BY <2>3, <3>1
      <4>3. QED
        BY <4>1, <4>2
    <3>4. PICK word \in {"okay", "ok"} : SubSeq(s, 1, StrnLen(s)) = <<word>>
      BY <2>4
    <3>5. Len(s) = 2 /\ s[1] = word
      <4>1. Len(SubSeq(s, 1, Len(s) - 1)) = Len(s) - 1
        BY <2>1, <2>3, <3>1
      <4>2. Len(s) - 1 = 1
        BY <3>1, <3>4, <4>1
      <4>3. SubSeq(s, 1, Len(s) - 1)[1] = s[1]
        BY <2>1, <2>3, <4>2
      <4>4. SubSeq(s, 1, Len(s) - 1) = <<word>>
        BY <3>1, <3>4, Zenon
      <4>5. <<word>>[1] = word
        OBVIOUS
      <4>6. s[1] = word
        BY <4>3, <4>4, <4>5, Zenon
      <4>7. Len(s) = 2
        <5>1. \A n \in Nat : n - 1 = 1 => n = 2
          OBVIOUS
        <5>2. QED
          BY <2>3, <4>2, <5>1, Zenon
      <4>8. QED
        BY <4>6, <4>7
    <3>6. s = <<word, NUL>>
      BY <2>1, <3>3, <3>5
    <3>7. QED
      BY <3>6
  <2>5. ASSUME s \in {<<"okay", NUL>>, <<"ok", NUL>>} PROVE okay
    <3>1. PICK word \in {"okay", "ok"} : s = <<word, NUL>>
      BY <2>5
    <3>2. Len(s) = 2 /\ s[1] = word /\ s[2] = NUL /\ word # NUL
      BY <3>1 DEF NUL
    <3>3. StrnLen(s) \in Nat /\ StrnLen(s) + 1 \in 1 .. 2 /\ s[StrnLen(s) + 1] = NUL
      <4>1. 2 \in DOMAIN s
        BY <2>3, <3>2
      <4>2. QED
        BY <2>1, <3>2, <4>1, FirstNul
    <3>4. StrnLen(s) + 1 = 2
      BY <3>2, <3>3
    <3>5. StrnLen(s) = 1
      BY <3>3, <3>4
    <3>6. SubSeq(s, 1, 1) = <<word>>
      <4>1. /\ SubSeq(s, 1, 1) \in Seq(ToSet(s)) /\ Len(SubSeq(s, 1, 1)) = 1
            /\ SubSeq(s, 1, 1)[1] = word
        BY <2>1, <2>3, <3>2
      <4>2. QED
        BY <4>1, OneElement
    <3>7. s # <<>>
      BY <3>2
    <3>8. QED
      BY <3>2, <3>5, <3>6, <3>7 DEF IsString
  <2>6. QED
    BY <2>2, <2>4, <2>5
<1>3. QED
  BY <1>1, <1>2

-----------------------------------------------------------------------------
\* The node that a driver finds is the first enabled one of its device.
IsFirstOf(i, tree, name) ==
  /\ i \in DOMAIN tree /\ IsDevice(tree[i], name)
  /\ \A j \in 1 .. (i - 1) : ~IsDevice(tree[j], name)

\* A node of a tree is a node.
LEMMA NodesOf ==
  ASSUME NEW tree, IsNodes(tree)
  PROVE  /\ Len(tree) \in Nat /\ DOMAIN tree = 1 .. Len(tree)
         /\ \A i \in DOMAIN tree : IsNode(tree[i]) /\ tree[i] \in ToSet(tree)
<1>1. tree \in Seq(ToSet(tree)) /\ \A node \in ToSet(tree) : IsNode(node)
  BY DEF IsNodes
<1>2. \A i \in DOMAIN tree : tree[i] \in ToSet(tree)
  BY DEF ToSet
<1>3. QED
  BY <1>1, <1>2

\* The node found is the first enabled one, and there is none if none is found; the
\* status then tells how the tree ends.
LEMMA FirstFound ==
  ASSUME NEW tree, IsNodes(tree), NEW end, NEW name
  PROVE  LET found == UemuFdtFindCompatibleNode(tree, end, name)
         IN  /\ found.status = "SUCCESS" => IsFirstOf(found.node, tree, name)
             /\ found.status \in {"SUCCESS", "NOT_FOUND", "COMPROMISED_DATA"}
             /\ found.status = "NOT_FOUND" =>
                  end = "NOTFOUND" /\ \A i \in DOMAIN tree : ~IsDevice(tree[i], name)
<1> DEFINE S == Candidates(tree, name)
           found == UemuFdtFindCompatibleNode(tree, end, name)
           first == CHOOSE i \in S : \A j \in S : i <= j
<1>1. /\ Len(tree) \in Nat /\ DOMAIN tree = 1 .. Len(tree)
      /\ \A i \in DOMAIN tree : IsNode(tree[i])
  BY NodesOf
<1>2. \A i \in DOMAIN tree : i \in S <=> IsDevice(tree[i], name)
  <2> SUFFICES ASSUME NEW i \in DOMAIN tree PROVE i \in S <=> IsDevice(tree[i], name)
    OBVIOUS
  <2>1. NodeIsEnabled(tree[i]) <=> IsEnabled(tree[i])
    BY <1>1, EnabledStatus
  <2>2. QED
    BY <2>1 DEF Candidates, IsDevice
<1>3. S \subseteq DOMAIN tree
  BY DEF Candidates
<1>4. found = IF S = {}
              THEN Failure(IF end = "NOTFOUND" THEN "NOT_FOUND" ELSE "COMPROMISED_DATA")
              ELSE [status |-> "SUCCESS", node |-> first]
  BY DEF UemuFdtFindCompatibleNode
<1> HIDE DEF S, found
<1>5. CASE S = {}
  <2>1. found.status = IF end = "NOTFOUND" THEN "NOT_FOUND" ELSE "COMPROMISED_DATA"
    BY <1>4, <1>5 DEF Failure
  <2>2. \A i \in DOMAIN tree : ~IsDevice(tree[i], name)
    BY <1>2, <1>5
  <2>3. QED
    BY <2>1, <2>2 DEF found
<1>6. CASE S # {}
  <2>1. found.status = "SUCCESS" /\ found.node = first
    BY <1>4, <1>6
  <2>2. first \in S /\ \A j \in S : first <= j
    <3>1. \E i \in S : \A j \in S : i <= j
      BY <1>1, <1>3, <1>6, LeastNatural
    <3>2. QED
      BY <3>1
  <2> HIDE DEF first
  <2>3. \A j \in 1 .. (first - 1) : j \in DOMAIN tree /\ j \notin S
    BY <1>1, <1>3, <2>2
  <2>4. IsFirstOf(first, tree, name)
    BY <1>2, <1>3, <2>2, <2>3 DEF IsFirstOf
  <2>5. QED
    BY <2>1, <2>4 DEF found
<1>7. QED
  BY <1>5, <1>6

\* There is only one first device.
LEMMA FirstIsUnique ==
  ASSUME NEW tree, IsNodes(tree), NEW name, NEW i, NEW k,
         IsFirstOf(i, tree, name), IsFirstOf(k, tree, name)
  PROVE  i = k
<1>1. Len(tree) \in Nat /\ DOMAIN tree = 1 .. Len(tree)
  BY NodesOf
<1>2. i \in 1 .. Len(tree) /\ k \in 1 .. Len(tree)
  BY <1>1 DEF IsFirstOf
<1>3. k \notin 1 .. (i - 1) /\ i \notin 1 .. (k - 1)
  BY DEF IsFirstOf
<1>4. QED
  BY <1>1, <1>2, <1>3

\* A reg property that is there has a first entry, or is no reg property.
LEMMA RegIsThere ==
  ASSUME NEW node, IsNode(node), UemuFdtGetReg(node, 0).status = "NOT_FOUND"
  PROVE  node.reg = Absent
<1> SUFFICES ASSUME node.reg # Absent PROVE FALSE
  OBVIOUS
<1> DEFINE tupleCells == node.addressCells + node.sizeCells
           length == Len(node.reg)
           address == DecodeCells(SubSeq(node.reg, 0 * tupleCells + 1,
                                         0 * tupleCells + node.addressCells))
           size == DecodeCells(SubSeq(node.reg, 0 * tupleCells + node.addressCells + 1,
                                      0 * tupleCells + tupleCells))
<1>1. node.reg \in Seq(0 .. (CELL - 1)) /\ length \in Nat
  BY DEF IsNode
<1>2. address.status # "NOT_FOUND" /\ size.status # "NOT_FOUND"
  BY DEF DecodeCells, Failure
<1>3. RegTuple(address, size).status # "NOT_FOUND"
  <2> HIDE DEF address, size
  <2>1. QED
    BY <1>2 DEF RegTuple, Failure
<1>4. /\ {node.addressCells, node.sizeCells} \subseteq 1 .. FDT_MAX_NCELLS
      /\ node.reg # <<>> /\ length % tupleCells = 0 /\ ~HasIndex(0, length, tupleCells)
  <2> HIDE DEF address, size
  <2>1. UemuFdtGetReg(node, 0)
          = IF ~({node.addressCells, node.sizeCells} \subseteq 1 .. FDT_MAX_NCELLS)
            THEN Failure("COMPROMISED_DATA")
            ELSE IF node.reg = Absent THEN Failure("NOT_FOUND")
            ELSE IF node.reg = <<>> \/ length % tupleCells # 0 THEN Failure("COMPROMISED_DATA")
            ELSE IF ~HasIndex(0, length, tupleCells) THEN Failure("NOT_FOUND")
            ELSE RegTuple(address, size)
    BY Zenon DEF UemuFdtGetReg, address, size
  <2>2. Failure("COMPROMISED_DATA").status # "NOT_FOUND"
    BY DEF Failure
  <2> HIDE DEF length, tupleCells
  <2>3. QED
    BY <1>3, <2>1, <2>2
<1>5. tupleCells \in Nat \ {0} /\ length \in Nat \ {0}
  BY <1>1, <1>4 DEF FDT_MAX_NCELLS
<1> HIDE DEF tupleCells, length
<1>6. length \div tupleCells \in Nat /\ ~(0 < length \div tupleCells)
  BY <1>4, <1>5 DEF HasIndex
<1>7. length \div tupleCells = 0
  BY <1>6
<1>8. length = tupleCells * (length \div tupleCells) + (length % tupleCells)
  BY <1>5
<1>9. QED
  BY <1>4, <1>5, <1>7, <1>8

-----------------------------------------------------------------------------
\* The number that DecodeCells accepts is the number that its cells are.
IsBigEndian(value, cells) ==
  value = [i \in 0 .. Len(cells) |-> IF i = 0 THEN 0 ELSE value[i - 1] * CELL + cells[i]]

\* BigEndian reads one cell after the other.
LEMMA BigEndianReads ==
  ASSUME NEW cells \in Seq(CellValue)
  PROVE  \E value : /\ value[0] = 0 /\ BigEndian(cells) = value[Len(cells)]
                    /\ \A i \in 1 .. Len(cells) : value[i] = value[i - 1] * CELL + cells[i]
<1> DEFINE n == Len(cells)
           G == [i \in 1 .. n |-> [v \in Nat |-> v * CELL + cells[i]]]
<1>0. n \in Nat /\ \A i \in 1 .. n : cells[i] \in CellValue
  OBVIOUS
<1>1. G \in [1 .. n -> [Nat -> Nat]]
  <2>1. \A v \in Nat, c \in CellValue : v * CELL + c \in Nat
    BY FdtConstants DEF CellValue
  <2>2. QED
    BY <1>0, <2>1
<1>2. PICK f : IsRecursion(f, n, Nat, 0, G)
  <2> HIDE DEF n, G
  <2>1. QED
    BY <1>0, <1>1, PrefixRecursion
<1>3. /\ f \in [0 .. n -> Nat] /\ f[0] = 0
      /\ \A i \in 1 .. n : f[i] = f[i - 1] * CELL + cells[i]
  <2>1. f \in [0 .. n -> Nat] /\ f[0] = 0 /\ \A i \in 1 .. n : f[i] = G[i][f[i - 1]]
    BY <1>2, Zenon DEF IsRecursion
  <2>2. \A i \in 1 .. n : f[i - 1] \in Nat
    BY <1>0, <2>1
  <2>3. QED
    BY <2>1, <2>2
<1>4. IsBigEndian(f, cells)
  <2> DEFINE F(i) == IF i = 0 THEN 0 ELSE f[i - 1] * CELL + cells[i]
  <2>1. \A i \in 0 .. n : f[i] = F(i)
    BY <1>0, <1>3
  <2>2. f = [i \in 0 .. n |-> F(i)]
    <3> HIDE DEF F, n
    <3>1. QED
      BY <1>3, <2>1
  <2>3. QED
    BY <2>2, Zenon DEF IsBigEndian
<1> DEFINE value == CHOOSE v : IsBigEndian(v, cells)
<1>5. IsBigEndian(value, cells)
  BY <1>4
<1>6. BigEndian(cells) = value[Len(cells)]
  BY DEF BigEndian, IsBigEndian
<1> HIDE DEF value
<1>7. value[0] = 0 /\ \A i \in 1 .. n : value[i] = value[i - 1] * CELL + cells[i]
  <2> DEFINE F(i) == IF i = 0 THEN 0 ELSE value[i - 1] * CELL + cells[i]
  <2>1. value = [i \in 0 .. n |-> F(i)]
    BY <1>5, Zenon DEF IsBigEndian
  <2>2. F(0) = 0 /\ \A i \in 1 .. n : F(i) = value[i - 1] * CELL + cells[i]
    OBVIOUS
  <2> HIDE DEF F, n
  <2>3. value[0] = F(0) /\ \A i \in 1 .. n : value[i] = F(i)
    BY <1>0, <2>1
  <2>4. QED
    BY <2>2, <2>3, Zenon
<1>8. QED
  BY <1>6, <1>7

\* A number that is not cut off is the big-endian one.
LEMMA NumberIsBigEndian ==
  ASSUME NEW cells \in Seq(CellValue), Number(cells) <= MAX_UINT64
  PROVE  Number(cells) = BigEndian(cells)
<1> DEFINE n == Len(cells)
<1>1. PICK f : Reads(f, cells) /\ Number(cells) = f[n]
  BY NumberReads
<1>2. PICK g : /\ g[0] = 0 /\ BigEndian(cells) = g[n]
               /\ \A i \in 1 .. n : g[i] = g[i - 1] * CELL + cells[i]
  BY BigEndianReads
<1>3. n \in Nat
  OBVIOUS
<1> HIDE DEF n
<1>4. /\ f \in [0 .. n -> Nat] /\ f[0] = 0
      /\ \A i \in 1 .. n : f[i] = PushCell(f[i - 1], cells[i])
  BY <1>1 DEF Reads, n
<1> DEFINE T == {i \in 0 .. n : f[i] <= MAX_UINT64 => f[i] = g[i]}
<1>5. 0 \in T
  BY <1>2, <1>3, <1>4
<1>6. ASSUME NEW i \in 1 .. n, i - 1 \in T PROVE i \in T
  <2>1. f[i] = PushCell(f[i - 1], cells[i]) /\ f[i - 1] \in Nat /\ i \in 0 .. n
    BY <1>3, <1>4
  <2>2. CASE f[i - 1] > MAX_UINT64 \div CELL
    <3>1. f[i] = MAX_UINT64 + 1
      BY <2>1, <2>2 DEF PushCell
    <3>2. QED
      BY <2>1, <3>1, FdtConstants
  <2>3. CASE ~(f[i - 1] > MAX_UINT64 \div CELL)
    <3>1. f[i] = f[i - 1] * CELL + cells[i]
      BY <2>1, <2>3 DEF PushCell
    <3>2. f[i - 1] <= MAX_UINT64
      BY <2>1, <2>3, FdtConstants
    <3>3. f[i - 1] = g[i - 1]
      BY <1>6, <3>2
    <3>4. f[i] = g[i]
      BY <1>2, <3>1, <3>3
    <3>5. QED
      BY <2>1, <3>4
  <2>4. QED
    BY <2>2, <2>3
<1>7. 0 .. n \subseteq T
  <2> HIDE DEF T
  <2>1. QED
    BY <1>3, <1>5, <1>6, IntervalInduction
<1>8. n \in T
  BY <1>3, <1>7
<1>9. QED
  BY <1>1, <1>2, <1>8

\* The first entry of a reg property that can be used.
LEMMA FirstReg ==
  ASSUME NEW node, IsNode(node), UemuFdtGetReg(node, 0).status = "SUCCESS"
  PROVE  LET reg == UemuFdtGetReg(node, 0)
         IN  /\ reg.base \in Nat /\ reg.size \in Nat \ {0}
             /\ reg.base + reg.size <= MAX_UINT64
             /\ IsFirstReg(node, reg.base, reg.size)
<1> DEFINE reg == UemuFdtGetReg(node, 0)
           tupleCells == node.addressCells + node.sizeCells
           address == SubSeq(node.reg, 1, node.addressCells)
           size == SubSeq(node.reg, node.addressCells + 1, tupleCells)
<1>1. 0 \in Nat
  OBVIOUS
<1>2. /\ node.reg \in Seq(CellValue)
      /\ node.addressCells \in 1 .. 4 /\ node.sizeCells \in 1 .. 4
      /\ 0 * tupleCells + tupleCells <= Len(node.reg)
  BY <1>1, RegHasIndex
<1>3. /\ reg.base \in Nat /\ reg.size \in Nat \ {0} /\ reg.base + reg.size <= MAX_UINT64
      /\ reg.base = Number(SubSeq(node.reg, 0 * tupleCells + 1,
                                  0 * tupleCells + node.addressCells))
      /\ reg.size = Number(SubSeq(node.reg, 0 * tupleCells + node.addressCells + 1,
                                  0 * tupleCells + tupleCells))
  BY <1>1, RegRange
<1>4. /\ 0 * tupleCells + 1 = 1 /\ 0 * tupleCells + node.addressCells = node.addressCells
      /\ 0 * tupleCells + node.addressCells + 1 = node.addressCells + 1
      /\ 0 * tupleCells + tupleCells = tupleCells
  BY <1>2
<1>5. reg.base = Number(address) /\ reg.size = Number(size)
  <2> HIDE DEF tupleCells
  <2>1. QED
    BY <1>3, <1>4
<1>6. address \in Seq(CellValue) /\ size \in Seq(CellValue)
  <2>1. SubSeq(node.reg, 0 + 1, node.addressCells) \in Seq(CellValue)
    BY <1>1, <1>2, CellsBetween
  <2>2. size \in Seq(CellValue)
    BY <1>2, CellsBetween
  <2>3. QED
    BY <2>1, <2>2
<1> HIDE DEF reg, address, size
<1>7. Number(address) <= MAX_UINT64 /\ Number(size) <= MAX_UINT64
  BY <1>3, <1>5, FdtConstants
<1>8. reg.base = BigEndian(address) /\ reg.size = BigEndian(size)
  BY <1>5, <1>6, <1>7, NumberIsBigEndian
<1>9. QED
  BY <1>3, <1>8 DEF IsFirstReg, reg, address, size

-----------------------------------------------------------------------------
\* What a driver is told about its device.
LEMMA Discovered ==
  ASSUME NEW tree, IsNodes(tree), NEW end, NEW name, NEW minSize
  PROVE  LET told  == DiscoverMmioRange(tree, end, name, minSize)
             reg   == UemuFdtGetReg(tree[told.node], 0)
             pages == UemuFdtAlignRange(reg.base, reg.size)
         IN  /\ told.status = "SUCCESS" =>
                  /\ IsFirstOf(told.node, tree, name) /\ IsNode(tree[told.node])
                  /\ reg.status = "SUCCESS" /\ pages.status = "SUCCESS"
                  /\ told.base = reg.base /\ told.size = reg.size
                  /\ told.gcdBase = pages.base /\ told.gcdSize = pages.size
             /\ told.status = "NOT_FOUND" =>
                  \/ end = "NOTFOUND" /\ \A i \in DOMAIN tree : ~IsDevice(tree[i], name)
                  \/ \E i \in DOMAIN tree : IsFirstOf(i, tree, name) /\ tree[i].reg = Absent
<1> DEFINE found == UemuFdtFindCompatibleNode(tree, end, name)
           node == tree[found.node]
           reg == UemuFdtGetReg(node, 0)
           pages == UemuFdtAlignRange(reg.base, reg.size)
           told == DiscoverMmioRange(tree, end, name, minSize)
<1>1. /\ found.status = "SUCCESS" => IsFirstOf(found.node, tree, name)
      /\ found.status = "NOT_FOUND" =>
           end = "NOTFOUND" /\ \A i \in DOMAIN tree : ~IsDevice(tree[i], name)
  BY FirstFound
<1>2. told = IF found.status # "SUCCESS" THEN found ELSE MmioRange(found.node, reg, minSize)
  BY DEF DiscoverMmioRange
<1>3. CASE found.status # "SUCCESS"
  <2>1. told.status = found.status
    BY <1>2, <1>3
  <2>2. QED
    BY <1>1, <1>3, <2>1
<1>4. CASE found.status = "SUCCESS"
  <2>1. IsFirstOf(found.node, tree, name) /\ told = MmioRange(found.node, reg, minSize)
    BY <1>1, <1>2, <1>4
  <2>2. found.node \in DOMAIN tree
    BY <2>1 DEF IsFirstOf
  <2>3. IsNode(node)
    BY <2>2, NodesOf
  <2> HIDE DEF found, told, pages, reg
  <2>4. told = IF reg.status # "SUCCESS" THEN reg
               ELSE IF reg.size < minSize THEN Failure("COMPROMISED_DATA")
               ELSE IF pages.status # "SUCCESS" THEN pages
               ELSE [status |-> "SUCCESS", node |-> found.node, base |-> reg.base,
                     size |-> reg.size, gcdBase |-> pages.base, gcdSize |-> pages.size]
    BY <2>1 DEF MmioRange, pages
  <2>5. ASSUME told.status = "SUCCESS"
        PROVE  /\ told.node = found.node /\ reg.status = "SUCCESS" /\ pages.status = "SUCCESS"
               /\ told.base = reg.base /\ told.size = reg.size
               /\ told.gcdBase = pages.base /\ told.gcdSize = pages.size
    BY <2>4, <2>5 DEF Failure
  <2>6. ASSUME told.status = "NOT_FOUND"
        PROVE  reg.status = "NOT_FOUND"
    <3>1. pages.status # "NOT_FOUND"
      BY DEF pages, UemuFdtAlignRange, Failure
    <3>2. QED
      BY <2>4, <2>6, <3>1 DEF Failure
  <2>7. ASSUME told.status = "NOT_FOUND"
        PROVE  \E i \in DOMAIN tree : IsFirstOf(i, tree, name) /\ tree[i].reg = Absent
    <3>1. node.reg = Absent
      BY <2>3, <2>6, <2>7, RegIsThere DEF reg
    <3>2. QED
      BY <2>1, <2>2, <3>1
  <2>8. told.status = "SUCCESS" =>
          /\ IsFirstOf(told.node, tree, name) /\ IsNode(tree[told.node])
          /\ UemuFdtGetReg(tree[told.node], 0) = reg
    BY <2>1, <2>3, <2>5 DEF reg
  <2>9. QED
    BY <2>5, <2>7, <2>8 DEF told, pages
<1>5. QED
  BY <1>3, <1>4

\* In a run, the trees are trees.
LEMMA CallTrees ==
  ASSUME Answered
  PROVE  input.kind \in {"discover", "display"} => IsNodes(input.tree)
<1>1. ASSUME input.kind \in {"discover", "display"} PROVE input \in Calls
  BY <1>1 DEF Answered, KeyboardInput
<1>2. QED
  BY <1>1, CallsAssumption

\* A discovery that found or missed its device was of the tree that was given.
LEMMA DiscoverAnswer ==
  ASSUME Answered, input.kind = "discover", result.status \in {"SUCCESS", "NOT_FOUND"}
  PROVE  IsNodes(input.tree) /\ result = DiscoverMmioRange(input.tree, input.end, "device", input.minSize)
<1>1. Failure("none").status \notin {"SUCCESS", "NOT_FOUND"}
  BY DEF Failure
<1>2. QED
  BY <1>1, CallTrees DEF Answered

\* A driver is given the first enabled device of its kind, and is told that there is none
\* only if there is none in a tree searched to its end or the first one has no registers.
THEOREM FirstEnabledDeviceAlways == CallSpec => []FirstEnabledDevice
<1>1. Answered => FirstEnabledDevice
  <2> SUFFICES ASSUME Answered, input.kind = "discover",
                      result.status \in {"SUCCESS", "NOT_FOUND"}
               PROVE  /\ result.status = "SUCCESS" => IsFirstDevice(result.node, "device")
                      /\ result.status = "NOT_FOUND" =>
                           \/ /\ input.end = "NOTFOUND"
                              /\ \A i \in DOMAIN input.tree : ~IsDevice(input.tree[i], "device")
                           \/ \E i \in DOMAIN input.tree :
                                IsFirstDevice(i, "device") /\ input.tree[i].reg = Absent
    BY DEF FirstEnabledDevice, Returned
  <2>1. IsNodes(input.tree) /\ result = DiscoverMmioRange(input.tree, input.end, "device", input.minSize)
    BY DiscoverAnswer
  <2>2. /\ result.status = "SUCCESS" => IsFirstOf(result.node, input.tree, "device")
        /\ result.status = "NOT_FOUND" =>
             \/ /\ input.end = "NOTFOUND"
                /\ \A i \in DOMAIN input.tree : ~IsDevice(input.tree[i], "device")
             \/ \E i \in DOMAIN input.tree :
                  IsFirstOf(i, input.tree, "device") /\ input.tree[i].reg = Absent
    BY <2>1, Discovered
  <2>3. \A i : IsFirstDevice(i, "device") <=> IsFirstOf(i, input.tree, "device")
    BY DEF IsFirstDevice, IsFirstOf
  <2>4. QED
    BY <2>2, <2>3
<1>2. QED
  BY <1>1, AnsweredAlways, PTL

\* A driver's registers are the first entry of its node's reg property, read as big-endian
\* numbers of at most 64 bits, none of which is cut off.
THEOREM RegAlwaysExact == CallSpec => []RegExact
<1>1. Answered => RegExact
  <2> SUFFICES ASSUME Answered, input.kind = "discover", result.status = "SUCCESS"
               PROVE  IsFirstReg(input.tree[result.node], result.base, result.size)
    BY DEF RegExact, Returned
  <2> DEFINE node == input.tree[result.node]
             reg == UemuFdtGetReg(node, 0)
  <2>1. IsNodes(input.tree) /\ result = DiscoverMmioRange(input.tree, input.end, "device", input.minSize)
    BY DiscoverAnswer
  <2>2. IsNode(node) /\ reg.status = "SUCCESS" /\ result.base = reg.base /\ result.size = reg.size
    BY <2>1, Discovered
  <2> HIDE DEF node
  <2>3. IsFirstReg(node, reg.base, reg.size)
    BY <2>2, FirstReg
  <2>4. QED
    BY <2>2, <2>3 DEF node
<1>2. QED
  BY <1>1, AnsweredAlways, PTL

\* A multiple of the page size begins a page.
LEMMA MultipleOfPage ==
  ASSUME NEW k \in Nat
  PROVE  k * PAGE \in Nat /\ (k * PAGE) % PAGE = 0
<1>1. k * PAGE \in Nat /\ k * PAGE = PAGE * k + 0 /\ 0 \in 0 .. (PAGE - 1)
  BY FdtConstants
<1>2. (k * PAGE) \div PAGE = k
  BY <1>1, QuotientUnique, FdtConstants
<1> DEFINE a == k * PAGE
<1>3. a = PAGE * (a \div PAGE) + (a % PAGE) /\ a % PAGE \in 0 .. (PAGE - 1)
  <2>1. a \in Nat
    BY <1>1
  <2> HIDE DEF a
  <2>2. QED
    BY <2>1, FdtConstants
<1>4. PAGE * k \in Nat
  BY FdtConstants
<1>5. QED
  BY <1>1, <1>2, <1>3, <1>4

\* The pages that a driver adds hold its registers, whole pages and less than one page more
\* at either end, within the address space.
THEOREM PagesAlwaysCoverRegisters == CallSpec => []PagesCoverRegisters
<1>1. Answered => PagesCoverRegisters
  <2> SUFFICES ASSUME Answered, input.kind = "discover", result.status = "SUCCESS"
               PROVE  PagesCover(result.gcdBase, result.gcdSize, result.base, result.size)
    BY DEF PagesCoverRegisters, Returned
  <2> DEFINE node == input.tree[result.node]
             reg == UemuFdtGetReg(node, 0)
             base == reg.base
             size == reg.size
             pages == UemuFdtAlignRange(base, size)
             first == base \div PAGE
             last == (base + size - 1) \div PAGE
  <2>1. IsNodes(input.tree) /\ result = DiscoverMmioRange(input.tree, input.end, "device", input.minSize)
    BY DiscoverAnswer
  <2>2. /\ IsNode(node) /\ reg.status = "SUCCESS" /\ pages.status = "SUCCESS"
        /\ result.base = base /\ result.size = size
        /\ result.gcdBase = pages.base /\ result.gcdSize = pages.size
    BY <2>1, Discovered
  <2> HIDE DEF node
  <2>3. base \in Nat /\ size \in Nat \ {0} /\ base + size <= MAX_UINT64
    BY <2>2, FirstReg
  <2> HIDE DEF base, size
  <2>4. /\ pages.base <= base /\ base + size <= pages.base + pages.size
        /\ base - pages.base < PAGE /\ pages.base + pages.size < base + size + PAGE
        /\ pages.base + pages.size <= MAX_UINT64
    BY <2>2, <2>3, AlignRangeCovers
  <2>5. /\ first \in Nat /\ last \in Nat /\ first <= last
        /\ pages.base = first * PAGE /\ pages.size \in Nat \ {0}
        /\ pages.base + pages.size = last * PAGE + PAGE
    BY <2>2, <2>3, AlignedPages
  <2> HIDE DEF pages, first, last
  <2>6. pages.size = (last - first + 1) * PAGE /\ last - first + 1 \in Nat
    <3>1. (last - first + 1) * PAGE + first * PAGE = last * PAGE + PAGE
      BY <2>5, FdtConstants
    <3>2. first * PAGE \in Nat /\ (last - first + 1) * PAGE \in Nat /\ last * PAGE \in Nat
      BY <2>5, FdtConstants
    <3>3. QED
      BY <2>5, <3>1, <3>2, FdtConstants
  <2>7. pages.base % PAGE = 0 /\ pages.size % PAGE = 0
    BY <2>5, <2>6, MultipleOfPage
  <2>8. QED
    BY <2>2, <2>4, <2>7 DEF PagesCover
<1>2. QED
  BY <1>1, AnsweredAlways, PTL

-----------------------------------------------------------------------------
\* A property that is one cell.
LEMMA U32Read ==
  ASSUME NEW cells, IsU32Property(cells), UemuFdtGetU32(cells).status = "SUCCESS"
  PROVE  /\ cells = <<UemuFdtGetU32(cells).value>>
         /\ UemuFdtGetU32(cells).value \in Words
<1>1. cells # Absent /\ Len(cells) = 1 /\ UemuFdtGetU32(cells).value = cells[1]
  BY DEF UemuFdtGetU32, Failure
<1>2. cells \in Seq(Words)
  BY <1>1 DEF IsU32Property, Words
<1>3. cells[1] \in Words /\ cells = <<cells[1]>>
  BY <1>1, <1>2, OneElement
<1>4. QED
  BY <1>1, <1>3

\* The pixels of a line and of all lines, in units of a pixel.
LEMMA PixelsFit ==
  ASSUME NEW width \in Nat \ {0}, NEW height \in Nat \ {0}, NEW perLine \in Nat, NEW size \in Nat,
         width * FB_BYTES_PER_PIXEL <= FB_BYTES_PER_PIXEL * perLine,
         (height - 1) * (FB_BYTES_PER_PIXEL * perLine) + width * FB_BYTES_PER_PIXEL <= size
  PROVE  /\ perLine >= width
         /\ (((height - 1) * perLine + (width - 1)) + 1) * FB_BYTES_PER_PIXEL <= size
<1> DEFINE B == FB_BYTES_PER_PIXEL
           above == height - 1
<1>1. B \in Nat \ {0} /\ above \in Nat
  BY FbAssumption
<1> HIDE DEF B, above
<1>2. width * B <= B * perLine /\ above * (B * perLine) + width * B <= size
  BY DEF B, above
<1>3. perLine >= width
  <2> SUFFICES ASSUME perLine + 1 <= width PROVE FALSE
    OBVIOUS
  <2>1. (perLine + 1) * B <= width * B
    BY <1>1, ProductMonotone
  <2>2. (perLine + 1) * B = B * perLine + B
    BY <1>1
  <2>3. B * perLine \in Nat /\ width * B \in Nat
    BY <1>1
  <2>4. QED
    BY <1>1, <1>2, <2>1, <2>2, <2>3
<1>4. ((above * perLine + (width - 1)) + 1) * B = above * (B * perLine) + width * B
  <2>1. above * perLine \in Nat
    BY <1>1
  <2> DEFINE pixels == above * perLine
  <2>2. pixels * B = above * (B * perLine)
    BY <1>1
  <2>3. pixels \in Nat
    BY <2>1
  <2> HIDE DEF pixels
  <2>4. (pixels + (width - 1)) + 1 = pixels + width
    BY <2>3
  <2>5. (pixels + width) * B = pixels * B + width * B
    BY <1>1, <2>3
  <2>6. QED
    BY <2>2, <2>4, <2>5 DEF pixels
<1>5. QED
  BY <1>2, <1>3, <1>4 DEF B, above

\* What the frame buffer driver accepts.
LEMMA FrameBufferFound ==
  ASSUME NEW tree, IsNodes(tree), NEW end,
         \A node \in ToSet(tree) :
           \A cells \in {node.width, node.height, node.stride} : IsU32Property(cells),
         GetSimpleFrameBuffer(tree, end).status = "SUCCESS"
  PROVE  LET fb  == GetSimpleFrameBuffer(tree, end)
             reg(i) == UemuFdtGetReg(tree[i], 0)
         IN  \E i, g :
               /\ i \in DOMAIN tree
               /\ IsFirstOf(i, tree, "simple-framebuffer") /\ IsNode(tree[i])
               /\ reg(i).status = "SUCCESS" /\ fb.base = reg(i).base /\ fb.size = reg(i).size
               /\ tree[i].width = <<fb.width>> /\ tree[i].height = <<fb.height>>
               /\ g.width = fb.width /\ g.height = fb.height /\ g.stride = fb.stride
               /\ g.width \in Words /\ g.height \in Words /\ g.stride \in Words
               /\ ~IsCompromised(g) /\ ~(g.stride * g.height > reg(i).size)
<1> DEFINE found == UemuFdtFindCompatibleNode(tree, end, "simple-framebuffer")
           node == tree[found.node]
           reg == UemuFdtGetReg(node, 0)
           g == Geometry(node)
           fb == GetSimpleFrameBuffer(tree, end)
<1>1. fb = IF found.status # "SUCCESS" THEN found
           ELSE IF reg.status # "SUCCESS" THEN reg
           ELSE IF g.status # "SUCCESS" THEN g
           ELSE IF IsCompromised(g) THEN Failure("COMPROMISED_DATA")
           ELSE IF g.stride * g.height > reg.size THEN Failure("BAD_BUFFER_SIZE")
           ELSE [status |-> "SUCCESS", base |-> reg.base, size |-> reg.size,
                 width |-> g.width, height |-> g.height, stride |-> g.stride]
  BY Zenon DEF GetSimpleFrameBuffer
<1>2. fb.status = "SUCCESS"
  OBVIOUS
<1> HIDE DEF fb, g, reg, found
<1>3. /\ found.status = "SUCCESS" /\ reg.status = "SUCCESS" /\ g.status = "SUCCESS"
      /\ ~IsCompromised(g) /\ ~(g.stride * g.height > reg.size)
      /\ fb.base = reg.base /\ fb.size = reg.size
      /\ fb.width = g.width /\ fb.height = g.height /\ fb.stride = g.stride
  BY <1>1, <1>2 DEF Failure
<1>4. IsFirstOf(found.node, tree, "simple-framebuffer")
  BY <1>3, FirstFound DEF found
<1>5. found.node \in DOMAIN tree
  BY <1>4 DEF IsFirstOf
<1>6. IsNode(node) /\ node \in ToSet(tree)
  BY <1>5, NodesOf
<1>7. /\ UemuFdtGetU32(node.width).status = "SUCCESS"
      /\ UemuFdtGetU32(node.height).status = "SUCCESS"
      /\ UemuFdtGetU32(node.stride).status = "SUCCESS"
      /\ g.width = UemuFdtGetU32(node.width).value
      /\ g.height = UemuFdtGetU32(node.height).value
      /\ g.stride = UemuFdtGetU32(node.stride).value
  <2> HIDE DEF node
  <2>1. QED
    BY <1>3 DEF g, Geometry
<1>8. IsU32Property(node.width) /\ IsU32Property(node.height) /\ IsU32Property(node.stride)
  BY <1>6
<1>9. /\ node.width = <<g.width>> /\ node.height = <<g.height>>
      /\ g.width \in Words /\ g.height \in Words /\ g.stride \in Words
  BY <1>7, <1>8, U32Read
<1>10. UemuFdtGetReg(tree[found.node], 0) = reg
  BY Zenon DEF reg
<1> HIDE DEF node
<1>11. node = tree[found.node]
  BY Zenon DEF node
<1>12. /\ found.node \in DOMAIN tree
       /\ IsFirstOf(found.node, tree, "simple-framebuffer") /\ IsNode(tree[found.node])
       /\ UemuFdtGetReg(tree[found.node], 0).status = "SUCCESS"
       /\ fb.base = UemuFdtGetReg(tree[found.node], 0).base
       /\ fb.size = UemuFdtGetReg(tree[found.node], 0).size
       /\ tree[found.node].width = <<fb.width>> /\ tree[found.node].height = <<fb.height>>
       /\ g.width = fb.width /\ g.height = fb.height /\ g.stride = fb.stride
       /\ g.width \in Words /\ g.height \in Words /\ g.stride \in Words
       /\ ~IsCompromised(g) /\ ~(g.stride * g.height > UemuFdtGetReg(tree[found.node], 0).size)
  BY <1>3, <1>4, <1>5, <1>6, <1>9, <1>10, <1>11
<1>13. QED
  BY <1>12, Zenon DEF fb

\* A published mode keeps every pixel of every line, and every byte that is cleared, in the
\* range of the frame buffer, and its lines do not run into each other.
THEOREM FramebufferAlwaysFits == CallSpec => []FramebufferFits
<1>1. Answered => FramebufferFits
  <2> SUFFICES ASSUME Answered, input.kind = "display", result.status = "SUCCESS"
               PROVE  FramebufferFits
    BY DEF FramebufferFits, Returned
  <2> DEFINE fb == GetSimpleFrameBuffer(input.tree, input.end)
             perLine == fb.stride \div FB_BYTES_PER_PIXEL
  <2>1. IsNodes(input.tree) /\ result = SimpleFbDxeInitialize(input.tree, input.end)
    <3>1. Failure("none").status # "SUCCESS"
      BY DEF Failure
    <3>2. QED
      BY <3>1, CallTrees DEF Answered
  <2>2. \A node \in ToSet(input.tree) :
          \A cells \in {node.width, node.height, node.stride} : IsU32Property(cells)
    <3>1. input \in {c \in Calls : c.kind = "display"}
      BY DEF Answered, KeyboardInput
    <3>2. QED
      BY <3>1, CallsAssumption
  <2>3. /\ fb.status = "SUCCESS"
        /\ result.HorizontalResolution = fb.width /\ result.VerticalResolution = fb.height
        /\ result.PixelsPerScanLine = perLine
        /\ result.FrameBufferBase = fb.base /\ result.FrameBufferSize = fb.stride * fb.height
    <3> HIDE DEF fb
    <3>1. result = IF fb.status # "SUCCESS" THEN fb
                   ELSE [status |-> "SUCCESS", HorizontalResolution |-> fb.width,
                         VerticalResolution |-> fb.height,
                         PixelsPerScanLine |-> fb.stride \div FB_BYTES_PER_PIXEL,
                         FrameBufferBase |-> fb.base, FrameBufferSize |-> fb.stride * fb.height,
                         attributes |-> UemuFdtAlignRange(fb.base, fb.size)]
      BY <2>1, Zenon DEF SimpleFbDxeInitialize, fb
    <3>2. QED
      BY <3>1
  <2>4. PICK i, g :
          LET reg == UemuFdtGetReg(input.tree[i], 0)
          IN  /\ i \in DOMAIN input.tree
              /\ IsFirstOf(i, input.tree, "simple-framebuffer") /\ IsNode(input.tree[i])
              /\ reg.status = "SUCCESS" /\ fb.base = reg.base /\ fb.size = reg.size
              /\ input.tree[i].width = <<fb.width>> /\ input.tree[i].height = <<fb.height>>
              /\ g.width = fb.width /\ g.height = fb.height /\ g.stride = fb.stride
              /\ g.width \in Words /\ g.height \in Words /\ g.stride \in Words
              /\ ~IsCompromised(g) /\ ~(g.stride * g.height > reg.size)
    BY <2>1, <2>2, <2>3, FrameBufferFound
  <2> DEFINE node == input.tree[i]
             reg == UemuFdtGetReg(node, 0)
             size == reg.size
  <2>5. /\ reg.base \in Nat /\ size \in Nat \ {0} /\ reg.base + size <= MAX_UINT64
        /\ IsFirstReg(node, reg.base, size)
    BY <2>4, FirstReg
  <2> HIDE DEF fb, node
  <2>6. /\ IsFirstOf(i, input.tree, "simple-framebuffer")
        /\ fb.base = reg.base /\ node.width = <<fb.width>> /\ node.height = <<fb.height>>
        /\ g.width = fb.width /\ g.height = fb.height /\ g.stride = fb.stride
        /\ g.width \in Words /\ g.height \in Words /\ g.stride \in Words
        /\ ~IsCompromised(g) /\ ~(g.stride * g.height > size)
    BY <2>4 DEF node
  <2> HIDE DEF reg
  <2>7. MAX_UINT32 \in Nat /\ Words \subseteq Nat
    BY FdtConstants DEF MAX_UINT32, Words
  <2>8. g.width > 0 /\ g.height > 0 /\ g.stride * g.height <= size
    <3>1. g.width \in Nat /\ g.height \in Nat /\ g.stride \in Nat
      BY <2>6, <2>7
    <3>2. g.stride * g.height \in Nat
      BY <3>1
    <3>3. g.width # 0 /\ g.height # 0
      BY <2>6 DEF IsCompromised
    <3>4. QED
      BY <2>5, <2>6, <3>1, <3>2, <3>3
  <2>9. /\ fb.stride = FB_BYTES_PER_PIXEL * perLine
        /\ fb.width * FB_BYTES_PER_PIXEL <= fb.stride
        /\ (fb.height - 1) * fb.stride + fb.width * FB_BYTES_PER_PIXEL <= size
    <3>1. size \in Nat
      BY <2>5
    <3> HIDE DEF size, perLine
    <3>2. LET pixelsPerLine == g.stride \div FB_BYTES_PER_PIXEL
          IN  /\ g.stride = FB_BYTES_PER_PIXEL * pixelsPerLine
              /\ g.width * FB_BYTES_PER_PIXEL <= g.stride
              /\ (g.height - 1) * g.stride + g.width * FB_BYTES_PER_PIXEL <= size
      BY <2>6, <2>8, <3>1, GeometryFits
    <3>3. QED
      BY <2>6, <3>2 DEF perLine
  <2>10. /\ fb.width \in Nat \ {0} /\ fb.height \in Nat \ {0} /\ fb.stride \in Nat
         /\ perLine \in Nat
    <3>1. fb.width \in Nat \ {0} /\ fb.height \in Nat \ {0} /\ fb.stride \in Nat
      <4>1. g.width \in Nat \ {0} /\ g.height \in Nat \ {0} /\ g.stride \in Nat
        <5>1. g.width \in Nat /\ g.height \in Nat /\ g.stride \in Nat
          BY <2>6, <2>7, Zenon
        <5>2. g.width # 0 /\ g.height # 0
          BY <2>6 DEF IsCompromised
        <5>3. QED
          BY <5>1, <5>2
      <4>2. QED
        BY <2>6, <4>1, Zenon
    <3>2. QED
      BY <3>1, FbAssumption
  <2> HIDE DEF perLine, size
  <2>11. /\ perLine >= fb.width
         /\ (((fb.height - 1) * perLine + (fb.width - 1)) + 1) * FB_BYTES_PER_PIXEL <= size
    BY <2>5, <2>9, <2>10, PixelsFit, ZenonT(40)
  <2> DEFINE bytes == (((fb.height - 1) * perLine + (fb.width - 1)) + 1) * FB_BYTES_PER_PIXEL
             cleared == fb.stride * fb.height
  <2>12. reg.base + bytes <= reg.base + size /\ reg.base + cleared <= reg.base + size
    <3>1. bytes \in Int /\ cleared \in Int /\ cleared <= size
      <4>1. cleared <= size
        BY <2>6, <2>8
      <4>2. (fb.height - 1) * perLine + (fb.width - 1) \in Int
        BY <2>10
      <4>3. QED
        BY <2>10, <4>1, <4>2, FbAssumption
    <3>2. bytes <= size
      BY <2>11
    <3> HIDE DEF bytes, cleared
    <3>3. QED
      BY <2>5, <3>1, <3>2
  <2>13. size \in 1 .. MAX_UINT64
    BY <2>5, FdtConstants
  <2>14. IsFirstDevice(i, "simple-framebuffer")
    BY <2>6 DEF IsFirstDevice, IsFirstOf
  <2>15. LET end       == result.FrameBufferBase + size
             lastPixel == (result.VerticalResolution - 1) * result.PixelsPerScanLine
                            + (result.HorizontalResolution - 1)
         IN  /\ IsFirstDevice(i, "simple-framebuffer")
             /\ IsFirstReg(node, result.FrameBufferBase, size)
             /\ node.width = <<result.HorizontalResolution>> /\ result.HorizontalResolution > 0
             /\ node.height = <<result.VerticalResolution>> /\ result.VerticalResolution > 0
             /\ result.PixelsPerScanLine >= result.HorizontalResolution
             /\ result.FrameBufferBase + (lastPixel + 1) * FB_BYTES_PER_PIXEL <= end
             /\ result.FrameBufferBase + result.FrameBufferSize <= end
    BY <2>3, <2>5, <2>6, <2>8, <2>11, <2>12, <2>14, Zenon
  <2>16. i \in DOMAIN input.tree
    BY <2>4
  <2>17. \E n \in DOMAIN input.tree, s \in 1 .. MAX_UINT64 :
           LET device    == input.tree[n]
               end       == result.FrameBufferBase + s
               lastPixel == (result.VerticalResolution - 1) * result.PixelsPerScanLine
                              + (result.HorizontalResolution - 1)
           IN  /\ IsFirstDevice(n, "simple-framebuffer")
               /\ IsFirstReg(device, result.FrameBufferBase, s)
               /\ device.width = <<result.HorizontalResolution>>
               /\ result.HorizontalResolution > 0
               /\ device.height = <<result.VerticalResolution>> /\ result.VerticalResolution > 0
               /\ result.PixelsPerScanLine >= result.HorizontalResolution
               /\ result.FrameBufferBase + (lastPixel + 1) * FB_BYTES_PER_PIXEL <= end
               /\ result.FrameBufferBase + result.FrameBufferSize <= end
    BY <2>13, <2>15, <2>16, Zenon DEF node
  <2>18. QED
    BY <2>17, Zenon DEF FramebufferFits
<1>2. QED
  BY <1>1, AnsweredAlways, PTL

-----------------------------------------------------------------------------
(* The key tables, spelled out: a code and its characters. *)

IsCharacter(c, plain, shifted) ==
  \/ c = 2 /\ plain = 49 /\ shifted = 33
  \/ c = 3 /\ plain = 50 /\ shifted = 64
  \/ c = 4 /\ plain = 51 /\ shifted = 35
  \/ c = 5 /\ plain = 52 /\ shifted = 36
  \/ c = 6 /\ plain = 53 /\ shifted = 37
  \/ c = 7 /\ plain = 54 /\ shifted = 94
  \/ c = 8 /\ plain = 55 /\ shifted = 38
  \/ c = 9 /\ plain = 56 /\ shifted = 42
  \/ c = 10 /\ plain = 57 /\ shifted = 40
  \/ c = 11 /\ plain = 48 /\ shifted = 41
  \/ c = 12 /\ plain = 45 /\ shifted = 95
  \/ c = 13 /\ plain = 61 /\ shifted = 43
  \/ c = 16 /\ plain = 113 /\ shifted = 81
  \/ c = 17 /\ plain = 119 /\ shifted = 87
  \/ c = 18 /\ plain = 101 /\ shifted = 69
  \/ c = 19 /\ plain = 114 /\ shifted = 82
  \/ c = 20 /\ plain = 116 /\ shifted = 84
  \/ c = 21 /\ plain = 121 /\ shifted = 89
  \/ c = 22 /\ plain = 117 /\ shifted = 85
  \/ c = 23 /\ plain = 105 /\ shifted = 73
  \/ c = 24 /\ plain = 111 /\ shifted = 79
  \/ c = 25 /\ plain = 112 /\ shifted = 80
  \/ c = 26 /\ plain = 91 /\ shifted = 123
  \/ c = 27 /\ plain = 93 /\ shifted = 125
  \/ c = 30 /\ plain = 97 /\ shifted = 65
  \/ c = 31 /\ plain = 115 /\ shifted = 83
  \/ c = 32 /\ plain = 100 /\ shifted = 68
  \/ c = 33 /\ plain = 102 /\ shifted = 70
  \/ c = 34 /\ plain = 103 /\ shifted = 71
  \/ c = 35 /\ plain = 104 /\ shifted = 72
  \/ c = 36 /\ plain = 106 /\ shifted = 74
  \/ c = 37 /\ plain = 107 /\ shifted = 75
  \/ c = 38 /\ plain = 108 /\ shifted = 76
  \/ c = 39 /\ plain = 59 /\ shifted = 58
  \/ c = 40 /\ plain = 39 /\ shifted = 34
  \/ c = 41 /\ plain = 96 /\ shifted = 126
  \/ c = 43 /\ plain = 92 /\ shifted = 124
  \/ c = 44 /\ plain = 122 /\ shifted = 90
  \/ c = 45 /\ plain = 120 /\ shifted = 88
  \/ c = 46 /\ plain = 99 /\ shifted = 67
  \/ c = 47 /\ plain = 118 /\ shifted = 86
  \/ c = 48 /\ plain = 98 /\ shifted = 66
  \/ c = 49 /\ plain = 110 /\ shifted = 78
  \/ c = 50 /\ plain = 109 /\ shifted = 77
  \/ c = 51 /\ plain = 44 /\ shifted = 60
  \/ c = 52 /\ plain = 46 /\ shifted = 62
  \/ c = 53 /\ plain = 47 /\ shifted = 63
  \/ c = 57 /\ plain = 32 /\ shifted = 32

IsRow(r, first, plain, shifted) == r.first = first /\ r.plain = plain /\ r.shifted = shifted

\* Every row of the tables.
LEMMA Rows ==
  ASSUME NEW r \in KeyRows
  PROVE
    \/ IsRow(r, 2, <<49, 50, 51, 52, 53, 54, 55, 56, 57, 48>>,
                   <<33, 64, 35, 36, 37, 94, 38, 42, 40, 41>>)
    \/ IsRow(r, 12, <<45, 61>>, <<95, 43>>)
    \/ IsRow(r, 16, <<113, 119, 101, 114, 116, 121, 117, 105, 111, 112>>,
                    <<81, 87, 69, 82, 84, 89, 85, 73, 79, 80>>)
    \/ IsRow(r, 26, <<91, 93>>, <<123, 125>>)
    \/ IsRow(r, 30, <<97, 115, 100, 102, 103, 104, 106, 107, 108>>,
                    <<65, 83, 68, 70, 71, 72, 74, 75, 76>>)
    \/ IsRow(r, 39, <<59, 39, 96>>, <<58, 34, 126>>)
    \/ IsRow(r, 43, <<92>>, <<124>>)
    \/ IsRow(r, 44, <<122, 120, 99, 118, 98, 110, 109>>, <<90, 88, 67, 86, 66, 78, 77>>)
    \/ IsRow(r, 51, <<44, 46, 47>>, <<60, 62, 63>>)
    \/ IsRow(r, 57, <<32>>, <<32>>)
  BY DEF KeyRows, IsRow

\* A row holds the characters of its codes.
LEMMA RowCharacters ==
  ASSUME NEW r \in KeyRows, NEW c \in Nat,
         c \in r.first .. (r.first + Len(r.plain) - 1)
  PROVE  IsCharacter(c, r.plain[c - r.first + 1], r.shifted[c - r.first + 1])
<1>1. CASE IsRow(r, 2, <<49, 50, 51, 52, 53, 54, 55, 56, 57, 48>>,
                       <<33, 64, 35, 36, 37, 94, 38, 42, 40, 41>>)
  <2>1. Len(r.plain) = 10
    BY <1>1 DEF IsRow
  <2>2. c \in {2, 3, 4, 5, 6, 7, 8, 9, 10, 11}
    BY <1>1, <2>1 DEF IsRow
  <2>3. QED
    BY <1>1, <2>2 DEF IsRow, IsCharacter
<1>2. CASE IsRow(r, 12, <<45, 61>>, <<95, 43>>)
  <2>1. Len(r.plain) = 2
    BY <1>2 DEF IsRow
  <2>2. c \in {12, 13}
    BY <1>2, <2>1 DEF IsRow
  <2>3. QED
    BY <1>2, <2>2 DEF IsRow, IsCharacter
<1>3. CASE IsRow(r, 16, <<113, 119, 101, 114, 116, 121, 117, 105, 111, 112>>,
                        <<81, 87, 69, 82, 84, 89, 85, 73, 79, 80>>)
  <2>1. Len(r.plain) = 10
    BY <1>3 DEF IsRow
  <2>2. c \in {16, 17, 18, 19, 20, 21, 22, 23, 24, 25}
    BY <1>3, <2>1 DEF IsRow
  <2>3. QED
    BY <1>3, <2>2 DEF IsRow, IsCharacter
<1>4. CASE IsRow(r, 26, <<91, 93>>, <<123, 125>>)
  <2>1. Len(r.plain) = 2
    BY <1>4 DEF IsRow
  <2>2. c \in {26, 27}
    BY <1>4, <2>1 DEF IsRow
  <2>3. QED
    BY <1>4, <2>2 DEF IsRow, IsCharacter
<1>5. CASE IsRow(r, 30, <<97, 115, 100, 102, 103, 104, 106, 107, 108>>,
                        <<65, 83, 68, 70, 71, 72, 74, 75, 76>>)
  <2>1. Len(r.plain) = 9
    BY <1>5 DEF IsRow
  <2>2. c \in {30, 31, 32, 33, 34, 35, 36, 37, 38}
    BY <1>5, <2>1 DEF IsRow
  <2>3. QED
    BY <1>5, <2>2 DEF IsRow, IsCharacter
<1>6. CASE IsRow(r, 39, <<59, 39, 96>>, <<58, 34, 126>>)
  <2>1. Len(r.plain) = 3
    BY <1>6 DEF IsRow
  <2>2. c \in {39, 40, 41}
    BY <1>6, <2>1 DEF IsRow
  <2>3. QED
    BY <1>6, <2>2 DEF IsRow, IsCharacter
<1>7. CASE IsRow(r, 43, <<92>>, <<124>>)
  <2>1. Len(r.plain) = 1
    BY <1>7 DEF IsRow
  <2>2. c \in {43}
    BY <1>7, <2>1 DEF IsRow
  <2>3. QED
    BY <1>7, <2>2 DEF IsRow, IsCharacter
<1>8. CASE IsRow(r, 44, <<122, 120, 99, 118, 98, 110, 109>>, <<90, 88, 67, 86, 66, 78, 77>>)
  <2>1. Len(r.plain) = 7
    BY <1>8 DEF IsRow
  <2>2. c \in {44, 45, 46, 47, 48, 49, 50}
    BY <1>8, <2>1 DEF IsRow
  <2>3. QED
    BY <1>8, <2>2 DEF IsRow, IsCharacter
<1>9. CASE IsRow(r, 51, <<44, 46, 47>>, <<60, 62, 63>>)
  <2>1. Len(r.plain) = 3
    BY <1>9 DEF IsRow
  <2>2. c \in {51, 52, 53}
    BY <1>9, <2>1 DEF IsRow
  <2>3. QED
    BY <1>9, <2>2 DEF IsRow, IsCharacter
<1>10. CASE IsRow(r, 57, <<32>>, <<32>>)
  <2>1. Len(r.plain) = 1
    BY <1>10 DEF IsRow
  <2>2. c \in {57}
    BY <1>10, <2>1 DEF IsRow
  <2>3. QED
    BY <1>10, <2>2 DEF IsRow, IsCharacter
<1>11. QED
  BY <1>1, <1>2, <1>3, <1>4, <1>5, <1>6, <1>7, <1>8, <1>9, <1>10, Rows, Zenon

\* What mKeyMap and mKeyMapShift hold.
LEMMA Characters ==
  ASSUME NEW c \in 0 .. MAX_KEYBOARD_CODE
  PROVE  \/ mKeyMap[c] = 0 /\ mKeyMapShift[c] = 0
         \/ IsCharacter(c, mKeyMap[c], mKeyMapShift[c])
<1>1. CASE RowsOf(c) = {}
  BY <1>1 DEF mKeyMap, mKeyMapShift
<1>2. CASE RowsOf(c) # {}
  <2> DEFINE r == CHOOSE row \in RowsOf(c) : TRUE
  <2>1. r \in RowsOf(c)
    BY <1>2, Zenon
  <2>2. /\ mKeyMap[c] = r.plain[c - r.first + 1]
        /\ mKeyMapShift[c] = r.shifted[c - r.first + 1]
    BY <1>2, Zenon DEF mKeyMap, mKeyMapShift
  <2> HIDE DEF r
  <2>3. r \in KeyRows /\ c \in r.first .. (r.first + Len(r.plain) - 1)
    BY <2>1, Zenon DEF RowsOf
  <2>4. c \in Nat
    BY DEF MAX_KEYBOARD_CODE
  <2>5. QED
    BY <2>2, <2>3, <2>4, RowCharacters, Zenon
<1>3. QED
  BY <1>1, <1>2

\* The pairs of the other two tables.
IsScanKey(c, scan) ==
  \/ c = 1 /\ scan = 23
  \/ c = 103 /\ scan = 1
  \/ c = 108 /\ scan = 2
  \/ c = 106 /\ scan = 3
  \/ c = 105 /\ scan = 4
  \/ c = 102 /\ scan = 5
  \/ c = 107 /\ scan = 6
  \/ c = 110 /\ scan = 7
  \/ c = 111 /\ scan = 8
  \/ c = 104 /\ scan = 9
  \/ c = 109 /\ scan = 10
  \/ c \in 59 .. 68 /\ scan = 11 + (c - 59)

IsCharKey(c, char) ==
  \/ c = 14 /\ char = 8
  \/ c = 15 /\ char = 9
  \/ c = 28 /\ char = 13

\* What Entry finds is in the table.
LEMMA EntryInTable ==
  ASSUME NEW table, NEW c, InTable(table, c)
  PROVE  \E p \in table : p[1] = c /\ p[2] = Entry(table, c)
BY Zenon DEF InTable, Entry

\* A code has the scan code that the table pairs it with.
LEMMA ScanKey ==
  ASSUME NEW c, InTable(ScanKeys, c)
  PROVE  IsScanKey(c, Entry(ScanKeys, c))
<1>1. PICK p \in ScanKeys : p[1] = c /\ p[2] = Entry(ScanKeys, c)
  BY EntryInTable, Zenon
<1>2. IsScanKey(p[1], p[2])
  BY DEF ScanKeys, FunctionKeys, IsScanKey
<1>3. QED
  BY <1>1, <1>2, Zenon

\* A code has the control character that the table pairs it with.
LEMMA CharKey ==
  ASSUME NEW c, InTable(CharKeys, c)
  PROVE  IsCharKey(c, Entry(CharKeys, c))
<1>1. PICK p \in CharKeys : p[1] = c /\ p[2] = Entry(CharKeys, c)
  BY EntryInTable, Zenon
<1>2. IsCharKey(p[1], p[2])
  BY DEF CharKeys, IsCharKey
<1>3. QED
  BY <1>1, <1>2, Zenon

\* The keys a press may yield: one with a scan code, one with a control
\* character, one with a character as both, where Ctrl masks the second.
LEMMA KeysOfPress ==
  ASSUME NEW m, NEW c \in Nat
  PROVE  LET key == PressedKey(m, c)
         IN  \/ key = NullKey
             \/ IsScanKey(c, key.ScanCode) /\ key.UnicodeChar = 0
             \/ IsCharKey(c, key.UnicodeChar) /\ key.ScanCode = 0
             \/ \E plain, shifted :
                  /\ IsCharacter(c, plain, shifted)
                  /\ key.ScanCode = IF "Shift" \in m THEN shifted ELSE plain
<1> DEFINE key == PressedKey(m, c)
           silent == \/ \E modifier \in Modifiers : c \in ModifierKeys[modifier]
                     \/ c \in LockKeys
                     \/ c >= MAX_KEYBOARD_CODE
<1>1. CASE silent
  BY <1>1, Zenon DEF PressedKey
<1>2. CASE ~silent /\ InTable(ScanKeys, c)
  <2>1. key = [ScanCode |-> Entry(ScanKeys, c), UnicodeChar |-> 0]
    BY <1>2, Zenon DEF PressedKey
  <2>2. QED
    BY <1>2, <2>1, ScanKey
<1>3. CASE ~silent /\ ~InTable(ScanKeys, c) /\ InTable(CharKeys, c)
  <2>1. key = [ScanCode |-> 0, UnicodeChar |-> Entry(CharKeys, c)]
    BY <1>3, Zenon DEF PressedKey
  <2>2. QED
    BY <1>3, <2>1, CharKey
<1>4. CASE ~silent /\ ~InTable(ScanKeys, c) /\ ~InTable(CharKeys, c)
  <2> DEFINE char == IF "Shift" \in m THEN mKeyMapShift[c] ELSE mKeyMap[c]
  <2>1. key = RegularKey(m, c)
    BY <1>4, Zenon DEF PressedKey
  <2>2. key = [ScanCode |-> char, UnicodeChar |-> IF "Ctrl" \in m THEN char % 32 ELSE char]
    BY <2>1, Zenon DEF RegularKey
  <2>3. c \in 0 .. MAX_KEYBOARD_CODE
    BY <1>4 DEF MAX_KEYBOARD_CODE
  <2>4. CASE mKeyMap[c] = 0 /\ mKeyMapShift[c] = 0
    BY <2>2, <2>4 DEF NullKey
  <2>5. CASE IsCharacter(c, mKeyMap[c], mKeyMapShift[c])
    <3>1. key.ScanCode = char
      BY <2>2
    <3>2. QED
      BY <2>5, <3>1, Zenon
  <2>6. QED
    BY <2>3, <2>4, <2>5, Characters, Zenon
<1>5. QED
  BY <1>1, <1>2, <1>3, <1>4, Zenon

\* Two keys that yield the same are the same.
LEMMA PressesDistinct ==
  ASSUME NEW m, NEW c \in Nat, NEW d \in Nat,
         PressedKey(m, c) = PressedKey(m, d), PressedKey(m, c) # NullKey
  PROVE  c = d
<1> DEFINE key == PressedKey(m, c)
<1>1. key = PressedKey(m, d)
  OBVIOUS
<1>2. \/ IsScanKey(c, key.ScanCode) /\ key.UnicodeChar = 0
      \/ IsCharKey(c, key.UnicodeChar) /\ key.ScanCode = 0
      \/ \E plain, shifted :
           /\ IsCharacter(c, plain, shifted)
           /\ key.ScanCode = IF "Shift" \in m THEN shifted ELSE plain
  BY KeysOfPress
<1>3. \/ IsScanKey(d, key.ScanCode) /\ key.UnicodeChar = 0
      \/ IsCharKey(d, key.UnicodeChar) /\ key.ScanCode = 0
      \/ \E plain, shifted :
           /\ IsCharacter(d, plain, shifted)
           /\ key.ScanCode = IF "Shift" \in m THEN shifted ELSE plain
  BY <1>1, KeysOfPress
<1> HIDE DEF key
<1>4. QED
  BY <1>2, <1>3 DEF IsScanKey, IsCharKey, IsCharacter

\* The presses that yield the three hot keys.
LEMMA HotPresses ==
  ASSUME NEW m, NEW c \in Nat
  PROVE  \A h \in HotKeys : PressedKey(m, c) = h.Key <=> c = h.code
<1> DEFINE key == PressedKey(m, c)
<1>1. \/ key = NullKey
      \/ IsScanKey(c, key.ScanCode) /\ key.UnicodeChar = 0
      \/ IsCharKey(c, key.UnicodeChar) /\ key.ScanCode = 0
      \/ \E plain, shifted :
           /\ IsCharacter(c, plain, shifted)
           /\ key.ScanCode = IF "Shift" \in m THEN shifted ELSE plain
  BY KeysOfPress
<1>2. ASSUME NEW h \in HotKeys, key = h.Key PROVE c = h.code
  <2> HIDE DEF key
  <2>1. QED
    BY <1>1, <1>2 DEF HotKeys, NullKey, IsScanKey, IsCharKey, IsCharacter
<1>3. ASSUME c \in {1, 28, 60}
      PROVE  /\ ~\E modifier \in Modifiers : c \in ModifierKeys[modifier]
             /\ c \notin LockKeys /\ ~(c >= MAX_KEYBOARD_CODE)
  BY <1>3 DEF Modifiers, ModifierKeys, LockKeys, MAX_KEYBOARD_CODE
<1>4. ASSUME c \in {1, 60} PROVE key = [ScanCode |-> IF c = 1 THEN 23 ELSE 12, UnicodeChar |-> 0]
  <2>1. InTable(ScanKeys, c)
    <3>1. <<1, 23>> \in ScanKeys /\ <<60, 12>> \in ScanKeys
      BY DEF ScanKeys, FunctionKeys
    <3>2. QED
      BY <1>4, <3>1 DEF InTable
  <2>2. key = [ScanCode |-> Entry(ScanKeys, c), UnicodeChar |-> 0]
    BY <1>3, <1>4, <2>1, Zenon DEF PressedKey
  <2>3. IsScanKey(c, Entry(ScanKeys, c))
    BY <2>1, ScanKey
  <2>4. Entry(ScanKeys, c) = IF c = 1 THEN 23 ELSE 12
    BY <1>4, <2>3 DEF IsScanKey
  <2>5. QED
    BY <2>2, <2>4, Zenon
<1>5. ASSUME c = 28 PROVE key = [ScanCode |-> 0, UnicodeChar |-> 13]
  <2>1. InTable(CharKeys, c)
    <3>1. <<28, 13>> \in CharKeys
      BY DEF CharKeys
    <3>2. QED
      BY <1>5, <3>1 DEF InTable
  <2>2. ~InTable(ScanKeys, c)
    <3>1. ASSUME InTable(ScanKeys, c) PROVE FALSE
      BY <1>5, <3>1, ScanKey DEF IsScanKey
    <3>2. QED
      BY <3>1
  <2>3. key = [ScanCode |-> 0, UnicodeChar |-> Entry(CharKeys, c)]
    BY <1>3, <1>5, <2>1, <2>2, Zenon DEF PressedKey
  <2>4. IsCharKey(c, Entry(CharKeys, c))
    BY <2>1, CharKey
  <2>5. Entry(CharKeys, c) = 13
    BY <1>5, <2>4 DEF IsCharKey
  <2>6. QED
    BY <2>3, <2>5, Zenon
<1>6. ASSUME NEW h \in HotKeys, c = h.code PROVE key = h.Key
  <2> HIDE DEF key
  <2>1. QED
    BY <1>4, <1>5, <1>6 DEF HotKeys
<1>7. QED
  BY <1>2, <1>6, Zenon

-----------------------------------------------------------------------------
\* The last key is the one that the last event yields under the flags.
LastKey ==
  /\ code \in Nat /\ pressed \in BOOLEAN
  /\ data.Key = KeyOf(mods, code, pressed)

\* It is always so: a modifier, which alone changes the flags, yields no key.
LEMMA LastKeyAlways == CallSpec => []LastKey
<1>1. CallInit => LastKey
  <2> SUFFICES ASSUME CallInit PROVE LastKey
    OBVIOUS
  <2>1. data.Key = NullKey /\ code = 0 /\ pressed = FALSE
    BY DEF CallInit
  <2>2. QED
    BY <2>1 DEF LastKey, KeyOf
<1>2. LastKey /\ [CallNext]_operatorVars => LastKey'
  <2> SUFFICES ASSUME LastKey, [CallNext]_operatorVars PROVE LastKey'
    OBVIOUS
  <2>1. CASE UNCHANGED keyboardVars
    BY <2>1 DEF LastKey, keyboardVars
  <2>2. ASSUME NEW c \in 0 .. MaxCode, NEW down \in BOOLEAN, Event(c, down) PROVE LastKey'
    <3>1. c \in Nat
      BY MaxCodeAssumption
    <3>2. /\ code' = c /\ pressed' = down /\ mods' = ModifiersAfter(mods, c, down)
          /\ data'.Key = KeyOf(mods, c, down)
      BY <2>2 DEF Event, KeyData
    <3>3. KeyOf(mods, c, down) = KeyOf(mods', c, down)
      <4>1. CASE \E m \in Modifiers : c \in ModifierKeys[m]
        BY <4>1, Zenon DEF KeyOf, PressedKey
      <4>2. CASE ~\E m \in Modifiers : c \in ModifierKeys[m]
        <5>1. {m \in Modifiers : c \in ModifierKeys[m]} = {}
          BY <4>2
        <5>2. ModifiersAfter(mods, c, down) = IF down THEN mods \cup {} ELSE mods \ {}
          BY <5>1, Zenon DEF ModifiersAfter
        <5>3. mods' = mods
          BY <3>2, <5>2
        <5>4. QED
          BY <5>3, Zenon
      <4>3. QED
        BY <4>1, <4>2
    <3>4. QED
      BY <3>1, <3>2, <3>3, Zenon DEF LastKey
  <2>3. QED
    BY <2>1, <2>2 DEF CallNext, Press, Release, Discover, StartDisplay, LogSmbios, Sort,
                      operatorVars
<1>3. QED
  BY <1>1, <1>2, PTL DEF CallSpec

\* No two keys yield the same EFI key under the same modifiers, for all codes.
THEOREM KeysAlwaysDistinct == CallSpec => []KeysDistinct
<1>1. LastKey => KeysDistinct
  <2> SUFFICES ASSUME LastKey, data.Key # NullKey, NEW c \in 0 .. MaxCode,
                      KeyOf(mods, c, TRUE) = data.Key
               PROVE  c = code
    BY Zenon DEF KeysDistinct
  <2>1. pressed /\ data.Key = PressedKey(mods, code)
    BY Zenon DEF LastKey, KeyOf
  <2>2. PressedKey(mods, c) = data.Key
    BY Zenon DEF KeyOf
  <2>3. c \in Nat /\ code \in Nat
    BY MaxCodeAssumption DEF LastKey
  <2>4. QED
    BY <2>1, <2>2, <2>3, PressesDistinct, Zenon
<1>2. QED
  BY <1>1, LastKeyAlways, PTL

\* A press of ENTER, F2 or ESC matches its hot key, under any modifiers, and
\* nothing else does.
THEOREM HotKeysAlwaysExact == CallSpec => []HotKeysExact
<1>1. LastKey => HotKeysExact
  <2> SUFFICES ASSUME LastKey, NEW h \in HotKeys
               PROVE  data.Key = h.Key <=> pressed /\ code = h.code
    <3>1. ASSUME NEW g \in HotKeys
          PROVE  IsKeyRegistered([Key |-> g.Key, KeyState |-> NoKeyState], data)
                   <=> data.Key = g.Key
      BY DEF IsKeyRegistered, NoKeyState
    <3>2. QED
      BY <3>1, Zenon DEF HotKeysExact
  <2>1. CASE pressed
    <3>1. data.Key = PressedKey(mods, code) /\ code \in Nat
      BY <2>1, Zenon DEF LastKey, KeyOf
    <3>2. PressedKey(mods, code) = h.Key <=> code = h.code
      BY <3>1, HotPresses
    <3>3. QED
      BY <2>1, <3>1, <3>2
  <2>2. CASE ~pressed
    <3>1. data.Key = NullKey
      BY <2>2, Zenon DEF LastKey, KeyOf
    <3>2. h.Key # NullKey
      BY DEF HotKeys, NullKey
    <3>3. QED
      BY <2>2, <3>1, <3>2, Zenon
  <2>3. QED
    BY <2>1, <2>2
<1>2. QED
  BY <1>1, LastKeyAlways, PTL

-----------------------------------------------------------------------------
(* The sort. *)

\* Arrays of last + 1 integers.
Arrays(last) == [0 .. last -> Int]

\* The array b is the array a with the elements of the slice from left to right
\* in another order: the element at i comes from from[i].
RearrangedBy(from, b, a, left, right) ==
  /\ from \in [DOMAIN a -> DOMAIN a]
  /\ \A i, j \in DOMAIN a : from[i] = from[j] => i = j
  /\ \A j \in DOMAIN a : \E i \in DOMAIN a : from[i] = j
  /\ \A i \in DOMAIN a : IF i \in left .. right THEN from[i] \in left .. right ELSE from[i] = i
  /\ \A i \in DOMAIN a : b[i] = a[from[i]]

Rearranged(b, a, left, right) == \E from : RearrangedBy(from, b, a, left, right)

\* An array is itself in another order,
LEMMA RearrangedItself ==
  ASSUME NEW last \in Nat, NEW a \in Arrays(last), NEW left \in Int, NEW right \in Int
  PROVE  Rearranged(a, a, left, right)
<1> DEFINE from == [i \in DOMAIN a |-> i]
<1>1. RearrangedBy(from, a, a, left, right)
  BY DEF RearrangedBy
<1>2. QED
  BY <1>1, Zenon DEF Rearranged

\* and so is one that is rearranged twice.
LEMMA RearrangedAgain ==
  ASSUME NEW last \in Nat, NEW a \in Arrays(last), NEW b \in Arrays(last), NEW c \in Arrays(last),
         NEW left \in Int, NEW right \in Int, NEW l \in Int, NEW r \in Int,
         left <= l, r <= right,
         Rearranged(b, a, left, right), Rearranged(c, b, l, r)
  PROVE  Rearranged(c, a, left, right)
<1>1. PICK f : RearrangedBy(f, b, a, left, right)
  BY Zenon DEF Rearranged
<1>2. PICK g : RearrangedBy(g, c, b, l, r)
  BY Zenon DEF Rearranged
<1> DEFINE D == 0 .. last
           h == [i \in D |-> f[g[i]]]
<1>3. /\ f \in [D -> D] /\ \A i, j \in D : f[i] = f[j] => i = j
      /\ \A j \in D : \E i \in D : f[i] = j
      /\ \A i \in D : IF i \in left .. right THEN f[i] \in left .. right ELSE f[i] = i
      /\ \A i \in D : b[i] = a[f[i]]
  BY <1>1 DEF RearrangedBy, Arrays
<1>4. /\ g \in [D -> D] /\ \A i, j \in D : g[i] = g[j] => i = j
      /\ \A j \in D : \E i \in D : g[i] = j
      /\ \A i \in D : IF i \in l .. r THEN g[i] \in l .. r ELSE g[i] = i
      /\ \A i \in D : c[i] = b[g[i]]
  BY <1>2 DEF RearrangedBy, Arrays
<1>5. \A i \in D : i \in Int
  OBVIOUS
<1> HIDE DEF D
<1>6. h \in [D -> D] /\ \A i, j \in D : h[i] = h[j] => i = j
  BY <1>3, <1>4
<1>7. \A j \in D : \E i \in D : h[i] = j
  <2> SUFFICES ASSUME NEW j \in D PROVE \E i \in D : h[i] = j
    OBVIOUS
  <2>1. PICK k \in D : f[k] = j
    BY <1>3
  <2>2. PICK i \in D : g[i] = k
    BY <1>4
  <2>3. h[i] = j
    BY <2>1, <2>2
  <2>4. QED
    BY <2>3
<1>8. \A i \in D : IF i \in left .. right THEN h[i] \in left .. right ELSE h[i] = i
  <2> SUFFICES ASSUME NEW i \in D
               PROVE  IF i \in left .. right THEN h[i] \in left .. right ELSE h[i] = i
    OBVIOUS
  <2>1. g[i] \in D /\ h[i] = f[g[i]]
    BY <1>4
  <2>2. \A k \in l .. r : k \in left .. right
    OBVIOUS
  <2>3. g[i] \in left .. right <=> i \in left .. right
    BY <1>4, <2>2
  <2>4. CASE i \in left .. right
    BY <1>3, <2>1, <2>3, <2>4
  <2>5. CASE i \notin left .. right
    BY <1>3, <1>4, <2>1, <2>2, <2>5
  <2>6. QED
    BY <2>4, <2>5
<1>9. \A i \in D : c[i] = a[h[i]]
  BY <1>3, <1>4
<1>10. RearrangedBy(h, c, a, left, right)
  <2>1. DOMAIN a = D
    BY DEF Arrays, D
  <2>2. QED
    BY <1>6, <1>7, <1>8, <1>9, <2>1, Zenon DEF RearrangedBy
<1>11. QED
  BY <1>10, Zenon DEF Rearranged

\* Swapping two elements of a slice rearranges it.
LEMMA SwapRearranges ==
  ASSUME NEW last \in Nat, NEW a \in Arrays(last), NEW left \in Int, NEW right \in Int,
         NEW i \in 0 .. last, NEW j \in 0 .. last, i \in left .. right, j \in left .. right
  PROVE  /\ Swap(a, i, j) \in Arrays(last)
         /\ Swap(a, i, j)[i] = a[j] /\ Swap(a, i, j)[j] = a[i]
         /\ \A k \in 0 .. last : k # i /\ k # j => Swap(a, i, j)[k] = a[k]
         /\ Rearranged(Swap(a, i, j), a, left, right)
<1> DEFINE D == 0 .. last
           b == Swap(a, i, j)
           from == [k \in D |-> IF k = i THEN j ELSE IF k = j THEN i ELSE k]
<1>1. /\ b \in Arrays(last) /\ b[i] = a[j] /\ b[j] = a[i]
      /\ \A k \in D : k # i /\ k # j => b[k] = a[k]
  BY DEF Swap, Arrays
<1>2. DOMAIN a = D /\ i \in D /\ j \in D
  BY DEF Arrays
<1> HIDE DEF D, b
<1>3. from \in [D -> D] /\ \A k, m \in D : from[k] = from[m] => k = m
  BY <1>2
<1>4. \A m \in D : \E k \in D : from[k] = m
  <2> SUFFICES ASSUME NEW m \in D PROVE \E k \in D : from[k] = m
    OBVIOUS
  <2>1. from[from[m]] = m /\ from[m] \in D
    BY <1>2
  <2>2. QED
    BY <2>1
<1>5. \A k \in D : IF k \in left .. right THEN from[k] \in left .. right ELSE from[k] = k
  BY <1>2
<1>6. \A k \in D : b[k] = a[from[k]]
  BY <1>1, <1>2
<1>7. RearrangedBy(from, b, a, left, right)
  BY <1>2, <1>3, <1>4, <1>5, <1>6, Zenon DEF RearrangedBy
<1>8. QED
  BY <1>1, <1>7, Zenon DEF Rearranged, D, b

-----------------------------------------------------------------------------
\* The scan upwards stops at the first element that is not less than the pivot,
\* if there is one.
LEMMA ScanUpStops ==
  ASSUME NEW last \in Nat, NEW a \in Arrays(last), NEW i \in Nat, NEW pivot \in Int,
         NEW stop \in 0 .. last, i <= stop, a[stop] >= pivot
  PROVE  LET up == ScanUp(a, i, pivot)
         IN  /\ up \in 0 .. last /\ i <= up /\ up <= stop /\ a[up] >= pivot
             /\ \A m \in i .. (up - 1) : a[m] < pivot
<1> DEFINE S == {k \in 0 .. last : k >= i /\ a[k] >= pivot}
           P(k) == k >= i /\ a[k] >= pivot /\ \A m \in i .. (k - 1) : a[m] < pivot
<1>1. DOMAIN a = 0 .. last /\ \A k \in 0 .. last : a[k] \in Int
  BY DEF Arrays
<1>2. S \subseteq Nat /\ stop \in S
  OBVIOUS
<1>3. PICK first \in S : \A m \in S : first <= m
  <2> HIDE DEF S
  <2>1. QED
    BY <1>2, LeastNatural
<1>4. first \in DOMAIN a /\ P(first)
  <2>1. \A m \in i .. (first - 1) : m \in 0 .. last /\ m \notin S
    BY <1>3
  <2>2. QED
    BY <1>1, <1>3, <2>1
<1> DEFINE up == CHOOSE k \in DOMAIN a : P(k)
<1>5. up \in DOMAIN a /\ P(up)
  <2> HIDE DEF P
  <2>1. QED
    BY <1>4, Zenon
<1>6. up = ScanUp(a, i, pivot)
  BY DEF ScanUp
<1> HIDE DEF up
<1>7. up <= stop
  BY <1>1, <1>5, SMTT(30)
<1>8. QED
  BY <1>1, <1>5, <1>6, <1>7

\* So does the scan downwards.
LEMMA ScanDownStops ==
  ASSUME NEW last \in Nat, NEW a \in Arrays(last), NEW j \in Int, j <= last, NEW pivot \in Int,
         NEW stop \in 0 .. last, stop <= j, a[stop] <= pivot
  PROVE  LET down == ScanDown(a, j, pivot)
         IN  /\ down \in 0 .. last /\ down <= j /\ stop <= down /\ a[down] <= pivot
             /\ \A m \in (down + 1) .. j : a[m] > pivot
<1> DEFINE S == {n \in 0 .. j : a[j - n] <= pivot}
           P(k) == k <= j /\ a[k] <= pivot /\ \A m \in (k + 1) .. j : a[m] > pivot
<1>1. DOMAIN a = 0 .. last /\ \A k \in 0 .. last : a[k] \in Int
  BY DEF Arrays
<1>2. S \subseteq Nat /\ j - stop \in S
  <2>1. j - stop \in 0 .. j /\ j - (j - stop) = stop
    OBVIOUS
  <2>2. QED
    BY <2>1
<1>3. PICK n \in S : \A m \in S : n <= m
  <2> HIDE DEF S
  <2>1. QED
    BY <1>2, LeastNatural
<1>4. j - n \in DOMAIN a /\ P(j - n)
  <2>1. n \in 0 .. j /\ a[j - n] <= pivot /\ j - n \in 0 .. last
    BY <1>3
  <2>2. ASSUME NEW m \in (j - n + 1) .. j PROVE a[m] > pivot
    <3>1. j - m \in 0 .. j /\ j - m < n /\ j - (j - m) = m /\ m \in 0 .. last
      BY <2>1
    <3>2. j - m \notin S
      BY <1>3, <3>1
    <3>3. ~(a[m] <= pivot)
      BY <3>1, <3>2
    <3>4. QED
      BY <1>1, <3>1, <3>3
  <2>3. QED
    BY <1>1, <2>1, <2>2
<1> DEFINE down == CHOOSE k \in DOMAIN a : P(k)
<1>5. down \in DOMAIN a /\ P(down)
  <2> HIDE DEF P
  <2>1. QED
    BY <1>4, Zenon
<1>6. down = ScanDown(a, j, pivot)
  BY DEF ScanDown
<1> HIDE DEF down
<1>7. stop <= down
  BY <1>1, <1>5, SMTT(30)
<1>8. QED
  BY <1>1, <1>5, <1>6, <1>7

-----------------------------------------------------------------------------
\* Two elements in order.
LEMMA SwapIfGreaterOrders ==
  ASSUME NEW last \in Nat, NEW a \in Arrays(last), NEW left \in Int, NEW right \in Int,
         NEW i \in 0 .. last, NEW j \in 0 .. last, i \in left .. right, j \in left .. right
  PROVE  LET b == SwapIfGreater(a, i, j)
         IN  /\ b \in Arrays(last) /\ b[i] <= b[j]
             /\ (b[i] = a[i] /\ b[j] = a[j]) \/ (b[i] = a[j] /\ b[j] = a[i])
             /\ \A k \in 0 .. last : k # i /\ k # j => b[k] = a[k]
             /\ Rearranged(b, a, left, right)
<1>1. a[i] \in Int /\ a[j] \in Int
  BY DEF Arrays
<1> DEFINE c == Swap(a, i, j)
<1>0. /\ c \in Arrays(last) /\ c[i] = a[j] /\ c[j] = a[i]
      /\ \A k \in 0 .. last : k # i /\ k # j => c[k] = a[k]
      /\ Rearranged(c, a, left, right)
  BY SwapRearranges, SMTT(30)
<1> HIDE DEF c
<1>2. CASE a[i] > a[j]
  <2>1. SwapIfGreater(a, i, j) = c
    BY <1>2 DEF SwapIfGreater, c
  <2>2. QED
    BY <1>0, <1>1, <1>2, <2>1
<1>3. CASE ~(a[i] > a[j])
  <2>1. SwapIfGreater(a, i, j) = a
    BY <1>3 DEF SwapIfGreater
  <2>2. QED
    BY <1>1, <1>3, <2>1, RearrangedItself
<1>4. QED
  BY <1>2, <1>3

\* The median lies between the two ends, in value and in place.
LEMMA MedianLies ==
  ASSUME NEW last \in Nat, NEW a \in Arrays(last), NEW left \in 0 .. last, NEW right \in 0 .. last,
         left < right
  PROVE  LET b   == MedianOfThree(a, left, right)
             mid == (left + right) \div 2
         IN  /\ b \in Arrays(last) /\ Rearranged(b, a, left, right)
             /\ mid \in left .. (right - 1)
             /\ b[left] <= b[mid] /\ b[mid] <= b[right]
<1> DEFINE mid == (left + right) \div 2
           x == SwapIfGreater(a, left, mid)
           y == SwapIfGreater(x, left, right)
           z == SwapIfGreater(y, mid, right)
<1>1. mid \in left .. (right - 1) /\ mid \in 0 .. last
  OBVIOUS
<1>2. MedianOfThree(a, left, right) = z
  BY DEF MedianOfThree
<1> HIDE DEF mid
<1>3. left \in left .. right /\ right \in left .. right /\ mid \in left .. right
  BY <1>1
<1>4. x \in Arrays(last) /\ Rearranged(x, a, left, right) /\ x[left] <= x[mid]
  BY <1>1, <1>3, SwapIfGreaterOrders
<1> HIDE DEF x
<1>5. /\ y \in Arrays(last) /\ Rearranged(y, x, left, right) /\ y[left] <= y[right]
      /\ y[left] = x[left] \/ (y[left] = x[right] /\ y[right] = x[left])
      /\ \A k \in 0 .. last : k # left /\ k # right => y[k] = x[k]
  <2>1. x \in Arrays(last)
    BY <1>4
  <2>2. left \in Int /\ right \in Int
    OBVIOUS
  <2>3. QED
    BY <1>3, <2>1, <2>2, SwapIfGreaterOrders, SMTT(30)
<1>6. y[left] <= y[mid]
  <2>1. CASE mid = left
    BY <1>5, <2>1 DEF Arrays
  <2>2. CASE mid # left
    <3>1. y[mid] = x[mid]
      BY <1>1, <1>5, <2>2
    <3>2. y[left] <= x[left]
      <4>1. y[left] \in Int /\ y[right] \in Int /\ x[left] \in Int /\ x[right] \in Int
        BY <1>4, <1>5 DEF Arrays
      <4>2. x[left] = y[left] \/ x[left] = y[right]
        BY <1>5
      <4>3. QED
        BY <1>5, <4>1, <4>2
    <3>3. QED
      BY <1>1, <1>4, <1>5, <3>1, <3>2 DEF Arrays
  <2>3. QED
    BY <2>1, <2>2
<1> HIDE DEF y
<1>7. /\ z \in Arrays(last) /\ Rearranged(z, y, left, right) /\ z[mid] <= z[right]
      /\ z[mid] = y[mid] \/ z[mid] = y[right]
      /\ \A k \in 0 .. last : k # mid /\ k # right => z[k] = y[k]
  <2>1. y \in Arrays(last) /\ mid \in 0 .. last
    BY <1>1, <1>5
  <2>2. left \in Int /\ right \in Int
    OBVIOUS
  <2>3. QED
    BY <1>3, <2>1, <2>2, SwapIfGreaterOrders, SMTT(30)
<1>8. z[left] <= z[mid]
  <2>1. /\ z[left] \in Int /\ z[mid] \in Int /\ y[left] \in Int /\ y[mid] \in Int
        /\ y[right] \in Int
    BY <1>1, <1>5, <1>7 DEF Arrays
  <2>2. CASE mid = left
    BY <2>1, <2>2
  <2>3. CASE mid # left
    <3>1. z[left] = y[left]
      BY <1>7, <2>3
    <3>2. z[mid] = y[mid] \/ z[mid] = y[right]
      BY <1>7
    <3>3. QED
      BY <1>5, <1>6, <3>1, <3>2
  <2>4. QED
    BY <2>2, <2>3
<1> HIDE DEF z
<1>9. Rearranged(y, a, left, right)
  BY <1>4, <1>5, RearrangedAgain
<1>10. Rearranged(z, a, left, right)
  BY <1>5, <1>7, <1>9, RearrangedAgain
<1>11. QED
  BY <1>1, <1>2, <1>7, <1>8, <1>10 DEF mid

-----------------------------------------------------------------------------
\* What Hoare's loop keeps true.  What I has passed is not above the pivot and what J
\* has passed is not below it; each scan has an element to stop at, and the scan
\* upwards one before the end of the slice until J has left it.
LoopInv(s, a, last, left, right, pivot) ==
  /\ s \in [array : Arrays(last), I : Nat, J : Int]
  /\ Rearranged(s.array, a, left, right)
  /\ left <= s.I /\ s.J <= right
  /\ \A m \in left .. (s.I - 1) : s.array[m] <= pivot
  /\ \A m \in (s.J + 1) .. right : s.array[m] >= pivot
  /\ \E k \in left .. right : s.I <= k /\ s.array[k] >= pivot /\ (s.J = right => k < right)
  /\ \E k \in left .. right : k <= s.J /\ s.array[k] <= pivot

\* The scans of the state s have met.
Met(s, pivot) == ScanUp(s.array, s.I, pivot) >= ScanDown(s.array, s.J, pivot)

\* A round keeps the invariant, and I and J approach unless the scans have met.
LEMMA RoundKeeps ==
  ASSUME NEW last \in Nat, NEW left \in 0 .. last, NEW right \in 0 .. last, left < right,
         NEW a \in Arrays(last), NEW pivot \in Int, NEW s, LoopInv(s, a, last, left, right, pivot)
  PROVE  /\ LoopInv(Round(s, pivot), a, last, left, right, pivot)
         /\ Met(s, pivot) => Round(s, pivot) = s
         /\ ~Met(s, pivot) => /\ s.I < s.J
                              /\ Round(s, pivot).I > s.I /\ Round(s, pivot).J < s.J
<1> DEFINE up   == ScanUp(s.array, s.I, pivot)
           down == ScanDown(s.array, s.J, pivot)
           t == [array |-> Swap(s.array, up, down), I |-> up + 1, J |-> down - 1]
<1>1. CASE Met(s, pivot)
  <2>1. Round(s, pivot) = s
    BY <1>1 DEF Round, Met
  <2>2. QED
    BY <1>1, <2>1
<1>2. CASE ~Met(s, pivot)
  <2>1. /\ s.array \in Arrays(last) /\ s.I \in Nat /\ s.J \in Int /\ left <= s.I /\ s.J <= right
        /\ \A m \in left .. (s.I - 1) : s.array[m] <= pivot
        /\ \A m \in (s.J + 1) .. right : s.array[m] >= pivot
        /\ Rearranged(s.array, a, left, right)
    BY DEF LoopInv
  <2>2. PICK k \in left .. right : s.I <= k /\ s.array[k] >= pivot
    BY DEF LoopInv
  <2>3. PICK n \in left .. right : n <= s.J /\ s.array[n] <= pivot
    BY DEF LoopInv
  <2>4. k \in 0 .. last /\ n \in 0 .. last /\ s.J <= last
    BY <2>1
  <2>5. /\ up \in 0 .. last /\ s.I <= up /\ up <= k /\ s.array[up] >= pivot
        /\ \A m \in s.I .. (up - 1) : s.array[m] < pivot
    BY <2>1, <2>2, <2>4, ScanUpStops
  <2>6. /\ down \in 0 .. last /\ down <= s.J /\ n <= down /\ s.array[down] <= pivot
        /\ \A m \in (down + 1) .. s.J : s.array[m] > pivot
    BY <2>1, <2>3, <2>4, ScanDownStops
  <2>7. ~(up >= down) /\ Round(s, pivot) = t
    BY <1>2 DEF Met, Round
  <2> HIDE DEF up, down
  <2>8. up < down /\ up \in left .. right /\ down \in left .. right
    BY <2>1, <2>5, <2>6, <2>7
  <2> DEFINE b == Swap(s.array, up, down)
  <2>0. left \in Int /\ right \in Int
    OBVIOUS
  <2>9. /\ b \in Arrays(last) /\ b[up] = s.array[down] /\ b[down] = s.array[up]
        /\ \A m \in 0 .. last : m # up /\ m # down => b[m] = s.array[m]
        /\ Rearranged(b, s.array, left, right)
    <3>1. up \in 0 .. last /\ down \in 0 .. last
      BY <2>5, <2>6
    <3>2. s.array \in Arrays(last)
      BY <2>1
    <3>3. ASSUME NEW x \in Arrays(last)
          PROVE  /\ Swap(x, up, down) \in Arrays(last)
                 /\ Swap(x, up, down)[up] = x[down] /\ Swap(x, up, down)[down] = x[up]
                 /\ \A m \in 0 .. last : m # up /\ m # down => Swap(x, up, down)[m] = x[m]
                 /\ Rearranged(Swap(x, up, down), x, left, right)
      BY <2>0, <2>8, <3>1, SwapRearranges
    <3>4. QED
      BY <3>2, <3>3, Zenon
  <2>10. t.array = b /\ t.I = up + 1 /\ t.J = down - 1
    OBVIOUS
  <2>11. t \in [array : Arrays(last), I : Nat, J : Int]
    BY <2>5, <2>6, <2>9
  <2> HIDE DEF b, t
  <2>12. Rearranged(b, a, left, right)
    BY <2>1, <2>9, RearrangedAgain
  <2>13. ASSUME NEW m \in left .. up PROVE b[m] <= pivot
    <3>0. m \in 0 .. last
      <4>1. up \in 0 .. last
        BY <2>5
      <4>2. QED
        BY <4>1
    <3>1. m \in 0 .. last /\ s.array[m] \in Int
      BY <2>1, <3>0 DEF Arrays
    <3>2. CASE m = up
      BY <2>6, <2>9, <3>2
    <3>3. CASE m < s.I
      BY <2>1, <2>5, <2>8, <2>9, <3>1, <3>3
    <3>4. CASE s.I <= m /\ m < up
      BY <2>1, <2>5, <2>8, <2>9, <3>1, <3>4
    <3>5. QED
      BY <2>1, <2>5, <3>2, <3>3, <3>4
  <2>14. ASSUME NEW m \in down .. right PROVE b[m] >= pivot
    <3>0. m \in 0 .. last
      <4>1. down \in 0 .. last
        BY <2>6
      <4>2. QED
        BY <4>1
    <3>1. m \in 0 .. last /\ s.array[m] \in Int
      BY <2>1, <3>0 DEF Arrays
    <3>2. CASE m = down
      BY <2>5, <2>9, <3>2
    <3>3. CASE m > s.J
      BY <2>1, <2>6, <2>8, <2>9, <3>1, <3>3
    <3>4. CASE m <= s.J /\ m > down
      BY <2>1, <2>6, <2>8, <2>9, <3>1, <3>4
    <3>5. QED
      BY <2>1, <2>6, <3>2, <3>3, <3>4
  <2>15. b[down] >= pivot /\ b[up] <= pivot
    BY <2>5, <2>6, <2>9
  <2>16. LoopInv(t, a, last, left, right, pivot)
    <3>1. left <= t.I /\ t.J <= right
      BY <2>5, <2>6, <2>8, <2>10
    <3>2. \A m \in left .. (t.I - 1) : t.array[m] <= pivot
      BY <2>5, <2>10, <2>13
    <3>3. \A m \in (t.J + 1) .. right : t.array[m] >= pivot
      BY <2>6, <2>10, <2>14
    <3>4. \E m \in left .. right : t.I <= m /\ t.array[m] >= pivot /\ (t.J = right => m < right)
      <4>1. t.I <= down /\ t.J # right
        BY <2>5, <2>6, <2>8, <2>10
      <4>2. QED
        BY <2>8, <2>10, <2>15, <4>1
    <3>5. \E m \in left .. right : m <= t.J /\ t.array[m] <= pivot
      <4>1. up <= t.J
        BY <2>5, <2>6, <2>8, <2>10
      <4>2. QED
        BY <2>8, <2>10, <2>15, <4>1
    <3>6. QED
      BY <2>10, <2>11, <2>12, <3>1, <3>2, <3>3, <3>4, <3>5, Zenon DEF LoopInv
  <2>17. s.I < s.J /\ t.I > s.I /\ t.J < s.J
    BY <2>1, <2>5, <2>6, <2>8, <2>10
  <2>18. QED
    BY <1>2, <2>7, <2>16, <2>17
<1>3. QED
  BY <1>1, <1>2

\* The rounds of Hoare's loop.
AreRounds(after, a, left, right, pivot) ==
  after = [n \in 0 .. (right - left) |->
             IF n = 0 THEN [array |-> a, I |-> left, J |-> right]
             ELSE Round(after[n - 1], pivot)]

\* The loop has its rounds, whatever it starts from, and the last of them is where
\* the scans have met.
LEMMA LoopEnds ==
  ASSUME NEW last \in Nat, NEW left \in 0 .. last, NEW right \in 0 .. last, left < right,
         NEW a \in Arrays(last), NEW pivot \in Int,
         LoopInv([array |-> a, I |-> left, J |-> right], a, last, left, right, pivot)
  PROVE  \E s : /\ LoopInv(s, a, last, left, right, pivot) /\ Met(s, pivot)
                /\ HoareLoop(a, left, right, pivot) =
                     [array |-> s.array, J |-> ScanDown(s.array, s.J, pivot)]
<1> DEFINE start == [array |-> a, I |-> left, J |-> right]
           S == {s \in [array : Arrays(last), I : Nat, J : Int] :
                   LoopInv(s, a, last, left, right, pivot)}
           N == right - left
           step == [s \in S |-> Round(s, pivot)]
           G == [n \in 1 .. N |-> step]
<1>1. N \in Nat /\ N > 0
  OBVIOUS
<1>2. start \in S
  BY DEF LoopInv
<1>3. \A s \in S : Round(s, pivot) \in S
  <2> SUFFICES ASSUME NEW s \in S PROVE Round(s, pivot) \in S
    OBVIOUS
  <2>1. LoopInv(Round(s, pivot), a, last, left, right, pivot)
    BY RoundKeeps
  <2>2. QED
    BY <2>1 DEF LoopInv
<1>4. start.I = left /\ start.J = right
  OBVIOUS
<1>5. \A s \in S : LoopInv(s, a, last, left, right, pivot) /\ s.I \in Nat /\ s.J \in Int
  OBVIOUS
<1> HIDE DEF S, N, start
<1>6. G \in [1 .. N -> [S -> S]]
  BY <1>3
<1>7. PICK f : IsRecursion(f, N, S, start, G)
  <2> HIDE DEF G
  <2>1. QED
    BY <1>1, <1>2, <1>6, PrefixRecursion
<1> DEFINE F(g, n) == IF n = 0 THEN start ELSE Round(g[n - 1], pivot)
<1>8. f = [n \in 0 .. N |-> F(f, n)]
  <2>1. f \in [0 .. N -> S] /\ f[0] = start /\ \A n \in 1 .. N : f[n] = G[n][f[n - 1]]
    BY <1>7, Zenon DEF IsRecursion
  <2>2. \A n \in 1 .. N : f[n - 1] \in S
    BY <1>1, <2>1
  <2>3. \A n \in 1 .. N : f[n] = Round(f[n - 1], pivot)
    BY <2>1, <2>2
  <2>4. \A n \in 0 .. N : f[n] = F(f, n)
    BY <1>1, <2>1, <2>3
  <2> HIDE DEF F
  <2>5. QED
    BY <2>1, <2>4
<1> DEFINE after == CHOOSE g : AreRounds(g, a, left, right, pivot)
<1>9. AreRounds(after, a, left, right, pivot)
  <2>1. AreRounds(f, a, left, right, pivot)
    BY <1>8, Zenon DEF AreRounds, N, start
  <2>2. QED
    BY <2>1, Zenon
<1>10. HoareLoop(a, left, right, pivot) =
         [array |-> after[N].array, J |-> ScanDown(after[N].array, after[N].J, pivot)]
  BY DEF HoareLoop, AreRounds, N
<1> HIDE DEF after
<1>11. after[0] = start /\ \A n \in 1 .. N : after[n] = Round(after[n - 1], pivot)
  <2>1. after = [n \in 0 .. N |-> F(after, n)]
    BY <1>9, Zenon DEF AreRounds, N, start
  <2>2. F(after, 0) = start /\ \A n \in 1 .. N : F(after, n) = Round(after[n - 1], pivot)
    BY <1>1
  <2> HIDE DEF F
  <2>3. after[0] = F(after, 0) /\ \A n \in 1 .. N : after[n] = F(after, n)
    BY <1>1, <2>1
  <2>4. QED
    BY <2>2, <2>3, Zenon
<1> DEFINE T == {n \in 0 .. N :
                   /\ after[n] \in S
                   /\ Met(after[n], pivot) \/ (after[n].I >= left + n /\ after[n].J <= right - n)}
<1>12. 0 \in T
  BY <1>1, <1>2, <1>4, <1>11
<1>13. ASSUME NEW n \in 1 .. N, n - 1 \in T PROVE n \in T
  <2> DEFINE s == after[n - 1]
             t == after[n]
  <2>1. /\ s \in S /\ t = Round(s, pivot)
        /\ Met(s, pivot) \/ (s.I >= left + (n - 1) /\ s.J <= right - (n - 1))
    BY <1>11, <1>13
  <2>2. t \in S /\ n \in 0 .. N
    BY <1>1, <1>3, <2>1
  <2> HIDE DEF s, t
  <2>3. /\ Met(s, pivot) => t = s
        /\ ~Met(s, pivot) => t.I > s.I /\ t.J < s.J
    BY <1>5, <2>1, RoundKeeps
  <2>4. Met(t, pivot) \/ (t.I >= left + n /\ t.J <= right - n)
    <3>1. CASE Met(s, pivot)
      BY <2>3, <3>1
    <3>2. CASE ~Met(s, pivot)
      <4>1. s.I \in Nat /\ s.J \in Int /\ t.I \in Nat /\ t.J \in Int
        BY <1>5, <2>1, <2>2
      <4>2. QED
        BY <2>1, <2>3, <3>2, <4>1
    <3>3. QED
      BY <3>1, <3>2
  <2>5. QED
    BY <2>2, <2>4 DEF t
<1>14. N \in T
  <2> HIDE DEF T
  <2>1. 0 .. N \subseteq T
    BY <1>1, <1>12, <1>13, IntervalInduction
  <2>2. QED
    BY <1>1, <2>1
<1> DEFINE s == after[N]
<1>15. s \in S /\ (Met(s, pivot) \/ (s.I >= left + N /\ s.J <= right - N))
  BY <1>14
<1> HIDE DEF s
<1>16. Met(s, pivot)
  <2> SUFFICES ASSUME ~Met(s, pivot) PROVE FALSE
    OBVIOUS
  <2>1. s.I < s.J
    BY <1>5, <1>15, RoundKeeps
  <2>2. s.I \in Nat /\ s.J \in Int
    BY <1>5, <1>15
  <2>3. QED
    BY <1>15, <2>1, <2>2 DEF N
<1>17. LoopInv(s, a, last, left, right, pivot)
  BY <1>5, <1>15
<1>18. QED
  BY <1>10, <1>16, <1>17 DEF s

\* A partition splits its slice into two that are not empty, the elements of the
\* first not above those of the second, and leaves the rest of the array alone.
LEMMA PartitionSplits ==
  ASSUME NEW last \in Nat, NEW left \in 0 .. last, NEW right \in 0 .. last, left < right,
         NEW a \in Arrays(last)
  PROVE  LET parted == Partition(a, left, right)
         IN  /\ parted.array \in Arrays(last)
             /\ Rearranged(parted.array, a, left, right)
             /\ parted.J \in left .. (right - 1)
             /\ \A i \in left .. parted.J, j \in (parted.J + 1) .. right :
                  parted.array[i] <= parted.array[j]
<1> DEFINE b     == MedianOfThree(a, left, right)
           mid   == (left + right) \div 2
           pivot == b[mid]
           start == [array |-> b, I |-> left, J |-> right]
<1>1. /\ b \in Arrays(last) /\ Rearranged(b, a, left, right) /\ mid \in left .. (right - 1)
      /\ b[left] <= b[mid] /\ b[mid] <= b[right]
  BY MedianLies
<1> HIDE DEF b, mid
<1>2. pivot \in Int
  BY <1>1 DEF Arrays
<1>3. LoopInv(start, b, last, left, right, pivot)
  <2>1. start.array = b /\ start.I = left /\ start.J = right
    OBVIOUS
  <2>2. start \in [array : Arrays(last), I : Nat, J : Int]
    BY <1>1
  <2>3. Rearranged(b, b, left, right)
    BY <1>1, RearrangedItself
  <2>4. left .. left - 1 = {} /\ (right + 1) .. right = {}
    OBVIOUS
  <2> HIDE DEF start
  <2>5. \E k \in left .. right : start.I <= k /\ b[k] >= pivot /\ (start.J = right => k < right)
    BY <1>1, <1>2, <2>1
  <2>6. \E k \in left .. right : k <= start.J /\ b[k] <= pivot
    BY <1>1, <1>2, <2>1
  <2>7. QED
    BY <2>1, <2>2, <2>3, <2>4, <2>5, <2>6 DEF LoopInv
<1> HIDE DEF pivot
<1>4. PICK s : /\ LoopInv(s, b, last, left, right, pivot) /\ Met(s, pivot)
               /\ HoareLoop(b, left, right, pivot) =
                    [array |-> s.array, J |-> ScanDown(s.array, s.J, pivot)]
  BY <1>1, <1>2, <1>3, LoopEnds
<1> DEFINE c    == s.array
           up   == ScanUp(c, s.I, pivot)
           down == ScanDown(c, s.J, pivot)
<1>5. Partition(a, left, right) = [array |-> c, J |-> down]
  BY <1>4 DEF Partition, b, mid, pivot
<1>6. /\ c \in Arrays(last) /\ Rearranged(c, b, left, right) /\ s.I \in Nat /\ s.J \in Int
      /\ left <= s.I /\ s.J <= right
      /\ \A m \in left .. (s.I - 1) : c[m] <= pivot
      /\ \A m \in (s.J + 1) .. right : c[m] >= pivot
  BY <1>4 DEF LoopInv
<1>7. PICK k \in left .. right : s.I <= k /\ c[k] >= pivot /\ (s.J = right => k < right)
  BY <1>4 DEF LoopInv
<1>8. PICK n \in left .. right : n <= s.J /\ c[n] <= pivot
  BY <1>4 DEF LoopInv
<1>9. up >= down
  BY <1>4 DEF Met
<1> HIDE DEF c
<1>10. /\ up \in 0 .. last /\ s.I <= up /\ up <= k /\ c[up] >= pivot
       /\ \A m \in s.I .. (up - 1) : c[m] < pivot
  <2>1. k \in 0 .. last
    OBVIOUS
  <2>2. QED
    BY <1>2, <1>6, <1>7, <2>1, ScanUpStops
<1>11. /\ down \in 0 .. last /\ down <= s.J /\ n <= down /\ c[down] <= pivot
       /\ \A m \in (down + 1) .. s.J : c[m] > pivot
  <2>1. n \in 0 .. last /\ s.J <= last
    BY <1>6
  <2>2. QED
    BY <1>2, <1>6, <1>8, <2>1, ScanDownStops
<1> HIDE DEF up, down
<1>12. down \in left .. (right - 1)
  BY <1>6, <1>7, <1>9, <1>10, <1>11
<1>13. ASSUME NEW m \in left .. down PROVE c[m] <= pivot
  <2>0. m \in 0 .. last
    BY <1>12
  <2>1. c[m] \in Int
    BY <1>6, <2>0 DEF Arrays
  <2>2. CASE m < s.I
    BY <1>6, <2>2
  <2>3. CASE s.I <= m /\ m < up
    BY <1>2, <1>6, <1>10, <2>1, <2>3
  <2>4. CASE m = down
    BY <1>11, <2>4
  <2>5. QED
    BY <1>6, <1>9, <1>10, <1>12, <2>2, <2>3, <2>4
<1>14. ASSUME NEW m \in (down + 1) .. right PROVE c[m] >= pivot
  <2>0. m \in 0 .. last
    BY <1>12
  <2>1. c[m] \in Int
    BY <1>6, <2>0 DEF Arrays
  <2>2. CASE m > s.J
    BY <1>6, <2>2
  <2>3. CASE m <= s.J
    BY <1>2, <1>6, <1>11, <2>1, <2>3
  <2>4. QED
    BY <1>6, <2>2, <2>3
<1>15. \A i \in left .. down, j \in (down + 1) .. right : c[i] <= c[j]
  <2> SUFFICES ASSUME NEW i \in left .. down, NEW j \in (down + 1) .. right PROVE c[i] <= c[j]
    OBVIOUS
  <2>1. i \in 0 .. last /\ j \in 0 .. last
    BY <1>12
  <2>2. c[i] \in Int /\ c[j] \in Int
    BY <1>6, <2>1 DEF Arrays
  <2>3. c[i] <= pivot /\ c[j] >= pivot
    BY <1>13, <1>14
  <2>4. QED
    BY <1>2, <2>2, <2>3
<1>16. Rearranged(c, a, left, right)
  BY <1>1, <1>6, RearrangedAgain
<1>17. QED
  BY <1>5, <1>6, <1>12, <1>15, <1>16

-----------------------------------------------------------------------------
\* The result b of sorting a slice.
IsSortOf(b, s, last) ==
  /\ b \in Arrays(last)
  /\ Rearranged(b, s.array, s.left, s.right)
  /\ \A i, j \in 0 .. last : i \in s.left .. s.right /\ j \in s.left .. s.right /\ i < j
       => b[i] <= b[j]

\* The slices of arrays of last + 1 integers that are not longer than n + 1.
Short(last, n) ==
  {s \in [array : Arrays(last), left : Nat, right : 0 .. last] : s.right - s.left <= n}

LowerSlice(s) ==
  LET parted == Partition(s.array, s.left, s.right)
  IN  [array |-> parted.array, left |-> s.left, right |-> parted.J]

UpperSlice(f, s) ==
  LET parted == Partition(s.array, s.left, s.right)
      lower  == f[[array |-> parted.array, left |-> s.left, right |-> parted.J]]
  IN  [array |-> lower, left |-> RightHalf(parted.J), right |-> s.right]

\* One call of the sort, whose own calls are answered by f.
SortOnce(f, s) == IF s.left >= s.right THEN s.array ELSE f[UpperSlice(f, s)]

\* A call that is answered correctly sorts, and calls itself on shorter slices only.
LEMMA CallSorts ==
  ASSUME NEW last \in Nat, NEW n \in Nat, NEW s \in Short(last, n), NEW f,
         \A t \in Short(last, n) : t.right - t.left < s.right - s.left => IsSortOf(f[t], t, last)
  PROVE  /\ IsSortOf(SortOnce(f, s), s, last)
         /\ s.left < s.right =>
              /\ LowerSlice(s) \in Short(last, n - 1)
              /\ UpperSlice(f, s) \in Short(last, n - 1)
              /\ n > 0
<1>1. s.array \in Arrays(last) /\ s.left \in Nat /\ s.right \in 0 .. last
      /\ s.right - s.left <= n
  BY DEF Short
<1>2. CASE s.left >= s.right
  <2>1. SortOnce(f, s) = s.array
    BY <1>2 DEF SortOnce
  <2>2. Rearranged(s.array, s.array, s.left, s.right)
    BY <1>1, RearrangedItself
  <2>3. QED
    BY <1>1, <1>2, <2>1, <2>2 DEF IsSortOf
<1>3. CASE s.left < s.right
  <2> DEFINE l == s.left
             r == s.right
             b == Partition(s.array, l, r).array
             J == Partition(s.array, l, r).J
             lo == [array |-> b, left |-> l, right |-> J]
             c  == f[lo]
             hi == [array |-> c, left |-> J + 1, right |-> r]
             d  == f[hi]
  <2>1. l \in 0 .. last /\ r \in 0 .. last /\ l < r
    BY <1>1, <1>3
  <2>2. LowerSlice(s) = lo /\ UpperSlice(f, s) = hi /\ SortOnce(f, s) = d
    BY <1>1, <1>3 DEF LowerSlice, UpperSlice, SortOnce, RightHalf
  <2>3. /\ b \in Arrays(last) /\ Rearranged(b, s.array, l, r) /\ J \in l .. (r - 1)
        /\ \A i \in l .. J, j \in (J + 1) .. r : b[i] <= b[j]
    BY <1>1, <2>1, PartitionSplits
  <2> HIDE DEF b, J
  <2>4. lo.array = b /\ lo.left = l /\ lo.right = J
    OBVIOUS
  <2>5. lo \in Short(last, n - 1) /\ lo \in Short(last, n) /\ lo.right - lo.left < s.right - s.left
    <3>1. J - l <= n - 1 /\ J \in 0 .. last /\ J - l < r - l
      BY <1>1, <2>1, <2>3
    <3>2. QED
      BY <1>1, <2>1, <2>3, <3>1 DEF Short
  <2>6. IsSortOf(c, lo, last)
    BY <2>5
  <2> HIDE DEF lo, c
  <2>7. /\ c \in Arrays(last) /\ Rearranged(c, b, l, J)
        /\ \A i, j \in 0 .. last : i \in l .. J /\ j \in l .. J /\ i < j => c[i] <= c[j]
    BY <2>4, <2>6 DEF IsSortOf
  <2>8. hi.array = c /\ hi.left = J + 1 /\ hi.right = r
    OBVIOUS
  <2>9. hi \in Short(last, n - 1) /\ hi \in Short(last, n) /\ hi.right - hi.left < s.right - s.left
    <3>1. r - (J + 1) <= n - 1 /\ J + 1 \in Nat /\ r - (J + 1) < r - l
      BY <1>1, <2>1, <2>3
    <3>2. QED
      BY <1>1, <2>1, <2>7, <3>1 DEF Short
  <2>10. IsSortOf(d, hi, last)
    BY <2>9
  <2> HIDE DEF hi, d
  <2>11. /\ d \in Arrays(last) /\ Rearranged(d, c, J + 1, r)
         /\ \A i, j \in 0 .. last : i \in (J + 1) .. r /\ j \in (J + 1) .. r /\ i < j => d[i] <= d[j]
    BY <2>8, <2>10 DEF IsSortOf
  <2>12. l \in Int /\ r \in Int /\ J \in Int /\ l <= J /\ J < r
    BY <2>1, <2>3
  <2> HIDE DEF l, r
  <2>13. Rearranged(d, s.array, l, r)
    <3>1. Rearranged(c, s.array, l, r)
      BY <1>1, <2>3, <2>7, <2>12, RearrangedAgain
    <3>2. QED
      BY <1>1, <2>7, <2>11, <2>12, <3>1, RearrangedAgain
  <2>14. PICK p : RearrangedBy(p, c, b, l, J)
    BY <2>7, Zenon DEF Rearranged
  <2>15. PICK q : RearrangedBy(q, d, c, J + 1, r)
    BY <2>11, Zenon DEF Rearranged
  <2>16. ASSUME NEW i \in 0 .. last, i \in l .. J PROVE \E k \in l .. J : d[i] = b[k] /\ d[i] = c[i]
    <3>1. i \notin (J + 1) .. r
      BY <2>12, <2>16
    <3>2. d[i] = c[i]
      BY <2>15, <2>7, <3>1 DEF RearrangedBy, Arrays
    <3>3. c[i] = b[p[i]] /\ p[i] \in l .. J
      BY <2>14, <2>3, <2>16 DEF RearrangedBy, Arrays
    <3>4. QED
      BY <3>2, <3>3
  <2>17. ASSUME NEW i \in 0 .. last, i \in (J + 1) .. r PROVE \E k \in (J + 1) .. r : d[i] = b[k]
    <3>1. d[i] = c[q[i]] /\ q[i] \in (J + 1) .. r /\ q[i] \in 0 .. last
      BY <2>15, <2>7, <2>17 DEF RearrangedBy, Arrays
    <3>2. q[i] \notin l .. J
      BY <2>12, <3>1
    <3>3. c[q[i]] = b[q[i]]
      BY <2>14, <2>3, <3>1, <3>2 DEF RearrangedBy, Arrays
    <3>4. QED
      BY <3>1, <3>3
  <2>18. ASSUME NEW i \in 0 .. last, NEW j \in 0 .. last, i \in l .. r, j \in l .. r, i < j
         PROVE  d[i] <= d[j]
    <3>1. CASE i \in l .. J /\ j \in l .. J
      BY <2>7, <2>16, <2>18, <3>1
    <3>2. CASE i \in l .. J /\ j \in (J + 1) .. r
      BY <2>3, <2>16, <2>17, <3>2
    <3>3. CASE i \in (J + 1) .. r /\ j \in (J + 1) .. r
      BY <2>11, <2>18, <3>3
    <3>4. QED
      BY <2>12, <2>18, <3>1, <3>2, <3>3
  <2>19. IsSortOf(d, s, last)
    BY <2>11, <2>13, <2>18 DEF IsSortOf, l, r
  <2>20. n > 0
    BY <1>1, <2>1 DEF l, r
  <2>21. QED
    BY <2>2, <2>5, <2>9, <2>19, <2>20
<1>4. QED
  BY <1>1, <1>2, <1>3

\* A function that sorts all slices of one length or less.
Sorts(f, last, n) == f = [s \in Short(last, n) |-> SortOnce(f, s)]

\* Every such function sorts,
LEMMA SortsSort ==
  ASSUME NEW last \in Nat, NEW n \in Nat, NEW f, Sorts(f, last, n)
  PROVE  \A s \in Short(last, n) : f[s] = SortOnce(f, s) /\ IsSortOf(f[s], s, last)
<1> DEFINE T == {m \in 0 .. n : \A s \in Short(last, m) : IsSortOf(f[s], s, last)}
<1>1. \A s \in Short(last, n) : f[s] = SortOnce(f, s)
  BY Zenon DEF Sorts
<1>2. \A m \in 0 .. n : Short(last, m) \subseteq Short(last, n)
  BY DEF Short
<1>3. ASSUME NEW m \in 0 .. n, NEW s \in Short(last, m),
             \A t \in Short(last, m) : t.right - t.left < s.right - s.left => IsSortOf(f[t], t, last)
      PROVE  IsSortOf(f[s], s, last)
  <2>1. m \in Nat
    OBVIOUS
  <2>2. IsSortOf(SortOnce(f, s), s, last)
    BY <1>3, <2>1, CallSorts
  <2>3. QED
    BY <1>1, <1>2, <2>2
<1>4. 0 \in T
  <2> SUFFICES ASSUME NEW s \in Short(last, 0) PROVE IsSortOf(f[s], s, last)
    OBVIOUS
  <2>1. CASE s.left >= s.right
    <3>1. f[s] = s.array
      BY <1>1, <1>2, <2>1 DEF SortOnce
    <3>2. s.array \in Arrays(last) /\ s.left \in Nat /\ s.right \in Nat
      BY DEF Short
    <3>3. Rearranged(s.array, s.array, s.left, s.right)
      BY <3>2, RearrangedItself
    <3>4. QED
      BY <2>1, <3>1, <3>2, <3>3 DEF IsSortOf
  <2>2. QED
    BY <2>1 DEF Short
<1>5. ASSUME NEW m \in 1 .. n, m - 1 \in T PROVE m \in T
  <2>1. m \in 0 .. n
    OBVIOUS
  <2> SUFFICES ASSUME NEW s \in Short(last, m) PROVE IsSortOf(f[s], s, last)
    BY <2>1
  <2>2. ASSUME NEW t \in Short(last, m), t.right - t.left < s.right - s.left
        PROVE  IsSortOf(f[t], t, last)
    <3>1. t \in Short(last, m - 1)
      BY <2>2 DEF Short
    <3>2. QED
      BY <1>5, <3>1
  <2>3. QED
    BY <1>3, <2>1, <2>2
<1>6. n \in T
  <2> HIDE DEF T
  <2>1. 0 .. n \subseteq T
    BY <1>4, <1>5, IntervalInduction
  <2>2. QED
    BY <2>1
<1>7. QED
  BY <1>1, <1>6

\* and there is one: the recursion ends.
LEMMA SortsExists ==
  ASSUME NEW last \in Nat, NEW n \in Nat
  PROVE  \E f : Sorts(f, last, n)
<1> DEFINE T == {m \in Nat : \E f : Sorts(f, last, m)}
<1>1. 0 \in T
  <2> DEFINE f == [s \in Short(last, 0) |-> s.array]
  <2>1. \A s \in Short(last, 0) : SortOnce(f, s) = s.array
    BY DEF Short, SortOnce
  <2>2. Sorts(f, last, 0)
    BY <2>1, Zenon DEF Sorts
  <2>3. QED
    BY <2>2
<1>2. ASSUME NEW m \in Nat, m \in T PROVE m + 1 \in T
  <2>1. PICK f : Sorts(f, last, m)
    BY <1>2
  <2>2. \A s \in Short(last, m) : f[s] = SortOnce(f, s) /\ IsSortOf(f[s], s, last)
    BY <2>1, SortsSort
  <2> DEFINE g == [s \in Short(last, m + 1) |-> SortOnce(f, s)]
  <2>3. Short(last, m) \subseteq Short(last, m + 1)
    BY DEF Short
  <2>4. \A s \in Short(last, m) : g[s] = f[s]
    BY <2>2, <2>3, Zenon
  <2> HIDE DEF g
  <2>5. ASSUME NEW s \in Short(last, m + 1) PROVE SortOnce(g, s) = SortOnce(f, s)
    <3>1. CASE s.left >= s.right
      BY <3>1 DEF SortOnce
    <3>2. CASE s.left < s.right
      <4>1. \A t \in Short(last, m + 1) : t.right - t.left < s.right - s.left
              => IsSortOf(f[t], t, last)
        <5> SUFFICES ASSUME NEW t \in Short(last, m + 1), t.right - t.left < s.right - s.left
                     PROVE  IsSortOf(f[t], t, last)
          OBVIOUS
        <5>1. t \in Short(last, m)
          BY DEF Short
        <5>2. QED
          BY <2>2, <5>1
      <4>2. /\ LowerSlice(s) \in Short(last, (m + 1) - 1)
            /\ UpperSlice(f, s) \in Short(last, (m + 1) - 1)
        <5>1. m + 1 \in Nat
          OBVIOUS
        <5>2. QED
          BY <3>2, <4>1, <5>1, CallSorts
      <4>3. (m + 1) - 1 = m
        OBVIOUS
      <4>4. g[LowerSlice(s)] = f[LowerSlice(s)]
        BY <2>4, <4>2, <4>3
      <4>5. UpperSlice(g, s) = UpperSlice(f, s)
        BY <4>4, Zenon DEF UpperSlice, LowerSlice
      <4>6. g[UpperSlice(g, s)] = f[UpperSlice(f, s)]
        BY <2>4, <4>2, <4>3, <4>5
      <4>7. QED
        BY <4>6, Zenon DEF SortOnce
    <3>3. s.left \in Nat /\ s.right \in Nat
      BY DEF Short
    <3>4. QED
      BY <3>1, <3>2, <3>3
  <2>6. g = [s \in Short(last, m + 1) |-> SortOnce(g, s)]
    BY <2>5, Zenon DEF g
  <2>7. QED
    BY <2>6 DEF Sorts
<1>3. n \in T
  <2> HIDE DEF T
  <2>1. Nat \subseteq T
    BY <1>1, <1>2, NaturalInduction
  <2>2. QED
    BY <2>1
<1>4. QED
  BY <1>3

\* The sort sorts every array.
LEMMA QuickSortSorts ==
  ASSUME NEW last \in Nat, NEW a \in Arrays(last)
  PROVE  LET b == QuickSortInt32(a, 0, last)
         IN  /\ b \in Arrays(last) /\ Rearranged(b, a, 0, last)
             /\ \A i, j \in 0 .. last : i < j => b[i] <= b[j]
<1>1. Slices(a) = Short(last, last)
  <2>1. DOMAIN a = 0 .. last
    BY DEF Arrays
  <2>2. Slices(a) = [array : Arrays(last), left : Nat, right : 0 .. last]
    BY <2>1, Zenon DEF Slices, Arrays
  <2>3. \A s \in Slices(a) : s.right - s.left <= last
    BY <2>2
  <2>4. QED
    BY <2>2, <2>3 DEF Short
<1> DEFINE whole == [array |-> a, left |-> 0, right |-> last]
           f == CHOOSE g : Sorts(g, last, last)
<1>2. Sorts(f, last, last)
  BY SortsExists, Zenon
<1>3. QuickSortInt32(a, 0, last) = f[whole]
  <2> DEFINE F(g) == [s \in Slices(a) |-> SortOnce(g, s)]
  <2>1. QuickSortInt32(a, 0, last) = (CHOOSE g : g = F(g))[whole]
    BY DEF QuickSortInt32, SortOnce, UpperSlice
  <2>2. \A g : F(g) = [s \in Short(last, last) |-> SortOnce(g, s)]
    BY <1>1, Zenon
  <2>3. (CHOOSE g : g = F(g)) = f
    BY <2>2, Zenon DEF Sorts
  <2>4. QED
    BY <2>1, <2>3, Zenon
<1> HIDE DEF f
<1>4. whole \in Short(last, last) /\ whole.array = a /\ whole.left = 0 /\ whole.right = last
  BY DEF Short
<1> HIDE DEF whole
<1>5. IsSortOf(f[whole], whole, last)
  BY <1>2, <1>4, SortsSort
<1>6. QED
  BY <1>3, <1>4, <1>5 DEF IsSortOf

\* In another order an array has each value as often.
LEMMA RearrangedCounts ==
  ASSUME NEW last \in Nat, NEW a \in Arrays(last), NEW b \in Arrays(last), NEW value,
         Rearranged(b, a, 0, last)
  PROVE  Count(b, value) = Count(a, value)
<1> DEFINE D == 0 .. last
           S == {i \in D : b[i] = value}
           T == {i \in D : a[i] = value}
<1>1. DOMAIN a = D /\ DOMAIN b = D
  BY DEF Arrays
<1>2. PICK from : RearrangedBy(from, b, a, 0, last)
  BY Zenon DEF Rearranged
<1>3. /\ from \in [D -> D] /\ \A i, j \in D : from[i] = from[j] => i = j
      /\ \A j \in D : \E i \in D : from[i] = j
      /\ \A i \in D : b[i] = a[from[i]]
  BY <1>1, <1>2 DEF RearrangedBy
<1>4. IsFiniteSet(D)
  BY FS_Interval
<1> HIDE DEF D
<1>5. IsFiniteSet(S)
  BY <1>4, FS_Subset
<1> DEFINE f == [i \in S |-> from[i]]
<1>6. f \in [S -> T]
  BY <1>3
<1>7. \A i, j \in S : f[i] = f[j] => i = j
  BY <1>3
<1>8. \A j \in T : \E i \in S : f[i] = j
  <2> SUFFICES ASSUME NEW j \in T PROVE \E i \in S : f[i] = j
    OBVIOUS
  <2>1. PICK i \in D : from[i] = j
    BY <1>3
  <2>2. i \in S
    BY <1>3, <2>1
  <2>3. QED
    BY <2>1, <2>2
<1>9. ExistsBijection(S, T)
  <2> HIDE DEF S, T, f
  <2>1. f \in Bijection(S, T)
    BY <1>6, <1>7, <1>8 DEF Bijection, Injection, IsInjective, Surjection
  <2>2. QED
    BY <2>1 DEF ExistsBijection
<1>10. Cardinality(T) = Cardinality(S)
  BY <1>5, <1>9, FS_Bijection
<1>11. Count(b, value) = Cardinality(S) /\ Count(a, value) = Cardinality(T)
  BY <1>1, Zenon DEF Count
<1>12. QED
  BY <1>10, <1>11

\* The sort sorts arrays of any length, and each of its partitions splits any slice
\* of the array into two smaller ones.
THEOREM SortAlwaysCorrect == CallSpec => []SortCorrect
<1>1. Answered => SortCorrect
  <2> SUFFICES ASSUME Answered, input.kind = "sort", result.status = "SUCCESS"
               PROVE  /\ Sorted(result.array)
                      /\ \A value \in {input.array[i] : i \in DOMAIN input.array} :
                           Count(result.array, value) = Count(input.array, value)
                      /\ \A left, right \in DOMAIN input.array :
                           left < right => SplitsSlice(input.array, left, right)
    BY Zenon DEF SortCorrect, Returned
  <2> DEFINE a    == input.array
             last == Cardinality(DOMAIN a) - 1
             b    == QuickSortInt32(a, 0, last)
  <2>1. input \in Calls /\ result.array = b
    BY DEF Answered, KeyboardInput, Failure, SortedArray
  <2>2. IsArray(a)
    BY <2>1, CallsAssumption
  <2>3. last \in Nat /\ a \in Arrays(last)
    BY <2>2 DEF IsArray, Arrays
  <2> HIDE DEF a, last
  <2>4. /\ b \in Arrays(last) /\ Rearranged(b, a, 0, last)
        /\ \A i, j \in 0 .. last : i < j => b[i] <= b[j]
    BY <2>3, QuickSortSorts
  <2> HIDE DEF b
  <2>5. DOMAIN a = 0 .. last /\ DOMAIN b = 0 .. last
    BY <2>3, <2>4 DEF Arrays
  <2>6. Sorted(b)
    BY <2>4, <2>5 DEF Sorted
  <2>7. \A value : Count(b, value) = Count(a, value)
    BY <2>3, <2>4, RearrangedCounts
  <2>8. ASSUME NEW left \in DOMAIN a, NEW right \in DOMAIN a, left < right
        PROVE  SplitsSlice(a, left, right)
    <3> DEFINE parted == Partition(a, left, right)
    <3>1. left \in 0 .. last /\ right \in 0 .. last
      BY <2>5
    <3>2. /\ parted.array \in Arrays(last)
          /\ Rearranged(parted.array, a, left, right)
          /\ parted.J \in left .. (right - 1)
          /\ \A i \in left .. parted.J, j \in (parted.J + 1) .. right :
               parted.array[i] <= parted.array[j]
      BY <2>3, <2>8, <3>1, PartitionSplits
    <3> HIDE DEF parted
    <3>3. PICK from : RearrangedBy(from, parted.array, a, left, right)
      BY <3>2, Zenon DEF Rearranged
    <3>4. \A i \in DOMAIN a \ (left .. right) : parted.array[i] = a[i]
      BY <3>3 DEF RearrangedBy
    <3>5. QED
      BY <3>2, <3>4, Zenon DEF SplitsSlice, parted
  <2>9. QED
    BY <2>1, <2>6, <2>7, <2>8, Zenon DEF a
<1>2. QED
  BY <1>1, AnsweredAlways, PTL

-----------------------------------------------------------------------------
(* The memory that the SMBIOS driver reads from the tree. *)

Region == [base : Nat, size : Nat]

\* A number of one or two cells.
LEMMA SmallBigEndian ==
  ASSUME NEW cells \in Seq(CellValue), Len(cells) \in 1 .. 2
  PROVE  BigEndian(cells) =
           IF Len(cells) > 1 THEN cells[1] * CELL + cells[2] ELSE cells[1]
<1>1. PICK value : /\ value[0] = 0 /\ BigEndian(cells) = value[Len(cells)]
                   /\ \A i \in 1 .. Len(cells) : value[i] = value[i - 1] * CELL + cells[i]
  BY BigEndianReads
<1>2. 1 \in 1 .. Len(cells) /\ 1 - 1 = 0 /\ 2 - 1 = 1 /\ cells[1] \in Nat
  BY FdtConstants DEF CellValue
<1>3. value[1] = cells[1]
  <2>1. value[1] = value[0] * CELL + cells[1]
    BY <1>1, <1>2
  <2>2. 0 * CELL = 0
    BY FdtConstants
  <2>3. QED
    BY <1>1, <1>2, <2>1, <2>2
<1>4. CASE Len(cells) = 1
  BY <1>1, <1>3, <1>4
<1>5. CASE Len(cells) = 2
  <2>1. value[2] = value[1] * CELL + cells[2]
    BY <1>1, <1>2, <1>5
  <2>2. QED
    BY <1>1, <1>3, <1>5, <2>1
<1>6. QED
  BY <1>4, <1>5

\* LogMemoryInfo reads each tuple of a node exactly.
LEMMA NodeRegionsExact ==
  ASSUME NEW node, IsMemoryNode(node)
  PROVE  RegionsOf(node) = TuplesOf(node) /\ RegionsOf(node) \in Seq(Region)
<1> DEFINE reg   == node.reg
           a     == node.addressCells
           s     == node.sizeCells
           tuple == a + s
           count == Len(reg) \div tuple
           At(i) == (i - 1) * tuple + 1
           Read(i)  == [base |-> Cells(reg, At(i), a), size |-> Cells(reg, At(i) + a, s)]
           Tuple(i) == SubSeq(reg, At(i), i * tuple)
           Exact(i) == [base |-> BigEndian(SubSeq(Tuple(i), 1, a)),
                        size |-> BigEndian(SubSeq(Tuple(i), a + 1, tuple))]
<1>1. reg \in Seq(CellValue) /\ a \in 1 .. 2 /\ s \in 1 .. 2
  BY DEF IsMemoryNode, CellValue
<1>2. RegionsOf(node) = [i \in 1 .. count |-> Read(i)]
  BY DEF RegionsOf
<1>3. TuplesOf(node) = [i \in 1 .. count |-> Exact(i)]
  BY DEF TuplesOf
<1> HIDE DEF reg, a, s
<1>4. tuple \in Nat \ {0} /\ Len(reg) \in Nat /\ count \in Nat
  BY <1>1
<1>5. ASSUME NEW i \in 1 .. count PROVE Read(i) = Exact(i) /\ Read(i) \in Region
  <2>1. i * tuple <= Len(reg)
    BY <1>4, QuotientBound
  <2>2. /\ At(i) \in Nat \ {0} /\ i * tuple = At(i) + tuple - 1
        /\ At(i) + tuple - 1 <= Len(reg)
    <3>1. i * tuple = (i - 1) * tuple + tuple /\ (i - 1) * tuple \in Nat
      BY <1>4
    <3> DEFINE before == (i - 1) * tuple
    <3>2. At(i) = before + 1
      OBVIOUS
    <3> HIDE DEF before, At, tuple
    <3>3. QED
      BY <1>4, <2>1, <3>1, <3>2 DEF before
  <2> DEFINE at    == At(i)
             cells == SubSeq(reg, at, at + tuple - 1)
             first == SubSeq(cells, 1, a)
             rest  == SubSeq(cells, a + 1, tuple)
  <2>3. at \in Nat \ {0} /\ at + tuple - 1 <= Len(reg) /\ Tuple(i) = cells
    BY <2>2
  <2> HIDE DEF At
  <2> HIDE DEF at
  <2>4. /\ cells \in Seq(CellValue) /\ Len(cells) = tuple
        /\ \A k \in 1 .. tuple : cells[k] = reg[at + k - 1]
    <3>1. \A k \in at .. (at + tuple - 1) : reg[k] \in CellValue
      BY <1>1, <2>3
    <3>2. QED
      BY <1>1, <1>4, <2>3, <3>1
  <2> HIDE DEF cells
  <2>5. /\ first \in Seq(CellValue) /\ Len(first) = a
        /\ \A k \in 1 .. a : first[k] = reg[at + k - 1]
    BY <1>1, <2>3, <2>4
  <2>6. /\ rest \in Seq(CellValue) /\ Len(rest) = s
        /\ \A k \in 1 .. s : rest[k] = reg[at + a + k - 1]
    BY <1>1, <2>3, <2>4, SMTT(30)
  <2> HIDE DEF first, rest
  <2>7. BigEndian(first) = Cells(reg, at, a)
    <3>1. first[1] = reg[at] /\ (a > 1 => first[2] = reg[at + 1])
      BY <1>1, <2>3, <2>5
    <3>2. QED
      BY <1>1, <2>5, <3>1, SmallBigEndian, WordAssumption DEF Cells
  <2>8. BigEndian(rest) = Cells(reg, at + a, s)
    <3>1. rest[1] = reg[at + a] /\ (s > 1 => rest[2] = reg[at + a + 1])
      BY <1>1, <2>3, <2>6
    <3>2. QED
      BY <1>1, <2>6, <3>1, SmallBigEndian, WordAssumption DEF Cells
  <2>9. Cells(reg, at, a) \in Nat /\ Cells(reg, at + a, s) \in Nat
    <3>1. \A k \in 1 .. Len(reg) : reg[k] \in Nat
      BY <1>1, FdtConstants DEF CellValue
    <3>2. /\ at \in 1 .. Len(reg) /\ at + a \in 1 .. Len(reg)
          /\ a > 1 => at + 1 \in 1 .. Len(reg)
          /\ s > 1 => at + a + 1 \in 1 .. Len(reg)
      BY <1>1, <2>3
    <3>3. \A x, y \in Nat : x * WORD + y \in Nat
      BY SmbiosAssumption, SMTT(30)
    <3>4. QED
      BY <3>1, <3>2, <3>3 DEF Cells
  <2>10. Read(i) = [base |-> Cells(reg, at, a), size |-> Cells(reg, at + a, s)]
    BY DEF at
  <2>11. Exact(i) = [base |-> BigEndian(first), size |-> BigEndian(rest)]
    BY <2>3 DEF first, rest
  <2>12. QED
    BY <2>7, <2>8, <2>9, <2>10, <2>11 DEF Region
<1> HIDE DEF Read, Exact, count
<1>6. QED
  BY <1>2, <1>3, <1>4, <1>5

\* The sequences of a sequence one after the other.
LEMMA FlattenType ==
  ASSUME NEW X, NEW seqs \in Seq(Seq(X))
  PROVE  FlattenSeq(seqs) \in Seq(X)
<1> DEFINE n == Len(seqs)
           F(g, i) == IF i = 1 THEN seqs[i] ELSE g[i - 1] \o seqs[i]
           Flat(g) == g = [i \in 1 .. n |-> F(g, i)]
           G == [i \in 1 .. n |-> [list \in Seq(X) |-> list \o seqs[i]]]
<1>1. n \in Nat /\ \A i \in 1 .. n : seqs[i] \in Seq(X)
  OBVIOUS
<1>2. CASE n = 0
  <2>1. FlattenSeq(seqs) = seqs /\ seqs = <<>>
    BY <1>2 DEF FlattenSeq
  <2>2. QED
    BY <2>1
<1>3. CASE n # 0
  <2>1. FlattenSeq(seqs) = (CHOOSE g : Flat(g))[n]
    BY <1>3 DEF FlattenSeq
  <2> HIDE DEF n
  <2>2. G \in [1 .. n -> [Seq(X) -> Seq(X)]]
    BY <1>1
  <2>3. <<>> \in Seq(X)
    OBVIOUS
  <2>4. PICK h : IsRecursion(h, n, Seq(X), <<>>, G)
    <3> HIDE DEF G
    <3>1. QED
      BY <1>1, <2>2, <2>3, PrefixRecursion
  <2>5. /\ h \in [0 .. n -> Seq(X)] /\ h[0] = <<>>
        /\ \A i \in 1 .. n : h[i] = G[i][h[i - 1]]
    BY <2>4, Zenon DEF IsRecursion
  <2>6. \A i \in 1 .. n : h[i] = h[i - 1] \o seqs[i]
    <3>1. \A i \in 1 .. n : h[i - 1] \in Seq(X)
      BY <1>1, <2>5
    <3>2. QED
      BY <2>5, <3>1
  <2> DEFINE f == [i \in 1 .. n |-> h[i]]
  <2>7. \A i \in 1 .. n : f[i] = F(f, i)
    <3> SUFFICES ASSUME NEW i \in 1 .. n PROVE f[i] = F(f, i)
      OBVIOUS
    <3>1. CASE i = 1
      <4>1. h[1] = h[0] \o seqs[1] /\ seqs[1] \in Seq(X)
        <5>1. 1 \in 1 .. n /\ 1 - 1 = 0
          BY <1>1, <3>1
        <5>2. QED
          BY <1>1, <2>6, <5>1
      <4>2. h[1] = seqs[1]
        BY <2>5, <4>1
      <4>3. QED
        BY <3>1, <4>2
    <3>2. CASE i # 1
      <4>1. i - 1 \in 1 .. n
        BY <1>1, <3>2
      <4>2. QED
        BY <2>6, <3>2, <4>1
    <3>3. QED
      BY <3>1, <3>2
  <2>8. Flat(f)
    <3>1. f = [i \in 1 .. n |-> f[i]]
      OBVIOUS
    <3> HIDE DEF f, F
    <3>2. QED
      BY <2>7, <3>1
  <2> DEFINE g == CHOOSE x : Flat(x)
  <2>9. Flat(g)
    <3> HIDE DEF Flat
    <3>1. QED
      BY <2>8, Zenon
  <2> HIDE DEF g
  <2>10. \A i \in 1 .. n : g[i] = F(g, i)
    <3> HIDE DEF F
    <3>1. QED
      BY <2>9, Zenon
  <2> DEFINE T == {i \in 0 .. n : i > 0 => g[i] \in Seq(X)}
  <2>11. 0 \in T
    BY <1>1
  <2>12. ASSUME NEW i \in 1 .. n, i - 1 \in T PROVE i \in T
    <3>1. g[i] = F(g, i) /\ seqs[i] \in Seq(X)
      BY <1>1, <2>10
    <3>2. CASE i = 1
      BY <3>1, <3>2
    <3>3. CASE i # 1
      <4>1. g[i - 1] \in Seq(X)
        BY <2>12, <3>3
      <4>2. g[i] = g[i - 1] \o seqs[i]
        BY <3>1, <3>3
      <4>3. g[i] \in Seq(X)
        BY <3>1, <4>1, <4>2
      <4>4. QED
        BY <4>3
    <3>4. QED
      BY <3>2, <3>3
  <2>13. n \in T
    <3> HIDE DEF T
    <3>1. 0 .. n \subseteq T
      BY <1>1, <2>11, <2>12, IntervalInduction
    <3>2. QED
      BY <1>1, <3>1
  <2>14. QED
    BY <1>1, <1>3, <2>1, <2>13 DEF g
<1>4. QED
  BY <1>2, <1>3

\* What the driver reads from all memory nodes is what they say.
LEMMA RegionsExact ==
  ASSUME NEW nodes, nodes \in Seq(ToSet(nodes)), \A node \in ToSet(nodes) : IsMemoryNode(node)
  PROVE  LET regions == FlattenSeq([i \in DOMAIN nodes |-> RegionsOf(nodes[i])])
         IN  /\ regions = FlattenSeq([i \in DOMAIN nodes |-> TuplesOf(nodes[i])])
             /\ regions \in Seq(Region)
<1>1. \A i \in DOMAIN nodes : IsMemoryNode(nodes[i])
  BY DEF ToSet
<1>2. \A i \in DOMAIN nodes : RegionsOf(nodes[i]) = TuplesOf(nodes[i])
                              /\ RegionsOf(nodes[i]) \in Seq(Region)
  BY <1>1, NodeRegionsExact
<1> DEFINE read == [i \in DOMAIN nodes |-> RegionsOf(nodes[i])]
<1>3. read = [i \in DOMAIN nodes |-> TuplesOf(nodes[i])]
  BY <1>2, Zenon
<1>4. read \in Seq(Seq(Region))
  <2>1. DOMAIN nodes = 1 .. Len(nodes) /\ Len(nodes) \in Nat
    OBVIOUS
  <2>2. QED
    BY <1>2, <2>1
<1>5. QED
  BY <1>3, <1>4, FlattenType

\* The numbers of a region.
LEMMA RegionFields ==
  ASSUME NEW regions \in Seq(Region)
  PROVE  /\ Len(regions) \in Nat /\ DOMAIN regions = 1 .. Len(regions)
         /\ \A i \in 1 .. Len(regions) : regions[i].base \in Nat /\ regions[i].size \in Nat
<1>1. /\ Len(regions) \in Nat /\ DOMAIN regions = 1 .. Len(regions)
      /\ \A i \in 1 .. Len(regions) : regions[i] \in Region
  OBVIOUS
<1>2. QED
  BY <1>1 DEF Region

\* The sum of the sizes, region by region,
IsTotal(total, regions) ==
  total = [n \in 0 .. Len(regions) |->
             IF n = 0 THEN 0 ELSE total[n - 1] + regions[n].size]

\* Such sums exist, and the last one is the total.
LEMMA TotalAdds ==
  ASSUME NEW regions \in Seq(Region)
  PROVE  \E total \in [0 .. Len(regions) -> Nat] :
           /\ total[0] = 0 /\ Total(regions) = total[Len(regions)]
           /\ \A i \in 1 .. Len(regions) : total[i] = total[i - 1] + regions[i].size
<1> DEFINE n == Len(regions)
           G == [i \in 1 .. n |-> [v \in Nat |-> v + regions[i].size]]
<1>0. n \in Nat /\ \A i \in 1 .. n : regions[i].size \in Nat
  BY RegionFields
<1>1. G \in [1 .. n -> [Nat -> Nat]]
  BY <1>0
<1>2. PICK f : IsRecursion(f, n, Nat, 0, G)
  <2> HIDE DEF n, G
  <2>1. QED
    BY <1>0, <1>1, PrefixRecursion
<1>3. /\ f \in [0 .. n -> Nat] /\ f[0] = 0
      /\ \A i \in 1 .. n : f[i] = f[i - 1] + regions[i].size
  <2>1. f \in [0 .. n -> Nat] /\ f[0] = 0 /\ \A i \in 1 .. n : f[i] = G[i][f[i - 1]]
    BY <1>2, Zenon DEF IsRecursion
  <2>2. \A i \in 1 .. n : f[i - 1] \in Nat
    BY <1>0, <2>1
  <2>3. QED
    BY <2>1, <2>2
<1>4. IsTotal(f, regions)
  <2> DEFINE F(i) == IF i = 0 THEN 0 ELSE f[i - 1] + regions[i].size
  <2>1. \A i \in 0 .. n : f[i] = F(i)
    BY <1>0, <1>3
  <2>2. f = [i \in 0 .. n |-> F(i)]
    <3> HIDE DEF F, n
    <3>1. QED
      BY <1>3, <2>1
  <2>3. QED
    BY <2>2, Zenon DEF IsTotal
<1> DEFINE total == CHOOSE t : IsTotal(t, regions)
           F(i) == IF i = 0 THEN 0 ELSE total[i - 1] + regions[i].size
<1>5. IsTotal(total, regions)
  BY <1>4
<1>6. Total(regions) = total[n]
  BY DEF Total, IsTotal
<1> HIDE DEF total
<1>7. total = [i \in 0 .. n |-> F(i)]
  BY <1>5, Zenon DEF IsTotal
<1>8. F(0) = 0 /\ \A i \in 1 .. n : F(i) = total[i - 1] + regions[i].size
  OBVIOUS
<1>9. DOMAIN total = 0 .. n /\ \A i \in 0 .. n : total[i] = F(i)
  <2> HIDE DEF F, n
  <2>1. QED
    BY <1>7
<1>10. total[0] = 0 /\ \A i \in 1 .. n : total[i] = total[i - 1] + regions[i].size
  <2> HIDE DEF F
  <2>1. QED
    BY <1>0, <1>8, <1>9
<1>11. \A i \in 0 .. n : total[i] \in Nat
  <2> DEFINE T == {i \in 0 .. n : total[i] \in Nat}
  <2>1. 0 \in T
    BY <1>0, <1>10
  <2>2. \A i \in 1 .. n : i - 1 \in T => i \in T
    BY <1>0, <1>10, SMTT(30)
  <2> HIDE DEF T
  <2>3. 0 .. n \subseteq T
    BY <1>0, <2>1, <2>2, IntervalInduction
  <2>4. QED
    BY <2>3 DEF T
<1>12. total \in [0 .. n -> Nat]
  <2> HIDE DEF F, n
  <2>1. QED
    BY <1>7, <1>9, <1>11
<1>13. QED
  BY <1>6, <1>10, <1>12

\* and as the driver adds them, in 64 bits.
IsTotalSize(total, regions) ==
  total = [n \in 0 .. Len(regions) |->
             IF n = 0 THEN 0 ELSE (total[n - 1] + regions[n].size) % (WORD * WORD)]

\* These exist too, and the last one is what TotalSize returns.
LEMMA TotalSizeAdds ==
  ASSUME NEW regions \in Seq(Region)
  PROVE  \E total :
           /\ total[0] = 0 /\ TotalSize(regions) = total[Len(regions)]
           /\ \A i \in 1 .. Len(regions) :
                total[i] = (total[i - 1] + regions[i].size) % (WORD * WORD)
<1> DEFINE n == Len(regions)
           M == WORD * WORD
           G == [i \in 1 .. n |-> [v \in Nat |-> (v + regions[i].size) % M]]
<1>0. n \in Nat /\ \A i \in 1 .. n : regions[i].size \in Nat
  BY RegionFields
<1>1. G \in [1 .. n -> [Nat -> Nat]]
  <2>1. M \in Nat \ {0}
    BY FdtConstants, WordAssumption
  <2> HIDE DEF M
  <2>2. \A v, s \in Nat : (v + s) % M \in Nat
    BY <2>1
  <2>3. QED
    BY <1>0, <2>2
<1>2. PICK f : IsRecursion(f, n, Nat, 0, G)
  <2> HIDE DEF n, G
  <2>1. QED
    BY <1>0, <1>1, PrefixRecursion
<1>3. /\ f \in [0 .. n -> Nat] /\ f[0] = 0
      /\ \A i \in 1 .. n : f[i] = (f[i - 1] + regions[i].size) % M
  <2>1. f \in [0 .. n -> Nat] /\ f[0] = 0 /\ \A i \in 1 .. n : f[i] = G[i][f[i - 1]]
    BY <1>2, Zenon DEF IsRecursion
  <2>2. \A i \in 1 .. n : f[i - 1] \in Nat
    BY <1>0, <2>1
  <2> HIDE DEF M
  <2>3. QED
    BY <2>1, <2>2
<1>4. IsTotalSize(f, regions)
  <2> DEFINE F(i) == IF i = 0 THEN 0 ELSE (f[i - 1] + regions[i].size) % M
  <2>1. \A i \in 0 .. n : f[i] = F(i)
    <3> HIDE DEF M
    <3>1. QED
      BY <1>0, <1>3
  <2>2. f = [i \in 0 .. n |-> F(i)]
    <3> HIDE DEF F, n
    <3>1. QED
      BY <1>3, <2>1
  <2>3. QED
    BY <2>2, Zenon DEF IsTotalSize
<1> DEFINE total == CHOOSE t : IsTotalSize(t, regions)
           F(i) == IF i = 0 THEN 0 ELSE (total[i - 1] + regions[i].size) % M
<1>5. IsTotalSize(total, regions)
  BY <1>4
<1>6. TotalSize(regions) = total[n]
  BY DEF TotalSize, IsTotalSize
<1> HIDE DEF total
<1>7. total = [i \in 0 .. n |-> F(i)]
  BY <1>5, Zenon DEF IsTotalSize
<1> HIDE DEF M
<1>8. F(0) = 0 /\ \A i \in 1 .. n : F(i) = (total[i - 1] + regions[i].size) % M
  OBVIOUS
<1>9. \A i \in 0 .. n : total[i] = F(i)
  <2> HIDE DEF F, n
  <2>1. QED
    BY <1>7
<1>10. total[0] = 0 /\ \A i \in 1 .. n : total[i] = (total[i - 1] + regions[i].size) % M
  <2> HIDE DEF F
  <2>1. QED
    BY <1>0, <1>8, <1>9
<1>11. QED
  BY <1>6, <1>10 DEF M

\* A number below the modulus is its own remainder.
LEMMA SmallRemainder ==
  ASSUME NEW b \in Nat \ {0}, NEW r \in Nat, r < b
  PROVE  r % b = r
<1>1. r % b \in 0 .. (b - 1) /\ r = b * (r \div b) + (r % b)
  OBVIOUS
<1>2. (b * 0 + r) \div b = 0
  BY QuotientUnique
<1>3. b * 0 + r = r /\ b * 0 = 0
  OBVIOUS
<1>4. QED
  BY <1>1, <1>2, <1>3

\* A sum below 2^64 is not cut off.
LEMMA TotalSizeExact ==
  ASSUME NEW regions \in Seq(Region), Total(regions) < WORD * WORD
  PROVE  TotalSize(regions) = Total(regions) /\ Total(regions) \in Nat
<1> DEFINE n == Len(regions)
           M == WORD * WORD
<1>1. n \in Nat /\ M \in Nat \ {0} /\ \A i \in 1 .. n : regions[i].size \in Nat
  BY RegionFields, FdtConstants, WordAssumption
<1>2. PICK total \in [0 .. n -> Nat] :
        /\ total[0] = 0 /\ Total(regions) = total[n]
        /\ \A i \in 1 .. n : total[i] = total[i - 1] + regions[i].size
  BY TotalAdds
<1>3. PICK size : /\ size[0] = 0 /\ TotalSize(regions) = size[n]
                  /\ \A i \in 1 .. n : size[i] = (size[i - 1] + regions[i].size) % M
  BY TotalSizeAdds
<1> DEFINE T == {i \in 0 .. n : total[i] < M => size[i] = total[i]}
<1> HIDE DEF n, M
<1>4. 0 \in T
  BY <1>1, <1>2, <1>3
<1>5. ASSUME NEW i \in 1 .. n, i - 1 \in T PROVE i \in T
  <2> SUFFICES ASSUME total[i] < M PROVE size[i] = total[i]
    BY <1>1
  <2>1. /\ total[i - 1] \in Nat /\ total[i] \in Nat
        /\ total[i] = total[i - 1] + regions[i].size /\ regions[i].size \in Nat
    BY <1>1, <1>2
  <2>2. size[i - 1] = total[i - 1]
    BY <1>1, <1>5, <2>1, SMTT(30)
  <2>3. size[i] = total[i] % M
    BY <1>3, <2>1, <2>2
  <2>4. QED
    BY <1>1, <2>1, <2>3, SmallRemainder
<1>6. 0 .. n \subseteq T
  <2> HIDE DEF T
  <2>1. QED
    BY <1>1, <1>4, <1>5, IntervalInduction
<1>7. n \in T /\ Total(regions) < M
  BY <1>1, <1>6 DEF M
<1>8. QED
  BY <1>1, <1>2, <1>3, <1>7

\* A type 17 record tells the megabytes of the memory.
LEMMA DeviceSizeExact ==
  ASSUME NEW regions \in Seq(Region), NEW template, NEW handle,
         Total(regions) > 0, Total(regions) \div MB < WORD
  PROVE  SizeInMB(MemoryDeviceRecord(template, regions, handle)) = Total(regions) \div MB
<1> DEFINE total  == Total(regions)
           inMB   == total \div MB
           record == MemoryDeviceRecord(template, regions, handle)
<1>0. WORD \in Nat \ {0} /\ MB \in Nat \ {0} /\ MB <= WORD
  BY SmbiosAssumption
<1>1. total \in Nat
  BY TotalAdds
<1>2. total < WORD * WORD
  <2> HIDE DEF total
  <2>1. /\ inMB \in Nat /\ total % MB \in 0 .. (MB - 1)
        /\ total = MB * inMB + (total % MB)
    BY <1>0, <1>1
  <2>2. (inMB + 1) * MB <= WORD * MB /\ MB * WORD <= WORD * WORD
    <3>1. inMB + 1 <= WORD
      BY <1>0, <2>1 DEF total
    <3> HIDE DEF inMB
    <3>2. QED
      BY <1>0, <2>1, <3>1, ProductMonotone, SMTT(30)
  <2>3. (inMB + 1) * MB = MB * inMB + MB /\ WORD * MB = MB * WORD
    <3> HIDE DEF inMB
    <3>1. QED
      BY <1>0, <2>1
  <2>4. MB * inMB \in Nat /\ MB * WORD \in Nat /\ WORD * WORD \in Nat /\ MB \in Nat
    <3> HIDE DEF inMB
    <3>1. QED
      BY <1>0, <2>1
  <2> HIDE DEF inMB
  <2>5. QED
    BY <1>1, <2>1, <2>2, <2>3, <2>4
<1>3. TotalSize(regions) = total
  BY <1>2, TotalSizeExact
<1>4. inMB \in Nat /\ inMB < WORD
  <2>1. total \div MB \in Nat
    <3> HIDE DEF total
    <3>1. QED
      BY <1>1, SmbiosAssumption, SMTT(30)
  <2>2. QED
    BY <2>1
<1>5. inMB % WORD = inMB
  <2> HIDE DEF inMB
  <2>1. QED
    BY <1>4, SmbiosAssumption, SMTT(30)
<1>6. ASSUME inMB < DEVICE_SIZE_LIMIT PROVE inMB % HALFWORD = inMB
  <2> HIDE DEF inMB
  <2>1. QED
    BY <1>4, <1>6, SmbiosAssumption
<1>7. /\ record.Size = IF inMB >= DEVICE_SIZE_LIMIT THEN DEVICE_SIZE_LIMIT ELSE inMB % HALFWORD
      /\ inMB >= DEVICE_SIZE_LIMIT => record.ExtendedSize = inMB % WORD
  BY <1>3 DEF MemoryDeviceRecord
<1> HIDE DEF record, inMB
<1>8. SizeInMB(record) = inMB
  BY <1>4, <1>5, <1>6, <1>7, SmbiosAssumption, SMTT(30) DEF SizeInMB
<1>9. QED
  BY <1>8 DEF record, inMB

\* Addresses below KB * WORD have kilobytes that fit into their fields.
LEMMA KilobyteFits ==
  ASSUME NEW x \in Nat, x < KB * WORD
  PROVE  (x \div KB) % WORD = x \div KB /\ x % (WORD * WORD) = x
<1>1. WORD \in Nat \ {0} /\ KB \in Nat \ {0} /\ KB <= WORD
  BY SmbiosAssumption
<1> DEFINE q == x \div KB
<1>2. q \in Nat /\ x = KB * q + (x % KB) /\ x % KB \in 0 .. (KB - 1)
  BY <1>1
<1>3. q < WORD
  <2> SUFFICES ASSUME q >= WORD PROVE FALSE
    BY <1>1, <1>2
  <2> HIDE DEF q
  <2>1. WORD * KB <= q * KB
    BY <1>1, <1>2, ProductMonotone
  <2>2. WORD * KB = KB * WORD /\ q * KB = KB * q /\ KB * q \in Nat /\ KB * WORD \in Nat
    BY <1>1, <1>2
  <2>3. QED
    BY <1>2, <2>1, <2>2
<1>4. q % WORD = q
  <2> HIDE DEF q
  <2>1. QED
    BY <1>1, <1>2, <1>3, SmallRemainder
<1>5. x % (WORD * WORD) = x
  <2>1. KB * WORD <= WORD * WORD /\ KB * WORD \in Nat /\ WORD * WORD \in Nat
    BY <1>1, ProductMonotone
  <2> DEFINE M == WORD * WORD
  <2>2. M \in Nat \ {0} /\ x < M
    BY <2>1
  <2> HIDE DEF M
  <2>3. x % M = x
    BY <2>2, SmallRemainder
  <2>4. QED
    BY <2>3 DEF M
<1>6. QED
  BY <1>4, <1>5

\* A type 19 record has the kilobytes of the first and the last byte of its region.
LEMMA AddressesExact ==
  ASSUME NEW region \in Region, NEW handle, Reachable(region)
  PROVE  LET record == MappedAddressRecord(region, handle)
         IN  /\ InKilobyte(region.base, record.StartingAddress)
             /\ InKilobyte(region.base + region.size - 1, record.EndingAddress)
<1> DEFINE last == region.base + region.size - 1
<1>1. /\ region.base \in Nat /\ last \in Nat
      /\ region.base < KB * WORD /\ last < KB * WORD
  <2>1. region.base \in Nat /\ region.size \in Nat
    BY DEF Region
  <2>2. region.size > 0 /\ region.base + region.size <= KB * WORD
    BY DEF Reachable
  <2>3. KB * WORD \in Nat
    BY SmbiosAssumption
  <2>4. QED
    BY <2>1, <2>2, <2>3
<1>2. /\ (region.base \div KB) % WORD = region.base \div KB
      /\ ((last % (WORD * WORD)) \div KB) % WORD = last \div KB
  <2> HIDE DEF last
  <2>1. QED
    BY <1>1, KilobyteFits
<1>3. QED
  BY <1>2, Zenon DEF InKilobyte, MappedAddressRecord, EndingAddress

-----------------------------------------------------------------------------
(* What the SMBIOS driver adds to the table. *)

\* The state of the entry point.
IsState(s) == \E X, Y : s \in [table : Seq(X), next : Nat, SmbiosHandle : Y]

IsTable(table) == Len(table) \in Nat /\ DOMAIN table = 1 .. Len(table)

\* The table after continues the table before with records of these types.
Adds(before, after, types) ==
  /\ IsTable(before) /\ IsTable(after) /\ Len(before) <= Len(after)
  /\ \A i \in 1 .. Len(before) : after[i] = before[i]
  /\ \A i \in (Len(before) + 1) .. Len(after) : after[i].record.type \in types

\* One addition after the other.
LEMMA AddsMore ==
  ASSUME NEW before, NEW between, NEW after, NEW some, NEW more,
         Adds(before, between, some), Adds(between, after, more)
  PROVE  Adds(before, after, some \cup more)
<1>1. /\ IsTable(before) /\ IsTable(after)
      /\ Len(before) <= Len(between) /\ Len(between) <= Len(after)
      /\ {Len(before), Len(between), Len(after)} \subseteq Nat
  BY DEF Adds, IsTable
<1>2. ASSUME NEW i \in 1 .. Len(before) PROVE after[i] = before[i]
  <2>1. i \in 1 .. Len(between)
    BY <1>1
  <2>2. QED
    BY <2>1 DEF Adds
<1>3. ASSUME NEW i \in (Len(before) + 1) .. Len(after)
      PROVE  after[i].record.type \in some \cup more
  <2>1. CASE i \in 1 .. Len(between)
    <3>1. i \in (Len(before) + 1) .. Len(between)
      BY <1>1, <2>1
    <3>2. QED
      BY <2>1, <3>1 DEF Adds
  <2>2. CASE i \notin 1 .. Len(between)
    <3>1. i \in (Len(between) + 1) .. Len(after)
      BY <1>1, <2>2
    <3>2. QED
      BY <3>1 DEF Adds
  <2>3. QED
    BY <2>1, <2>2
<1>4. QED
  BY <1>1, <1>2, <1>3 DEF Adds

OfType(table, type) == {i \in DOMAIN table : table[i].record.type = type}

\* The records of a type are those added between two tables.
Placed(all, before, after, type) ==
  /\ OfType(all, type) = (Len(before) + 1) .. Len(after)
  /\ \A i \in 1 .. Len(after) : all[i] = after[i]
  /\ {Len(before), Len(after), Len(all)} \subseteq Nat
  /\ Len(before) <= Len(after) /\ Len(after) <= Len(all)
  /\ DOMAIN all = 1 .. Len(all)

\* The records of a type that is added at one place alone are those of this place.
LEMMA TypeOnce ==
  ASSUME NEW before, NEW after, NEW all, NEW type, NEW some, NEW more,
         Adds(<<>>, before, some), Adds(before, after, {type}), Adds(after, all, more),
         type \notin some, type \notin more
  PROVE  Placed(all, before, after, type)
<1>1. /\ {Len(before), Len(after), Len(all)} \subseteq Nat
      /\ Len(before) <= Len(after) /\ Len(after) <= Len(all)
      /\ DOMAIN all = 1 .. Len(all)
  BY DEF Adds, IsTable
<1>2. \A i \in 1 .. Len(before) : before[i].record.type \in some
  BY EmptySeq DEF Adds
<1>3. \A i \in (Len(before) + 1) .. Len(after) : after[i].record.type = type
  BY DEF Adds
<1>4. \A i \in (Len(after) + 1) .. Len(all) : all[i].record.type \in more
  BY DEF Adds
<1>5. /\ \A i \in 1 .. Len(after) : all[i] = after[i]
      /\ \A i \in 1 .. Len(before) : after[i] = before[i]
  BY DEF Adds
<1>6. ASSUME NEW i \in DOMAIN all
      PROVE  all[i].record.type = type <=> i \in (Len(before) + 1) .. Len(after)
  <2>1. CASE i \in 1 .. Len(before)
    <3>1. i \in 1 .. Len(after) /\ i \notin (Len(before) + 1) .. Len(after)
      BY <1>1, <2>1
    <3>2. all[i] = before[i]
      BY <1>5, <2>1, <3>1
    <3>3. QED
      BY <1>2, <2>1, <3>1, <3>2
  <2>2. CASE i \in (Len(before) + 1) .. Len(after)
    <3>1. i \in 1 .. Len(after)
      BY <1>1, <2>2
    <3>2. QED
      BY <1>3, <1>5, <2>2, <3>1
  <2>3. CASE i \in (Len(after) + 1) .. Len(all)
    <3>1. i \notin (Len(before) + 1) .. Len(after)
      BY <1>1, <2>3
    <3>2. QED
      BY <1>4, <2>3, <3>1
  <2>4. QED
    BY <1>1, <2>1, <2>2, <2>3
<1>7. (Len(before) + 1) .. Len(after) \subseteq DOMAIN all
  BY <1>1
<1>8. QED
  BY <1>1, <1>5, <1>6, <1>7 DEF OfType, Placed

\* The outcome of LogSmbiosData.
LEMMA LogOutcome ==
  ASSUME NEW s, NEW record, NEW fails, NEW keep
  PROVE  LogSmbiosData(s, record, fails, keep)
           = IF record.type \in fails THEN s ELSE AddRecord(s, record, keep)
BY Zenon DEF LogSmbiosData

\* LogSmbiosData keeps the table to its entries.
LEMMA LogType ==
  ASSUME NEW Entries, NEW Y, NEW s \in [table : Seq(Entries), next : Nat, SmbiosHandle : Y],
         NEW record, [handle |-> s.next, record |-> record] \in Entries, NEW fails,
         NEW t, t = LogSmbiosData(s, record, fails, FALSE)
  PROVE  t \in [table : Seq(Entries), next : Nat, SmbiosHandle : Y]
<1> DEFINE entry == [handle |-> s.next, record |-> record]
<1>1. s.table \in Seq(Entries) /\ s.next \in Nat /\ s.SmbiosHandle \in Y
  OBVIOUS
<1>2. CASE record.type \in fails
  <2>1. t = s
    BY <1>2, LogOutcome, Zenon
  <2>2. QED
    BY <2>1, Zenon
<1>3. CASE record.type \notin fails
  <2>1. t = [table |-> Append(s.table, entry), next |-> s.next + 1,
             SmbiosHandle |-> s.SmbiosHandle]
    <3>1. t = AddRecord(s, record, FALSE)
      BY <1>3, LogOutcome, Zenon
    <3>2. QED
      BY <3>1 DEF AddRecord
  <2> DEFINE list == Append(s.table, entry)
  <2>2. list \in Seq(Entries)
    <3>1. entry \in Entries
      OBVIOUS
    <3> HIDE DEF entry
    <3>2. QED
      BY <1>1, <3>1
  <2>3. t = [table |-> list, next |-> s.next + 1, SmbiosHandle |-> s.SmbiosHandle]
    BY <2>1
  <2> HIDE DEF list
  <2>4. s.next + 1 \in Nat
    BY <1>1
  <2>5. \A a \in Seq(Entries), b \in Nat, c \in Y :
          [table |-> a, next |-> b, SmbiosHandle |-> c]
            \in [table : Seq(Entries), next : Nat, SmbiosHandle : Y]
    OBVIOUS
  <2>6. QED
    BY <1>1, <2>2, <2>3, <2>4, <2>5, Zenon
<1>4. QED
  BY <1>2, <1>3

\* LogSmbiosData adds the record with the next handle, or nothing.
Logged(s, t, record, type, fails, keep) ==
  /\ IsState(t) /\ Adds(s.table, t.table, {type})
  /\ type \in fails => t.SmbiosHandle = s.SmbiosHandle /\ Len(t.table) = Len(s.table)
  /\ type \notin fails =>
       /\ Len(t.table) = Len(s.table) + 1
       /\ t.table[Len(t.table)] = [handle |-> s.next, record |-> record]
       /\ t.SmbiosHandle = IF keep THEN s.next ELSE s.SmbiosHandle

\* So it does, whatever the record.
LEMMA LogAdds ==
  ASSUME NEW s, IsState(s), NEW record, NEW type, record.type = type,
         NEW fails, NEW keep \in BOOLEAN, NEW t, t = LogSmbiosData(s, record, fails, keep)
  PROVE  Logged(s, t, record, type, fails, keep)
<1> DEFINE entry == [handle |-> s.next, record |-> record]
<1>1. PICK X, Y : s \in [table : Seq(X), next : Nat, SmbiosHandle : Y]
  BY Zenon DEF IsState
<1>2. s.table \in Seq(X) /\ s.next \in Nat /\ s.SmbiosHandle \in Y
  BY <1>1
<1>3. IsTable(s.table)
  BY <1>2 DEF IsTable
<1>4. CASE type \in fails
  <2>1. t = s
    <3>1. record.type \in fails
      BY <1>4
    <3>2. QED
      BY <3>1, LogOutcome, Zenon
  <2>2. Adds(s.table, s.table, {type})
    BY <1>3 DEF Adds, IsTable
  <2>3. QED
    BY <1>4, <2>1, <2>2 DEF Logged
<1>5. CASE type \notin fails
  <2> DEFINE handle == IF keep THEN s.next ELSE s.SmbiosHandle
  <2>1. t = [table |-> Append(s.table, entry), next |-> s.next + 1, SmbiosHandle |-> handle]
    <3>1. record.type \notin fails
      BY <1>5
    <3>2. t = AddRecord(s, record, keep)
      BY <3>1, LogOutcome, Zenon
    <3>3. QED
      BY <3>2, Zenon DEF AddRecord
  <2> DEFINE table == Append(s.table, entry)
  <2>2. s.table \in Seq(X \cup {entry})
    <3> HIDE DEF entry
    <3>1. QED
      BY <1>2
  <2>3. /\ table \in Seq(X \cup {entry}) /\ Len(table) = Len(s.table) + 1
        /\ \A i \in 1 .. Len(s.table) : table[i] = s.table[i]
        /\ table[Len(table)] = entry
    <3> HIDE DEF entry
    <3>1. QED
      BY <2>2
  <2>4. entry.record = record
    OBVIOUS
  <2> HIDE DEF table, entry
  <2>5. t.table = table /\ t.next = s.next + 1 /\ t.SmbiosHandle = handle
    BY <2>1 DEF table
  <2>6. IsState(t)
    <3>1. t \in [table : Seq(X \cup {entry}), next : Nat, SmbiosHandle : {handle}]
      BY <1>2, <2>1, <2>3 DEF table
    <3>2. QED
      BY <3>1, Zenon DEF IsState
  <2>7. IsTable(table)
    BY <2>3 DEF IsTable
  <2>8. \A i \in (Len(s.table) + 1) .. Len(table) : table[i].record.type \in {type}
    <3>1. \A i \in (Len(s.table) + 1) .. Len(table) : i = Len(table)
      BY <1>3, <2>3 DEF IsTable
    <3>2. table[Len(table)].record = record
      BY <2>3, <2>4
    <3>3. QED
      BY <3>1, <3>2
  <2>9. Adds(s.table, table, {type})
    BY <1>3, <2>3, <2>7, <2>8 DEF Adds, IsTable
  <2>10. QED
    BY <1>5, <2>3, <2>5, <2>6, <2>9 DEF entry, Logged
<1>6. QED
  BY <1>4, <1>5

\* The recursion of LogRegions.
IsLogged(logged, state, regions, fails) ==
  logged = [n \in 0 .. Len(regions) |->
              IF n = 0 THEN state
              ELSE LogSmbiosData(logged[n - 1],
                                 MappedAddressRecord(regions[n], state.SmbiosHandle),
                                 fails, FALSE)]

LogSteps(logged, state, regions, fails) ==
  /\ logged[0] = state
  /\ \A i \in 1 .. Len(regions) :
       logged[i] = LogSmbiosData(logged[i - 1],
                                 MappedAddressRecord(regions[i], state.SmbiosHandle),
                                 fails, FALSE)

\* LogRegions adds one record after the other.
LEMMA LogRegionsSteps ==
  ASSUME NEW state, IsState(state), NEW regions \in Seq(Region), NEW fails
  PROVE  \E logged : /\ LogSteps(logged, state, regions, fails)
                     /\ LogRegions(state, regions, fails) = logged[Len(regions)]
<1> DEFINE n == Len(regions)
           Mapped(i) == MappedAddressRecord(regions[i], state.SmbiosHandle)
           Step(s, i) == LogSmbiosData(s, Mapped(i), fails, FALSE)
<1>0. n \in Nat
  OBVIOUS
<1>1. PICK X, Y : state \in [table : Seq(X), next : Nat, SmbiosHandle : Y]
  BY Zenon DEF IsState
<1> DEFINE Entries == X \cup [handle : Nat, record : {Mapped(i) : i \in 1 .. n}]
           S == [table : Seq(Entries), next : Nat, SmbiosHandle : Y]
           G == [i \in 1 .. n |-> [s \in S |-> Step(s, i)]]
<1>2. state \in S
  <2>1. state.table \in Seq(Entries)
    <3> HIDE DEF Mapped, n
    <3>1. \A x \in X : x \in Entries
      OBVIOUS
    <3>2. state.table \in Seq(X)
      BY <1>1
    <3> HIDE DEF Entries
    <3>3. QED
      BY <3>1, <3>2
  <2> HIDE DEF Entries
  <2>2. QED
    BY <1>1, <2>1
<1>3. ASSUME NEW s \in S, NEW i \in 1 .. n PROVE Step(s, i) \in S
  <2> DEFINE entry == [handle |-> s.next, record |-> Mapped(i)]
  <2> HIDE DEF Mapped
  <2>1. s.next \in Nat
    <3> HIDE DEF Entries
    <3>1. QED
      OBVIOUS
  <2>2. entry \in Entries
    BY <2>1
  <2> HIDE DEF Entries
  <2>3. QED
    BY <2>2, LogType, Zenon
<1> HIDE DEF S, Step
<1>4. G \in [1 .. n -> [S -> S]]
  BY <1>3
<1>5. PICK f : IsRecursion(f, n, S, state, G)
  <2> HIDE DEF n, G
  <2>1. QED
    BY <1>0, <1>2, <1>4, PrefixRecursion
<1>6. /\ f \in [0 .. n -> S] /\ f[0] = state
      /\ \A i \in 1 .. n : f[i] = Step(f[i - 1], i)
  <2>1. f \in [0 .. n -> S] /\ f[0] = state /\ \A i \in 1 .. n : f[i] = G[i][f[i - 1]]
    BY <1>5, Zenon DEF IsRecursion
  <2>2. \A i \in 1 .. n : f[i - 1] \in S
    BY <1>0, <2>1
  <2>3. QED
    BY <2>1, <2>2
<1>7. IsLogged(f, state, regions, fails)
  <2> DEFINE F(i) == IF i = 0 THEN state ELSE Step(f[i - 1], i)
  <2>1. \A i \in 0 .. n : f[i] = F(i)
    BY <1>0, <1>6
  <2>2. f = [i \in 0 .. n |-> F(i)]
    <3> HIDE DEF F, n
    <3>1. QED
      BY <1>6, <2>1
  <2>3. QED
    BY <2>2, Zenon DEF IsLogged, Step
<1> DEFINE logged == CHOOSE l : IsLogged(l, state, regions, fails)
           F(i) == IF i = 0 THEN state ELSE Step(logged[i - 1], i)
<1>8. IsLogged(logged, state, regions, fails)
  BY <1>7
<1>9. LogRegions(state, regions, fails) = logged[n]
  BY Zenon DEF LogRegions, IsLogged
<1> HIDE DEF logged
<1>10. logged = [i \in 0 .. n |-> F(i)]
  BY <1>8, Zenon DEF IsLogged, Step
<1>11. F(0) = state /\ \A i \in 1 .. n : F(i) = Step(logged[i - 1], i)
  OBVIOUS
<1>12. \A i \in 0 .. n : logged[i] = F(i)
  <2> HIDE DEF F, n
  <2>1. QED
    BY <1>10
<1>13. logged[0] = state /\ \A i \in 1 .. n : logged[i] = Step(logged[i - 1], i)
  <2> HIDE DEF F
  <2>1. QED
    BY <1>0, <1>11, <1>12
<1>14. LogSteps(logged, state, regions, fails)
  BY <1>13, Zenon DEF LogSteps, Step
<1>15. QED
  BY <1>9, <1>14, Zenon

\* LogRegions adds a record for each region, in their order, or none.
RegionsLogged(s, t, regions, fails) ==
  /\ IsState(t) /\ Adds(s.table, t.table, {19})
  /\ t.SmbiosHandle = s.SmbiosHandle
  /\ 19 \in fails => Len(t.table) = Len(s.table)
  /\ 19 \notin fails =>
       /\ Len(t.table) = Len(s.table) + Len(regions)
       /\ \A i \in 1 .. Len(regions) :
            t.table[Len(s.table) + i].record = MappedAddressRecord(regions[i], s.SmbiosHandle)

\* So it does, for any number of regions.
LEMMA LogRegionsAdds ==
  ASSUME NEW s, IsState(s), NEW regions \in Seq(Region), NEW fails,
         NEW t, t = LogRegions(s, regions, fails)
  PROVE  RegionsLogged(s, t, regions, fails)
<1> DEFINE n == Len(regions)
           start == Len(s.table)
           Mapped(i) == MappedAddressRecord(regions[i], s.SmbiosHandle)
<1>0. PICK logged : /\ LogSteps(logged, s, regions, fails)
                    /\ LogRegions(s, regions, fails) = logged[n]
  BY LogRegionsSteps, Zenon
<1>1. /\ logged[0] = s
      /\ \A i \in 1 .. n :
           logged[i] = LogSmbiosData(logged[i - 1], Mapped(i), fails, FALSE)
  BY <1>0, Zenon DEF LogSteps
<1>2. n \in Nat
  OBVIOUS
<1>3. start \in Nat /\ IsTable(s.table)
  <2>1. PICK X, Y : s \in [table : Seq(X), next : Nat, SmbiosHandle : Y]
    BY Zenon DEF IsState
  <2>2. s.table \in Seq(X)
    BY <2>1
  <2>3. QED
    BY <2>2 DEF IsTable
<1>4. \A i \in 1 .. n : Mapped(i).type = 19
  BY DEF MappedAddressRecord
<1> DEFINE table(i) == logged[i].table
           Right(i) == /\ IsState(logged[i]) /\ Adds(s.table, table(i), {19})
                       /\ logged[i].SmbiosHandle = s.SmbiosHandle
                       /\ 19 \in fails => Len(table(i)) = start
                       /\ 19 \notin fails =>
                            /\ Len(table(i)) = start + i
                            /\ \A k \in 1 .. i : table(i)[start + k].record = Mapped(k)
           T == {i \in 0 .. n : Right(i)}
<1> HIDE DEF Mapped, start, n
<1>5. 0 \in T
  <2>1. Adds(s.table, s.table, {19})
    BY <1>3 DEF Adds, IsTable, start
  <2>2. QED
    BY <1>1, <1>2, <1>3, <2>1 DEF start
<1>6. ASSUME NEW i \in 1 .. n, i - 1 \in T PROVE i \in T
  <2> DEFINE before == logged[i - 1]
             after  == logged[i]
  <2>1. Right(i - 1) /\ i - 1 \in Nat /\ i \in 0 .. n
    BY <1>2, <1>6
  <2>2. after = LogSmbiosData(before, Mapped(i), fails, FALSE) /\ Mapped(i).type = 19
    BY <1>1, <1>4
  <2> HIDE DEF before, after
  <2>3. Logged(before, after, Mapped(i), 19, fails, FALSE)
    <3>1. IsState(before)
      BY <2>1 DEF before
    <3>2. QED
      BY <2>2, <3>1, LogAdds, Zenon
  <2>4. Adds(s.table, after.table, {19})
    <3>1. Adds(s.table, before.table, {19}) /\ {19} \cup {19} = {19}
      BY <2>1 DEF before
    <3>2. Adds(s.table, after.table, {19} \cup {19})
      BY <2>3, <3>1, AddsMore, Zenon DEF Logged
    <3>3. QED
      BY <3>1, <3>2
  <2>5. ASSUME 19 \notin fails
        PROVE  /\ Len(after.table) = start + i
               /\ \A k \in 1 .. i : after.table[start + k].record = Mapped(k)
    <3>1. /\ Len(before.table) = start + (i - 1)
          /\ \A k \in 1 .. (i - 1) : before.table[start + k].record = Mapped(k)
      BY <2>1, <2>5 DEF before
    <3>2. Len(after.table) = start + i
      BY <1>3, <2>1, <2>3, <2>5, <3>1 DEF Logged
    <3>3. after.table[start + i].record = Mapped(i)
      BY <2>3, <2>5, <3>2 DEF Logged
    <3>4. ASSUME NEW k \in 1 .. (i - 1) PROVE after.table[start + k] = before.table[start + k]
      <4>1. start + k \in 1 .. Len(before.table)
        BY <1>3, <2>1, <3>1
      <4>2. QED
        BY <2>3, <4>1 DEF Adds, Logged
    <3>5. QED
      BY <2>1, <3>1, <3>2, <3>3, <3>4, SMTT(30)
  <2>6. before.SmbiosHandle = s.SmbiosHandle
        /\ (19 \in fails => Len(before.table) = start)
    BY <2>1 DEF before
  <2>7. Right(i)
    BY <2>3, <2>4, <2>5, <2>6 DEF after, Logged
  <2> HIDE DEF Right
  <2>8. QED
    BY <2>1, <2>7
<1>7. Right(n)
  <2> HIDE DEF T
  <2>1. 0 .. n \subseteq T
    BY <1>2, <1>5, <1>6, IntervalInduction
  <2>2. n \in T
    BY <1>2, <2>1
  <2> HIDE DEF Right
  <2>3. QED
    BY <2>2 DEF T
<1>8. QED
  BY <1>0, <1>7, Zenon DEF Mapped, start, n, RegionsLogged

\* The records of a table: chassis and memory array are named by their handles, and
\* the records of the memory are those of the regions.
Tells(table, fails, template, regions) ==
  /\ 3 \notin fails =>
       \E e \in OfType(table, 3) : \A i \in OfType(table, 2) :
         table[i].record.ChassisHandle = table[e].handle
  /\ 16 \notin fails =>
       \E a \in OfType(table, 16) : \A i \in OfType(table, 17) \cup OfType(table, 19) :
         table[i].record.MemoryArrayHandle = table[a].handle
  /\ 17 \notin fails =>
       \E i \in DOMAIN table : \E handle :
         /\ OfType(table, 17) = {i}
         /\ table[i].record = MemoryDeviceRecord(template, regions, handle)
  /\ 19 \notin fails =>
       \E first \in 0 .. Len(table) : \E handle :
         /\ OfType(table, 19) = {first + i : i \in DOMAIN regions}
         /\ \A i \in DOMAIN regions :
              table[first + i].record = MappedAddressRecord(regions[i], handle)

\* They are the driver's, for every set of failing additions.
LEMMA TableTells ==
  ASSUME NEW garbage, NEW fails, NEW templates, NEW cpu, NEW nodes, NEW regions \in Seq(Region),
         regions = FlattenSeq([i \in DOMAIN nodes |-> RegionsOf(nodes[i])]),
         NEW table,
         table = PlatformSmbiosDriverEntryPoint(garbage, fails, templates, cpu, nodes)
  PROVE  Tells(table, fails, templates.device, regions)
<1> DEFINE Log(s, record)     == LogSmbiosData(s, record, fails, FALSE)
           LogKeep(s, record) == LogSmbiosData(s, record, fails, TRUE)
           start     == [table |-> <<>>, next |-> 1, SmbiosHandle |-> garbage]
           bios      == Log(start, Plain(0))
           system    == Log(bios, Plain(1))
           enclosure == LogKeep(system, Plain(3))
           baseboard == [type |-> 2, ChassisHandle |-> enclosure.SmbiosHandle]
           base      == Log(enclosure, baseboard)
           board     == Log(base, Plain(11))
           array     == LogKeep(board, Plain(16))
           cpuRecord == ProcessorRecord(templates.processor, cpu.count, cpu.MHz)
           processor == Log(array, cpuRecord)
           mapped    == LogRegions(processor, regions, fails)
           device    == MemoryDeviceRecord(templates.device, regions, array.SmbiosHandle)
           memory    == Log(mapped, device)
           boot      == Log(memory, Plain(32))
<1>1. /\ bios = LogSmbiosData(start, Plain(0), fails, FALSE)
      /\ system = LogSmbiosData(bios, Plain(1), fails, FALSE)
      /\ enclosure = LogSmbiosData(system, Plain(3), fails, TRUE)
      /\ base = LogSmbiosData(enclosure, baseboard, fails, FALSE)
      /\ board = LogSmbiosData(base, Plain(11), fails, FALSE)
      /\ array = LogSmbiosData(board, Plain(16), fails, TRUE)
      /\ processor = LogSmbiosData(array, cpuRecord, fails, FALSE)
      /\ mapped = LogRegions(processor, regions, fails)
      /\ memory = LogSmbiosData(mapped, device, fails, FALSE)
      /\ boot = LogSmbiosData(memory, Plain(32), fails, FALSE)
  OBVIOUS
<1>2. table = boot.table
  BY Zenon DEF PlatformSmbiosDriverEntryPoint
<1>3. IsState(start) /\ start.table = <<>>
  <2>1. start \in [table : Seq({}), next : Nat, SmbiosHandle : {garbage}]
    OBVIOUS
  <2>2. QED
    BY <2>1, Zenon DEF IsState
<1>4. /\ \A type : Plain(type).type = type
      /\ baseboard.type = 2 /\ cpuRecord.type = 4 /\ device.type = 17
  BY DEF Plain, ProcessorRecord, MemoryDeviceRecord
<1> HIDE DEF start, bios, system, enclosure, baseboard, base, board, array, cpuRecord,
             processor, mapped, device, memory, boot
<1>5. Logged(start, bios, Plain(0), 0, fails, FALSE)
  BY <1>1, <1>3, <1>4, LogAdds, Zenon
<1>6. Logged(bios, system, Plain(1), 1, fails, FALSE)
  <2>1. IsState(bios)
    BY <1>5 DEF Logged
  <2>2. QED
    BY <1>1, <1>4, <2>1, LogAdds, Zenon
<1>7. Logged(system, enclosure, Plain(3), 3, fails, TRUE)
  <2>1. IsState(system)
    BY <1>6 DEF Logged
  <2>2. QED
    BY <1>1, <1>4, <2>1, LogAdds, Zenon
<1>8. Logged(enclosure, base, baseboard, 2, fails, FALSE)
  <2>1. IsState(enclosure)
    BY <1>7 DEF Logged
  <2>2. QED
    BY <1>1, <1>4, <2>1, LogAdds, Zenon
<1>9. Logged(base, board, Plain(11), 11, fails, FALSE)
  <2>1. IsState(base)
    BY <1>8 DEF Logged
  <2>2. QED
    BY <1>1, <1>4, <2>1, LogAdds, Zenon
<1>10. Logged(board, array, Plain(16), 16, fails, TRUE)
  <2>1. IsState(board)
    BY <1>9 DEF Logged
  <2>2. QED
    BY <1>1, <1>4, <2>1, LogAdds, Zenon
<1>11. Logged(array, processor, cpuRecord, 4, fails, FALSE)
  <2>1. IsState(array)
    BY <1>10 DEF Logged
  <2>2. QED
    BY <1>1, <1>4, <2>1, LogAdds, Zenon
<1>12. RegionsLogged(processor, mapped, regions, fails)
  <2>1. IsState(processor)
    BY <1>11 DEF Logged
  <2>2. QED
    BY <1>1, <2>1, LogRegionsAdds, Zenon
<1>13. Logged(mapped, memory, device, 17, fails, FALSE)
  <2>1. IsState(mapped)
    BY <1>12 DEF RegionsLogged
  <2>2. QED
    BY <1>1, <1>4, <2>1, LogAdds, Zenon
<1>14. Logged(memory, boot, Plain(32), 32, fails, FALSE)
  <2>1. IsState(memory)
    BY <1>13 DEF Logged
  <2>2. QED
    BY <1>1, <1>4, <2>1, LogAdds, Zenon
<1>15. Adds(<<>>, system.table, {0, 1})
  <2>1. Adds(start.table, bios.table, {0}) /\ Adds(bios.table, system.table, {1})
    BY <1>5, <1>6 DEF Logged
  <2>2. Adds(start.table, system.table, {0} \cup {1})
    BY <2>1, AddsMore, Zenon
  <2>3. {0} \cup {1} = {0, 1}
    OBVIOUS
  <2>4. QED
    BY <1>3, <2>2, <2>3
<1>16. Adds(<<>>, enclosure.table, {0, 1, 3})
  <2>1. Adds(<<>>, system.table, {0, 1}) /\ Adds(system.table, enclosure.table, {3})
    BY <1>7, <1>15 DEF Logged
  <2>2. Adds(<<>>, enclosure.table, {0, 1} \cup {3})
    BY <2>1, AddsMore, Zenon
  <2>3. {0, 1} \cup {3} = {0, 1, 3}
    OBVIOUS
  <2>4. QED
    BY <2>2, <2>3
<1>17. Adds(<<>>, base.table, {0, 1, 2, 3})
  <2>1. Adds(<<>>, enclosure.table, {0, 1, 3}) /\ Adds(enclosure.table, base.table, {2})
    BY <1>8, <1>16 DEF Logged
  <2>2. Adds(<<>>, base.table, {0, 1, 3} \cup {2})
    BY <2>1, AddsMore, Zenon
  <2>3. {0, 1, 3} \cup {2} = {0, 1, 2, 3}
    OBVIOUS
  <2>4. QED
    BY <2>2, <2>3
<1>18. Adds(<<>>, board.table, {0, 1, 2, 3, 11})
  <2>1. Adds(<<>>, base.table, {0, 1, 2, 3}) /\ Adds(base.table, board.table, {11})
    BY <1>9, <1>17 DEF Logged
  <2>2. Adds(<<>>, board.table, {0, 1, 2, 3} \cup {11})
    BY <2>1, AddsMore, Zenon
  <2>3. {0, 1, 2, 3} \cup {11} = {0, 1, 2, 3, 11}
    OBVIOUS
  <2>4. QED
    BY <2>2, <2>3
<1>19. Adds(<<>>, array.table, {0, 1, 2, 3, 11, 16})
  <2>1. Adds(<<>>, board.table, {0, 1, 2, 3, 11}) /\ Adds(board.table, array.table, {16})
    BY <1>10, <1>18 DEF Logged
  <2>2. Adds(<<>>, array.table, {0, 1, 2, 3, 11} \cup {16})
    BY <2>1, AddsMore, Zenon
  <2>3. {0, 1, 2, 3, 11} \cup {16} = {0, 1, 2, 3, 11, 16}
    OBVIOUS
  <2>4. QED
    BY <2>2, <2>3
<1>20. Adds(<<>>, processor.table, {0, 1, 2, 3, 4, 11, 16})
  <2>1. Adds(<<>>, array.table, {0, 1, 2, 3, 11, 16}) /\ Adds(array.table, processor.table, {4})
    BY <1>11, <1>19 DEF Logged
  <2>2. Adds(<<>>, processor.table, {0, 1, 2, 3, 11, 16} \cup {4})
    BY <2>1, AddsMore, Zenon
  <2>3. {0, 1, 2, 3, 11, 16} \cup {4} = {0, 1, 2, 3, 4, 11, 16}
    OBVIOUS
  <2>4. QED
    BY <2>2, <2>3
<1>21. Adds(<<>>, mapped.table, {0, 1, 2, 3, 4, 11, 16, 19})
  <2>1. Adds(<<>>, processor.table, {0, 1, 2, 3, 4, 11, 16}) /\ Adds(processor.table, mapped.table, {19})
    BY <1>12, <1>20 DEF RegionsLogged
  <2>2. Adds(<<>>, mapped.table, {0, 1, 2, 3, 4, 11, 16} \cup {19})
    BY <2>1, AddsMore, Zenon
  <2>3. {0, 1, 2, 3, 4, 11, 16} \cup {19} = {0, 1, 2, 3, 4, 11, 16, 19}
    OBVIOUS
  <2>4. QED
    BY <2>2, <2>3
<1>22. Adds(memory.table, table, {32})
  BY <1>2, <1>14 DEF Logged
<1>23. Adds(mapped.table, table, {17, 32})
  <2>1. Adds(mapped.table, memory.table, {17}) /\ Adds(memory.table, table, {32})
    BY <1>13, <1>22 DEF Logged
  <2>2. Adds(mapped.table, table, {17} \cup {32})
    BY <2>1, AddsMore, Zenon
  <2>3. {17} \cup {32} = {17, 32}
    OBVIOUS
  <2>4. QED
    BY <2>2, <2>3
<1>24. Adds(processor.table, table, {17, 19, 32})
  <2>1. Adds(processor.table, mapped.table, {19}) /\ Adds(mapped.table, table, {17, 32})
    BY <1>12, <1>23 DEF RegionsLogged
  <2>2. Adds(processor.table, table, {19} \cup {17, 32})
    BY <2>1, AddsMore, Zenon
  <2>3. {19} \cup {17, 32} = {17, 19, 32}
    OBVIOUS
  <2>4. QED
    BY <2>2, <2>3
<1>25. Adds(array.table, table, {4, 17, 19, 32})
  <2>1. Adds(array.table, processor.table, {4}) /\ Adds(processor.table, table, {17, 19, 32})
    BY <1>11, <1>24 DEF Logged
  <2>2. Adds(array.table, table, {4} \cup {17, 19, 32})
    BY <2>1, AddsMore, Zenon
  <2>3. {4} \cup {17, 19, 32} = {4, 17, 19, 32}
    OBVIOUS
  <2>4. QED
    BY <2>2, <2>3
<1>26. Adds(board.table, table, {4, 16, 17, 19, 32})
  <2>1. Adds(board.table, array.table, {16}) /\ Adds(array.table, table, {4, 17, 19, 32})
    BY <1>10, <1>25 DEF Logged
  <2>2. Adds(board.table, table, {16} \cup {4, 17, 19, 32})
    BY <2>1, AddsMore, Zenon
  <2>3. {16} \cup {4, 17, 19, 32} = {4, 16, 17, 19, 32}
    OBVIOUS
  <2>4. QED
    BY <2>2, <2>3
<1>27. Adds(base.table, table, {4, 11, 16, 17, 19, 32})
  <2>1. Adds(base.table, board.table, {11}) /\ Adds(board.table, table, {4, 16, 17, 19, 32})
    BY <1>9, <1>26 DEF Logged
  <2>2. Adds(base.table, table, {11} \cup {4, 16, 17, 19, 32})
    BY <2>1, AddsMore, Zenon
  <2>3. {11} \cup {4, 16, 17, 19, 32} = {4, 11, 16, 17, 19, 32}
    OBVIOUS
  <2>4. QED
    BY <2>2, <2>3
<1>28. Adds(enclosure.table, table, {2, 4, 11, 16, 17, 19, 32})
  <2>1. Adds(enclosure.table, base.table, {2}) /\ Adds(base.table, table, {4, 11, 16, 17, 19, 32})
    BY <1>8, <1>27 DEF Logged
  <2>2. Adds(enclosure.table, table, {2} \cup {4, 11, 16, 17, 19, 32})
    BY <2>1, AddsMore, Zenon
  <2>3. {2} \cup {4, 11, 16, 17, 19, 32} = {2, 4, 11, 16, 17, 19, 32}
    OBVIOUS
  <2>4. QED
    BY <2>2, <2>3
<1>29. Placed(table, system.table, enclosure.table, 3)
  <2>1. Adds(system.table, enclosure.table, {3})
    BY <1>7 DEF Logged
  <2>2. 3 \notin {0, 1} /\ 3 \notin {2, 4, 11, 16, 17, 19, 32}
    OBVIOUS
  <2>3. QED
    BY <1>15, <1>28, <2>1, <2>2, TypeOnce, Zenon
<1>30. Placed(table, enclosure.table, base.table, 2)
  <2>1. Adds(enclosure.table, base.table, {2})
    BY <1>8 DEF Logged
  <2>2. 2 \notin {0, 1, 3} /\ 2 \notin {4, 11, 16, 17, 19, 32}
    OBVIOUS
  <2>3. QED
    BY <1>16, <1>27, <2>1, <2>2, TypeOnce, Zenon
<1>31. Placed(table, board.table, array.table, 16)
  <2>1. Adds(board.table, array.table, {16})
    BY <1>10 DEF Logged
  <2>2. 16 \notin {0, 1, 2, 3, 11} /\ 16 \notin {4, 17, 19, 32}
    OBVIOUS
  <2>3. QED
    BY <1>18, <1>25, <2>1, <2>2, TypeOnce, Zenon
<1>32. Placed(table, processor.table, mapped.table, 19)
  <2>1. Adds(processor.table, mapped.table, {19})
    BY <1>12 DEF RegionsLogged
  <2>2. 19 \notin {0, 1, 2, 3, 4, 11, 16} /\ 19 \notin {17, 32}
    OBVIOUS
  <2>3. QED
    BY <1>20, <1>23, <2>1, <2>2, TypeOnce, Zenon
<1>33. Placed(table, mapped.table, memory.table, 17)
  <2>1. Adds(mapped.table, memory.table, {17})
    BY <1>13 DEF Logged
  <2>2. 17 \notin {0, 1, 2, 3, 4, 11, 16, 19} /\ 17 \notin {32}
    OBVIOUS
  <2>3. QED
    BY <1>21, <1>22, <2>1, <2>2, TypeOnce, Zenon
<1>34. ASSUME 3 \notin fails
       PROVE  \E e \in OfType(table, 3) : \A i \in OfType(table, 2) :
                table[i].record.ChassisHandle = table[e].handle
  <2> DEFINE e == Len(enclosure.table)
  <2>1. e \in OfType(table, 3) /\ table[e] = enclosure.table[e]
    BY <1>7, <1>29, <1>34 DEF Logged, Placed
  <2>2. table[e].handle = enclosure.SmbiosHandle
    BY <1>7, <1>34, <2>1 DEF Logged
  <2> HIDE DEF e
  <2>3. ASSUME NEW i \in OfType(table, 2)
        PROVE  table[i].record.ChassisHandle = enclosure.SmbiosHandle
    <3>1. i \in (Len(enclosure.table) + 1) .. Len(base.table)
          /\ {Len(enclosure.table), Len(base.table)} \subseteq Nat
      BY <1>30 DEF Placed
    <3>2. 2 \notin fails /\ i = Len(base.table) /\ i \in 1 .. Len(base.table)
      BY <1>8, <3>1 DEF Logged
    <3>3. table[i].record = baseboard
      BY <1>8, <1>30, <3>2 DEF Logged, Placed
    <3>4. QED
      BY <3>3 DEF baseboard
  <2>4. QED
    BY <2>1, <2>2, <2>3
<1>35. ASSUME NEW i \in OfType(table, 17)
       PROVE  17 \notin fails /\ i = Len(memory.table) /\ table[i].record = device
  <2>1. i \in (Len(mapped.table) + 1) .. Len(memory.table)
        /\ {Len(mapped.table), Len(memory.table)} \subseteq Nat
    BY <1>33 DEF Placed
  <2>2. 17 \notin fails /\ i = Len(memory.table) /\ i \in 1 .. Len(memory.table)
    BY <1>13, <2>1 DEF Logged
  <2>3. table[i].record = device
    BY <1>13, <1>33, <2>2 DEF Logged, Placed
  <2>4. QED
    BY <2>2, <2>3
<1>36. ASSUME 19 \notin fails, NEW i \in DOMAIN regions
       PROVE  table[Len(processor.table) + i].record
                = MappedAddressRecord(regions[i], array.SmbiosHandle)
  <2>1. i \in 1 .. Len(regions) /\ Len(regions) \in Nat
    OBVIOUS
  <2>2. Len(processor.table) + i \in 1 .. Len(mapped.table)
    BY <1>12, <1>32, <1>36, <2>1 DEF RegionsLogged, Placed
  <2>3. mapped.table[Len(processor.table) + i].record
          = MappedAddressRecord(regions[i], processor.SmbiosHandle)
    BY <1>12, <1>36, <2>1 DEF RegionsLogged
  <2>4. processor.SmbiosHandle = array.SmbiosHandle
    BY <1>11 DEF Logged
  <2>5. QED
    BY <1>32, <2>2, <2>3, <2>4 DEF Placed
<1>37. ASSUME 19 \notin fails
       PROVE  /\ OfType(table, 19) = {Len(processor.table) + i : i \in DOMAIN regions}
              /\ Len(processor.table) \in 0 .. Len(table)
  <2> DEFINE p == Len(processor.table)
             n == Len(regions)
  <2>1. DOMAIN regions = 1 .. n /\ n \in Nat
    OBVIOUS
  <2>2. p \in Nat /\ OfType(table, 19) = (p + 1) .. (p + n) /\ p \in 0 .. Len(table)
    BY <1>12, <1>32, <1>37 DEF RegionsLogged, Placed
  <2> HIDE DEF p, n
  <2>3. (p + 1) .. (p + n) = {p + i : i \in 1 .. n}
    <3>1. \A j \in (p + 1) .. (p + n) : j - p \in 1 .. n /\ j = p + (j - p)
      BY <2>1, <2>2
    <3>2. \A j \in (p + 1) .. (p + n) : j \in {p + i : i \in 1 .. n}
      BY <3>1
    <3>3. \A i \in 1 .. n : p + i \in (p + 1) .. (p + n)
      BY <2>1, <2>2
    <3>4. {p + i : i \in 1 .. n} \subseteq (p + 1) .. (p + n)
      BY <3>3
    <3>5. QED
      BY <3>2, <3>4
  <2>4. QED
    BY <2>1, <2>2, <2>3 DEF p
<1>38. ASSUME NEW i \in OfType(table, 19)
       PROVE  table[i].record.MemoryArrayHandle = array.SmbiosHandle
  <2>1. 19 \notin fails
    BY <1>12, <1>32 DEF RegionsLogged, Placed
  <2>2. PICK k \in DOMAIN regions : i = Len(processor.table) + k
    BY <1>37, <2>1
  <2>3. table[i].record = MappedAddressRecord(regions[k], array.SmbiosHandle)
    BY <1>36, <2>1, <2>2
  <2>4. QED
    BY <2>3 DEF MappedAddressRecord
<1>39. ASSUME 16 \notin fails
       PROVE  \E a \in OfType(table, 16) : \A i \in OfType(table, 17) \cup OfType(table, 19) :
                table[i].record.MemoryArrayHandle = table[a].handle
  <2> DEFINE a == Len(array.table)
  <2>1. a \in OfType(table, 16) /\ table[a] = array.table[a]
    BY <1>10, <1>31, <1>39 DEF Logged, Placed
  <2>2. table[a].handle = array.SmbiosHandle
    BY <1>10, <1>39, <2>1 DEF Logged
  <2> HIDE DEF a
  <2>3. device.MemoryArrayHandle = array.SmbiosHandle
    BY DEF device, MemoryDeviceRecord
  <2>4. QED
    BY <1>35, <1>38, <2>1, <2>2, <2>3
<1>40. ASSUME 17 \notin fails
       PROVE  \E i \in DOMAIN table : \E handle :
                /\ OfType(table, 17) = {i}
                /\ table[i].record = MemoryDeviceRecord(templates.device, regions, handle)
  <2> DEFINE i == Len(memory.table)
  <2>1. i \in DOMAIN table /\ OfType(table, 17) = {i}
    BY <1>13, <1>33, <1>40 DEF Logged, Placed
  <2>2. table[i].record = device
    BY <1>35, <2>1
  <2>3. QED
    BY <2>1, <2>2, Zenon DEF device
<1>41. ASSUME 19 \notin fails
       PROVE  \E first \in 0 .. Len(table) : \E handle :
                /\ OfType(table, 19) = {first + i : i \in DOMAIN regions}
                /\ \A i \in DOMAIN regions :
                     table[first + i].record = MappedAddressRecord(regions[i], handle)
  BY <1>36, <1>37, <1>41, Zenon
<1>42. QED
  BY <1>34, <1>39, <1>40, <1>41, Zenon DEF Tells

\* The SMBIOS table tells the memory as the device tree has it, whatever the nodes are
\* and whichever additions fail, and its handles name the right records.
THEOREM SmbiosAlwaysExact == CallSpec => []SmbiosExact
<1>1. Answered => SmbiosExact
  <2> SUFFICES ASSUME Answered, input.kind = "smbios", result.status = "SUCCESS"
               PROVE  /\ 19 \notin input.fails => MappedAddressesExact
                      /\ 17 \notin input.fails => SizeExact
                      /\ HandlesExact
    BY Zenon DEF SmbiosExact, Returned
  <2> DEFINE nodes   == input.nodes
             table   == result.table
             regions == RegionsInOrder
             cpu     == [count |-> input.count, MHz |-> Estimate]
  <2>1. input \in Calls /\ table = SmbiosTable
    BY DEF Answered, KeyboardInput, Failure
  <2>2. nodes \in Seq(ToSet(nodes)) /\ \A node \in ToSet(nodes) : IsMemoryNode(node)
    BY <2>1, CallsAssumption
  <2>3. /\ regions \in Seq(Region)
        /\ regions = FlattenSeq([i \in DOMAIN nodes |-> RegionsOf(nodes[i])])
    <3> HIDE DEF nodes
    <3>1. QED
      BY <2>2, RegionsExact, Zenon DEF RegionsInOrder, nodes
  <2>4. table = PlatformSmbiosDriverEntryPoint(input.garbage, input.fails, input.templates,
                                               cpu, nodes)
    BY <2>1, Zenon DEF SmbiosTable
  <2>5. \A type : EntriesOf(type) = OfType(table, type)
    BY Zenon DEF EntriesOf, OfType
  <2> HIDE DEF nodes, table, regions, cpu
  <2>6. Tells(table, input.fails, input.templates.device, regions)
    BY <2>3, <2>4, TableTells, Zenon
  <2>7. HandlesExact
    BY <2>5, <2>6, Zenon DEF Tells, HandlesExact, Names, table
  <2>8. ASSUME 17 \notin input.fails PROVE SizeExact
    <3> SUFFICES ASSUME Total(regions) > 0, Total(regions) \div MB < WORD
                 PROVE  \E i \in DOMAIN table :
                          /\ OfType(table, 17) = {i}
                          /\ SizeInMB(table[i].record) = Total(regions) \div MB
      BY <2>5, Zenon DEF SizeExact, regions, table
    <3>1. PICK i \in DOMAIN table :
            \E handle :
              /\ OfType(table, 17) = {i}
              /\ table[i].record = MemoryDeviceRecord(input.templates.device, regions, handle)
      BY <2>6, <2>8, Zenon DEF Tells
    <3>2. PICK handle :
            /\ OfType(table, 17) = {i}
            /\ table[i].record = MemoryDeviceRecord(input.templates.device, regions, handle)
      BY <3>1
    <3>3. SizeInMB(table[i].record) = Total(regions) \div MB
      BY <2>3, <3>2, DeviceSizeExact
    <3>4. QED
      BY <3>2, <3>3
  <2>9. ASSUME 19 \notin input.fails PROVE MappedAddressesExact
    <3>1. PICK first \in 0 .. Len(table) :
            \E handle :
              /\ OfType(table, 19) = {first + i : i \in DOMAIN regions}
              /\ \A i \in DOMAIN regions :
                   table[first + i].record = MappedAddressRecord(regions[i], handle)
      BY <2>6, <2>9, Zenon DEF Tells
    <3>2. PICK handle :
            /\ OfType(table, 19) = {first + i : i \in DOMAIN regions}
            /\ \A i \in DOMAIN regions :
                 table[first + i].record = MappedAddressRecord(regions[i], handle)
      BY <3>1
    <3>3. ASSUME NEW i \in DOMAIN regions, Reachable(regions[i])
          PROVE  LET record == table[first + i].record
                 IN  /\ InKilobyte(regions[i].base, record.StartingAddress)
                     /\ InKilobyte(regions[i].base + regions[i].size - 1, record.EndingAddress)
      <4>1. regions[i] \in Region
        BY <2>3
      <4>2. table[first + i].record = MappedAddressRecord(regions[i], handle)
        BY <3>2
      <4>3. QED
        BY <3>3, <4>1, <4>2, AddressesExact
    <3>4. QED
      BY <2>5, <3>2, <3>3, Zenon DEF MappedAddressesExact, regions, table
  <2>10. QED
    BY <2>7, <2>8, <2>9
<1>2. QED
  BY <1>1, AnsweredAlways, PTL

=============================================================================
