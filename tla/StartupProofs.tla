---------------------------- MODULE StartupProofs ----------------------------
(***************************************************************************)
(* Theorems about DeviceMemory, for every device tree, every room for      *)
(* HOBs, every width of a cell and every page size: what the start-up      *)
(* library reports, and which device pages the drivers can reach.          *)
(***************************************************************************)
EXTENDS DeviceMemory, DeviceTreeProofs, FiniteSetTheorems

\* The ranges before one place of a walk over the regs of all nodes in a set.
RegBytes(node, i) == Bytes(UemuFdtGetReg(node, i).base, UemuFdtGetReg(node, i).size)

FirstRegs(node, k) == UNION {RegBytes(node, i) : i \in 0 .. (k - 1)}

RegsBefore(nodes, relevant, n, k) ==
  (UNION {Regs(nodes[i]) : i \in {j \in relevant : j < n}})
    \cup (IF n \in relevant THEN FirstRegs(nodes[n], k) ELSE {})

HobKinds == {"SystemMemory", "Reserved", "BootServicesData", "MemoryType", "Cpu", "Fdt",
             "MemoryMappedIO", "SecHandOff"}

HobTypes == [type : HobKinds, base : Nat, size : Nat]

Places == {"memory", "reserveMap", "reserved", "cpu", "platform", "io", "handOff", "done"}

SecTyped ==
  /\ tree \in Trees
  /\ hobs \in Seq(HobTypes)
  /\ secPc \in Places
  /\ Node \in Nat /\ Index \in Nat

\* The nodes that the walk at hand is about.
Relevant == IF secPc = "memory" THEN MemoryNodes ELSE ReservedNodes

\* Where the loops are.
AtPlace ==
  /\ secPc \in {"memory", "reserved"} =>
       /\ Node > 0
       /\ Index > 0 => Node \in Relevant
       /\ \A i \in 0 .. (Index - 1) : UemuFdtGetReg(tree.nodes[Node], i).status = "SUCCESS"
  /\ secPc = "reserveMap" => Index \in 1 .. Len(tree.reserveMap) + 1
  /\ secPc = "io" =>
       /\ Index \in 1 .. Len(IoDevices) + 1 /\ Node \in 0 .. Len(tree.nodes)
       /\ tree.end # "NOTFOUND" => Index = 1

MapBefore(map, k) ==
  UNION {Bytes(map[i].base, map[i].size) :
           i \in {j \in 1 .. (k - 1) : map[j].base + map[j].size <= MAX_UINT64}}

\* The usable devices that the loop over IoDevices has passed.
IoBefore ==
  {i \in UsableIoNodes :
     \E d \in DOMAIN IoDevices :
       /\ IoDevices[d] \in tree.nodes[i].compatible
       /\ d < Index \/ (d = Index /\ i <= Node)}

IoBytesOf(nodes, S) == UNION {IoBytes(nodes[i]) : i \in S}

\* What has been reported at every place.
MemorySoFar ==
  IF secPc = "memory" THEN RegsBefore(tree.nodes, MemoryNodes, Node, Index)
  ELSE AllRegs(MemoryNodes)

ReservedSoFar ==
  IF secPc = "memory" THEN {}
  ELSE IF secPc = "reserveMap" THEN MapBefore(tree.reserveMap, Index)
  ELSE MappedReserve \cup IF secPc = "reserved"
                          THEN RegsBefore(tree.nodes, NoMapNodes, Node, Index)
                          ELSE AllRegs(NoMapNodes)

BootDataSoFar ==
  IF secPc \in {"memory", "reserveMap"} THEN {}
  ELSE IF secPc = "reserved"
       THEN RegsBefore(tree.nodes, ReservedNodes \ NoMapNodes, Node, Index)
       ELSE AllRegs(ReservedNodes \ NoMapNodes)

ReportedSoFar ==
  /\ Reported("SystemMemory") = MemorySoFar
  /\ Reported("Reserved") = ReservedSoFar
  /\ Reported("BootServicesData") = BootDataSoFar

IoSoFar ==
  /\ secPc \in {"memory", "reserveMap", "reserved", "cpu", "platform"} =>
       Reported("MemoryMappedIO") = {} /\ FdtHob \notin ToSet(hobs)
  /\ secPc = "io" /\ tree.end = "NOTFOUND" =>
       Reported("MemoryMappedIO") = IoBytesOf(tree.nodes, IoBefore)
  /\ secPc \in {"handOff", "done"} /\ FdtHob \in ToSet(hobs) =>
       Reported("MemoryMappedIO") = IoBytesOf(tree.nodes, UsableIoNodes)

\* Nothing has been dropped as long as there is room.
HobsInv ==
  /\ SecTyped /\ AtPlace
  /\ Len(hobs) < MaxHobs => ReportedSoFar /\ IoSoFar

-----------------------------------------------------------------------------
\* A tree's nodes and reserve map.
LEMMA TreeParts ==
  ASSUME NEW t \in Trees
  PROVE  /\ Len(t.nodes) \in Nat /\ DOMAIN t.nodes = 1 .. Len(t.nodes)
         /\ \A i \in DOMAIN t.nodes : IsNode(t.nodes[i])
         /\ Len(t.reserveMap) \in Nat /\ DOMAIN t.reserveMap = 1 .. Len(t.reserveMap)
         /\ \A i \in DOMAIN t.reserveMap :
              t.reserveMap[i].base \in Nat /\ t.reserveMap[i].size \in Nat
         /\ ToSet(t.reserveMap) = {t.reserveMap[i] : i \in DOMAIN t.reserveMap}
<1> DEFINE nodes == t.nodes
           map == t.reserveMap
           Entries == [base : 0 .. MAX_UINT64, size : 0 .. MAX_UINT64]
<1>1. /\ nodes \in Seq(ToSet(nodes)) /\ \A node \in ToSet(nodes) : IsNode(node)
      /\ map \in Seq(Entries)
  BY TreesAssumption DEF IsTree
<1> HIDE DEF nodes, map, Entries
<1>2. /\ Len(nodes) \in Nat /\ DOMAIN nodes = 1 .. Len(nodes)
      /\ Len(map) \in Nat /\ DOMAIN map = 1 .. Len(map)
      /\ \A i \in 1 .. Len(map) : map[i] \in Entries
  BY <1>1
<1>3. \A i \in DOMAIN nodes : IsNode(nodes[i])
  BY <1>1 DEF ToSet
<1>4. \A i \in DOMAIN map : map[i].base \in Nat /\ map[i].size \in Nat
  BY <1>2, FdtConstants DEF Entries
<1>5. QED
  BY <1>2, <1>3, <1>4 DEF nodes, map, ToSet

\* The ranges of a node are those before its first reg that cannot be used.
LEMMA RegsUpToFirstBad ==
  ASSUME NEW node, IsNode(node), NEW k \in Nat,
         \A i \in 0 .. (k - 1) : UemuFdtGetReg(node, i).status = "SUCCESS",
         UemuFdtGetReg(node, k).status # "SUCCESS"
  PROVE  Regs(node) = FirstRegs(node, k)
<1> DEFINE last == IF node.reg = Absent THEN 0 ELSE Len(node.reg)
           valid == {i \in 0 .. last :
                       \A j \in 0 .. i : UemuFdtGetReg(node, j).status = "SUCCESS"}
<1>1. \A i \in 0 .. (k - 1) : i \in 0 .. last
  <2> SUFFICES ASSUME NEW i \in 0 .. (k - 1) PROVE i \in 0 .. last
    OBVIOUS
  <2>1. node.reg \in Seq(CellValue) /\ node.reg # Absent /\ i < Len(node.reg) /\ i \in Nat
    BY RegHasIndex
  <2>2. QED
    BY <2>1
<1>2. last \in Nat
  BY DEF IsNode
<1> HIDE DEF last
<1>3. valid = 0 .. (k - 1)
  <2>1. \A i \in 0 .. (k - 1) : \A j \in 0 .. i : j \in 0 .. (k - 1)
    OBVIOUS
  <2>2. \A i \in valid : i < k
    OBVIOUS
  <2>3. valid \subseteq 0 .. (k - 1)
    BY <1>2, <2>2
  <2>4. 0 .. (k - 1) \subseteq valid
    BY <1>1, <2>1
  <2>5. QED
    BY <2>3, <2>4
<1>4. Regs(node) = UNION {RegBytes(node, i) : i \in valid}
  BY DEF Regs, RegBytes, last
<1>5. QED
  BY <1>3, <1>4, Zenon DEF FirstRegs

\* One more member of a union.
LEMMA UnionWith == \A A, B : UNION (A \cup {B}) = (UNION A) \cup B
<1> SUFFICES ASSUME NEW A, NEW B PROVE UNION (A \cup {B}) = (UNION A) \cup B
  OBVIOUS
<1>1. ASSUME NEW x, x \in UNION (A \cup {B}) PROVE x \in (UNION A) \cup B
  BY <1>1
<1>2. ASSUME NEW x, x \in (UNION A) \cup B PROVE x \in UNION (A \cup {B})
  BY <1>2
<1>3. QED
  BY <1>1, <1>2

\* How the ranges before a place grow from step to step of a walk.
LEMMA WalkBegins ==
  ASSUME NEW nodes, NEW relevant \in SUBSET (Nat \ {0})
  PROVE  RegsBefore(nodes, relevant, 1, 0) = {}
<1>1. {j \in relevant : j < 1} = {}
  <2>1. \A j \in relevant : j \in Nat \ {0}
    OBVIOUS
  <2>2. \A j \in relevant : ~(j < 1)
    BY <2>1
  <2>3. QED
    BY <2>2, Zenon
<1>3. 0 .. (0 - 1) = {}
  OBVIOUS
<1>2. QED
  BY <1>1, <1>3 DEF RegsBefore, FirstRegs

\* One round more of a walk over the tuples of a node.
LEMMA WalkContinues ==
  ASSUME NEW nodes, NEW relevant, NEW n \in Nat, NEW k \in Nat
  PROVE  RegsBefore(nodes, relevant, n, k + 1)
           = RegsBefore(nodes, relevant, n, k)
               \cup (IF n \in relevant THEN RegBytes(nodes[n], k) ELSE {})
<1>1. 0 .. ((k + 1) - 1) = 0 .. (k - 1) \cup {k}
  OBVIOUS
<1>2. FirstRegs(nodes[n], k + 1) = FirstRegs(nodes[n], k) \cup RegBytes(nodes[n], k)
  BY <1>1 DEF FirstRegs
<1>3. CASE n \in relevant
  <2> DEFINE passed == UNION {Regs(nodes[i]) : i \in {j \in relevant : j < n}}
  <2>1. \A m : RegsBefore(nodes, relevant, n, m) = passed \cup FirstRegs(nodes[n], m)
    <3> SUFFICES ASSUME NEW m
                 PROVE  RegsBefore(nodes, relevant, n, m) = passed \cup FirstRegs(nodes[n], m)
      OBVIOUS
    <3>1. (IF n \in relevant THEN FirstRegs(nodes[n], m) ELSE {}) = FirstRegs(nodes[n], m)
      BY <1>3
    <3>2. RegsBefore(nodes, relevant, n, m)
            = passed \cup (IF n \in relevant THEN FirstRegs(nodes[n], m) ELSE {})
      BY Zenon DEF RegsBefore
    <3> HIDE DEF passed
    <3>3. QED
      BY <3>1, <3>2, Zenon
  <2> HIDE DEF passed
  <2>2. QED
    BY <1>2, <1>3, <2>1
<1>4. CASE n \notin relevant
  BY <1>4, Zenon DEF RegsBefore
<1>5. QED
  BY <1>3, <1>4

\* A walk goes on to the next node when the tuples of one are done.
LEMMA WalkGoesOn ==
  ASSUME NEW nodes, NEW relevant \in SUBSET Nat, NEW n \in Nat, NEW k \in Nat,
         n \in relevant => Regs(nodes[n]) = FirstRegs(nodes[n], k)
  PROVE  RegsBefore(nodes, relevant, n + 1, 0) = RegsBefore(nodes, relevant, n, k)
<1>1. FirstRegs(nodes[n + 1], 0) = {}
  <2>1. 0 .. (0 - 1) = {}
    OBVIOUS
  <2>2. QED
    BY <2>1 DEF FirstRegs
<1>2. \A j \in relevant : j \in Nat /\ (j < n + 1 <=> j < n \/ j = n)
  <2>1. \A j \in relevant : j \in Nat
    OBVIOUS
  <2>2. QED
    BY <2>1
<1> DEFINE Passed(m) == {j \in relevant : j < m}
<1>3. RegsBefore(nodes, relevant, n + 1, 0) = UNION {Regs(nodes[i]) : i \in Passed(n + 1)}
  BY <1>1, Zenon DEF RegsBefore
<1>4. CASE n \in relevant
  <2>1. Passed(n + 1) = Passed(n) \cup {n}
    BY <1>2, <1>4
  <2>2. RegsBefore(nodes, relevant, n, k)
          = (UNION {Regs(nodes[i]) : i \in Passed(n)}) \cup Regs(nodes[n])
    BY <1>4, Zenon DEF RegsBefore
  <2>3. \A S : UNION {Regs(nodes[i]) : i \in S \cup {n}}
                 = (UNION {Regs(nodes[i]) : i \in S}) \cup Regs(nodes[n])
    <3> SUFFICES ASSUME NEW S
                 PROVE  UNION {Regs(nodes[i]) : i \in S \cup {n}}
                          = (UNION {Regs(nodes[i]) : i \in S}) \cup Regs(nodes[n])
      OBVIOUS
    <3>1. {Regs(nodes[i]) : i \in S \cup {n}} = {Regs(nodes[i]) : i \in S} \cup {Regs(nodes[n])}
      OBVIOUS
    <3>2. QED
      BY <3>1, UnionWith
  <2> HIDE DEF Passed
  <2>4. QED
    BY <1>3, <2>1, <2>2, <2>3, Zenon
<1>5. CASE n \notin relevant
  <2>1. Passed(n + 1) = Passed(n)
    BY <1>2, <1>5
  <2>2. RegsBefore(nodes, relevant, n, k) = UNION {Regs(nodes[i]) : i \in Passed(n)}
    BY <1>5, Zenon DEF RegsBefore
  <2> HIDE DEF Passed
  <2>3. QED
    BY <1>3, <2>1, <2>2
<1>6. QED
  BY <1>4, <1>5

\* After the last node a walk has seen all tuples.
LEMMA WalkEnds ==
  ASSUME NEW nodes, NEW m \in Nat, NEW relevant \in SUBSET (1 .. m),
         NEW n \in Nat \ {0}, n \notin 1 .. m, NEW k
  PROVE  RegsBefore(nodes, relevant, n, k) = UNION {Regs(nodes[i]) : i \in relevant}
<1>1. {j \in relevant : j < n} = relevant /\ n \notin relevant
  <2>1. \A j \in relevant : j \in 1 .. m
    OBVIOUS
  <2>2. \A j \in relevant : j < n
    BY <2>1
  <2>3. QED
    BY <2>1, <2>2
<1>2. QED
  BY <1>1 DEF RegsBefore

\* What a new HOB adds to what is reported.
LEMMA HobBuilt ==
  ASSUME hobs \in Seq(HobTypes), NEW hob \in HobTypes, BuildHob(hob)
  PROVE  /\ hobs' \in Seq(HobTypes)
         /\ Len(hobs') < MaxHobs =>
              /\ Len(hobs) < MaxHobs
              /\ ToSet(hobs') = ToSet(hobs) \cup {hob}
              /\ \A type : Reported(type)' =
                   Reported(type) \cup (IF hob.type = type THEN Bytes(hob.base, hob.size) ELSE {})
<1>1. CASE Len(hobs) < MaxHobs
  <2> DEFINE n == Len(hobs)
  <2>1. hobs' = Append(hobs, hob)
    BY <1>1 DEF BuildHob
  <2>2. /\ n \in Nat /\ DOMAIN hobs = 1 .. n /\ DOMAIN hobs' = 1 .. n + 1
        /\ hobs'[n + 1] = hob /\ \A i \in 1 .. n : hobs'[i] = hobs[i]
        /\ hobs' \in Seq(HobTypes)
    BY <2>1
  <2>3. ToSet(hobs') = ToSet(hobs) \cup {hob}
    BY <2>1, ToSetAppend
  <2> HIDE DEF n
  <2>4. ASSUME NEW type
        PROVE  Reported(type)' =
                 Reported(type) \cup (IF hob.type = type THEN Bytes(hob.base, hob.size) ELSE {})
    <3> DEFINE old == {j \in DOMAIN hobs : hobs[j].type = type}
               new == {j \in DOMAIN hobs' : hobs'[j].type = type}
    <3>1. new = old \cup (IF hob.type = type THEN {n + 1} ELSE {})
      BY <2>2
    <3>2. \A i \in old : hobs'[i] = hobs[i]
      BY <2>2
    <3>3. /\ Reported(type) = UNION {Bytes(hobs[i].base, hobs[i].size) : i \in old}
          /\ Reported(type)' = UNION {Bytes(hobs'[i].base, hobs'[i].size) : i \in new}
      BY DEF Reported, Bytes
    <3> HIDE DEF old, new
    <3>4. QED
      BY <2>2, <3>1, <3>2, <3>3
  <2>5. QED
    BY <1>1, <2>2, <2>3, <2>4
<1>2. CASE ~(Len(hobs) < MaxHobs)
  BY <1>2 DEF BuildHob
<1>3. QED
  BY <1>1, <1>2

-----------------------------------------------------------------------------
\* What stays as it is with the tree and with the HOBs.
LEMMA TreeKept ==
  ASSUME tree' = tree
  PROVE  /\ MemoryNodes' = MemoryNodes /\ ReservedNodes' = ReservedNodes
         /\ NoMapNodes' = NoMapNodes /\ UsableIoNodes' = UsableIoNodes
         /\ MappedReserve' = MappedReserve
         /\ AllRegs(MemoryNodes)' = AllRegs(MemoryNodes)
         /\ AllRegs(NoMapNodes)' = AllRegs(NoMapNodes)
         /\ AllRegs(ReservedNodes \ NoMapNodes)' = AllRegs(ReservedNodes \ NoMapNodes)
BY DEF MemoryNodes, ReservedNodes, NoMapNodes, UsableIoNodes, MappedReserve, AllRegs

\* What a step that adds no HOB reports.
LEMMA HobsKept ==
  ASSUME hobs' = hobs
  PROVE  ToSet(hobs') = ToSet(hobs) /\ \A type : Reported(type)' = Reported(type)
BY DEF Reported

\* The nodes of each kind are nodes of the tree.
LEMMA NodesAreNodes ==
  ASSUME tree \in Trees
  PROVE  LET m == Len(tree.nodes)
         IN  /\ m \in Nat /\ DOMAIN tree.nodes = 1 .. m
             /\ MemoryNodes \subseteq 1 .. m /\ ReservedNodes \subseteq 1 .. m
             /\ NoMapNodes \subseteq ReservedNodes /\ UsableIoNodes \subseteq 1 .. m
             /\ Relevant \subseteq 1 .. m
<1>1. Len(tree.nodes) \in Nat /\ DOMAIN tree.nodes = 1 .. Len(tree.nodes)
  BY TreeParts
<1>2. QED
  BY <1>1 DEF MemoryNodes, ReservedNodes, NoMapNodes, UsableIoNodes, Relevant

\* A round of a walk over regs: a HOB for one range of a node that the walk is about,
\* or the next node, after all the ranges of this one.
LEMMA WalkRound ==
  ASSUME SecTyped, AtPlace, NEW place \in {"memory", "reserved"},
         NEW type \in HobKinds, WalkRegs(place, Node \in Relevant, type)
  PROVE  /\ tree' = tree /\ secPc' = secPc /\ secPc = place
         /\ SecTyped' /\ AtPlace'
         /\ \/ /\ Node \in Relevant /\ Node' = Node /\ Index' = Index + 1
               /\ \E hob \in HobTypes :
                    /\ BuildHob(hob) /\ hob.type = type
                    /\ Bytes(hob.base, hob.size) = RegBytes(tree.nodes[Node], Index)
            \/ /\ hobs' = hobs /\ Node' = Node + 1 /\ Index' = 0
               /\ Node \in Relevant => Regs(tree.nodes[Node]) = FirstRegs(tree.nodes[Node], Index)
<1> DEFINE node == tree.nodes[Node]
           reg == UemuFdtGetReg(node, Index)
<1>1. /\ secPc = place /\ Node \in DOMAIN tree.nodes /\ tree' = tree /\ secPc' = secPc
      /\ IF Node \in Relevant /\ reg.status = "SUCCESS"
         THEN BuildHob(Hob(type, reg.base, reg.size)) /\ Index' = Index + 1 /\ Node' = Node
         ELSE Node' = Node + 1 /\ Index' = 0 /\ hobs' = hobs
  BY DEF WalkRegs, AtNode, Reg, AfterLastReg
<1>2. /\ IsNode(node) /\ Node \in Nat /\ Index \in Nat /\ tree \in Trees
      /\ hobs \in Seq(HobTypes) /\ secPc \in Places
  BY <1>1, TreeParts DEF SecTyped
<1>3. /\ Node > 0 /\ Index > 0 => Node \in Relevant
      /\ \A i \in 0 .. (Index - 1) : UemuFdtGetReg(node, i).status = "SUCCESS"
  BY <1>1 DEF AtPlace
<1>4. Relevant' = Relevant
  BY <1>1, TreeKept DEF Relevant
<1>5. CASE Node \in Relevant /\ reg.status = "SUCCESS"
  <2>1. reg.base \in Nat /\ reg.size \in Nat
    BY <1>2, <1>5, RegRange
  <2> DEFINE hob == Hob(type, reg.base, reg.size)
  <2>2. /\ hob \in HobTypes /\ hob.type = type
        /\ Bytes(hob.base, hob.size) = RegBytes(node, Index)
    BY <2>1 DEF Hob, HobTypes, RegBytes
  <2>3. BuildHob(hob) /\ Index' = Index + 1 /\ Node' = Node
    BY <1>1, <1>5
  <2> HIDE DEF hob
  <2>4. hobs' \in Seq(HobTypes)
    BY <1>2, <2>2, <2>3, HobBuilt
  <2>5. SecTyped'
    BY <1>1, <1>2, <2>3, <2>4 DEF SecTyped
  <2>6. \A i \in 0 .. ((Index + 1) - 1) : UemuFdtGetReg(node, i).status = "SUCCESS"
    <3>1. \A i \in 0 .. ((Index + 1) - 1) : i \in 0 .. (Index - 1) \/ i = Index
      BY <1>2
    <3>2. QED
      BY <1>3, <1>5, <3>1
  <2>7. AtPlace'
    BY <1>1, <1>3, <1>4, <1>5, <2>3, <2>6 DEF AtPlace
  <2>8. QED
    BY <1>1, <1>5, <2>2, <2>3, <2>5, <2>7
<1>6. CASE ~(Node \in Relevant /\ reg.status = "SUCCESS")
  <2>1. Node' = Node + 1 /\ Index' = 0 /\ hobs' = hobs
    BY <1>1, <1>6
  <2>2. SecTyped'
    BY <1>1, <1>2, <2>1 DEF SecTyped
  <2>3. AtPlace'
    <3>1. 0 .. (0 - 1) = {}
      OBVIOUS
    <3>2. QED
      BY <1>1, <1>2, <2>1, <3>1 DEF AtPlace
  <2>4. Node \in Relevant => Regs(node) = FirstRegs(node, Index)
    BY <1>2, <1>3, <1>6, RegsUpToFirstBad
  <2>5. QED
    BY <1>1, <2>1, <2>2, <2>3, <2>4
<1>7. QED
  BY <1>5, <1>6

\* MemoryInitialization: the walk over the memory nodes.
LEMMA MemoryStep ==
  ASSUME HobsInv, MemoryInitialization
  PROVE  HobsInv'
<1> DEFINE m == Len(tree.nodes)
<1>1. SecTyped /\ AtPlace /\ tree \in Trees /\ Node \in Nat /\ Index \in Nat
  BY DEF HobsInv, SecTyped
<1>2. /\ m \in Nat /\ DOMAIN tree.nodes = 1 .. m /\ MemoryNodes \subseteq 1 .. m
  BY <1>1, NodesAreNodes
<1>3. CASE WalkRegs("memory", AtNode("memory") /\ tree.nodes[Node].isMemory, "SystemMemory")
  <2>1. secPc = "memory" /\ Node \in DOMAIN tree.nodes
    BY <1>3 DEF WalkRegs, AtNode
  <2>2. Relevant = MemoryNodes /\ (Node \in Relevant <=> tree.nodes[Node].isMemory)
    BY <2>1 DEF Relevant, MemoryNodes
  <2>3. /\ tree' = tree /\ secPc' = "memory" /\ SecTyped' /\ AtPlace'
        /\ \/ /\ Node \in Relevant /\ Node' = Node /\ Index' = Index + 1
              /\ \E hob \in HobTypes :
                   /\ BuildHob(hob) /\ hob.type = "SystemMemory"
                   /\ Bytes(hob.base, hob.size) = RegBytes(tree.nodes[Node], Index)
           \/ /\ hobs' = hobs /\ Node' = Node + 1 /\ Index' = 0
              /\ Node \in Relevant => Regs(tree.nodes[Node]) = FirstRegs(tree.nodes[Node], Index)
    <3>1. WalkRegs("memory", Node \in Relevant, "SystemMemory")
      BY <1>3, <2>1, <2>2 DEF WalkRegs, AtNode
    <3>2. "memory" \in {"memory", "reserved"} /\ "SystemMemory" \in HobKinds
      BY DEF HobKinds
    <3>3. QED
      BY <1>1, <2>1, <3>1, <3>2, WalkRound
  <2>4. MemoryNodes' = MemoryNodes
    BY <2>3, TreeKept
  <2>5. ASSUME Len(hobs') < MaxHobs PROVE ReportedSoFar' /\ IoSoFar'
    <3>1. CASE /\ Node \in Relevant /\ Node' = Node /\ Index' = Index + 1
               /\ \E hob \in HobTypes :
                    /\ BuildHob(hob) /\ hob.type = "SystemMemory"
                    /\ Bytes(hob.base, hob.size) = RegBytes(tree.nodes[Node], Index)
      <4>1. PICK hob \in HobTypes :
              /\ BuildHob(hob) /\ hob.type = "SystemMemory"
              /\ Bytes(hob.base, hob.size) = RegBytes(tree.nodes[Node], Index)
        BY <3>1
      <4>2. /\ Len(hobs) < MaxHobs /\ ToSet(hobs') = ToSet(hobs) \cup {hob}
            /\ \A type : Reported(type)' = Reported(type)
                 \cup (IF hob.type = type THEN Bytes(hob.base, hob.size) ELSE {})
        BY <1>1, <2>5, <4>1, HobBuilt DEF SecTyped
      <4>3. ReportedSoFar /\ IoSoFar
        BY <4>2 DEF HobsInv
      <4>4. RegsBefore(tree.nodes, MemoryNodes, Node, Index + 1)
              = RegsBefore(tree.nodes, MemoryNodes, Node, Index) \cup RegBytes(tree.nodes[Node], Index)
        <5>1. Node \in MemoryNodes
          BY <2>2, <3>1
        <5>2. RegsBefore(tree.nodes, MemoryNodes, Node, Index + 1)
                = RegsBefore(tree.nodes, MemoryNodes, Node, Index)
                    \cup (IF Node \in MemoryNodes THEN RegBytes(tree.nodes[Node], Index) ELSE {})
          BY <1>1, WalkContinues
        <5>3. QED
          BY <5>1, <5>2
      <4>5. ReportedSoFar'
        BY <2>1, <2>3, <2>4, <3>1, <4>1, <4>2, <4>3, <4>4
           DEF ReportedSoFar, MemorySoFar, ReservedSoFar, BootDataSoFar
      <4>6. hob # FdtHob
        BY <4>1 DEF FdtHob, Hob
      <4>7. IoSoFar'
        BY <2>1, <2>3, <4>1, <4>2, <4>3, <4>6 DEF IoSoFar
      <4>8. QED
        BY <4>5, <4>7
    <3>2. CASE /\ hobs' = hobs /\ Node' = Node + 1 /\ Index' = 0
               /\ Node \in Relevant => Regs(tree.nodes[Node]) = FirstRegs(tree.nodes[Node], Index)
      <4>1. ReportedSoFar /\ IoSoFar
        BY <2>5, <3>2 DEF HobsInv
      <4>2. ToSet(hobs') = ToSet(hobs) /\ \A type : Reported(type)' = Reported(type)
        BY <3>2, HobsKept
      <4>3. RegsBefore(tree.nodes, MemoryNodes, Node + 1, 0)
              = RegsBefore(tree.nodes, MemoryNodes, Node, Index)
        <5>1. MemoryNodes \in SUBSET Nat
          BY <1>2
        <5>2. QED
          BY <1>1, <2>2, <3>2, <5>1, WalkGoesOn
      <4>4. ReportedSoFar'
        BY <2>1, <2>3, <2>4, <3>2, <4>1, <4>2, <4>3
           DEF ReportedSoFar, MemorySoFar, ReservedSoFar, BootDataSoFar
      <4>5. IoSoFar'
        BY <2>1, <2>3, <4>1, <4>2 DEF IoSoFar
      <4>6. QED
        BY <4>4, <4>5
    <3>3. QED
      BY <2>3, <3>1, <3>2
  <2>6. QED
    BY <2>3, <2>5 DEF HobsInv
<1>4. CASE ~AtNode("memory") /\ GoTo("memory", "reserveMap", 0, 1) /\ UNCHANGED hobs
  <2>1. /\ secPc = "memory" /\ secPc' = "reserveMap" /\ Node' = 0 /\ Index' = 1
        /\ tree' = tree /\ hobs' = hobs /\ Node \notin 1 .. m
    BY <1>2, <1>4 DEF GoTo, AtNode
  <2>2. SecTyped' /\ AtPlace'
    <3>1. Len(tree.reserveMap) \in Nat
      BY <1>1, TreeParts
    <3>2. 1 \in 1 .. Len(tree.reserveMap) + 1
      BY <3>1
    <3>3. QED
      BY <1>1, <2>1, <3>2 DEF SecTyped, AtPlace, Places
  <2>3. ASSUME Len(hobs') < MaxHobs PROVE ReportedSoFar' /\ IoSoFar'
    <3>1. ReportedSoFar /\ IoSoFar
      BY <2>1, <2>3 DEF HobsInv
    <3>2. ToSet(hobs') = ToSet(hobs) /\ \A type : Reported(type)' = Reported(type)
      BY <2>1, HobsKept
    <3>3. RegsBefore(tree.nodes, MemoryNodes, Node, Index) = AllRegs(MemoryNodes)
      <4>1. Node \in Nat \ {0}
        BY <1>1, <2>1 DEF AtPlace
      <4>2. QED
        BY <1>1, <1>2, <2>1, <4>1, WalkEnds DEF AllRegs
    <3>4. MapBefore(tree.reserveMap, 1) = {}
      <4>1. 1 .. (1 - 1) = {}
        OBVIOUS
      <4>2. QED
        BY <4>1 DEF MapBefore
    <3>5. AllRegs(MemoryNodes)' = AllRegs(MemoryNodes)
      BY <2>1, TreeKept
    <3>6. ReportedSoFar'
      BY <2>1, <3>1, <3>2, <3>3, <3>4, <3>5
         DEF ReportedSoFar, MemorySoFar, ReservedSoFar, BootDataSoFar
    <3>7. IoSoFar'
      BY <2>1, <3>1, <3>2 DEF IoSoFar
    <3>8. QED
      BY <3>6, <3>7
  <2>4. QED
    BY <2>2, <2>3 DEF HobsInv
<1>5. QED
  BY <1>3, <1>4 DEF MemoryInitialization

\* The reserve map, entry by entry.
LEMMA MapGrows ==
  ASSUME NEW map, NEW k \in Nat \ {0}
  PROVE  MapBefore(map, k + 1)
           = MapBefore(map, k) \cup (IF map[k].base + map[k].size <= MAX_UINT64
                                     THEN Bytes(map[k].base, map[k].size) ELSE {})
<1> DEFINE Fit(n) == {j \in 1 .. (n - 1) : map[j].base + map[j].size <= MAX_UINT64}
           Part(j) == Bytes(map[j].base, map[j].size)
<1>1. \A j : j \in 1 .. ((k + 1) - 1) <=> j \in 1 .. (k - 1) \/ j = k
  OBVIOUS
<1>2. \A n : MapBefore(map, n) = UNION {Part(i) : i \in Fit(n)}
  BY DEF MapBefore
<1>3. CASE map[k].base + map[k].size <= MAX_UINT64
  <2>1. Fit(k + 1) = Fit(k) \cup {k}
    BY <1>1, <1>3
  <2> HIDE DEF Fit, Part
  <2>2. {Part(i) : i \in Fit(k + 1)} = {Part(i) : i \in Fit(k)} \cup {Part(k)}
    BY <2>1
  <2>3. UNION {Part(i) : i \in Fit(k + 1)} = (UNION {Part(i) : i \in Fit(k)}) \cup Part(k)
    BY <2>2, UnionWith
  <2>4. QED
    BY <1>2, <1>3, <2>3, Zenon DEF Part
<1>4. CASE ~(map[k].base + map[k].size <= MAX_UINT64)
  <2>1. Fit(k + 1) = Fit(k)
    BY <1>1, <1>4
  <2> HIDE DEF Fit, Part
  <2>2. QED
    BY <1>2, <1>4, <2>1
<1>5. QED
  BY <1>3, <1>4

\* One entry of the reserve map.
LEMMA ReserveMapStep ==
  ASSUME HobsInv, ReserveMapEntry
  PROVE  HobsInv'
<1> DEFINE map == tree.reserveMap
           entry == map[Index]
           fits == entry.base + entry.size <= MAX_UINT64
           uses == entry.size # 0 /\ entry.base <= MAX_UINT64 - entry.size
           hob == Hob("Reserved", entry.base, entry.size)
<1>1. SecTyped /\ AtPlace /\ tree \in Trees /\ Node \in Nat /\ Index \in Nat
      /\ hobs \in Seq(HobTypes)
  BY DEF HobsInv, SecTyped
<1>2. /\ secPc = "reserveMap" /\ Index \in DOMAIN map
      /\ IF uses THEN BuildHob(hob) ELSE hobs' = hobs
      /\ Index' = Index + 1 /\ tree' = tree /\ secPc' = secPc /\ Node' = Node
  BY DEF ReserveMapEntry
<1>3. /\ Len(map) \in Nat /\ DOMAIN map = 1 .. Len(map)
      /\ entry.base \in Nat /\ entry.size \in Nat
  BY <1>1, <1>2, TreeParts
<1>4. /\ hob \in HobTypes /\ hob.type = "Reserved" /\ hob # FdtHob
      /\ hob.base = entry.base /\ hob.size = entry.size
  <2> HIDE DEF entry
  <2>1. QED
    BY <1>3 DEF Hob, HobTypes, HobKinds, FdtHob
<1>5. IF uses THEN fits ELSE ~fits \/ Bytes(entry.base, entry.size) = {}
  <2> HIDE DEF entry
  <2>1. entry.size = 0 => entry.base .. (entry.base + entry.size - 1) = {}
    BY <1>3
  <2>2. QED
    BY <1>3, <2>1, FdtConstants DEF Bytes
<1> HIDE DEF hob, uses
<1>6. SecTyped' /\ AtPlace'
  <2>1. hobs' \in Seq(HobTypes)
    BY <1>1, <1>2, <1>4, HobBuilt
  <2>2. Index + 1 \in 1 .. Len(map) + 1
    BY <1>1, <1>2, <1>3
  <2>3. QED
    BY <1>1, <1>2, <2>1, <2>2 DEF SecTyped, AtPlace
<1>7. ASSUME Len(hobs') < MaxHobs PROVE ReportedSoFar' /\ IoSoFar'
  <2>1. MapBefore(map, Index + 1)
          = MapBefore(map, Index) \cup (IF fits THEN Bytes(entry.base, entry.size) ELSE {})
    <3>1. Index \in Nat \ {0}
      BY <1>2, <1>3
    <3>2. QED
      BY <3>1, MapGrows
  <2>2. AllRegs(MemoryNodes)' = AllRegs(MemoryNodes)
    BY <1>2, TreeKept
  <2> HIDE DEF fits, entry
  <2>3. CASE uses
    <3>1. /\ Len(hobs) < MaxHobs /\ ToSet(hobs') = ToSet(hobs) \cup {hob}
          /\ \A type : Reported(type)' = Reported(type)
               \cup (IF hob.type = type THEN Bytes(hob.base, hob.size) ELSE {})
      BY <1>1, <1>2, <1>4, <1>7, <2>3, HobBuilt
    <3>2. ReportedSoFar /\ IoSoFar
      BY <3>1 DEF HobsInv
    <3>3. ReportedSoFar'
      BY <1>2, <1>4, <1>5, <2>1, <2>2, <2>3, <3>1, <3>2
         DEF ReportedSoFar, MemorySoFar, ReservedSoFar, BootDataSoFar
    <3>4. IoSoFar'
      BY <1>2, <1>4, <3>1, <3>2 DEF IoSoFar
    <3>5. QED
      BY <3>3, <3>4
  <2>4. CASE ~uses
    <3>1. hobs' = hobs
      BY <1>2, <2>4
    <3>2. ReportedSoFar /\ IoSoFar
      BY <1>7, <3>1 DEF HobsInv
    <3>3. ToSet(hobs') = ToSet(hobs) /\ \A type : Reported(type)' = Reported(type)
      BY <3>1, HobsKept
    <3>4. MapBefore(map, Index + 1) = MapBefore(map, Index)
      BY <1>5, <2>1, <2>4
    <3>5. ReportedSoFar'
      BY <1>2, <2>2, <3>2, <3>3, <3>4
         DEF ReportedSoFar, MemorySoFar, ReservedSoFar, BootDataSoFar
    <3>6. IoSoFar'
      BY <1>2, <3>2, <3>3 DEF IoSoFar
    <3>7. QED
      BY <3>5, <3>6
  <2>5. QED
    BY <2>3, <2>4
<1>8. QED
  BY <1>6, <1>7 DEF HobsInv

\* From the reserve map to the nodes of reserved memory.
LEMMA ReserveMapEnds ==
  ASSUME HobsInv, Index \notin DOMAIN tree.reserveMap,
         GoTo("reserveMap", "reserved", 1, 0), UNCHANGED hobs
  PROVE  HobsInv'
<1> DEFINE map == tree.reserveMap
           m == Len(tree.nodes)
<1>1. SecTyped /\ AtPlace /\ tree \in Trees /\ Node \in Nat /\ Index \in Nat
  BY DEF HobsInv, SecTyped
<1>2. /\ secPc = "reserveMap" /\ secPc' = "reserved" /\ Node' = 1 /\ Index' = 0
      /\ tree' = tree /\ hobs' = hobs
  BY DEF GoTo
<1>3. /\ Len(map) \in Nat /\ DOMAIN map = 1 .. Len(map)
      /\ ToSet(map) = {map[i] : i \in DOMAIN map}
      /\ Index \in 1 .. Len(map) + 1
  BY <1>1, <1>2, TreeParts DEF AtPlace
<1>4. Index = Len(map) + 1
  BY <1>3
<1>5. MapBefore(map, Index) = MappedReserve
  <2> DEFINE Fit == {j \in 1 .. (Index - 1) : map[j].base + map[j].size <= MAX_UINT64}
             Fitting == {f \in ToSet(map) : f.base + f.size <= MAX_UINT64}
  <2>1. 1 .. (Index - 1) = DOMAIN map
    BY <1>3, <1>4
  <2>2. {map[j] : j \in Fit} = Fitting
    BY <1>3, <2>1
  <2>3. {Bytes(map[j].base, map[j].size) : j \in Fit} = {Bytes(e.base, e.size) : e \in Fitting}
    <3> HIDE DEF Fit, Fitting
    <3>1. QED
      BY <2>2
  <2>4. QED
    BY <2>3 DEF MapBefore, MappedReserve
<1>6. SecTyped' /\ AtPlace'
  <2>1. 0 .. (0 - 1) = {}
    OBVIOUS
  <2>2. QED
    BY <1>1, <1>2, <2>1 DEF SecTyped, AtPlace, Places
<1>7. ASSUME Len(hobs') < MaxHobs PROVE ReportedSoFar' /\ IoSoFar'
  <2>1. ReportedSoFar /\ IoSoFar
    BY <1>2, <1>7 DEF HobsInv
  <2>2. ToSet(hobs') = ToSet(hobs) /\ \A type : Reported(type)' = Reported(type)
    BY <1>2, HobsKept
  <2>3. \A S \in SUBSET ReservedNodes : RegsBefore(tree.nodes, S, 1, 0) = {}
    <3>1. ReservedNodes \subseteq Nat \ {0}
      BY <1>1, NodesAreNodes
    <3>2. QED
      BY <3>1, WalkBegins
  <2>4. NoMapNodes \in SUBSET ReservedNodes /\ ReservedNodes \ NoMapNodes \in SUBSET ReservedNodes
    BY DEF NoMapNodes
  <2>5. ReportedSoFar'
    <3>1. /\ RegsBefore(tree.nodes, NoMapNodes, 1, 0) = {}
          /\ RegsBefore(tree.nodes, ReservedNodes \ NoMapNodes, 1, 0) = {}
      BY <2>3, <2>4
    <3>2. /\ AllRegs(MemoryNodes)' = AllRegs(MemoryNodes) /\ NoMapNodes' = NoMapNodes
          /\ ReservedNodes' = ReservedNodes /\ MappedReserve' = MappedReserve
      BY <1>2, TreeKept
    <3>3. /\ MemorySoFar' = MemorySoFar /\ ReservedSoFar' = ReservedSoFar
          /\ BootDataSoFar' = BootDataSoFar
      BY <1>2, <1>5, <3>1, <3>2 DEF MemorySoFar, ReservedSoFar, BootDataSoFar
    <3>4. QED
      BY <2>1, <2>2, <3>3 DEF ReportedSoFar
  <2>6. IoSoFar'
    BY <1>2, <2>1, <2>2 DEF IoSoFar
  <2>7. QED
    BY <2>5, <2>6
<1>8. QED
  BY <1>6, <1>7 DEF HobsInv

\* The walk over the nodes of reserved memory, which go to one of two types.
LEMMA ReservedRound ==
  ASSUME HobsInv, AtNode("reserved"),
         WalkRegs("reserved", tree.nodes[Node].isReserved, ReservedType(tree.nodes[Node]))
  PROVE  HobsInv'
<1> DEFINE node == tree.nodes[Node]
           OtherNodes == ReservedNodes \ NoMapNodes
<1>1. SecTyped /\ AtPlace /\ tree \in Trees /\ Node \in Nat /\ Index \in Nat
      /\ hobs \in Seq(HobTypes)
  BY DEF HobsInv, SecTyped
<1>2. secPc = "reserved" /\ Node \in DOMAIN tree.nodes
  BY DEF AtNode
<1>3. /\ Relevant = ReservedNodes /\ (Node \in Relevant <=> node.isReserved)
      /\ Node \in ReservedNodes => (Node \in NoMapNodes <=> node.noMap)
      /\ ReservedNodes \in SUBSET Nat /\ NoMapNodes \in SUBSET Nat /\ OtherNodes \in SUBSET Nat
      /\ NoMapNodes \subseteq ReservedNodes
  <2>1. ReservedNodes \in SUBSET Nat
    BY <1>1, NodesAreNodes
  <2>2. QED
    BY <1>2, <2>1 DEF Relevant, ReservedNodes, NoMapNodes
<1> DEFINE type == IF Node \in NoMapNodes THEN "Reserved" ELSE "BootServicesData"
<1>4. /\ tree' = tree /\ secPc' = "reserved" /\ SecTyped' /\ AtPlace'
      /\ \/ /\ Node \in Relevant /\ Node' = Node /\ Index' = Index + 1
            /\ \E hob \in HobTypes :
                 /\ BuildHob(hob) /\ hob.type = type
                 /\ Bytes(hob.base, hob.size) = RegBytes(node, Index)
         \/ /\ hobs' = hobs /\ Node' = Node + 1 /\ Index' = 0
            /\ Node \in Relevant => Regs(node) = FirstRegs(node, Index)
  <2>1. WalkRegs("reserved", Node \in Relevant, type)
    <3>1. CASE Node \in Relevant
      BY <1>2, <1>3, <3>1 DEF WalkRegs, AtNode, ReservedType
    <3>2. CASE Node \notin Relevant
      BY <1>2, <1>3, <3>2 DEF WalkRegs, AtNode
    <3>3. QED
      BY <3>1, <3>2
  <2>2. "reserved" \in {"memory", "reserved"} /\ type \in HobKinds
    BY DEF HobKinds
  <2> HIDE DEF type
  <2>3. QED
    BY <1>1, <1>2, <2>1, <2>2, WalkRound
<1>5. /\ NoMapNodes' = NoMapNodes /\ ReservedNodes' = ReservedNodes
      /\ AllRegs(MemoryNodes)' = AllRegs(MemoryNodes) /\ MappedReserve' = MappedReserve
  BY <1>4, TreeKept
<1>6. ASSUME Len(hobs') < MaxHobs PROVE ReportedSoFar' /\ IoSoFar'
  <2>1. CASE /\ Node \in Relevant /\ Node' = Node /\ Index' = Index + 1
             /\ \E hob \in HobTypes :
                  /\ BuildHob(hob) /\ hob.type = type
                  /\ Bytes(hob.base, hob.size) = RegBytes(node, Index)
    <3>1. PICK hob \in HobTypes :
            /\ BuildHob(hob) /\ hob.type = type
            /\ Bytes(hob.base, hob.size) = RegBytes(node, Index)
      BY <2>1
    <3>2. /\ Len(hobs) < MaxHobs /\ ToSet(hobs') = ToSet(hobs) \cup {hob}
          /\ \A t : Reported(t)' = Reported(t)
               \cup (IF hob.type = t THEN Bytes(hob.base, hob.size) ELSE {})
      BY <1>1, <1>6, <3>1, HobBuilt
    <3>3. ReportedSoFar /\ IoSoFar
      BY <3>2 DEF HobsInv
    <3>4. ASSUME NEW S
          PROVE  RegsBefore(tree.nodes, S, Node, Index + 1)
                   = RegsBefore(tree.nodes, S, Node, Index)
                       \cup (IF Node \in S THEN RegBytes(node, Index) ELSE {})
      <4>1. Node \in Nat /\ Index \in Nat
        BY <1>1
      <4>2. QED
        BY <4>1, WalkContinues
    <3>5. hob # FdtHob /\ hob.type \in {"Reserved", "BootServicesData"}
      BY <3>1 DEF FdtHob, Hob
    <3>6. Reported("SystemMemory")' = MemorySoFar'
      BY <1>2, <1>4, <1>5, <3>2, <3>3, <3>5 DEF ReportedSoFar, MemorySoFar
    <3> DEFINE noMapBefore == RegsBefore(tree.nodes, NoMapNodes, Node, Index)
               otherBefore == RegsBefore(tree.nodes, OtherNodes, Node, Index)
               bytes == RegBytes(node, Index)
    <3>7. /\ Reported("Reserved") = MappedReserve \cup noMapBefore
          /\ Reported("BootServicesData") = otherBefore
      BY <1>2, <3>3 DEF ReportedSoFar, ReservedSoFar, BootDataSoFar
    <3>8. /\ RegsBefore(tree.nodes, NoMapNodes, Node, Index + 1)
               = noMapBefore \cup (IF Node \in NoMapNodes THEN bytes ELSE {})
          /\ RegsBefore(tree.nodes, OtherNodes, Node, Index + 1)
               = otherBefore \cup (IF Node \in OtherNodes THEN bytes ELSE {})
      BY <3>4
    <3>9. Node \in OtherNodes <=> Node \notin NoMapNodes
      BY <1>3, <2>1
    <3>10. /\ ReservedSoFar' = MappedReserve \cup RegsBefore(tree.nodes, NoMapNodes, Node, Index + 1)
           /\ BootDataSoFar' = RegsBefore(tree.nodes, OtherNodes, Node, Index + 1)
      BY <1>4, <1>5, <2>1 DEF ReservedSoFar, BootDataSoFar
    <3> HIDE DEF noMapBefore, otherBefore, bytes
    <3>11. ASSUME Node \in NoMapNodes PROVE ReportedSoFar'
      <4>1. /\ Reported("Reserved")' = Reported("Reserved") \cup bytes
            /\ Reported("BootServicesData")' = Reported("BootServicesData")
        BY <3>1, <3>2, <3>11 DEF bytes
      <4>2. Reported("Reserved")' = ReservedSoFar' /\ Reported("BootServicesData")' = BootDataSoFar'
        BY <3>7, <3>8, <3>9, <3>10, <3>11, <4>1
      <4>3. QED
        BY <3>6, <4>2 DEF ReportedSoFar
    <3>12. ASSUME Node \notin NoMapNodes PROVE ReportedSoFar'
      <4>1. /\ Reported("Reserved")' = Reported("Reserved")
            /\ Reported("BootServicesData")' = Reported("BootServicesData") \cup bytes
        BY <3>1, <3>2, <3>12 DEF bytes
      <4>2. Reported("Reserved")' = ReservedSoFar' /\ Reported("BootServicesData")' = BootDataSoFar'
        BY <3>7, <3>8, <3>9, <3>10, <3>12, <4>1
      <4>3. QED
        BY <3>6, <4>2 DEF ReportedSoFar
    <3>13. IoSoFar'
      BY <1>2, <1>4, <3>2, <3>3, <3>5 DEF IoSoFar
    <3>14. QED
      BY <3>11, <3>12, <3>13
  <2>2. CASE /\ hobs' = hobs /\ Node' = Node + 1 /\ Index' = 0
             /\ Node \in Relevant => Regs(node) = FirstRegs(node, Index)
    <3>1. ReportedSoFar /\ IoSoFar
      BY <1>6, <2>2 DEF HobsInv
    <3>2. ToSet(hobs') = ToSet(hobs) /\ \A t : Reported(t)' = Reported(t)
      BY <2>2, HobsKept
    <3>3. /\ RegsBefore(tree.nodes, NoMapNodes, Node + 1, 0)
               = RegsBefore(tree.nodes, NoMapNodes, Node, Index)
          /\ RegsBefore(tree.nodes, OtherNodes, Node + 1, 0)
               = RegsBefore(tree.nodes, OtherNodes, Node, Index)
      BY <1>1, <1>3, <2>2, WalkGoesOn
    <3>4. /\ MemorySoFar' = MemorySoFar /\ ReservedSoFar' = ReservedSoFar
          /\ BootDataSoFar' = BootDataSoFar
      BY <1>2, <1>4, <1>5, <2>2, <3>3 DEF MemorySoFar, ReservedSoFar, BootDataSoFar
    <3>5. ReportedSoFar'
      BY <3>1, <3>2, <3>4 DEF ReportedSoFar
    <3>6. IoSoFar'
      BY <1>2, <1>4, <3>1, <3>2 DEF IoSoFar
    <3>7. QED
      BY <3>5, <3>6
  <2>3. QED
    BY <1>4, <2>1, <2>2
<1>7. QED
  BY <1>4, <1>6 DEF HobsInv

\* Steps of which the state of the loops and at most one HOB of no interest remain.
LEMMA HobOfNoInterest ==
  ASSUME hobs \in Seq(HobTypes), NEW type \in {"MemoryType", "Cpu", "Fdt", "SecHandOff"},
         BuildHob(Hob(type, 0, 0))
  PROVE  /\ hobs' \in Seq(HobTypes)
         /\ Len(hobs') < MaxHobs =>
              /\ Len(hobs) < MaxHobs
              /\ ToSet(hobs') = ToSet(hobs) \cup {Hob(type, 0, 0)}
              /\ \A t \in {"SystemMemory", "Reserved", "BootServicesData", "MemoryMappedIO"} :
                   Reported(t)' = Reported(t)
<1> DEFINE hob == Hob(type, 0, 0)
<1>1. hob \in HobTypes /\ hob.type = type
  BY DEF Hob, HobTypes, HobKinds
<1>2. BuildHob(hob)
  OBVIOUS
<1> HIDE DEF hob
<1>3. /\ hobs' \in Seq(HobTypes)
      /\ Len(hobs') < MaxHobs =>
           /\ Len(hobs) < MaxHobs
           /\ ToSet(hobs') = ToSet(hobs) \cup {hob}
           /\ \A t : Reported(t)' =
                Reported(t) \cup (IF hob.type = t THEN Bytes(hob.base, hob.size) ELSE {})
  BY <1>1, <1>2, HobBuilt
<1>4. \A t \in {"SystemMemory", "Reserved", "BootServicesData", "MemoryMappedIO"} : hob.type # t
  BY <1>1
<1>5. QED
  BY <1>3, <1>4 DEF hob

\* What has been reported is what has been reported, once the trees' memory is done.
LEMMA LaterPlaces ==
  ASSUME secPc \in {"cpu", "platform", "io", "handOff", "done"}, tree' = tree,
         secPc' \in {"cpu", "platform", "io", "handOff", "done"},
         ReportedSoFar,
         \A t \in {"SystemMemory", "Reserved", "BootServicesData"} : Reported(t)' = Reported(t)
  PROVE  ReportedSoFar'
<1>1. /\ AllRegs(MemoryNodes)' = AllRegs(MemoryNodes)
      /\ AllRegs(NoMapNodes)' = AllRegs(NoMapNodes) /\ MappedReserve' = MappedReserve
      /\ AllRegs(ReservedNodes \ NoMapNodes)' = AllRegs(ReservedNodes \ NoMapNodes)
  BY TreeKept
<1>2. /\ MemorySoFar' = MemorySoFar /\ ReservedSoFar' = ReservedSoFar
      /\ BootDataSoFar' = BootDataSoFar
  BY <1>1 DEF MemorySoFar, ReservedSoFar, BootDataSoFar
<1>3. QED
  BY <1>2 DEF ReportedSoFar

\* The end of the walk over reserved memory.
LEMMA ReservedEnds ==
  ASSUME HobsInv, ~AtNode("reserved"), GoTo("reserved", "cpu", 0, 0),
         BuildHob(Hob("MemoryType", 0, 0))
  PROVE  HobsInv'
<1>1. /\ SecTyped /\ AtPlace /\ tree \in Trees /\ Node \in Nat /\ Index \in Nat
      /\ hobs \in Seq(HobTypes)
  BY DEF HobsInv, SecTyped
<1>2. /\ secPc = "reserved" /\ secPc' = "cpu" /\ Node' = 0 /\ Index' = 0 /\ tree' = tree
      /\ Node \notin DOMAIN tree.nodes
  BY DEF GoTo, AtNode
<1>3. /\ hobs' \in Seq(HobTypes)
      /\ Len(hobs') < MaxHobs =>
           /\ Len(hobs) < MaxHobs
           /\ ToSet(hobs') = ToSet(hobs) \cup {Hob("MemoryType", 0, 0)}
           /\ \A t \in {"SystemMemory", "Reserved", "BootServicesData", "MemoryMappedIO"} :
                Reported(t)' = Reported(t)
  <2>1. "MemoryType" \in {"MemoryType", "Cpu", "Fdt", "SecHandOff"}
    OBVIOUS
  <2>2. QED
    BY <1>1, <2>1, HobOfNoInterest
<1>4. SecTyped' /\ AtPlace'
  BY <1>1, <1>2, <1>3 DEF SecTyped, AtPlace, Places
<1>5. ASSUME Len(hobs') < MaxHobs PROVE ReportedSoFar' /\ IoSoFar'
  <2>1. ReportedSoFar /\ IoSoFar
    BY <1>3, <1>5 DEF HobsInv
  <2>2. /\ RegsBefore(tree.nodes, NoMapNodes, Node, Index) = AllRegs(NoMapNodes)
        /\ RegsBefore(tree.nodes, ReservedNodes \ NoMapNodes, Node, Index)
             = AllRegs(ReservedNodes \ NoMapNodes)
    <3> DEFINE m == Len(tree.nodes)
    <3>1. /\ m \in Nat /\ NoMapNodes \in SUBSET (1 .. m)
          /\ ReservedNodes \ NoMapNodes \in SUBSET (1 .. m)
          /\ Node \in Nat \ {0} /\ Node \notin 1 .. m
      BY <1>1, <1>2, NodesAreNodes DEF AtPlace
    <3> HIDE DEF m
    <3>2. QED
      BY <3>1, WalkEnds DEF AllRegs
  <2>3. /\ AllRegs(MemoryNodes)' = AllRegs(MemoryNodes)
        /\ AllRegs(NoMapNodes)' = AllRegs(NoMapNodes) /\ MappedReserve' = MappedReserve
        /\ AllRegs(ReservedNodes \ NoMapNodes)' = AllRegs(ReservedNodes \ NoMapNodes)
    BY <1>2, TreeKept
  <2>4. /\ MemorySoFar' = MemorySoFar /\ ReservedSoFar' = ReservedSoFar
        /\ BootDataSoFar' = BootDataSoFar
    BY <1>2, <2>2, <2>3 DEF MemorySoFar, ReservedSoFar, BootDataSoFar
  <2>5. ReportedSoFar'
    BY <1>3, <1>5, <2>1, <2>4 DEF ReportedSoFar
  <2>6. Hob("MemoryType", 0, 0) # FdtHob
    BY DEF FdtHob, Hob
  <2>7. IoSoFar'
    BY <1>2, <1>3, <1>5, <2>1, <2>6 DEF IoSoFar
  <2>8. QED
    BY <2>5, <2>7
<1>6. QED
  BY <1>4, <1>5 DEF HobsInv

\* The CPU's HOB, and the last one.
LEMMA CpuStep ==
  ASSUME HobsInv, CpuInitialization
  PROVE  HobsInv'
<1>1. /\ SecTyped /\ tree \in Trees /\ hobs \in Seq(HobTypes)
      /\ secPc = "cpu" /\ secPc' = "platform" /\ Node' = 0 /\ Index' = 0 /\ tree' = tree
      /\ BuildHob(Hob("Cpu", 0, 0))
  BY DEF HobsInv, SecTyped, CpuInitialization, GoTo
<1>2. /\ hobs' \in Seq(HobTypes)
      /\ Len(hobs') < MaxHobs =>
           /\ Len(hobs) < MaxHobs
           /\ ToSet(hobs') = ToSet(hobs) \cup {Hob("Cpu", 0, 0)}
           /\ \A t \in {"SystemMemory", "Reserved", "BootServicesData", "MemoryMappedIO"} :
                Reported(t)' = Reported(t)
  <2>1. "Cpu" \in {"MemoryType", "Cpu", "Fdt", "SecHandOff"}
    OBVIOUS
  <2>2. QED
    BY <1>1, <2>1, HobOfNoInterest
<1>3. SecTyped' /\ AtPlace'
  BY <1>1, <1>2 DEF SecTyped, AtPlace, Places
<1>4. ASSUME Len(hobs') < MaxHobs PROVE ReportedSoFar' /\ IoSoFar'
  <2>1. ReportedSoFar /\ IoSoFar
    BY <1>2, <1>4 DEF HobsInv
  <2>2. ReportedSoFar'
    BY <1>1, <1>2, <1>4, <2>1, LaterPlaces
  <2>3. Hob("Cpu", 0, 0) # FdtHob
    BY DEF FdtHob, Hob
  <2>4. IoSoFar'
    BY <1>1, <1>2, <1>4, <2>1, <2>3 DEF IoSoFar
  <2>5. QED
    BY <2>2, <2>4
<1>5. QED
  BY <1>3, <1>4 DEF HobsInv

\* The hand-over to the DXE core.
LEMMA HandOffStep ==
  ASSUME HobsInv, HandOff
  PROVE  HobsInv'
<1>1. /\ SecTyped /\ tree \in Trees /\ hobs \in Seq(HobTypes)
      /\ secPc = "handOff" /\ secPc' = "done" /\ Node' = 0 /\ Index' = 0 /\ tree' = tree
      /\ BuildHob(Hob("SecHandOff", 0, 0))
  BY DEF HobsInv, SecTyped, HandOff, GoTo
<1>2. /\ hobs' \in Seq(HobTypes)
      /\ Len(hobs') < MaxHobs =>
           /\ Len(hobs) < MaxHobs
           /\ ToSet(hobs') = ToSet(hobs) \cup {Hob("SecHandOff", 0, 0)}
           /\ \A t \in {"SystemMemory", "Reserved", "BootServicesData", "MemoryMappedIO"} :
                Reported(t)' = Reported(t)
  <2>1. "SecHandOff" \in {"MemoryType", "Cpu", "Fdt", "SecHandOff"}
    OBVIOUS
  <2>2. QED
    BY <1>1, <2>1, HobOfNoInterest
<1>3. SecTyped' /\ AtPlace'
  BY <1>1, <1>2 DEF SecTyped, AtPlace, Places
<1>4. ASSUME Len(hobs') < MaxHobs PROVE ReportedSoFar' /\ IoSoFar'
  <2>1. ReportedSoFar /\ IoSoFar
    BY <1>2, <1>4 DEF HobsInv
  <2>2. ReportedSoFar'
    BY <1>1, <1>2, <1>4, <2>1, LaterPlaces
  <2>3. Hob("SecHandOff", 0, 0) # FdtHob
    BY DEF FdtHob, Hob
  <2>4. UsableIoNodes' = UsableIoNodes /\ tree.nodes' = tree.nodes
    BY <1>1, TreeKept
  <2>5. IoSoFar'
    BY <1>1, <1>2, <1>4, <2>1, <2>3, <2>4 DEF IoSoFar, IoBytesOf, IoBytes
  <2>6. QED
    BY <2>2, <2>5
<1>5. QED
  BY <1>3, <1>4 DEF HobsInv

-----------------------------------------------------------------------------
\* The tree is given up, or handed on: then no device has been reported yet.
LEMMA HandTreeOnStep ==
  ASSUME HobsInv, HandTreeOn
  PROVE  HobsInv'
<1>1. SecTyped /\ tree \in Trees /\ hobs \in Seq(HobTypes)
  BY DEF HobsInv, SecTyped
<1>2. CASE GoTo("platform", "handOff", 0, 0) /\ UNCHANGED hobs
  <2>1. /\ secPc = "platform" /\ secPc' = "handOff" /\ Node' = 0 /\ Index' = 0
        /\ tree' = tree /\ hobs' = hobs
    BY <1>2 DEF GoTo
  <2>2. SecTyped' /\ AtPlace'
    BY <1>1, <2>1 DEF SecTyped, AtPlace, Places
  <2>3. ASSUME Len(hobs') < MaxHobs PROVE ReportedSoFar' /\ IoSoFar'
    <3>1. ReportedSoFar /\ IoSoFar
      BY <2>1, <2>3 DEF HobsInv
    <3>2. ToSet(hobs') = ToSet(hobs) /\ \A type : Reported(type)' = Reported(type)
      BY <2>1, HobsKept
    <3>3. ReportedSoFar'
      BY <2>1, <3>1, <3>2, LaterPlaces
    <3>4. IoSoFar'
      BY <2>1, <3>1, <3>2 DEF IoSoFar
    <3>5. QED
      BY <3>3, <3>4
  <2>4. QED
    BY <2>2, <2>3 DEF HobsInv
<1>3. CASE tree.header /\ Len(hobs) < MaxHobs /\ GoTo("platform", "io", 0, 1) /\ BuildHob(FdtHob)
  <2>1. /\ secPc = "platform" /\ secPc' = "io" /\ Node' = 0 /\ Index' = 1 /\ tree' = tree
        /\ BuildHob(Hob("Fdt", 0, 0))
    BY <1>3 DEF GoTo, FdtHob
  <2>2. /\ hobs' \in Seq(HobTypes)
        /\ Len(hobs') < MaxHobs =>
             /\ Len(hobs) < MaxHobs
             /\ \A t \in {"SystemMemory", "Reserved", "BootServicesData", "MemoryMappedIO"} :
                  Reported(t)' = Reported(t)
    <3>1. "Fdt" \in {"MemoryType", "Cpu", "Fdt", "SecHandOff"}
      OBVIOUS
    <3>2. QED
      BY <1>1, <2>1, <3>1, HobOfNoInterest
  <2>3. SecTyped' /\ AtPlace'
    <3>1. Len(tree.nodes) \in Nat
      BY <1>1, TreeParts
    <3>2. Len(IoDevices) = 3
      BY DEF IoDevices
    <3>3. 0 \in 0 .. Len(tree.nodes) /\ 1 \in 1 .. Len(IoDevices) + 1
      BY <3>1, <3>2
    <3>4. QED
      BY <1>1, <2>1, <2>2, <3>3 DEF SecTyped, AtPlace, Places
  <2>4. ASSUME Len(hobs') < MaxHobs PROVE ReportedSoFar' /\ IoSoFar'
    <3>1. ReportedSoFar /\ IoSoFar
      BY <2>2, <2>4 DEF HobsInv
    <3>2. ReportedSoFar'
      BY <2>1, <2>2, <2>4, <3>1, LaterPlaces
    <3>3. IoBefore' = {}
      <4>1. UsableIoNodes' = UsableIoNodes /\ UsableIoNodes \subseteq 1 .. Len(tree.nodes)
        BY <1>1, <2>1, TreeKept, NodesAreNodes
      <4>2. DOMAIN IoDevices = 1 .. 3
        BY DEF IoDevices
      <4>3. Len(tree.nodes) \in Nat
        BY <1>1, TreeParts
      <4>4. ASSUME NEW i \in 1 .. Len(tree.nodes), NEW d \in 1 .. 3
            PROVE  ~(d < 1 \/ (d = 1 /\ i <= 0))
        BY <4>3
      <4>5. QED
        BY <2>1, <4>1, <4>2, <4>4 DEF IoBefore
    <3>4. IoSoFar'
      BY <2>1, <2>2, <2>4, <3>1, <3>3 DEF IoSoFar, IoBytesOf
    <3>5. QED
      BY <3>2, <3>4
  <2>5. QED
    BY <2>3, <2>4 DEF HobsInv
<1>4. QED
  BY <1>2, <1>3 DEF HandTreeOn

\* What AddIoMemoryBaseSizeHob makes of a range that can be used.
LEMMA IoRange ==
  ASSUME NEW node, IsNode(node), UemuFdtGetReg(node, 0).status = "SUCCESS"
  PROVE  LET reg   == UemuFdtGetReg(node, 0)
             pages == UemuFdtAlignRange(reg.base, reg.size)
         IN  /\ pages.status = "SUCCESS" <=> MAX_UINT64 \notin IoBytes(node)
             /\ pages.status = "SUCCESS" =>
                  /\ pages.base \in Nat /\ pages.size \in Nat
                  /\ Bytes(pages.base, pages.size) = IoBytes(node)
<1> DEFINE reg == UemuFdtGetReg(node, 0)
           pages == UemuFdtAlignRange(reg.base, reg.size)
           first == (reg.base \div PAGE) * PAGE
           last == ((reg.base + reg.size - 1) \div PAGE) * PAGE
<1>1. reg.base \in Nat /\ reg.size \in Nat \ {0} /\ reg.base + reg.size <= MAX_UINT64
  <2>1. 0 \in Nat
    OBVIOUS
  <2>2. QED
    BY <2>1, RegRange
<1>2. IoBytes(node) = first .. (last + PAGE - 1)
  BY DEF IoBytes
<1> HIDE DEF reg
<1>3. /\ first \in Nat /\ last \in Nat
      /\ pages.status = "SUCCESS" <=> MAX_UINT64 \notin first .. (last + PAGE - 1)
      /\ pages.status = "SUCCESS" =>
           /\ pages.base = first /\ pages.size \in Nat \ {0}
           /\ pages.base + pages.size = last + PAGE
  BY <1>1, AlignedPages
<1> HIDE DEF pages, first, last
<1>4. pages.status = "SUCCESS" => Bytes(pages.base, pages.size) = IoBytes(node)
  BY <1>2, <1>3, FdtConstants DEF Bytes
<1>5. QED
  BY <1>2, <1>3, <1>4 DEF reg, pages

\* A set of positions has a first one.
LEMMA FirstOf ==
  ASSUME NEW S \in SUBSET Nat, S # {}
  PROVE  LET first == CHOOSE i \in S : \A j \in S : i <= j
         IN  first \in S /\ \A j \in S : first <= j
<1>1. \E i \in S : \A j \in S : i <= j
  BY LeastNatural
<1>2. QED
  BY <1>1

\* NextCompatible finds the next compatible node, or that there is none.
LEMMA NextFound ==
  ASSUME tree \in Trees, NEW n \in Nat, NEW compatible
  PROVE  LET next == NextCompatible(n, compatible)
             Kind(i) == i \in DOMAIN tree.nodes /\ compatible \in tree.nodes[i].compatible
         IN  /\ next = 0 => \A i : Kind(i) => i <= n
             /\ next # 0 => Kind(next) /\ next > n /\ \A i : Kind(i) /\ i > n => next <= i
<1> DEFINE found == {i \in DOMAIN tree.nodes : i > n /\ compatible \in tree.nodes[i].compatible}
           next == NextCompatible(n, compatible)
<1>1. Len(tree.nodes) \in Nat /\ DOMAIN tree.nodes = 1 .. Len(tree.nodes)
  BY TreeParts
<1>2. found \in SUBSET Nat /\ 0 \notin found
  BY <1>1
<1>3. CASE found = {}
  <2>1. next = 0
    BY <1>3 DEF NextCompatible
  <2>2. \A i \in DOMAIN tree.nodes : compatible \in tree.nodes[i].compatible => i <= n
    BY <1>1, <1>3
  <2>3. QED
    BY <2>1, <2>2
<1>4. CASE found # {}
  <2>1. next = CHOOSE i \in found : \A j \in found : i <= j
    BY <1>4 DEF NextCompatible
  <2>2. next \in found /\ \A j \in found : next <= j
    <3> HIDE DEF found, next
    <3>1. QED
      BY <1>2, <1>4, <2>1, FirstOf
  <2>3. QED
    BY <1>2, <2>2
<1>5. QED
  BY <1>3, <1>4

\* A round of the loop over the devices of one kind.
LEMMA IoRound ==
  ASSUME HobsInv, PopulateIoResources
  PROVE  HobsInv'
<1> DEFINE m == Len(tree.nodes)
           next == NextCompatible(Node, IoDevices[Index])
           node == tree.nodes[next]
           reg == UemuFdtGetReg(node, 0)
           pages == UemuFdtAlignRange(reg.base, reg.size)
           hob == Hob("MemoryMappedIO", pages.base, pages.size)
           Kind(i) == i \in DOMAIN tree.nodes /\ IoDevices[Index] \in tree.nodes[i].compatible
<1>1. /\ SecTyped /\ AtPlace /\ tree \in Trees /\ hobs \in Seq(HobTypes)
      /\ Node \in Nat /\ Index \in Nat
  BY DEF HobsInv, SecTyped
<1>2. /\ secPc = "io" /\ secPc' = "io" /\ tree' = tree /\ Index \in DOMAIN IoDevices
      /\ IF next # 0
         THEN AddIoHob(reg) /\ Node' = next /\ Index' = Index
         ELSE /\ Node' = 0 /\ hobs' = hobs
              /\ Index' = IF tree.end = "NOTFOUND" THEN Index + 1 ELSE Index
  BY DEF PopulateIoResources, Advance
<1>3. /\ m \in Nat /\ DOMAIN tree.nodes = 1 .. m /\ UsableIoNodes \subseteq 1 .. m
      /\ Index \in 1 .. 3 /\ DOMAIN IoDevices = 1 .. 3 /\ Len(IoDevices) = 3
      /\ Node \in 0 .. m /\ (tree.end # "NOTFOUND" => Index = 1)
  <2>1. DOMAIN IoDevices = 1 .. 3 /\ Len(IoDevices) = 3
    BY DEF IoDevices
  <2>2. Index \in 1 .. 3 /\ Node \in 0 .. m /\ (tree.end # "NOTFOUND" => Index = 1)
    <3>1. /\ Index \in 1 .. Len(IoDevices) + 1 /\ Node \in 0 .. Len(tree.nodes)
          /\ tree.end # "NOTFOUND" => Index = 1
      BY <1>1, <1>2, Zenon DEF AtPlace
    <3>2. QED
      BY <1>2, <2>1, <3>1
  <2>3. m \in Nat /\ DOMAIN tree.nodes = 1 .. m /\ UsableIoNodes \subseteq 1 .. m
    BY <1>1, NodesAreNodes
  <2>4. QED
    BY <2>1, <2>2, <2>3
<1>4. /\ next = 0 => \A i : Kind(i) => i <= Node
      /\ next # 0 => Kind(next) /\ next > Node /\ \A i : Kind(i) /\ i > Node => next <= i
  BY <1>1, NextFound
<1>5. /\ UsableIoNodes' = UsableIoNodes /\ tree.nodes' = tree.nodes /\ tree.end' = tree.end
  BY <1>2, TreeKept
<1> HIDE DEF next
<1>6. CASE next # 0
  <2>1. AddIoHob(reg) /\ Node' = next /\ Index' = Index /\ next \in 1 .. m
    BY <1>2, <1>3, <1>4, <1>6
  <2>2. IsNode(node)
    BY <1>1, <1>3, <2>1, TreeParts
  <2> DEFINE used == reg.status = "SUCCESS" /\ pages.status = "SUCCESS"
  <2>3. /\ next \in UsableIoNodes <=> used
        /\ used => /\ pages.base \in Nat /\ pages.size \in Nat
                   /\ Bytes(pages.base, pages.size) = IoBytes(node)
    <3>1. next \in UsableIoNodes
            <=> reg.status = "SUCCESS" /\ MAX_UINT64 \notin IoBytes(node)
      BY <1>2, <1>3, <1>4, <1>6 DEF UsableIoNodes
    <3>2. QED
      BY <2>2, <3>1, IoRange
  <2>4. IF used THEN hob \in HobTypes /\ hob.type = "MemoryMappedIO" /\ BuildHob(hob)
                ELSE hobs' = hobs
    <3>1. used => hob \in HobTypes /\ hob.type = "MemoryMappedIO"
      <4> HIDE DEF pages, reg
      <4>1. QED
        BY <2>3 DEF Hob, HobTypes, HobKinds
    <3>2. IF used THEN BuildHob(hob) ELSE hobs' = hobs
      BY <2>1 DEF AddIoHob
    <3>3. QED
      BY <3>1, <3>2
  <2>5. used => Bytes(hob.base, hob.size) = IoBytes(node)
    <3>1. hob.base = pages.base /\ hob.size = pages.size
      BY DEF Hob
    <3>2. QED
      BY <2>3, <3>1
  <2>6. IoBefore' = IoBefore \cup (IF used THEN {next} ELSE {})
    <3>1. ASSUME NEW i \in UsableIoNodes, NEW d \in 1 .. 3, IoDevices[d] \in tree.nodes[i].compatible
          PROVE  d < Index \/ (d = Index /\ i <= next)
                   <=> d < Index \/ (d = Index /\ i <= Node) \/ (d = Index /\ i = next)
      <4>1. i \in 1 .. m
        BY <1>3
      <4>2. d = Index => Kind(i)
        BY <1>3, <3>1, <4>1
      <4>3. d = Index /\ i > Node => next <= i
        BY <1>4, <1>6, <4>2
      <4>4. next > Node /\ next \in Nat
        BY <1>3, <1>4, <1>6, <2>1
      <4>5. Node \in Nat /\ Index \in Nat /\ i \in Nat /\ d \in Nat
        BY <1>1, <4>1
      <4>6. CASE d = Index
        BY <4>3, <4>4, <4>5, <4>6
      <4>7. QED
        BY <4>6
    <3>2. ASSUME NEW i \in UsableIoNodes
          PROVE  i \in IoBefore' <=> i \in IoBefore \cup (IF used THEN {next} ELSE {})
      <4>1. i \in IoBefore' <=>
              \E d \in 1 .. 3 : /\ IoDevices[d] \in tree.nodes[i].compatible
                                /\ d < Index \/ (d = Index /\ i <= next)
        BY <1>3, <1>5, <2>1 DEF IoBefore
      <4>2. i \in IoBefore <=>
              \E d \in 1 .. 3 : /\ IoDevices[d] \in tree.nodes[i].compatible
                                /\ d < Index \/ (d = Index /\ i <= Node)
        BY <1>3 DEF IoBefore
      <4>3. i = next <=>
              \E d \in 1 .. 3 : /\ IoDevices[d] \in tree.nodes[i].compatible
                                /\ d = Index /\ i = next
        BY <1>3, <1>4, <1>6
      <4>4. i = next => used
        BY <2>3
      <4> HIDE DEF used
      <4>5. QED
        BY <3>1, <4>1, <4>2, <4>3, <4>4
    <3>3. used => next \in UsableIoNodes
      BY <2>3
    <3>4. IoBefore' \subseteq UsableIoNodes /\ IoBefore \subseteq UsableIoNodes
      BY <1>5 DEF IoBefore
    <3> HIDE DEF used
    <3>5. QED
      BY <3>2, <3>3, <3>4
  <2> HIDE DEF hob, used
  <2>7. hobs' \in Seq(HobTypes)
    BY <1>1, <2>4, HobBuilt
  <2>8. SecTyped' /\ AtPlace'
    BY <1>1, <1>2, <1>3, <1>5, <2>1, <2>7 DEF SecTyped, AtPlace
  <2>9. ASSUME Len(hobs') < MaxHobs PROVE ReportedSoFar' /\ IoSoFar'
    <3>1. /\ Len(hobs) < MaxHobs
          /\ \A t \in {"SystemMemory", "Reserved", "BootServicesData"} :
               Reported(t)' = Reported(t)
          /\ Reported("MemoryMappedIO")' =
               Reported("MemoryMappedIO") \cup (IF used THEN IoBytes(node) ELSE {})
      <4>1. CASE used
        <5>1. /\ Len(hobs) < MaxHobs
              /\ \A t : Reported(t)' =
                   Reported(t) \cup (IF hob.type = t THEN Bytes(hob.base, hob.size) ELSE {})
          BY <1>1, <2>4, <2>9, <4>1, HobBuilt
        <5>2. QED
          BY <2>4, <2>5, <4>1, <5>1
      <4>2. CASE ~used
        BY <2>4, <2>9, <4>2, HobsKept
      <4>3. QED
        BY <4>1, <4>2
    <3>2. ReportedSoFar /\ IoSoFar
      BY <3>1 DEF HobsInv
    <3>3. ReportedSoFar'
      BY <1>2, <3>1, <3>2, LaterPlaces
    <3>4. IoBytesOf(tree.nodes, IoBefore') =
            IoBytesOf(tree.nodes, IoBefore) \cup (IF used THEN IoBytes(node) ELSE {})
      <4>1. ASSUME NEW S PROVE IoBytesOf(tree.nodes, S \cup {next})
                                 = IoBytesOf(tree.nodes, S) \cup IoBytes(node)
        <5>1. {IoBytes(tree.nodes[i]) : i \in S \cup {next}}
                = {IoBytes(tree.nodes[i]) : i \in S} \cup {IoBytes(node)}
          OBVIOUS
        <5>2. QED
          BY <5>1, UnionWith DEF IoBytesOf
      <4> HIDE DEF node
      <4>2. CASE used
        BY <2>6, <4>1, <4>2
      <4>3. CASE ~used
        BY <2>6, <4>3
      <4>4. QED
        BY <4>2, <4>3
    <3>5. IoSoFar'
      BY <1>2, <1>5, <3>1, <3>2, <3>4 DEF IoSoFar, IoBytesOf, IoBytes
    <3>6. QED
      BY <3>3, <3>5
  <2>10. QED
    BY <2>8, <2>9 DEF HobsInv
<1>7. CASE next = 0
  <2>1. /\ Node' = 0 /\ hobs' = hobs
        /\ Index' = IF tree.end = "NOTFOUND" THEN Index + 1 ELSE Index
    BY <1>2, <1>7
  <2>2. SecTyped' /\ AtPlace'
    BY <1>1, <1>2, <1>3, <1>5, <2>1 DEF SecTyped, AtPlace
  <2>3. ASSUME Len(hobs') < MaxHobs PROVE ReportedSoFar' /\ IoSoFar'
    <3>1. ReportedSoFar /\ IoSoFar
      BY <2>1, <2>3 DEF HobsInv
    <3>2. ToSet(hobs') = ToSet(hobs) /\ \A type : Reported(type)' = Reported(type)
      BY <2>1, HobsKept
    <3>3. ReportedSoFar'
      BY <1>2, <3>1, <3>2, LaterPlaces
    <3>4. tree.end = "NOTFOUND" => IoBefore' = IoBefore
      <4> SUFFICES ASSUME tree.end = "NOTFOUND" PROVE IoBefore' = IoBefore
        OBVIOUS
      <4>1. Index' = Index + 1
        BY <2>1
      <4>2. ASSUME NEW i \in UsableIoNodes, NEW d \in 1 .. 3,
                   IoDevices[d] \in tree.nodes[i].compatible
            PROVE  d < Index + 1 \/ (d = Index + 1 /\ i <= 0)
                     <=> d < Index \/ (d = Index /\ i <= Node)
        <5>1. i \in 1 .. m
          BY <1>3
        <5>2. d = Index => i <= Node
          BY <1>3, <1>4, <1>7, <4>2, <5>1
        <5>3. QED
          BY <1>3, <5>1, <5>2
      <4>3. QED
        BY <1>3, <1>5, <2>1, <4>1, <4>2 DEF IoBefore
    <3>5. IoSoFar'
      BY <1>2, <1>5, <3>1, <3>2, <3>4 DEF IoSoFar, IoBytesOf, IoBytes
    <3>6. QED
      BY <3>3, <3>5
  <2>4. QED
    BY <2>2, <2>3 DEF HobsInv
<1>8. QED
  BY <1>6, <1>7

\* The loop is over when every kind has been looked for.
LEMMA IoEnds ==
  ASSUME HobsInv, Index \notin DOMAIN IoDevices, GoTo("io", "handOff", 0, 0), UNCHANGED hobs
  PROVE  HobsInv'
<1>1. SecTyped /\ AtPlace /\ tree \in Trees
  BY DEF HobsInv, SecTyped
<1>2. /\ secPc = "io" /\ secPc' = "handOff" /\ Node' = 0 /\ Index' = 0
      /\ tree' = tree /\ hobs' = hobs
  BY DEF GoTo
<1>3. DOMAIN IoDevices = 1 .. 3 /\ Len(IoDevices) = 3
  BY DEF IoDevices
<1>4. Index = 4 /\ tree.end = "NOTFOUND"
  BY <1>1, <1>2, <1>3 DEF AtPlace
<1>5. IoBefore = UsableIoNodes
  <2>1. \A d \in 1 .. 3 : d < 4
    OBVIOUS
  <2>2. QED
    BY <1>3, <1>4, <2>1 DEF IoBefore, UsableIoNodes
<1>6. SecTyped' /\ AtPlace'
  BY <1>1, <1>2 DEF SecTyped, AtPlace, Places
<1>7. ASSUME Len(hobs') < MaxHobs PROVE ReportedSoFar' /\ IoSoFar'
  <2>1. ReportedSoFar /\ IoSoFar
    BY <1>2, <1>7 DEF HobsInv
  <2>2. ToSet(hobs') = ToSet(hobs) /\ \A type : Reported(type)' = Reported(type)
    BY <1>2, HobsKept
  <2>3. ReportedSoFar'
    BY <1>2, <2>1, <2>2, LaterPlaces
  <2>4. UsableIoNodes' = UsableIoNodes /\ tree.nodes' = tree.nodes
    BY <1>2, TreeKept
  <2>5. IoSoFar'
    BY <1>2, <1>4, <1>5, <2>1, <2>2, <2>4 DEF IoSoFar, IoBytesOf, IoBytes
  <2>6. QED
    BY <2>3, <2>5
<1>8. QED
  BY <1>6, <1>7 DEF HobsInv

\* Every step of the start-up library.
LEMMA StartupStep ==
  ASSUME HobsInv, SecPlatformMain
  PROVE  HobsInv'
<1>1. CASE MemoryInitialization
  BY <1>1, MemoryStep
<1>2. CASE AddReservedMemoryMap
  <2>1. CASE ReserveMapEntry
    BY <2>1, ReserveMapStep
  <2>2. CASE /\ Index \notin DOMAIN tree.reserveMap
             /\ GoTo("reserveMap", "reserved", 1, 0)
             /\ UNCHANGED hobs
    BY <2>2, ReserveMapEnds
  <2>3. CASE AtNode("reserved") /\ WalkRegs("reserved", tree.nodes[Node].isReserved,
                                            ReservedType(tree.nodes[Node]))
    BY <2>3, ReservedRound
  <2>4. CASE ~AtNode("reserved") /\ GoTo("reserved", "cpu", 0, 0)
               /\ BuildHob(Hob("MemoryType", 0, 0))
    BY <2>4, ReservedEnds
  <2>5. QED
    BY <1>2, <2>1, <2>2, <2>3, <2>4 DEF AddReservedMemoryMap
<1>3. CASE CpuInitialization
  BY <1>3, CpuStep
<1>4. CASE PlatformInitialization
  <2>1. CASE HandTreeOn
    BY <2>1, HandTreeOnStep
  <2>2. CASE PopulateIoResources
    BY <2>2, IoRound
  <2>3. CASE Index \notin DOMAIN IoDevices /\ GoTo("io", "handOff", 0, 0) /\ UNCHANGED hobs
    BY <2>3, IoEnds
  <2>4. QED
    BY <1>4, <2>1, <2>2, <2>3 DEF PlatformInitialization
<1>5. CASE HandOff
  BY <1>5, HandOffStep
<1>6. QED
  BY <1>1, <1>2, <1>3, <1>4, <1>5 DEF SecPlatformMain

\* The invariant is left alone by everything after the start-up library.
LEMMA HobsInvKept ==
  ASSUME HobsInv, UNCHANGED secVars
  PROVE  HobsInv'
<1>1. tree' = tree /\ hobs' = hobs /\ secPc' = secPc /\ Node' = Node /\ Index' = Index
  BY DEF secVars
<1>2. SecTyped'
  BY <1>1 DEF HobsInv, SecTyped
<1>3. /\ MemoryNodes' = MemoryNodes /\ ReservedNodes' = ReservedNodes
      /\ NoMapNodes' = NoMapNodes /\ UsableIoNodes' = UsableIoNodes
      /\ MappedReserve' = MappedReserve
      /\ AllRegs(MemoryNodes)' = AllRegs(MemoryNodes)
      /\ AllRegs(NoMapNodes)' = AllRegs(NoMapNodes)
      /\ AllRegs(ReservedNodes \ NoMapNodes)' = AllRegs(ReservedNodes \ NoMapNodes)
      /\ \A type : Reported(type)' = Reported(type)
  BY <1>1, TreeKept, HobsKept
<1>4. AtPlace'
  <2>1. Relevant' = Relevant
    BY <1>1, <1>3 DEF Relevant
  <2>2. AtPlace
    BY DEF HobsInv
  <2>3. QED
    BY <1>1, <2>1, <2>2 DEF AtPlace
<1>5. IoBefore' = IoBefore
  BY <1>1, <1>3 DEF IoBefore
<1>6. /\ MemorySoFar' = MemorySoFar /\ ReservedSoFar' = ReservedSoFar
      /\ BootDataSoFar' = BootDataSoFar
  BY <1>1, <1>3 DEF MemorySoFar, ReservedSoFar, BootDataSoFar
<1>7. ReportedSoFar => ReportedSoFar'
  BY <1>3, <1>6 DEF ReportedSoFar
<1>8. IoSoFar => IoSoFar'
  <2>1. /\ IoBytesOf(tree.nodes, IoBefore)' = IoBytesOf(tree.nodes, IoBefore)
        /\ IoBytesOf(tree.nodes, UsableIoNodes)' = IoBytesOf(tree.nodes, UsableIoNodes)
    BY <1>1, <1>3, <1>5 DEF IoBytesOf, IoBytes
  <2>2. QED
    BY <1>1, <1>3, <2>1 DEF IoSoFar
<1>9. QED
  BY <1>1, <1>2, <1>4, <1>7, <1>8 DEF HobsInv

\* Start-up begins with nothing reported.
LEMMA HobsInvStarts ==
  ASSUME SecInit
  PROVE  HobsInv
<1>1. tree \in Trees /\ hobs = <<>> /\ secPc = "memory" /\ Node = 1 /\ Index = 0
  BY DEF SecInit
<1>2. SecTyped /\ AtPlace
  <2>1. 0 .. (0 - 1) = {}
    OBVIOUS
  <2>2. QED
    BY <1>1, <2>1 DEF SecTyped, AtPlace, Places
<1>3. \A type : Reported(type) = {}
  BY <1>1 DEF Reported
<1>4. ToSet(hobs) = {}
  BY <1>1, ToSetEmpty
<1>5. RegsBefore(tree.nodes, MemoryNodes, Node, Index) = {}
  <2>1. MemoryNodes \in SUBSET (Nat \ {0})
    BY <1>1, NodesAreNodes
  <2>2. QED
    BY <1>1, <2>1, WalkBegins
<1>6. ReportedSoFar /\ IoSoFar
  BY <1>1, <1>3, <1>4, <1>5
     DEF ReportedSoFar, MemorySoFar, ReservedSoFar, BootDataSoFar, IoSoFar
<1>7. QED
  BY <1>2, <1>6 DEF HobsInv

\* The walks and loops of SecPlatformMain keep the invariant, from its start on.
THEOREM HobsInvAlways == Spec => []HobsInv
<1>1. Init => HobsInv
  BY HobsInvStarts DEF Init
<1>2. HobsInv /\ [Next]_vars => HobsInv'
  <2> SUFFICES ASSUME HobsInv, [Next]_vars PROVE HobsInv'
    OBVIOUS
  <2>1. CASE SecPlatformMain
    BY <2>1, StartupStep
  <2>2. CASE UNCHANGED secVars
    BY <2>2, HobsInvKept
  <2>3. QED
    BY <2>1, <2>2 DEF Next, vars, StartDxe, ClaimDevice, Dispatch, LibRtcInitialize,
                      SetVirtualAddressMap
<1>3. QED
  BY <1>1, <1>2, PTL DEF Spec

\* When the start-up is over and no HOB has been dropped, the HOBs report the memory of
\* the tree, its reserved memory and the pages of its devices exactly, to the byte.
THEOREM HobsAlwaysExact == Spec => []HobsExact
<1>1. HobsInv => HobsExact
  <2> SUFFICES ASSUME HobsInv, secPc = "done", Len(hobs) < MaxHobs, FdtHob \in ToSet(hobs)
               PROVE  /\ Reported("SystemMemory") = AllRegs(MemoryNodes)
                      /\ Reported("Reserved") = MappedReserve \cup AllRegs(NoMapNodes)
                      /\ Reported("BootServicesData") = AllRegs(ReservedNodes \ NoMapNodes)
                      /\ Reported("MemoryMappedIO")
                           = UNION {IoBytes(tree.nodes[i]) : i \in UsableIoNodes}
    BY DEF HobsExact
  <2>1. ReportedSoFar /\ IoSoFar
    BY DEF HobsInv
  <2>2. Reported("MemoryMappedIO") = IoBytesOf(tree.nodes, UsableIoNodes)
    BY <2>1 DEF IoSoFar
  <2>3. QED
    BY <2>1, <2>2 DEF ReportedSoFar, MemorySoFar, ReservedSoFar, BootDataSoFar, IoBytesOf
<1>2. QED
  BY <1>1, HobsInvAlways, PTL

-----------------------------------------------------------------------------
\* The start-up moves on.  Its rounds in the order of the code: the place, where the
\* outer loop is (a node; for the devices, their kind), and where the inner one is (a
\* range of a reg, an entry of the reserve map; for the devices, a node).
Rank == [memory |-> 1, reserveMap |-> 2, reserved |-> 3, cpu |-> 4, platform |-> 5,
         io |-> 6, handOff |-> 7, done |-> 8]

Outer == IF secPc = "io" THEN Index ELSE IF secPc \in {"memory", "reserved"} THEN Node ELSE 0

Inner ==
  IF secPc = "io" THEN Node
  ELSE IF secPc \in {"memory", "reserveMap", "reserved"} THEN Index ELSE 0

Here == <<Rank[secPc], <<Outer, Inner>>>>

Ranges(node) == IF node.reg = Absent THEN {} ELSE 0 .. Len(node.reg)

InnerPlaces(t) ==
  (0 .. Len(t.nodes) + Len(t.reserveMap) + 1)
    \cup UNION {Ranges(t.nodes[i]) : i \in DOMAIN t.nodes}

Rounds(t) == (1 .. 8) \X ((0 .. Len(t.nodes) + 4) \X InnerPlaces(t))

IsBefore(r, s) ==
  \/ r[1] < s[1]
  \/ r[1] = s[1] /\ r[2][1] < s[2][1]
  \/ r[1] = s[1] /\ r[2][1] = s[2][1] /\ r[2][2] < s[2][2]

\* The rounds that may still come.
Ahead == {r \in Rounds(tree) : IsBefore(Here, r)}

RoundsLeft == Cardinality(Ahead)

\* A round is three numbers.
LEMMA RoundParts ==
  ASSUME NEW t \in Trees
  PROVE  /\ IsFiniteSet(Rounds(t))
         /\ \A r \in Rounds(t) : r[1] \in Nat /\ r[2][1] \in Nat /\ r[2][2] \in Nat
<1> DEFINE m == Len(t.nodes)
           k == Len(t.reserveMap)
           all == {Ranges(t.nodes[i]) : i \in DOMAIN t.nodes}
<1>1. m \in Nat /\ k \in Nat /\ DOMAIN t.nodes = 1 .. m
  BY TreeParts
<1>2. \A i \in 1 .. m : IsFiniteSet(Ranges(t.nodes[i])) /\ Ranges(t.nodes[i]) \subseteq Nat
  <2> SUFFICES ASSUME NEW i \in 1 .. m
               PROVE  IsFiniteSet(Ranges(t.nodes[i])) /\ Ranges(t.nodes[i]) \subseteq Nat
    OBVIOUS
  <2> DEFINE node == t.nodes[i]
  <2>1. node.reg = Absent \/ Len(node.reg) \in Nat
    <3>1. IsNode(node)
      BY <1>1, TreeParts
    <3> HIDE DEF node
    <3>2. QED
      BY <3>1 DEF IsNode
  <2>2. CASE node.reg = Absent
    BY <2>2, FS_EmptySet DEF Ranges
  <2>3. CASE node.reg # Absent
    <3> DEFINE n == Len(node.reg)
    <3>1. Ranges(node) = 0 .. n /\ n \in Nat
      BY <2>1, <2>3 DEF Ranges
    <3> HIDE DEF n
    <3>2. IsFiniteSet(0 .. n) /\ 0 .. n \subseteq Nat
      BY <3>1, FS_Interval
    <3>3. QED
      BY <3>1, <3>2
  <2>4. QED
    BY <2>2, <2>3
<1>3. IsFiniteSet(all)
  <2> DEFINE f == [i \in 1 .. m |-> Ranges(t.nodes[i])]
  <2>1. f \in Surjection(1 .. m, all)
    BY <1>1 DEF Surjection
  <2>2. IsFiniteSet(1 .. m)
    BY <1>1, FS_Interval
  <2> HIDE DEF f, all
  <2>3. QED
    BY <2>1, <2>2, FS_Surjection
<1>4. IsFiniteSet(UNION all) /\ UNION all \subseteq Nat
  <2>1. \A T \in all : IsFiniteSet(T) /\ T \subseteq Nat
    BY <1>1, <1>2
  <2> HIDE DEF all
  <2>2. IsFiniteSet(UNION all)
    BY <1>3, <2>1, FS_UNION
  <2>3. QED
    BY <2>1, <2>2
<1> HIDE DEF m, k, all
<1>5. /\ IsFiniteSet(0 .. m + k + 1) /\ IsFiniteSet(0 .. m + 4) /\ IsFiniteSet(1 .. 8)
      /\ 0 .. m + k + 1 \subseteq Nat
  <2>1. m + k + 1 \in Nat /\ m + 4 \in Nat
    BY <1>1
  <2>2. \A n \in Nat : IsFiniteSet(0 .. n) /\ 0 .. n \subseteq Nat
    BY FS_Interval
  <2>3. IsFiniteSet(1 .. 8)
    <3>1. \A n \in Nat : IsFiniteSet(1 .. n)
      BY FS_Interval
    <3>2. QED
      BY <3>1
  <2>4. QED
    BY <2>1, <2>2, <2>3
<1>6. InnerPlaces(t) = (0 .. m + k + 1) \cup UNION all
  BY DEF InnerPlaces, m, k, all
<1>7. IsFiniteSet(InnerPlaces(t)) /\ InnerPlaces(t) \subseteq Nat
  BY <1>4, <1>5, <1>6, FS_Union
<1>8. IsFiniteSet((0 .. m + 4) \X InnerPlaces(t))
  BY <1>5, <1>7, FS_Product
<1>9. Rounds(t) = (1 .. 8) \X ((0 .. m + 4) \X InnerPlaces(t))
  BY DEF Rounds, m
<1>10. IsFiniteSet(Rounds(t))
  <2> DEFINE places == (0 .. m + 4) \X InnerPlaces(t)
  <2>1. IsFiniteSet(places) /\ Rounds(t) = (1 .. 8) \X places
    BY <1>8, <1>9
  <2> HIDE DEF places
  <2>2. QED
    BY <1>5, <2>1, FS_Product
<1>11. QED
  BY <1>1, <1>7, <1>9, <1>10

\* Going to a later round leaves fewer of them.
LEMMA FewerLeft ==
  ASSUME tree \in Trees, tree' = tree, Here' \in Rounds(tree),
         Here[1] \in Nat, Here[2][1] \in Nat, Here[2][2] \in Nat,
         IsBefore(Here, Here')
  PROVE  RoundsLeft \in Nat /\ RoundsLeft' \in Nat /\ RoundsLeft' < RoundsLeft
<1> DEFINE here == Here
           next == Here'
           A == {r \in Rounds(tree) : IsBefore(here, r)}
           B == {r \in Rounds(tree) : IsBefore(next, r)}
<1>1. RoundsLeft = Cardinality(A) /\ RoundsLeft' = Cardinality(B)
  <2>1. Ahead = A
    BY DEF Ahead
  <2>2. Ahead' = B
    BY DEF Ahead
  <2> HIDE DEF A, B
  <2>3. QED
    BY <2>1, <2>2 DEF RoundsLeft
<1> HIDE DEF here, next
<1>2. /\ next \in Rounds(tree) /\ IsBefore(here, next)
      /\ here[1] \in Nat /\ here[2][1] \in Nat /\ here[2][2] \in Nat
  BY DEF here, next
<1>3. /\ IsFiniteSet(Rounds(tree))
      /\ \A r \in Rounds(tree) : r[1] \in Nat /\ r[2][1] \in Nat /\ r[2][2] \in Nat
  BY RoundParts
<1>4. next \in A /\ next \notin B
  BY <1>2, <1>3 DEF IsBefore
<1>5. B \subseteq A
  <2> SUFFICES ASSUME NEW r \in Rounds(tree), IsBefore(next, r) PROVE IsBefore(here, r)
    OBVIOUS
  <2>1. QED
    BY <1>2, <1>3 DEF IsBefore
<1>6. IsFiniteSet(A)
  BY <1>3, FS_Subset
<1> HIDE DEF A, B
<1>7. IsFiniteSet(B) /\ Cardinality(B) <= Cardinality(A) /\ Cardinality(A) # Cardinality(B)
  BY <1>4, <1>5, <1>6, FS_Subset
<1>8. Cardinality(A) \in Nat /\ Cardinality(B) \in Nat
  BY <1>6, <1>7, FS_CardinalityType
<1>9. QED
  BY <1>1, <1>7, <1>8

\* The places a loop can go to are places of a round.
LEMMA PlacesOfRounds ==
  ASSUME NEW t \in Trees, NEW rank \in 1 .. 8, NEW outer \in 0 .. Len(t.nodes) + 4, NEW inner,
         \/ inner \in 0 .. Len(t.nodes) + Len(t.reserveMap) + 1
         \/ \E i \in DOMAIN t.nodes : t.nodes[i].reg # Absent /\ inner \in 0 .. Len(t.nodes[i].reg)
  PROVE  <<rank, <<outer, inner>>>> \in Rounds(t)
<1>1. inner \in InnerPlaces(t)
  BY DEF InnerPlaces, Ranges
<1>2. QED
  BY <1>1 DEF Rounds

\* A round of a walk over the tuples of all nodes.
LEMMA WalkMovesOn ==
  ASSUME HobsInv, NEW place \in {"memory", "reserved"}, NEW relevant, NEW type,
         WalkRegs(place, relevant, type)
  PROVE  tree' = tree /\ Here' \in Rounds(tree) /\ IsBefore(Here, Here')
<1> DEFINE m == Len(tree.nodes)
           k == Len(tree.reserveMap)
           node == tree.nodes[Node]
           reg == UemuFdtGetReg(node, Index)
<1>1. /\ secPc = place /\ secPc' = place /\ tree' = tree /\ Node \in DOMAIN tree.nodes
      /\ \/ reg.status = "SUCCESS" /\ Node' = Node /\ Index' = Index + 1
         \/ Node' = Node + 1 /\ Index' = 0
  BY DEF WalkRegs, AtNode, Reg, AfterLastReg
<1>2. tree \in Trees /\ Node \in Nat /\ Index \in Nat
  BY DEF HobsInv, SecTyped
<1>3. /\ m \in Nat /\ DOMAIN tree.nodes = 1 .. m /\ k \in Nat /\ IsNode(node)
  BY <1>1, <1>2, TreeParts
<1>4. /\ Here = <<Rank[place], <<Node, Index>>>> /\ Here' = <<Rank[place], <<Node', Index'>>>>
      /\ Rank[place] \in 1 .. 8
  BY <1>1 DEF Here, Outer, Inner, Rank
<1>5. IsBefore(Here, Here')
  BY <1>1, <1>2, <1>3, <1>4 DEF IsBefore
<1>6. CASE reg.status = "SUCCESS" /\ Node' = Node /\ Index' = Index + 1
  <2>1. node.reg \in Seq(CellValue) /\ node.reg # Absent /\ Index < Len(node.reg)
    BY <1>2, <1>3, <1>6, RegHasIndex
  <2>2. Index + 1 \in 0 .. Len(node.reg) /\ Node \in 0 .. m + 4
    <3> HIDE DEF m, k
    <3>1. Len(node.reg) \in Nat
      BY <2>1
    <3>2. QED
      BY <1>1, <1>2, <1>3, <2>1, <3>1
  <2>3. QED
    BY <1>1, <1>2, <1>4, <1>5, <1>6, <2>1, <2>2, PlacesOfRounds
<1>7. CASE Node' = Node + 1 /\ Index' = 0
  <2>1. Node + 1 \in 0 .. m + 4 /\ 0 \in 0 .. m + k + 1
    <3> HIDE DEF m, k
    <3>1. QED
      BY <1>1, <1>3
  <2>2. QED
    BY <1>1, <1>2, <1>4, <1>5, <1>7, <2>1, PlacesOfRounds
<1>8. QED
  BY <1>1, <1>6, <1>7

\* Going to a later place.
LEMMA GoToMovesOn ==
  ASSUME HobsInv, NEW place \in Places, NEW next \in Places, NEW node \in {0, 1},
         NEW index \in {0, 1}, Rank[place] < Rank[next], GoTo(place, next, node, index)
  PROVE  tree' = tree /\ Here' \in Rounds(tree) /\ IsBefore(Here, Here')
<1> DEFINE m == Len(tree.nodes)
           k == Len(tree.reserveMap)
<1>1. secPc = place /\ secPc' = next /\ Node' = node /\ Index' = index /\ tree' = tree
  BY DEF GoTo
<1>2. tree \in Trees /\ m \in Nat /\ k \in Nat
  BY TreeParts DEF HobsInv, SecTyped
<1>3. Rank[next] \in 1 .. 8 /\ Outer' \in {0, 1} /\ Inner' \in {0, 1}
  BY <1>1 DEF Rank, Places, Outer, Inner
<1>4. Here' = <<Rank[next], <<Outer', Inner'>>>> /\ Here = <<Rank[place], <<Outer, Inner>>>>
  BY <1>1 DEF Here
<1>5. Outer' \in 0 .. m + 4 /\ Inner' \in 0 .. m + k + 1
  <2> HIDE DEF m, k
  <2>1. QED
    BY <1>2, <1>3
<1>6. Here' \in Rounds(tree)
  BY <1>2, <1>3, <1>4, <1>5, PlacesOfRounds
<1>7. QED
  BY <1>1, <1>4, <1>6 DEF IsBefore

\* Every step of the start-up library goes to a later round.
LEMMA StartupStepMovesOn ==
  ASSUME HobsInv, SecPlatformMain, tree.end = "NOTFOUND"
  PROVE  tree' = tree /\ Here' \in Rounds(tree) /\ IsBefore(Here, Here')
<1> DEFINE m == Len(tree.nodes)
           k == Len(tree.reserveMap)
<1>1. SecTyped /\ AtPlace /\ tree \in Trees /\ Node \in Nat /\ Index \in Nat
  BY DEF HobsInv, SecTyped
<1>2. /\ m \in Nat /\ DOMAIN tree.nodes = 1 .. m
      /\ k \in Nat /\ DOMAIN tree.reserveMap = 1 .. k
  BY <1>1, TreeParts
<1>3. CASE MemoryInitialization
  <2>1. CASE WalkRegs("memory", AtNode("memory") /\ tree.nodes[Node].isMemory, "SystemMemory")
    BY <2>1, WalkMovesOn
  <2>2. CASE GoTo("memory", "reserveMap", 0, 1)
    BY <2>2, GoToMovesOn DEF Rank, Places
  <2>3. QED
    BY <1>3, <2>1, <2>2 DEF MemoryInitialization
<1>4. CASE AddReservedMemoryMap
  <2>1. CASE ReserveMapEntry
    <3>1. /\ secPc = "reserveMap" /\ secPc' = secPc /\ tree' = tree
          /\ Index \in DOMAIN tree.reserveMap /\ Index' = Index + 1
      BY <2>1 DEF ReserveMapEntry
    <3>2. Here = <<2, <<0, Index>>>> /\ Here' = <<2, <<0, Index + 1>>>>
      BY <3>1 DEF Here, Outer, Inner, Rank
    <3>3. Index + 1 \in 0 .. m + k + 1 /\ 0 \in 0 .. m + 4 /\ 2 \in 1 .. 8
      <4> HIDE DEF m, k
      <4>1. QED
        BY <1>2, <3>1
    <3>4. Here' \in Rounds(tree)
      <4>1. <<2, <<0, Index + 1>>>> \in Rounds(tree)
        BY <1>1, <3>3, PlacesOfRounds
      <4>2. QED
        BY <3>2, <4>1
    <3>5. QED
      BY <1>1, <3>1, <3>2, <3>4 DEF IsBefore
  <2>2. CASE GoTo("reserveMap", "reserved", 1, 0)
    BY <2>2, GoToMovesOn DEF Rank, Places
  <2>3. CASE WalkRegs("reserved", tree.nodes[Node].isReserved, ReservedType(tree.nodes[Node]))
    BY <2>3, WalkMovesOn
  <2>4. CASE GoTo("reserved", "cpu", 0, 0)
    BY <2>4, GoToMovesOn DEF Rank, Places
  <2>5. QED
    BY <1>4, <2>1, <2>2, <2>3, <2>4 DEF AddReservedMemoryMap
<1>5. CASE CpuInitialization
  BY <1>5, GoToMovesOn DEF Rank, Places, CpuInitialization
<1>6. CASE PlatformInitialization
  <2>1. CASE GoTo("platform", "handOff", 0, 0)
    BY <2>1, GoToMovesOn DEF Rank, Places
  <2>2. CASE GoTo("platform", "io", 0, 1)
    BY <2>2, GoToMovesOn DEF Rank, Places
  <2>3. CASE PopulateIoResources
    <3> DEFINE next == NextCompatible(Node, IoDevices[Index])
    <3>1. /\ secPc = "io" /\ secPc' = "io" /\ tree' = tree /\ Index \in DOMAIN IoDevices
          /\ \/ next # 0 /\ Node' = next /\ Index' = Index
             \/ Node' = 0 /\ Index' = Index + 1
      BY <2>3 DEF PopulateIoResources, Advance
    <3>2. next # 0 => next \in 1 .. m /\ next > Node
      BY <1>1, <1>2, NextFound
    <3>3. Here = <<6, <<Index, Node>>>> /\ Here' = <<6, <<Index', Node'>>>>
      BY <3>1 DEF Here, Outer, Inner, Rank
    <3>4. Index \in 1 .. 3
      <4>1. DOMAIN IoDevices = 1 .. 3
        BY DEF IoDevices
      <4>2. QED
        BY <3>1, <4>1
    <3> HIDE DEF next
    <3>5. Index' \in 0 .. m + 4 /\ Node' \in 0 .. m + k + 1 /\ 6 \in 1 .. 8
      <4> HIDE DEF m, k
      <4>1. QED
        BY <1>2, <3>1, <3>2, <3>4
    <3>6. Here' \in Rounds(tree)
      <4>1. <<6, <<Index', Node'>>>> \in Rounds(tree)
        BY <1>1, <3>5, PlacesOfRounds
      <4>2. QED
        BY <3>3, <4>1
    <3>7. IsBefore(Here, Here')
      BY <1>1, <3>1, <3>2, <3>3, <3>4 DEF IsBefore
    <3>8. QED
      BY <3>1, <3>6, <3>7
  <2>4. CASE GoTo("io", "handOff", 0, 0)
    BY <2>4, GoToMovesOn DEF Rank, Places
  <2>5. QED
    BY <1>6, <2>1, <2>2, <2>3, <2>4 DEF PlatformInitialization, HandTreeOn
<1>7. CASE HandOff
  BY <1>7, GoToMovesOn DEF Rank, Places, HandOff
<1>8. QED
  BY <1>3, <1>4, <1>5, <1>6, <1>7 DEF SecPlatformMain

\* With a tree whose end can be found, no step of the start-up library is in vain: each
\* leaves fewer rounds, so there are no more steps than rounds, and no loop runs for ever.
THEOREM StartupMovesOn ==
  Spec => [][SecPlatformMain /\ tree.end = "NOTFOUND" =>
               RoundsLeft \in Nat /\ RoundsLeft' \in Nat /\ RoundsLeft' < RoundsLeft]_vars
<1> DEFINE Fewer == RoundsLeft \in Nat /\ RoundsLeft' \in Nat /\ RoundsLeft' < RoundsLeft
<1>1. ASSUME HobsInv, SecPlatformMain, tree.end = "NOTFOUND"
      PROVE  Fewer
  <2>1. tree \in Trees /\ tree' = tree /\ Here' \in Rounds(tree) /\ IsBefore(Here, Here')
    BY <1>1, StartupStepMovesOn DEF HobsInv, SecTyped
  <2>2. Here[1] \in Nat /\ Here[2][1] \in Nat /\ Here[2][2] \in Nat
    BY <1>1 DEF HobsInv, SecTyped, Here, Outer, Inner, Rank, Places
  <2>3. QED
    BY <2>1, <2>2, FewerLeft
<1>2. HobsInv => (SecPlatformMain /\ tree.end = "NOTFOUND" => Fewer)
  BY <1>1
<1> HIDE DEF Fewer
<1>3. Spec => [][SecPlatformMain /\ tree.end = "NOTFOUND" => Fewer]_vars
  BY <1>2, HobsInvAlways, PTL
<1>4. QED
  BY <1>3 DEF Fewer

-----------------------------------------------------------------------------
\* The device pages.  Every page that exists can be uncached and kept at run time.
Attributes == {"UC", "RUNTIME", "XP"}

PageStates == [capabilities : {c \in SUBSET Attributes : {"UC", "RUNTIME"} \subseteq c},
               attributes : SUBSET Attributes]

Maps(pages) == UNION {[some -> PageStates] : some \in SUBSET pages}

FoundPages(ds) == UNION {DevicePages(e) : e \in Found \cap ds}

IsUncached(p) == Exists(gcd, p) /\ "UC" \in gcd[p].attributes

IsRuntime(p) == Exists(gcd, p) /\ "RUNTIME" \in gcd[p].attributes

\* A keyboard, random number or battery driver that nothing can keep from its pages.
IsUnhindered(d) == SharedPages(d) = {} \/ Cardinality(DevicePages(d)) = 1

DevicesInv ==
  /\ SecTyped
  /\ mode = "sec" => gcd = [p \in {} |-> 0] /\ dispatched = {} /\ started = {}
  /\ mode # "sec" => secPc = "done" /\ gcd \in Maps(HobPages \cup FoundPages(dispatched))
  /\ started \subseteq Found \cap dispatched
  /\ \A d \in started \ {Rtc} : \A p \in DevicePages(d) : IsUncached(p)
  /\ \A d \in (Found \cap dispatched) \ {Rtc} : IsUnhindered(d) => d \in started
  /\ Rtc \in started =>
       /\ mode # "virtual" => mRtcRegisterBase = Device(Rtc).base
       /\ SharedPages(Rtc) = {} =>
            /\ \A p \in DevicePages(Rtc) : IsRuntime(p)
            /\ mode = "virtual" => mRtcRegisterBase = Device(Rtc).base + VIRTUAL

\* A device that is found has registers, and the first of them is in its first page.
LEMMA DeviceFound ==
  ASSUME tree \in Trees, NEW d \in Drivers, Device(d).status = "SUCCESS"
  PROVE  LET found == UemuFdtFindCompatibleNode(tree.nodes, tree.end, d)
             reg   == UemuFdtGetReg(tree.nodes[found.node], 0)
         IN  /\ UemuFdtGet /\ found.status = "SUCCESS" /\ reg.status = "SUCCESS"
             /\ reg.size >= MinSize[d] /\ Device(d).base = reg.base
             /\ Device(d).base \div PAGE \in DevicePages(d)
             /\ IsFiniteSet(DevicePages(d))
<1> DEFINE found == UemuFdtFindCompatibleNode(tree.nodes, tree.end, d)
           node == tree.nodes[found.node]
           reg == UemuFdtGetReg(node, 0)
           pages == UemuFdtAlignRange(reg.base, reg.size)
           first == reg.base \div PAGE
           last == (reg.base + reg.size - 1) \div PAGE
<1>1. UemuFdtGet /\ Device(d) = DiscoverMmioRange(tree.nodes, tree.end, d, MinSize[d])
  BY DEF Device, Failure
<1>2. /\ found.status = "SUCCESS"
      /\ Device(d) = MmioRange(found.node, reg, MinSize[d])
  <2> HIDE DEF found
  <2>1. QED
    BY <1>1 DEF DiscoverMmioRange, found
<1>3. found.node \in DOMAIN tree.nodes
  <2> DEFINE S == Candidates(tree.nodes, d)
  <2>1. S # {} /\ found.node = CHOOSE i \in S : \A j \in S : i <= j
    BY <1>2 DEF UemuFdtFindCompatibleNode, Failure
  <2>2. S \in SUBSET DOMAIN tree.nodes
    BY DEF Candidates
  <2>3. S \in SUBSET Nat
    BY <2>2, TreeParts
  <2> HIDE DEF S, found
  <2>4. QED
    BY <2>1, <2>2, <2>3, FirstOf
<1>4. IsNode(node)
  BY <1>3, TreeParts
<1> HIDE DEF found, node
<1>5. /\ reg.status = "SUCCESS" /\ ~(reg.size < MinSize[d]) /\ pages.status = "SUCCESS"
      /\ Device(d).base = reg.base /\ Device(d).gcdBase = pages.base
      /\ Device(d).gcdSize = pages.size
  <2> HIDE DEF reg
  <2>1. QED
    BY <1>2 DEF MmioRange, Failure, reg, node
<1>6. reg.base \in Nat /\ reg.size \in Nat \ {0} /\ reg.base + reg.size <= MAX_UINT64
  <2>1. 0 \in Nat
    OBVIOUS
  <2>2. QED
    BY <1>4, <1>5, <2>1, RegRange
<1>7. reg.size >= MinSize[d]
  BY <1>5, <1>6, DriversAssumption
<1> HIDE DEF reg
<1>8. /\ first \in Nat /\ last \in Nat /\ first <= last
      /\ first * PAGE \in Nat /\ last * PAGE \in Nat
      /\ pages.base = first * PAGE /\ pages.size \in Nat \ {0}
      /\ pages.base + pages.size = last * PAGE + PAGE
  BY <1>5, <1>6, AlignedPages
<1> HIDE DEF pages, first, last
<1>9. DevicePages(d) = first .. last
  <2>1. DevicePages(d) = (pages.base \div PAGE) .. ((pages.base + pages.size - 1) \div PAGE)
    BY <1>5 DEF DevicePages, PagesOf
  <2>2. pages.base \div PAGE = first
    <3>1. first * PAGE = PAGE * first + 0 /\ 0 \in 0 .. (PAGE - 1) /\ first * PAGE \in Nat
      BY <1>8, FdtConstants
    <3>2. QED
      BY <1>8, <3>1, QuotientUnique, FdtConstants
  <2>3. (pages.base + pages.size - 1) \div PAGE = last
    <3>1. /\ pages.base + pages.size - 1 = PAGE * last + (PAGE - 1)
          /\ PAGE - 1 \in 0 .. (PAGE - 1) /\ pages.base + pages.size - 1 \in Nat
      BY <1>8, FdtConstants
    <3>2. QED
      BY <1>8, <3>1, QuotientUnique, FdtConstants
  <2>4. QED
    BY <2>1, <2>2, <2>3
<1>10. first \in first .. last /\ IsFiniteSet(first .. last)
  BY <1>8, FS_Interval
<1>11. QED
  BY <1>1, <1>2, <1>5, <1>7, <1>9, <1>10 DEF reg, node, found, first

\* What adding pages does to a map,
LEMMA AddedMap ==
  ASSUME NEW P, NEW map \in Maps(P), NEW pages \in SUBSET P,
         NEW caps \in SUBSET Attributes, "UC" \in caps
  PROVE  LET new == AfterAdd(map, pages, caps)
         IN  /\ new \in Maps(P) /\ DOMAIN map \subseteq DOMAIN new
             /\ \A p \in DOMAIN map : new[p] = map[p]
             /\ IF AddMemorySpaceFails(map, pages)
                THEN new = map /\ pages \cap DOMAIN map # {}
                ELSE /\ DOMAIN new = DOMAIN map \cup pages /\ pages \cap DOMAIN map = {}
                     /\ \A p \in pages : new[p].capabilities = caps \cup {"RUNTIME"}
<1> DEFINE state == [capabilities |-> caps \cup {"RUNTIME"}, attributes |-> {}]
           new == AfterAdd(map, pages, caps)
<1>1. PICK D \in SUBSET P : map \in [D -> PageStates]
  BY DEF Maps
<1>2. DOMAIN map = D /\ \A p \in D : map[p] \in PageStates
  BY <1>1
<1>3. CASE AddMemorySpaceFails(map, pages)
  BY <1>3 DEF AfterAdd, AddMemorySpaceFails, Exists
<1>4. CASE ~AddMemorySpaceFails(map, pages)
  <2>1. pages \cap D = {}
    BY <1>2, <1>4 DEF AddMemorySpaceFails, Exists
  <2>2. state \in PageStates /\ state.capabilities = caps \cup {"RUNTIME"}
    BY DEF PageStates, Attributes
  <2>4. new = [p \in D \cup pages |-> IF p \in D THEN map[p] ELSE state]
    BY <1>2, <1>4 DEF AfterAdd, Added
  <2> HIDE DEF state, new
  <2>5. new \in [D \cup pages -> PageStates]
    BY <1>2, <2>2, <2>4
  <2>6. new \in Maps(P)
    BY <2>5 DEF Maps
  <2>7. QED
    BY <1>2, <1>4, <2>1, <2>2, <2>4, <2>6 DEF new
<1>5. QED
  BY <1>3, <1>4

\* and setting their attributes.
LEMMA SetMap ==
  ASSUME NEW P, NEW map \in Maps(P), NEW pages \in SUBSET P,
         NEW attributes \in SUBSET Attributes
  PROVE  LET new == AfterSet(map, pages, attributes)
         IN  /\ new \in Maps(P) /\ DOMAIN new = DOMAIN map
             /\ \A p \in DOMAIN map : p \notin pages => new[p] = map[p]
             /\ \A p \in DOMAIN map : new[p] = map[p] \/ new[p].attributes = attributes
             /\ ~SetAttributesFails(map, pages, attributes) =>
                  \A p \in pages : p \in DOMAIN new /\ new[p].attributes = attributes
<1> DEFINE new == AfterSet(map, pages, attributes)
<1>1. PICK D \in SUBSET P : map \in [D -> PageStates]
  BY DEF Maps
<1>2. DOMAIN map = D /\ \A p \in D : map[p] \in PageStates
  BY <1>1
<1>3. CASE SetAttributesFails(map, pages, attributes)
  BY <1>3 DEF AfterSet
<1>4. CASE ~SetAttributesFails(map, pages, attributes)
  <2>1. pages \subseteq D
    BY <1>2, <1>4 DEF SetAttributesFails, Exists
  <2>2. \A p \in D : /\ [map[p] EXCEPT !.attributes = attributes] \in PageStates
                     /\ [map[p] EXCEPT !.attributes = attributes].attributes = attributes
    BY <1>2 DEF PageStates
  <2>4. new = [p \in D |-> IF p \in pages THEN [map[p] EXCEPT !.attributes = attributes]
                           ELSE map[p]]
    BY <1>2, <1>4 DEF AfterSet
  <2> HIDE DEF new
  <2>5. new \in [D -> PageStates]
    BY <1>2, <2>2, <2>4
  <2>6. new \in Maps(P)
    BY <2>5 DEF Maps
  <2>7. QED
    BY <1>2, <1>4, <2>1, <2>2, <2>4, <2>6 DEF new
<1>5. QED
  BY <1>3, <1>4

\* The pages that the DXE core makes of the HOBs.
IsAfterHobs(after, map) ==
  after = [i \in 0 .. Len(hobs) |-> IF i = 0 THEN map ELSE AfterHob(after[i - 1], hobs[i])]

\* A HOB adds pages of HOBs only.
LEMMA HobStep ==
  ASSUME hobs \in Seq(HobTypes), NEW map \in Maps(HobPages), NEW i \in 1 .. Len(hobs)
  PROVE  AfterHob(map, hobs[i]) \in Maps(HobPages)
<1> DEFINE pages == PagesOf(hobs[i].base, hobs[i].size)
<1>1. CASE hobs[i].type = "MemoryMappedIO"
  <2>1. i \in {j \in DOMAIN hobs : hobs[j].type = "MemoryMappedIO"}
    BY <1>1
  <2>2. pages \in SUBSET HobPages
    BY <2>1 DEF HobPages
  <2>3. {"UC"} \in SUBSET Attributes /\ "UC" \in {"UC"}
    BY DEF Attributes
  <2>4. AfterAdd(map, pages, {"UC"}) \in Maps(HobPages)
    <3> HIDE DEF pages
    <3>1. QED
      BY <2>2, <2>3, AddedMap
  <2>5. QED
    BY <1>1, <2>4 DEF AfterHob
<1>2. CASE hobs[i].type # "MemoryMappedIO"
  BY <1>2 DEF AfterHob
<1>3. QED
  BY <1>1, <1>2

\* The DXE core adds pages of HOBs only.
LEMMA HobsMapped ==
  ASSUME hobs \in Seq(HobTypes), NEW map \in Maps(HobPages)
  PROVE  AfterHobs(map) \in Maps(HobPages)
<1> DEFINE n == Len(hobs)
           S == Maps(HobPages)
           G == [i \in 1 .. n |-> [m \in S |-> AfterHob(m, hobs[i])]]
<1>1. n \in Nat
  OBVIOUS
<1>2. G \in [1 .. n -> [S -> S]]
  BY HobStep
<1> HIDE DEF n, S
<1>3. PICK f : IsRecursion(f, n, S, map, G)
  <2> HIDE DEF G
  <2>1. QED
    BY <1>1, <1>2, PrefixRecursion DEF S
<1>4. /\ f \in [0 .. n -> S] /\ f[0] = map
      /\ \A i \in 1 .. n : f[i] = AfterHob(f[i - 1], hobs[i])
  <2>1. f \in [0 .. n -> S] /\ f[0] = map /\ \A i \in 1 .. n : f[i] = G[i][f[i - 1]]
    BY <1>3, Zenon DEF IsRecursion
  <2>2. \A i \in 1 .. n : f[i - 1] \in S
    BY <1>1, <2>1
  <2>3. QED
    BY <2>1, <2>2
<1>5. IsAfterHobs(f, map)
  <2> DEFINE F(i) == IF i = 0 THEN map ELSE AfterHob(f[i - 1], hobs[i])
  <2>1. \A i \in 0 .. n : f[i] = F(i)
    BY <1>1, <1>4
  <2>2. f = [i \in 0 .. n |-> F(i)]
    <3> HIDE DEF F
    <3>1. QED
      BY <1>4, <2>1
  <2>3. QED
    BY <2>2, Zenon DEF IsAfterHobs, n
<1> DEFINE after == CHOOSE g : IsAfterHobs(g, map)
<1>6. IsAfterHobs(after, map)
  BY <1>5
<1>7. AfterHobs(map) = after[n]
  BY DEF AfterHobs, IsAfterHobs, n
<1> HIDE DEF after
<1>8. after[0] = map /\ \A i \in 1 .. n : after[i] = AfterHob(after[i - 1], hobs[i])
  <2> DEFINE F(i) == IF i = 0 THEN map ELSE AfterHob(after[i - 1], hobs[i])
  <2>1. after = [i \in 0 .. n |-> F(i)]
    BY <1>6, Zenon DEF IsAfterHobs, n
  <2>2. F(0) = map /\ \A i \in 1 .. n : F(i) = AfterHob(after[i - 1], hobs[i])
    BY <1>1
  <2> HIDE DEF F
  <2>3. after[0] = F(0) /\ \A i \in 1 .. n : after[i] = F(i)
    BY <1>1, <2>1
  <2>4. QED
    BY <2>2, <2>3, Zenon
<1> DEFINE T == {i \in 0 .. n : after[i] \in S}
<1>9. 0 \in T
  BY <1>1, <1>8 DEF S
<1>10. ASSUME NEW i \in 1 .. n, i - 1 \in T PROVE i \in T
  <2>1. after[i - 1] \in S /\ i \in 0 .. n /\ i \in 1 .. Len(hobs)
    BY <1>1, <1>10 DEF n
  <2>2. AfterHob(after[i - 1], hobs[i]) \in S
    BY <2>1, HobStep DEF S
  <2>3. QED
    BY <1>8, <2>1, <2>2
<1>11. 0 .. n \subseteq T
  <2> HIDE DEF T
  <2>1. QED
    BY <1>1, <1>9, <1>10, IntervalInduction
<1>12. QED
  BY <1>1, <1>7, <1>11 DEF S

\* What stays as it is with the tree and with the HOBs.
LEMMA DevicesKept ==
  ASSUME UNCHANGED secVars
  PROVE  /\ tree' = tree /\ hobs' = hobs /\ secPc' = secPc /\ (SecTyped => SecTyped')
         /\ \A d : Device(d)' = Device(d) /\ DevicePages(d)' = DevicePages(d)
         /\ Found' = Found /\ HobPages' = HobPages
         /\ \A d : SharedPages(d)' = SharedPages(d) /\ (IsUnhindered(d)' <=> IsUnhindered(d))
<1>1. tree' = tree /\ hobs' = hobs /\ secPc' = secPc /\ Node' = Node /\ Index' = Index
  BY DEF secVars
<1>2. SecTyped => SecTyped'
  BY <1>1 DEF SecTyped
<1>3. \A d : Device(d)' = Device(d)
  BY <1>1 DEF Device, UemuFdtGet
<1>4. \A d : DevicePages(d)' = DevicePages(d)
  BY <1>3 DEF DevicePages, PagesOf
<1>5. Found' = Found
  BY <1>3 DEF Found
<1>6. HobPages' = HobPages
  BY <1>1 DEF HobPages, PagesOf
<1>7. \A d : SharedPages(d)' = SharedPages(d)
  BY <1>4, <1>5, <1>6 DEF SharedPages
<1>8. \A d : IsUnhindered(d)' <=> IsUnhindered(d)
  BY <1>4, <1>7 DEF IsUnhindered
<1>9. QED
  BY <1>1, <1>2, <1>3, <1>4, <1>5, <1>6, <1>7, <1>8

\* More drivers have more pages.
LEMMA MapsGrow ==
  ASSUME NEW P, NEW Q, P \subseteq Q
  PROVE  Maps(P) \subseteq Maps(Q)
BY DEF Maps

\* A keyboard, random number or battery driver claims its pages: it takes nothing from
\* the pages of others, and if it is unhindered it has set its own.
LEMMA ClaimedPages ==
  ASSUME DevicesInv, NEW d \in Found \ dispatched, mode # "sec", d # Rtc
  PROVE  LET pages == DevicePages(d)
             added == AfterAdd(gcd, pages, {"UC", "RUNTIME"})
             new   == AfterSet(added, pages, {"UC"})
         IN  /\ new \in Maps(HobPages \cup FoundPages(dispatched \cup {d}))
             /\ DOMAIN gcd \subseteq DOMAIN new
             /\ \A p \in DOMAIN gcd : p \notin pages => new[p] = gcd[p]
             /\ \A p \in DOMAIN gcd : new[p] = gcd[p] \/ new[p].attributes = {"UC"}
             /\ ~SetAttributesFails(added, pages, {"UC"}) =>
                  \A p \in pages : p \in DOMAIN new /\ new[p].attributes = {"UC"}
             /\ IsUnhindered(d) => ~SetAttributesFails(added, pages, {"UC"})
<1> DEFINE pages == DevicePages(d)
           added == AfterAdd(gcd, pages, {"UC", "RUNTIME"})
           new == AfterSet(added, pages, {"UC"})
           P == HobPages \cup FoundPages(dispatched \cup {d})
           Q == HobPages \cup FoundPages(dispatched)
<1>1. Q \subseteq P /\ pages \in SUBSET P
  BY DEF FoundPages
<1>2. gcd \in Maps(Q)
  BY Zenon DEF DevicesInv
<1>3. /\ {"UC", "RUNTIME"} \in SUBSET Attributes /\ "UC" \in {"UC", "RUNTIME"}
      /\ {"UC"} \in SUBSET Attributes /\ {"UC", "RUNTIME"} \cup {"RUNTIME"} = {"UC", "RUNTIME"}
  BY DEF Attributes
<1>4. /\ \A p \in pages \cap DOMAIN gcd : {"UC", "RUNTIME"} \subseteq gcd[p].capabilities
      /\ DOMAIN gcd \subseteq Q
  BY <1>2 DEF Maps, PageStates
<1>5. IsFiniteSet(pages)
  BY DeviceFound DEF DevicesInv, SecTyped, Found
<1>6. SharedPages(d) = {} => pages \cap DOMAIN gcd = {}
  <2>1. Q \subseteq HobPages \cup UNION {DevicePages(e) : e \in Found \ {d}}
    BY DEF FoundPages
  <2> HIDE DEF Q
  <2>2. QED
    BY <1>4, <2>1 DEF SharedPages
<1>7. gcd \in Maps(P)
  <2> HIDE DEF P, Q
  <2>1. QED
    BY <1>1, <1>2, MapsGrow
<1> HIDE DEF P, Q, pages
<1>8. /\ added \in Maps(P) /\ DOMAIN gcd \subseteq DOMAIN added
      /\ \A p \in DOMAIN gcd : added[p] = gcd[p]
      /\ IF AddMemorySpaceFails(gcd, pages)
         THEN added = gcd /\ pages \cap DOMAIN gcd # {}
         ELSE /\ DOMAIN added = DOMAIN gcd \cup pages
              /\ \A p \in pages : added[p].capabilities = {"UC", "RUNTIME"}
  <2>1. /\ added \in Maps(P) /\ DOMAIN gcd \subseteq DOMAIN added
        /\ \A p \in DOMAIN gcd : added[p] = gcd[p]
        /\ IF AddMemorySpaceFails(gcd, pages)
           THEN added = gcd /\ pages \cap DOMAIN gcd # {}
           ELSE /\ DOMAIN added = DOMAIN gcd \cup pages /\ pages \cap DOMAIN gcd = {}
                /\ \A p \in pages : added[p].capabilities = {"UC", "RUNTIME"} \cup {"RUNTIME"}
    BY <1>1, <1>3, <1>7, AddedMap
  <2>2. QED
    BY <1>3, <2>1
<1> HIDE DEF added
<1>9. /\ new \in Maps(P) /\ DOMAIN new = DOMAIN added
      /\ \A p \in DOMAIN added : p \notin pages => new[p] = added[p]
      /\ \A p \in DOMAIN added : new[p] = added[p] \/ new[p].attributes = {"UC"}
      /\ ~SetAttributesFails(added, pages, {"UC"}) =>
           \A p \in pages : p \in DOMAIN new /\ new[p].attributes = {"UC"}
  BY <1>1, <1>3, <1>8, SetMap
<1>10. ASSUME IsUnhindered(d) PROVE ~SetAttributesFails(added, pages, {"UC"})
  <2>1. CASE ~AddMemorySpaceFails(gcd, pages)
    BY <1>8, <2>1 DEF SetAttributesFails, Exists
  <2>2. CASE AddMemorySpaceFails(gcd, pages)
    <3>1. Cardinality(pages) = 1
      BY <1>6, <1>8, <1>10, <2>2 DEF IsUnhindered, pages
    <3>2. PICK p : pages = {p}
      BY <1>5, <3>1, FS_Singleton
    <3>3. p \in DOMAIN gcd /\ added = gcd
      BY <1>8, <2>2, <3>2
    <3>4. QED
      BY <1>4, <3>2, <3>3 DEF SetAttributesFails, Exists
  <2>3. QED
    BY <2>1, <2>2
<1> HIDE DEF new
<1>11. QED
  BY <1>8, <1>9, <1>10 DEF new, added, pages, P

\* The keyboard, random number and battery drivers.
LEMMA ClaimStep ==
  ASSUME DevicesInv, NEW d \in Drivers, ClaimDevice(d)
  PROVE  DevicesInv'
<1> DEFINE pages == DevicePages(d)
           added == AfterAdd(gcd, pages, {"UC", "RUNTIME"})
           new == AfterSet(added, pages, {"UC"})
           fails == SetAttributesFails(added, pages, {"UC"})
<1>1. /\ mode = "boot" /\ mode' = "boot" /\ d \notin dispatched /\ d # Rtc
      /\ dispatched' = dispatched \cup {d} /\ UNCHANGED secVars
      /\ mRtcRegisterBase' = mRtcRegisterBase
      /\ IF Device(d).status # "SUCCESS"
         THEN gcd' = gcd /\ started' = started
         ELSE gcd' = new /\ started' = IF fails THEN started ELSE started \cup {d}
  BY DEF ClaimDevice, Dispatch, GivesUp
<1>2. /\ tree' = tree /\ hobs' = hobs /\ secPc' = secPc /\ SecTyped'
      /\ \A e : Device(e)' = Device(e) /\ DevicePages(e)' = DevicePages(e)
      /\ Found' = Found /\ HobPages' = HobPages
      /\ \A e : SharedPages(e)' = SharedPages(e) /\ (IsUnhindered(e)' <=> IsUnhindered(e))
  BY <1>1, DevicesKept DEF DevicesInv
<1>3. /\ secPc = "done" /\ gcd \in Maps(HobPages \cup FoundPages(dispatched))
      /\ started \subseteq Found \cap dispatched
      /\ \A e \in started \ {Rtc} : \A p \in DevicePages(e) : IsUncached(p)
      /\ \A e \in (Found \cap dispatched) \ {Rtc} : IsUnhindered(e) => e \in started
      /\ Rtc \in started =>
           /\ mRtcRegisterBase = Device(Rtc).base
           /\ SharedPages(Rtc) = {} => \A p \in DevicePages(Rtc) : IsRuntime(p)
  BY <1>1 DEF DevicesInv
<1>5. CASE Device(d).status # "SUCCESS"
  <2>1. Found \cap dispatched' = Found \cap dispatched
    BY <1>1, <1>5 DEF Found
  <2>2. gcd' = gcd /\ started' = started
    BY <1>1, <1>5
  <2>3. FoundPages(dispatched)' = FoundPages(dispatched)
    BY <1>2, <2>1 DEF FoundPages
  <2>4. \A p : (IsUncached(p)' <=> IsUncached(p)) /\ (IsRuntime(p)' <=> IsRuntime(p))
    BY <2>2 DEF IsUncached, IsRuntime
  <2>5. QED
    BY <1>1, <1>2, <1>3, <2>1, <2>2, <2>3, <2>4 DEF DevicesInv
<1>6. CASE Device(d).status = "SUCCESS"
  <2>1. d \in Found \ dispatched
    BY <1>1, <1>6 DEF Found
  <2>2. gcd' = new /\ started' = IF fails THEN started ELSE started \cup {d}
    BY <1>1, <1>6
  <2>3. /\ new \in Maps(HobPages \cup FoundPages(dispatched \cup {d}))
        /\ DOMAIN gcd \subseteq DOMAIN new
        /\ \A p \in DOMAIN gcd : p \notin pages => new[p] = gcd[p]
        /\ \A p \in DOMAIN gcd : new[p] = gcd[p] \/ new[p].attributes = {"UC"}
        /\ ~fails => \A p \in pages : p \in DOMAIN new /\ new[p].attributes = {"UC"}
        /\ IsUnhindered(d) => ~fails
    BY <1>1, <2>1, ClaimedPages
  <2> HIDE DEF new, fails, added
  <2>4. \A p : IsUncached(p) => IsUncached(p)'
    BY <2>2, <2>3 DEF IsUncached, Exists
  <2>5. \A p : p \notin pages /\ IsRuntime(p) => IsRuntime(p)'
    BY <2>2, <2>3 DEF IsRuntime, Exists
  <2>6. ~fails => \A p \in pages : IsUncached(p)'
    BY <2>2, <2>3 DEF IsUncached, Exists
  <2>7. FoundPages(dispatched)' = FoundPages(dispatched \cup {d})
    BY <1>1, <1>2 DEF FoundPages
  <2>8. started' \subseteq Found' \cap dispatched'
    BY <1>1, <1>2, <1>3, <2>1, <2>2
  <2>9. \A e \in started' \ {Rtc} : \A p \in DevicePages(e)' : IsUncached(p)'
    BY <1>2, <1>3, <2>2, <2>4, <2>6
  <2>10. \A e \in (Found' \cap dispatched') \ {Rtc} : IsUnhindered(e)' => e \in started'
    BY <1>1, <1>2, <1>3, <2>2, <2>3
  <2>11. Rtc \in started' /\ SharedPages(Rtc)' = {} => \A p \in DevicePages(Rtc)' : IsRuntime(p)'
    <3> SUFFICES ASSUME Rtc \in started', SharedPages(Rtc)' = {}
                 PROVE  \A p \in DevicePages(Rtc)' : IsRuntime(p)'
      OBVIOUS
    <3>1. Rtc \in started /\ SharedPages(Rtc) = {}
      BY <1>1, <1>2, <2>2
    <3>2. pages \cap DevicePages(Rtc) = {}
      BY <1>1, <2>1, <3>1 DEF SharedPages
    <3>3. QED
      BY <1>2, <1>3, <2>5, <3>1, <3>2
  <2>12. Rtc \in started' => Rtc \in started
    BY <1>1, <2>2
  <2>13. gcd' \in Maps(HobPages' \cup FoundPages(dispatched)')
    BY <1>2, <2>2, <2>3, <2>7
  <2>14. QED
    BY <1>1, <1>2, <1>3, <2>8, <2>9, <2>10, <2>11, <2>12, <2>13 DEF DevicesInv
<1>7. QED
  BY <1>5, <1>6

\* The clock adds pages that nobody has, or gives up.
LEMMA RtcStep ==
  ASSUME DevicesInv, LibRtcInitialize
  PROVE  DevicesInv'
<1> DEFINE pages == DevicePages(Rtc)
           added == AfterAdd(gcd, pages, RtcAttributes)
           new == AfterSet(added, pages, RtcAttributes)
           fails == Device(Rtc).status # "SUCCESS" \/ AddMemorySpaceFails(gcd, pages)
           P == HobPages \cup FoundPages(dispatched \cup {Rtc})
           Q == HobPages \cup FoundPages(dispatched)
<1>1. /\ mode = "boot" /\ mode' = "boot" /\ Rtc \in Drivers /\ Rtc \notin dispatched
      /\ dispatched' = dispatched \cup {Rtc} /\ UNCHANGED secVars
      /\ mRtcRegisterBase' = GetGoldfishRtcBase
      /\ IF fails THEN gcd' = gcd /\ started' = started
         ELSE gcd' = new /\ started' \in {started, started \cup {Rtc}}
  BY DEF LibRtcInitialize, Dispatch, AfterAdd
<1>2. /\ tree' = tree /\ hobs' = hobs /\ secPc' = secPc /\ SecTyped'
      /\ \A e : Device(e)' = Device(e) /\ DevicePages(e)' = DevicePages(e)
      /\ Found' = Found /\ HobPages' = HobPages
      /\ \A e : SharedPages(e)' = SharedPages(e) /\ (IsUnhindered(e)' <=> IsUnhindered(e))
  BY <1>1, DevicesKept DEF DevicesInv
<1>3. /\ secPc = "done" /\ gcd \in Maps(Q)
      /\ started \subseteq Found \cap dispatched
      /\ \A e \in started \ {Rtc} : \A p \in DevicePages(e) : IsUncached(p)
      /\ \A e \in (Found \cap dispatched) \ {Rtc} : IsUnhindered(e) => e \in started
  BY <1>1 DEF DevicesInv
<1>4. Rtc \notin started
  BY <1>1, <1>3
<1>5. Q \subseteq P /\ FoundPages(dispatched)' = FoundPages(dispatched \cup {Rtc})
  BY <1>1, <1>2 DEF FoundPages
<1>6. gcd \in Maps(P)
  <2> HIDE DEF P, Q
  <2>1. QED
    BY <1>3, <1>5, MapsGrow
<1>7. Found' \cap dispatched' = Found \cap (dispatched \cup {Rtc})
  BY <1>1, <1>2
<1>8. CASE fails
  <2>1. gcd' = gcd /\ started' = started
    BY <1>1, <1>8
  <2>2. \A p : IsUncached(p)' <=> IsUncached(p)
    BY <2>1 DEF IsUncached
  <2>3. gcd' \in Maps(HobPages' \cup FoundPages(dispatched)')
    BY <1>2, <1>5, <1>6, <2>1
  <2>4. QED
    BY <1>1, <1>2, <1>3, <1>4, <1>7, <2>1, <2>2, <2>3 DEF DevicesInv
<1>9. CASE ~fails
  <2>1. /\ Device(Rtc).status = "SUCCESS" /\ ~AddMemorySpaceFails(gcd, pages)
        /\ gcd' = new /\ started' \in {started, started \cup {Rtc}}
    BY <1>1, <1>9
  <2> HIDE DEF fails
  <2>2. Rtc \in Found /\ pages \in SUBSET P
    BY <1>1, <2>1 DEF Found, FoundPages
  <2>3. /\ RtcAttributes \in SUBSET Attributes /\ "UC" \in RtcAttributes
        /\ RtcAttributes \cup {"RUNTIME"} = RtcAttributes /\ "RUNTIME" \in RtcAttributes
    BY DEF RtcAttributes, Attributes
  <2> HIDE DEF P, Q, pages, new
  <2>4. /\ added \in Maps(P) /\ DOMAIN gcd \subseteq DOMAIN added
        /\ \A p \in DOMAIN gcd : added[p] = gcd[p]
        /\ DOMAIN added = DOMAIN gcd \cup pages /\ pages \cap DOMAIN gcd = {}
        /\ \A p \in pages : added[p].capabilities = RtcAttributes \cup {"RUNTIME"}
    <3>1. /\ added \in Maps(P) /\ DOMAIN gcd \subseteq DOMAIN added
          /\ \A p \in DOMAIN gcd : added[p] = gcd[p]
          /\ IF AddMemorySpaceFails(gcd, pages)
             THEN added = gcd /\ pages \cap DOMAIN gcd # {}
             ELSE /\ DOMAIN added = DOMAIN gcd \cup pages /\ pages \cap DOMAIN gcd = {}
                  /\ \A p \in pages : added[p].capabilities = RtcAttributes \cup {"RUNTIME"}
      BY <1>6, <2>2, <2>3, AddedMap
    <3> HIDE DEF added
    <3>2. QED
      BY <2>1, <3>1
  <2> HIDE DEF added
  <2>5. ~SetAttributesFails(added, pages, RtcAttributes)
    BY <2>3, <2>4 DEF SetAttributesFails, Exists
  <2>6. /\ new \in Maps(P) /\ DOMAIN new = DOMAIN added
        /\ \A p \in DOMAIN added : p \notin pages => new[p] = added[p]
        /\ \A p \in pages : p \in DOMAIN new /\ new[p].attributes = RtcAttributes
    <3>1. /\ new \in Maps(P) /\ DOMAIN new = DOMAIN added
          /\ \A p \in DOMAIN added : p \notin pages => new[p] = added[p]
          /\ ~SetAttributesFails(added, pages, RtcAttributes) =>
               \A p \in pages : p \in DOMAIN new /\ new[p].attributes = RtcAttributes
      <4>1. added \in Maps(P) /\ pages \in SUBSET P /\ RtcAttributes \in SUBSET Attributes
        BY <2>2, <2>3, <2>4
      <4>2. QED
        BY <4>1, SetMap DEF new
    <3>2. QED
      BY <2>5, <3>1
  <2>7. \A p : IsUncached(p) => IsUncached(p)'
    BY <2>1, <2>4, <2>6 DEF IsUncached, Exists
  <2>8. \A p \in pages : IsRuntime(p)'
    BY <2>1, <2>3, <2>6 DEF IsRuntime, Exists
  <2>9. GetGoldfishRtcBase = Device(Rtc).base
    <3>1. tree \in Trees
      BY DEF DevicesInv, SecTyped
    <3>2. QED
      BY <1>1, <2>1, <3>1, DeviceFound DEF GetGoldfishRtcBase
  <2>10. gcd' \in Maps(HobPages' \cup FoundPages(dispatched)')
    BY <1>2, <1>5, <2>1, <2>6 DEF P
  <2>11. /\ started' \subseteq Found' \cap dispatched'
         /\ \A e \in started' \ {Rtc} : \A p \in DevicePages(e)' : IsUncached(p)'
         /\ \A e \in (Found' \cap dispatched') \ {Rtc} : IsUnhindered(e)' => e \in started'
    BY <1>2, <1>3, <1>7, <2>1, <2>2, <2>7
  <2>12. \A p \in DevicePages(Rtc)' : IsRuntime(p)'
    BY <1>2, <2>8 DEF pages
  <2>13. QED
    BY <1>1, <1>2, <1>3, <2>9, <2>10, <2>11, <2>12 DEF DevicesInv
<1>10. QED
  BY <1>8, <1>9

\* The operating system moves the clock's registers with the pages of the runtime.
LEMMA VirtualStep ==
  ASSUME DevicesInv, SetVirtualAddressMap
  PROVE  DevicesInv'
<1> DEFINE page == mRtcRegisterBase \div PAGE
<1>1. /\ mode = "boot" /\ mode' = "virtual" /\ UNCHANGED secVars
      /\ gcd' = gcd /\ dispatched' = dispatched /\ started' = started
      /\ mRtcRegisterBase' = IF Rtc \in started /\ IsRuntime(page)
                             THEN mRtcRegisterBase + VIRTUAL ELSE mRtcRegisterBase
  BY DEF SetVirtualAddressMap, IsRuntime
<1>2. /\ tree' = tree /\ hobs' = hobs /\ secPc' = secPc /\ SecTyped'
      /\ \A e : Device(e)' = Device(e) /\ DevicePages(e)' = DevicePages(e)
      /\ Found' = Found /\ HobPages' = HobPages
      /\ \A e : SharedPages(e)' = SharedPages(e) /\ (IsUnhindered(e)' <=> IsUnhindered(e))
  BY <1>1, DevicesKept DEF DevicesInv
<1>3. /\ secPc = "done" /\ gcd \in Maps(HobPages \cup FoundPages(dispatched))
      /\ started \subseteq Found \cap dispatched
      /\ \A e \in started \ {Rtc} : \A p \in DevicePages(e) : IsUncached(p)
      /\ \A e \in (Found \cap dispatched) \ {Rtc} : IsUnhindered(e) => e \in started
      /\ Rtc \in started =>
           /\ mRtcRegisterBase = Device(Rtc).base
           /\ SharedPages(Rtc) = {} => \A p \in DevicePages(Rtc) : IsRuntime(p)
  BY <1>1 DEF DevicesInv
<1>4. /\ \A p : (IsUncached(p)' <=> IsUncached(p)) /\ (IsRuntime(p)' <=> IsRuntime(p))
      /\ FoundPages(dispatched)' = FoundPages(dispatched)
  BY <1>1, <1>2 DEF IsUncached, IsRuntime, FoundPages
<1>5. ASSUME Rtc \in started, SharedPages(Rtc) = {}
      PROVE  mRtcRegisterBase' = Device(Rtc).base + VIRTUAL
  <2>1. Rtc \in Drivers /\ Device(Rtc).status = "SUCCESS" /\ tree \in Trees
    BY <1>3, <1>5 DEF Found, DevicesInv, SecTyped
  <2>2. Device(Rtc).base \div PAGE \in DevicePages(Rtc)
    BY <2>1, DeviceFound
  <2>3. page \in DevicePages(Rtc)
    BY <1>3, <1>5, <2>2
  <2>4. IsRuntime(page)
    BY <1>3, <1>5, <2>3
  <2>5. QED
    BY <1>1, <1>3, <1>5, <2>4
<1>6. QED
  BY <1>1, <1>2, <1>3, <1>4, <1>5 DEF DevicesInv

\* The DXE core starts.
LEMMA StartDxeStep ==
  ASSUME DevicesInv, StartDxe
  PROVE  DevicesInv'
<1>1. /\ secPc = "done" /\ mode = "sec" /\ mode' = "boot" /\ gcd' = AfterHobs(gcd)
      /\ UNCHANGED secVars /\ dispatched' = dispatched /\ started' = started
  BY DEF StartDxe
<1>2. /\ hobs' = hobs /\ secPc' = secPc /\ SecTyped' /\ Found' = Found /\ HobPages' = HobPages
  BY <1>1, DevicesKept DEF DevicesInv
<1>3. /\ gcd = [p \in {} |-> 0] /\ dispatched = {} /\ started = {} /\ hobs \in Seq(HobTypes)
  BY <1>1 DEF DevicesInv, SecTyped
<1>4. gcd \in Maps(HobPages)
  <2>1. [p \in {} |-> 0] \in [{} -> PageStates]
    OBVIOUS
  <2>2. QED
    BY <1>3, <2>1 DEF Maps
<1>5. gcd' \in Maps(HobPages)
  BY <1>1, <1>3, <1>4, HobsMapped
<1>6. HobPages \subseteq HobPages' \cup FoundPages(dispatched)'
  BY <1>2
<1>7. gcd' \in Maps(HobPages' \cup FoundPages(dispatched)')
  BY <1>5, <1>6, MapsGrow
<1>8. QED
  BY <1>1, <1>2, <1>3, <1>7 DEF DevicesInv

\* Until the DXE core starts, there are no pages.
LEMMA SecStep ==
  ASSUME HobsInv', DevicesInv, SecPlatformMain, UNCHANGED dxeVars
  PROVE  DevicesInv'
<1>1. secPc # "done"
  BY DEF SecPlatformMain, MemoryInitialization, AddReservedMemoryMap, CpuInitialization,
         PlatformInitialization, HandOff, HandTreeOn, PopulateIoResources, ReserveMapEntry,
         WalkRegs, AtNode, GoTo
<1>2. /\ gcd' = gcd /\ dispatched' = dispatched /\ started' = started /\ mode' = mode
      /\ mode = "sec" /\ gcd = [p \in {} |-> 0] /\ dispatched = {} /\ started = {}
  BY <1>1 DEF DevicesInv, dxeVars
<1>3. QED
  BY <1>2 DEF DevicesInv, HobsInv

\* It is inductive, as drivers are dispatched in any order.
THEOREM DevicesInvAlways == Spec => []DevicesInv
<1>1. Init => DevicesInv
  <2> SUFFICES ASSUME Init PROVE DevicesInv
    OBVIOUS
  <2>1. SecTyped
    BY HobsInvStarts DEF Init, HobsInv
  <2>2. QED
    BY <2>1 DEF Init, DevicesInv
<1>2. HobsInv' /\ DevicesInv /\ [Next]_vars => DevicesInv'
  <2> SUFFICES ASSUME HobsInv', DevicesInv, [Next]_vars PROVE DevicesInv'
    OBVIOUS
  <2>1. CASE SecPlatformMain /\ UNCHANGED dxeVars
    BY <2>1, SecStep
  <2>2. CASE StartDxe
    BY <2>2, StartDxeStep
  <2>3. ASSUME NEW d \in Drivers, ClaimDevice(d) PROVE DevicesInv'
    BY <2>3, ClaimStep
  <2>4. CASE LibRtcInitialize
    BY <2>4, RtcStep
  <2>5. CASE SetVirtualAddressMap
    BY <2>5, VirtualStep
  <2>6. CASE UNCHANGED vars
    <3>1. /\ UNCHANGED secVars /\ gcd' = gcd /\ dispatched' = dispatched /\ started' = started
          /\ mode' = mode /\ mRtcRegisterBase' = mRtcRegisterBase
      BY <2>6 DEF vars, dxeVars
    <3>2. /\ secPc' = secPc /\ SecTyped'
          /\ \A e : Device(e)' = Device(e) /\ DevicePages(e)' = DevicePages(e)
          /\ Found' = Found /\ HobPages' = HobPages
          /\ \A e : SharedPages(e)' = SharedPages(e) /\ (IsUnhindered(e)' <=> IsUnhindered(e))
      BY <3>1, DevicesKept DEF DevicesInv
    <3>3. /\ \A p : (IsUncached(p)' <=> IsUncached(p)) /\ (IsRuntime(p)' <=> IsRuntime(p))
          /\ FoundPages(dispatched)' = FoundPages(dispatched)
      BY <3>1, <3>2 DEF IsUncached, IsRuntime, FoundPages
    <3>4. QED
      BY <3>1, <3>2, <3>3 DEF DevicesInv
  <2>7. QED
    BY <2>1, <2>2, <2>3, <2>4, <2>5, <2>6 DEF Next
<1>3. QED
  BY <1>1, <1>2, HobsInvAlways, PTL DEF Spec

\* Whatever the order of dispatch, a driver whose pages are its own starts, and so does a
\* keyboard, random number or battery driver that has a single page; the clock's registers
\* are where the operating system has mapped its pages, if they are its own.
THEOREM DevicesAlwaysReachable == Spec => []DevicesReachable
<1>1. DevicesInv => DevicesReachable
  <2> SUFFICES ASSUME DevicesInv PROVE DevicesReachable
    OBVIOUS
  <2>1. ASSUME dispatched = Drivers, NEW d \in Found \ {Rtc},
               SharedPages(d) = {} \/ Cardinality(DevicePages(d)) = 1
        PROVE  d \in started /\ \A p \in DevicePages(d) : "UC" \in gcd[p].attributes
    <3>1. d \in Found \cap dispatched
      BY <2>1 DEF Found
    <3>2. d \in started
      BY <2>1, <3>1 DEF DevicesInv, IsUnhindered
    <3>3. QED
      BY <2>1, <3>2 DEF DevicesInv, IsUncached
  <2>2. ASSUME mode = "virtual", Rtc \in started, SharedPages(Rtc) = {}
        PROVE  /\ mRtcRegisterBase = Device(Rtc).base + VIRTUAL
               /\ \A p \in DevicePages(Rtc) : "RUNTIME" \in gcd[p].attributes
    BY <2>2 DEF DevicesInv, IsRuntime
  <2>3. QED
    BY <2>1, <2>2 DEF DevicesReachable
<1>2. QED
  BY <1>1, DevicesInvAlways, PTL

=============================================================================
