---------------------------- MODULE PlatformSec ----------------------------
(***************************************************************************)
(* The start-up library (PlatformSecLib): SecPlatformMain, which walks the *)
(* device tree and reports its memory, its reserved memory and its I/O     *)
(* devices as HOBs, and hands the tree on.  It runs alone; one step is one *)
(* round of one of its loops.                                              *)
(*                                                                         *)
(* Of a tree the fields are: whether its header is intact, its reserve map *)
(* (address and size of each entry that can be read), its nodes, and what  *)
(* the tree library returns when it finds no further node.  Besides the    *)
(* fields of UemuFdt a node says whether its device_type is "memory",      *)
(* whether it lies in /reserved-memory, and whether it has no-map.         *)
(***************************************************************************)
EXTENDS UemuFdt

CONSTANTS
  Trees,      \* the device trees a platform may start with
  MaxHobs     \* HOBs that the temporary memory has room for

ASSUME MaxHobsAssumption == MaxHobs \in Nat

IsTree(t) ==
  /\ t.nodes \in Seq(ToSet(t.nodes)) /\ \A node \in ToSet(t.nodes) : IsNode(node)
  /\ t.reserveMap \in Seq([base : 0 .. MAX_UINT64, size : 0 .. MAX_UINT64])

ASSUME TreesAssumption == \A t \in Trees : IsTree(t)

VARIABLES
  tree,
  hobs,       \* the HOB list
  secPc,      \* where SecPlatformMain is
  Node,       \* its place in the tree, before the first node at 0
  Index       \* and in a reg property, in the reserve map, or in IoDevices

secVars == <<tree, hobs, secPc, Node, Index>>

\* What PlatformInitialization populates I/O resources for, in order.
IoDevices == <<"ns16550a", "virtio,mmio", "simple-framebuffer">>

Hob(type, base, size) == [type |-> type, base |-> base, size |-> size]
FdtHob == Hob("Fdt", 0, 0)

\* A HOB for which there is no room is dropped.
BuildHob(hob) == hobs' = IF Len(hobs) < MaxHobs THEN Append(hobs, hob) ELSE hobs

SecInit ==
  /\ tree \in Trees
  /\ hobs = <<>>
  /\ secPc = "memory"
  /\ Node = 1 /\ Index = 0

-----------------------------------------------------------------------------
\* The places of the loops, and where they go from a reg they cannot use.
AtNode(place) == secPc = place /\ Node \in DOMAIN tree.nodes
Reg == UemuFdtGetReg(tree.nodes[Node], Index)

\* Faulty form: a reg that cannot be used ends the walk of the tree.
AfterLastRegEnd == IF Reg.status = "NOT_FOUND" THEN Node + 1 ELSE Len(tree.nodes) + 1

\* A reg that cannot be used ends the regs of its node only.
AfterLastReg == Node + 1

\* One tuple of a node's reg becomes a HOB, or the walk goes on to the next node.
WalkRegs(place, isRelevant, type) ==
  /\ AtNode(place)
  /\ IF isRelevant /\ Reg.status = "SUCCESS"
     THEN /\ BuildHob(Hob(type, Reg.base, Reg.size))
          /\ Index' = Index + 1
          /\ UNCHANGED Node
     ELSE /\ Node' = AfterLastReg
          /\ Index' = 0
          /\ UNCHANGED hobs
  /\ UNCHANGED <<tree, secPc>>

GoTo(place, next, node, index) ==
  /\ secPc = place
  /\ secPc' = next
  /\ Node' = node /\ Index' = index
  /\ UNCHANGED tree

\* MemoryInitialization's walk of all nodes ends at the end of the tree, whatever
\* error the tree library gives as the reason.
MemoryInitialization ==
  \/ WalkRegs("memory", AtNode("memory") /\ tree.nodes[Node].isMemory, "SystemMemory")
  \/ ~AtNode("memory") /\ GoTo("memory", "reserveMap", 0, 1) /\ UNCHANGED hobs

\* AddReservedMemoryMap: first the reserve map ...
ReserveMapEntry ==
  /\ secPc = "reserveMap"
  /\ Index \in DOMAIN tree.reserveMap
  /\ LET entry == tree.reserveMap[Index]
     IN  IF entry.size # 0 /\ entry.base <= MAX_UINT64 - entry.size
         THEN BuildHob(Hob("Reserved", entry.base, entry.size))
         ELSE UNCHANGED hobs
  /\ Index' = Index + 1
  /\ UNCHANGED <<tree, secPc, Node>>

ReservedType(node) == IF node.noMap THEN "Reserved" ELSE "BootServicesData"

\* ... and then the nodes below /reserved-memory.  BuildMemoryTypeHob's constant
\* HOB follows.
AddReservedMemoryMap ==
  \/ ReserveMapEntry
  \/ /\ Index \notin DOMAIN tree.reserveMap
     /\ GoTo("reserveMap", "reserved", 1, 0)
     /\ UNCHANGED hobs
  \/ AtNode("reserved") /\ WalkRegs("reserved", tree.nodes[Node].isReserved,
                                    ReservedType(tree.nodes[Node]))
  \/ ~AtNode("reserved") /\ GoTo("reserved", "cpu", 0, 0) /\ BuildHob(Hob("MemoryType", 0, 0))

CpuInitialization == GoTo("cpu", "platform", 0, 0) /\ BuildHob(Hob("Cpu", 0, 0))

\* PlatformInitialization gives up a tree with a broken header, and when it has
\* no memory for a copy of the tree or no room for its HOB.  Its status is ignored.
HandTreeOn ==
  \/ GoTo("platform", "handOff", 0, 0) /\ UNCHANGED hobs
  \/ tree.header /\ Len(hobs) < MaxHobs /\ GoTo("platform", "io", 0, 1) /\ BuildHob(FdtHob)

\* FdtNodeOffsetByCompatible: the next node of that kind, enabled or not.
NextCompatible(node, compatible) ==
  LET found == {i \in DOMAIN tree.nodes : i > node /\ compatible \in tree.nodes[i].compatible}
  IN  IF found = {} THEN 0 ELSE CHOOSE i \in found : \A j \in found : i <= j

\* AddIoMemoryBaseSizeHob drops a range that cannot be rounded out to pages.
AddIoHob(reg) ==
  LET pages == UemuFdtAlignRange(reg.base, reg.size)
  IN  IF reg.status = "SUCCESS" /\ pages.status = "SUCCESS"
      THEN BuildHob(Hob("MemoryMappedIO", pages.base, pages.size))
      ELSE UNCHANGED hobs

\* Faulty form: a node whose reg cannot be used is looked at again.
AdvanceIfUsed(next) ==
  IF UemuFdtGetReg(tree.nodes[next], 0).status = "SUCCESS" THEN next ELSE Node

Advance(next) == next

\* One round of PopulateIoResources' loop.  Only -FDT_ERR_NOTFOUND ends it: from
\* any other error the search starts again at the first node.
PopulateIoResources ==
  /\ secPc = "io"
  /\ Index \in DOMAIN IoDevices
  /\ LET next == NextCompatible(Node, IoDevices[Index])
     IN  IF next # 0
         THEN /\ \E reg \in {UemuFdtGetReg(tree.nodes[next], 0)} : AddIoHob(reg)
              /\ Node' = Advance(next)
              /\ UNCHANGED Index
         ELSE /\ Node' = 0
              /\ Index' = IF tree.end = "NOTFOUND" THEN Index + 1 ELSE Index
              /\ UNCHANGED hobs
  /\ UNCHANGED <<tree, secPc>>

PlatformInitialization ==
  \/ HandTreeOn
  \/ PopulateIoResources
  \/ Index \notin DOMAIN IoDevices /\ GoTo("io", "handOff", 0, 0) /\ UNCHANGED hobs

\* The hart id and the address of the tree are passed on in a HOB.
HandOff == GoTo("handOff", "done", 0, 0) /\ BuildHob(Hob("SecHandOff", 0, 0))

SecPlatformMain ==
  \/ MemoryInitialization
  \/ AddReservedMemoryMap
  \/ CpuInitialization
  \/ PlatformInitialization
  \/ HandOff

-----------------------------------------------------------------------------
Bytes(base, size) == base .. (base + size - 1)

Reported(type) == UNION {Bytes(hobs[i].base, hobs[i].size) : i \in {j \in DOMAIN hobs : hobs[j].type = type}}

\* The ranges of a node's reg: all of them up to the first that is not one.
Regs(node) ==
  LET last  == IF node.reg = Absent THEN 0 ELSE Len(node.reg)
      valid == {i \in 0 .. last :
                  \A j \in 0 .. i : UemuFdtGetReg(node, j).status = "SUCCESS"}
  IN  UNION {Bytes(UemuFdtGetReg(node, i).base, UemuFdtGetReg(node, i).size) : i \in valid}

AllRegs(nodes) == UNION {Regs(tree.nodes[i]) : i \in nodes}

MemoryNodes   == {i \in DOMAIN tree.nodes : tree.nodes[i].isMemory}
ReservedNodes == {i \in DOMAIN tree.nodes : tree.nodes[i].isReserved}
NoMapNodes    == {i \in ReservedNodes : tree.nodes[i].noMap}

\* Every entry of the reserve map that ends below the last address.
MappedReserve ==
  UNION {Bytes(e.base, e.size) :
           e \in {f \in ToSet(tree.reserveMap) : f.base + f.size <= MAX_UINT64}}

\* From the first to the last byte of every page that holds a register.
IoBytes(node) ==
  LET reg == UemuFdtGetReg(node, 0)
  IN  ((reg.base \div PAGE) * PAGE) .. (((reg.base + reg.size - 1) \div PAGE) * PAGE + PAGE - 1)

\* The devices whose registers are in pages that end below the last address.
UsableIoNodes ==
  {i \in DOMAIN tree.nodes :
     /\ \E d \in DOMAIN IoDevices : IoDevices[d] \in tree.nodes[i].compatible
     /\ UemuFdtGetReg(tree.nodes[i], 0).status = "SUCCESS"
     /\ MAX_UINT64 \notin IoBytes(tree.nodes[i])}

\* "Reserved regions with the no-map property must be listed in the memory map
\* with type EfiReservedMemoryType.  All other reserved regions must be listed
\* with type EfiBootServicesData": the HOBs report exactly that, exactly the memory
\* of the tree, and exactly the pages of its I/O devices, to the byte.
HobsExact ==
  secPc = "done" /\ Len(hobs) < MaxHobs /\ FdtHob \in ToSet(hobs) =>
    /\ Reported("SystemMemory") = AllRegs(MemoryNodes)
    /\ Reported("Reserved") = MappedReserve \cup AllRegs(NoMapNodes)
    /\ Reported("BootServicesData") = AllRegs(ReservedNodes \ NoMapNodes)
    /\ Reported("MemoryMappedIO") = UNION {IoBytes(tree.nodes[i]) : i \in UsableIoNodes}

\* The start-up ends and hands over, with every tree whose end can be found.
StartupEnds == tree.end = "NOTFOUND" ~> secPc = "done"

=============================================================================
