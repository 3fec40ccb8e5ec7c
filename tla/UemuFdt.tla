------------------------------ MODULE UemuFdt ------------------------------
(***************************************************************************)
(* The device tree library (UemuFdtLib) and what each device driver does   *)
(* with it: find the first enabled node of its device, decode the node's   *)
(* reg property, and round the registers out to whole pages.               *)
(*                                                                         *)
(* A tree is the sequence of its nodes in document order.  A node has its  *)
(* compatible names, its status property (a sequence of bytes, a word      *)
(* being one byte), its reg property (a sequence of cells), and its        *)
(* parent's #address-cells and #size-cells; cell counts of 0 also stand    *)
(* for a parent that cannot be found, which has the same status.  With a   *)
(* tree goes its end: the error that a search returns when no node is left *)
(* ("NOTFOUND" if the tree is intact to its end).                          *)
(***************************************************************************)
EXTENDS Naturals, Sequences, SequencesExt

CONSTANTS
  CELL,       \* 2^32, the values of one cell
  PAGE,       \* EFI_PAGE_SIZE
  Absent      \* a property that is not there

\* A page ends where the address space does.
ASSUME FdtAssumption ==
  CELL \in Nat \ {0} /\ PAGE \in Nat \ {0} /\ (CELL * CELL) % PAGE = 0

MAX_UINT64 == CELL * CELL - 1

FDT_MAX_NCELLS == 4
NUL == "NUL"

\* A node as libfdt can return it.
IsNode(node) ==
  /\ node.status = Absent \/ node.status \in Seq(ToSet(node.status))
  /\ node.reg = Absent \/ node.reg \in Seq(0 .. (CELL - 1))
  /\ {node.addressCells, node.sizeCells} \subseteq Nat

Failure(status) == [status |-> status]

-----------------------------------------------------------------------------
\* Faulty form: a value of more than 64 bits keeps its low 64 bits.
PushCellWrapping(result, cell) == (result * CELL + cell) % (MAX_UINT64 + 1)

\* One round of DecodeCells' loop, where a value over 64 bits is not a number.
PushCell(result, cell) ==
  IF result > MAX_UINT64 \div CELL THEN MAX_UINT64 + 1 ELSE result * CELL + cell

\* The big-endian number that DecodeCells' loop reads.
Number(cells) ==
  LET value[i \in 0 .. Len(cells)] ==
        IF i = 0 THEN 0 ELSE PushCell(value[i - 1], cells[i])
  IN  value[Len(cells)]

DecodeCells(cells) ==
  IF Len(cells) \notin 1 .. FDT_MAX_NCELLS
  THEN Failure("COMPROMISED_DATA")
  ELSE IF Number(cells) > MAX_UINT64
  THEN Failure("BAD_BUFFER_SIZE")
  ELSE [status |-> "SUCCESS", value |-> Number(cells)]

IsFirstNul(data, i) == data[i] = NUL /\ \A j \in 1 .. (i - 1) : data[j] # NUL

\* AsciiStrnLenS: the bytes before the first NUL.
StrnLen(data) ==
  IF \A i \in DOMAIN data : data[i] # NUL THEN Len(data)
  ELSE (CHOOSE i \in DOMAIN data : IsFirstNul(data, i)) - 1

\* A property that is one string: its only NUL is its last byte.
IsString(data) == data # <<>> /\ StrnLen(data) = Len(data) - 1

\* Faulty form: only "disabled" disables a node.
NodeIsEnabledUnlessDisabled(node) ==
  node.status = Absent \/ node.status # <<"disabled", NUL>>

NodeIsEnabled(node) ==
  \/ node.status = Absent
  \/ /\ IsString(node.status)
     /\ SubSeq(node.status, 1, StrnLen(node.status)) \in {<<"okay">>, <<"ok">>}

Candidates(tree, compatible) ==
  {i \in DOMAIN tree : compatible \in tree[i].compatible /\ NodeIsEnabled(tree[i])}

UemuFdtFindCompatibleNode(tree, end, compatible) ==
  LET found == Candidates(tree, compatible)
  IN  IF found = {}
      THEN Failure(IF end = "NOTFOUND" THEN "NOT_FOUND" ELSE "COMPROMISED_DATA")
      ELSE [status |-> "SUCCESS", node |-> CHOOSE i \in found : \A j \in found : i <= j]

HasIndex(index, cells, tupleCells) == index < cells \div tupleCells

\* A tuple of reg: a range that is not empty and does not wrap.
RegTuple(address, size) ==
  IF address.status # "SUCCESS"
  THEN address
  ELSE IF size.status # "SUCCESS"
  THEN size
  ELSE IF size.value = 0 \/ address.value > MAX_UINT64 - size.value
  THEN Failure("COMPROMISED_DATA")
  ELSE [status |-> "SUCCESS", base |-> address.value, size |-> size.value]

\* The index-th (address, size) of the reg property, counted from 0.
UemuFdtGetReg(node, index) ==
  LET tupleCells == node.addressCells + node.sizeCells
      first      == index * tupleCells
  IN  IF ~({node.addressCells, node.sizeCells} \subseteq 1 .. FDT_MAX_NCELLS)
      THEN Failure("COMPROMISED_DATA")
      ELSE IF node.reg = Absent
      THEN Failure("NOT_FOUND")
      ELSE IF node.reg = <<>> \/ Len(node.reg) % tupleCells # 0
      THEN Failure("COMPROMISED_DATA")
      ELSE IF ~HasIndex(index, Len(node.reg), tupleCells)
      THEN Failure("NOT_FOUND")
      ELSE RegTuple(DecodeCells(SubSeq(node.reg, first + 1, first + node.addressCells)),
                    DecodeCells(SubSeq(node.reg, first + node.addressCells + 1,
                                       first + tupleCells)))

\* A property that is one cell.
UemuFdtGetU32(data) ==
  IF data = Absent THEN Failure("NOT_FOUND")
  ELSE IF Len(data) # 1 THEN Failure("COMPROMISED_DATA")
  ELSE [status |-> "SUCCESS", value |-> data[1]]

UemuFdtGetString(data) ==
  IF data = Absent THEN Failure("NOT_FOUND")
  ELSE IF ~IsString(data) THEN Failure("COMPROMISED_DATA")
  ELSE [status |-> "SUCCESS", value |-> data]

PageBase(address) == address - (address % PAGE)

\* ALIGN_VALUE: the first page boundary at or after an address.
PageEnd(address) == PageBase(address + (PAGE - 1))

\* Faulty form: the size is rounded on its own, not with the base.
AlignedSizeAlone(base, size) == PageEnd(size)

\* From the page of the first byte to the end of the page of the last.
AlignedSize(base, size) == PageEnd(base + size) - PageBase(base)

UemuFdtAlignRange(base, size) ==
  IF size = 0 \/ base > MAX_UINT64 - size
  THEN Failure("INVALID_PARAMETER")
  ELSE IF base + size > MAX_UINT64 - (PAGE - 1)
  THEN Failure("BAD_BUFFER_SIZE")
  ELSE [status |-> "SUCCESS", base |-> PageBase(base), size |-> AlignedSize(base, size)]

-----------------------------------------------------------------------------
\* What the entry points of the drivers do before they touch their device: the
\* registers, and the pages they add to the GCD memory space.
MmioRange(node, reg, minSize) ==
  LET pages == UemuFdtAlignRange(reg.base, reg.size)
  IN  IF reg.status # "SUCCESS"
      THEN reg
      ELSE IF reg.size < minSize
      THEN Failure("COMPROMISED_DATA")
      ELSE IF pages.status # "SUCCESS"
      THEN pages
      ELSE [status |-> "SUCCESS", node |-> node, base |-> reg.base, size |-> reg.size,
            gcdBase |-> pages.base, gcdSize |-> pages.size]

DiscoverMmioRange(tree, end, compatible, minSize) ==
  LET found == UemuFdtFindCompatibleNode(tree, end, compatible)
  IN  IF found.status # "SUCCESS"
      THEN found
      ELSE MmioRange(found.node, UemuFdtGetReg(tree[found.node], 0), minSize)

=============================================================================
