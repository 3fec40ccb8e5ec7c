--------------------------- MODULE PlatformSmbios ---------------------------
(***************************************************************************)
(* The SMBIOS driver (PlatformSmbiosDxe): which records reach the table    *)
(* when some additions fail, the processor and memory records filled in    *)
(* from the device tree, and the sort by which it estimates the frequency. *)
(* Constant fields and strings are left out.                               *)
(***************************************************************************)
EXTENDS Integers, SequencesExt

CONSTANTS
  WORD,              \* 2^32
  BYTE,              \* 2^8, and
  HALFWORD,          \* 2^16
  KB, MB,
  DEVICE_SIZE_LIMIT, \* 0x7FFF, the mark of a type 17 record with ExtendedSize
  MIN_MHZ, MAX_MHZ,  \* frequencies that are believed
  HZ_PER_MHZ

ASSUME SmbiosAssumption ==
  /\ {WORD, BYTE, HALFWORD, KB, MB, HZ_PER_MHZ} \subseteq Nat \ {0}
  /\ {DEVICE_SIZE_LIMIT, MIN_MHZ, MAX_MHZ} \subseteq Nat
  /\ KB <= WORD /\ MB <= WORD /\ DEVICE_SIZE_LIMIT < HALFWORD

-----------------------------------------------------------------------------
(* QuickSortInt32.  Arrays are indexed from 0, as in the code. *)

Swap(a, i, j) == [a EXCEPT ![i] = a[j], ![j] = a[i]]

SwapIfGreater(a, i, j) == IF a[i] > a[j] THEN Swap(a, i, j) ELSE a

MedianOfThree(a, left, right) ==
  LET mid == (left + right) \div 2
  IN  SwapIfGreater(SwapIfGreater(SwapIfGreater(a, left, mid), left, right), mid, right)

\* The two inner loops: the first element from i upwards that is not less than
\* the pivot, and from j downwards that is not greater.
ScanUp(a, i, pivot) ==
  CHOOSE k \in DOMAIN a : k >= i /\ a[k] >= pivot /\ \A m \in i .. (k - 1) : a[m] < pivot
ScanDown(a, j, pivot) ==
  CHOOSE k \in DOMAIN a : k <= j /\ a[k] <= pivot /\ \A m \in (k + 1) .. j : a[m] > pivot

\* One round of Hoare's loop: unless the scans have met, the elements that they
\* stopped at change places.
Round(s, pivot) ==
  LET up   == ScanUp(s.array, s.I, pivot)
      down == ScanDown(s.array, s.J, pivot)
  IN  IF up >= down THEN s
      ELSE [array |-> Swap(s.array, up, down), I |-> up + 1, J |-> down - 1]

\* The array that the loop leaves, and J.  I and J approach in every round, so
\* that the scans have met after right - left of them.
HoareLoop(a, left, right, pivot) ==
  LET after[n \in 0 .. (right - left)] ==
        IF n = 0 THEN [array |-> a, I |-> left, J |-> right]
        ELSE Round(after[n - 1], pivot)
      last == after[right - left]
  IN  [array |-> last.array, J |-> ScanDown(last.array, last.J, pivot)]

Partition(a, left, right) ==
  LET b == MedianOfThree(a, left, right)
  IN  HoareLoop(b, left, right, b[(left + right) \div 2])

\* Faulty form: as if J were the place of the pivot.
AfterPivot(J) == J + 2

\* Where the right half begins.
RightHalf(J) == J + 1

Slices(a) == [array : [DOMAIN a -> Int], left : Nat, right : DOMAIN a]

QuickSortInt32(a, left, right) ==
  LET Sort[s \in Slices(a)] ==
        IF s.left >= s.right THEN s.array
        ELSE LET parted == Partition(s.array, s.left, s.right)
                 lower  == Sort[[array |-> parted.array, left |-> s.left, right |-> parted.J]]
             IN  Sort[[array |-> lower, left |-> RightHalf(parted.J), right |-> s.right]]
  IN  Sort[[array |-> a, left |-> left, right |-> right]]

-----------------------------------------------------------------------------
(* The records of the device tree. *)

\* MultU64x64: products have 64 bits.
MultU64x64(a, b) == (a * b) % (WORD * WORD)

\* EstimateCpuFrequencyMHz: 0 if there is nothing to believe.  A divisor that has
\* wrapped to 0 makes the quotient of this processor all ones, which is not
\* believed either; the sorted array passes its verification (SortCorrect).
EstimateCpuFrequencyMHz(timeBase, deltaTime, deltaCycle) ==
  LET divisor == MultU64x64(deltaTime, HZ_PER_MHZ)
      MHz     == MultU64x64(deltaCycle, timeBase) \div divisor
  IN  IF 0 \in {timeBase, deltaTime, deltaCycle, divisor} THEN 0
      ELSE IF MHz \in MIN_MHZ .. MAX_MHZ THEN MHz ELSE 0

\* LogCpuInfo: the record's template, overwritten by what was found.
ProcessorRecord(template, count, MHz) ==
  [type      |-> 4,
   CoreCount |-> IF count = 0 THEN template.CoreCount ELSE count % BYTE,
   MaxSpeed  |-> IF MHz = 0 THEN template.MaxSpeed ELSE MHz % HALFWORD]

\* One number of a reg property of which the first two cells are read.
Cells(reg, at, count) ==
  IF count > 1 THEN reg[at] * WORD + reg[at + 1] ELSE reg[at]

\* The regions of a memory node, in the order of its reg property.
RegionsOf(node) ==
  LET tuple == node.addressCells + node.sizeCells
  IN  [i \in 1 .. (Len(node.reg) \div tuple) |->
         LET at == (i - 1) * tuple + 1
         IN  [base |-> Cells(node.reg, at, node.addressCells),
              size |-> Cells(node.reg, at + node.addressCells, node.sizeCells)]]

\* Faulty form: the end of the region instead of its last byte.
EndingAddressAfter(r) == ((r.base + r.size) \div KB) % WORD

\* Addresses are in KB and have 32 bits.
EndingAddress(r) == (((r.base + r.size - 1) % (WORD * WORD)) \div KB) % WORD

MappedAddressRecord(r, arrayHandle) ==
  [type |-> 19, StartingAddress |-> (r.base \div KB) % WORD,
   EndingAddress |-> EndingAddress(r), MemoryArrayHandle |-> arrayHandle]

TotalSize(regions) ==
  LET total[n \in 0 .. Len(regions)] ==
        IF n = 0 THEN 0 ELSE (total[n - 1] + regions[n].size) % (WORD * WORD)
  IN  total[Len(regions)]

\* Sizes from DEVICE_SIZE_LIMIT megabytes on go to ExtendedSize; the placeholder
\* stays if there is no memory.
MemoryDeviceRecord(template, regions, arrayHandle) ==
  LET total == TotalSize(regions)
      inMB  == total \div MB
  IN  [type |-> 17, MemoryArrayHandle |-> arrayHandle,
       Size |-> IF total = 0 THEN template.Size
                ELSE IF inMB >= DEVICE_SIZE_LIMIT THEN DEVICE_SIZE_LIMIT
                ELSE inMB % HALFWORD,
       ExtendedSize |-> IF total > 0 /\ inMB >= DEVICE_SIZE_LIMIT
                        THEN inMB % WORD ELSE template.ExtendedSize]

-----------------------------------------------------------------------------
(* The entry point.  Its state: the table, the next handle of the SMBIOS    *)
(* protocol, and the local SmbiosHandle.                                    *)

\* A record is added under the next handle.
AddRecord(state, record, keep) ==
  [table |-> Append(state.table, [handle |-> state.next, record |-> record]),
   next |-> state.next + 1,
   SmbiosHandle |-> IF keep THEN state.next ELSE state.SmbiosHandle]

\* A record whose addition fails leaves the handle alone.
LogSmbiosData(state, record, fails, keep) ==
  IF record.type \in fails THEN state ELSE AddRecord(state, record, keep)

LogRegions(state, regions, fails) ==
  LET logged[n \in 0 .. Len(regions)] ==
        IF n = 0 THEN state
        ELSE LogSmbiosData(logged[n - 1],
                           MappedAddressRecord(regions[n], state.SmbiosHandle), fails, FALSE)
  IN  logged[Len(regions)]

Plain(type) == [type |-> type]

\* The types in the order they are logged.  SmbiosHandle holds anything until
\* the first record that keeps its handle is added.
PlatformSmbiosDriverEntryPoint(garbage, fails, templates, cpu, nodes) ==
  LET Log(s, record)     == LogSmbiosData(s, record, fails, FALSE)
      LogKeep(s, record) == LogSmbiosData(s, record, fails, TRUE)
      regions   == FlattenSeq([i \in DOMAIN nodes |-> RegionsOf(nodes[i])])
      start     == [table |-> <<>>, next |-> 1, SmbiosHandle |-> garbage]
      enclosure == LogKeep(Log(Log(start, Plain(0)), Plain(1)), Plain(3))
      board     == Log(Log(enclosure, [type |-> 2, ChassisHandle |-> enclosure.SmbiosHandle]),
                       Plain(11))
      array     == LogKeep(board, Plain(16))
      processor == Log(array, ProcessorRecord(templates.processor, cpu.count, cpu.MHz))
      memory    == Log(LogRegions(processor, regions, fails),
                       MemoryDeviceRecord(templates.device, regions, array.SmbiosHandle))
  IN  Log(memory, Plain(32)).table

=============================================================================
