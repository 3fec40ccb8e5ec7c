------------------------------ MODULE Operators ------------------------------
(***************************************************************************)
(* The pure functions of the code, in one state machine with one kind of   *)
(* behaviour for each of them:                                             *)
(*                                                                         *)
(*   - a keyboard in front of ConvertKeyCode that presses and releases any *)
(*     code up to MaxCode, under every set of modifiers (GoldfishKeys);    *)
(*   - a driver that looks for its device in a tree (UemuFdt);             *)
(*   - the frame buffer driver on a tree (SimpleFb);                       *)
(*   - the SMBIOS driver with any additions failing, and its sort          *)
(*     (PlatformSmbios).                                                   *)
(***************************************************************************)
EXTENDS GoldfishKeys, SimpleFb, PlatformSmbios, FiniteSets

CONSTANTS
  MaxCode,
  Calls         \* the calls of the other functions: which, and its arguments

ASSUME MaxCodeAssumption == MaxCode \in Nat

\* The trees are made of what libfdt can return.
IsNodes(tree) == tree \in Seq(ToSet(tree)) /\ \A node \in ToSet(tree) : IsNode(node)

IsU32Property(cells) == cells = Absent \/ cells \in Seq(0 .. MAX_UINT32)

\* A memory node as LogMemoryInfo expects it (it asserts at most two cells), its
\* reg property made of whole tuples.
IsMemoryNode(node) ==
  /\ node.reg \in Seq(0 .. (CELL - 1))
  /\ {node.addressCells, node.sizeCells} \subseteq 1 .. 2
  /\ Len(node.reg) % (node.addressCells + node.sizeCells) = 0

\* An array of C that is not empty.
IsArray(a) ==
  LET length == Cardinality(DOMAIN a)
  IN  length \in Nat \ {0} /\ a \in [0 .. (length - 1) -> Int]

\* Both are 2^32.
ASSUME WordAssumption == WORD = CELL

ASSUME CallsAssumption ==
  /\ \A call \in Calls : call.kind \in {"discover", "display", "smbios", "sort"}
  /\ \A call \in {c \in Calls : c.kind = "discover"} : IsNodes(call.tree) /\ call.minSize \in Nat
  /\ \A call \in {c \in Calls : c.kind = "display"} :
       /\ IsNodes(call.tree)
       /\ \A node \in ToSet(call.tree) :
            \A cells \in {node.width, node.height, node.stride} : IsU32Property(cells)
  /\ \A call \in {c \in Calls : c.kind = "smbios"} :
       call.nodes \in Seq(ToSet(call.nodes)) /\ \A node \in ToSet(call.nodes) : IsMemoryNode(node)
  /\ \A call \in {c \in Calls : c.kind = "sort"} : IsArray(call.array)

VARIABLES
  mods, code, pressed, data,  \* the modifier flags, the last event, its key data
  input, result               \* a call of another function and what it returned

keyboardVars == <<mods, code, pressed, data>>
callVars == <<input, result>>
operatorVars == <<keyboardVars, callVars>>

KeyboardInput == [kind |-> "keyboard"]

CallInit ==
  /\ mods = {} /\ code = 0 /\ pressed = FALSE
  /\ data = [Key |-> NullKey, KeyState |-> NoKeyState]
  /\ input \in {KeyboardInput} \cup Calls
  /\ result = Failure("none")

KeyData(m, c, down) ==
  [Key      |-> KeyOf(m, c, down),
   KeyState |-> BuildKeyState(ModifiersAfter(m, c, down))]

Event(c, down) ==
  /\ input = KeyboardInput
  /\ code' = c /\ pressed' = down
  /\ mods' = ModifiersAfter(mods, c, down)
  /\ data' = KeyData(mods, c, down)
  /\ UNCHANGED callVars

Press(c) == Event(c, TRUE)
Release(c) == Event(c, FALSE)

Discover ==
  /\ input.kind = "discover"
  /\ result' = DiscoverMmioRange(input.tree, input.end, "device", input.minSize)
  /\ UNCHANGED <<keyboardVars, input>>

StartDisplay ==
  /\ input.kind = "display"
  /\ result' = SimpleFbDxeInitialize(input.tree, input.end)
  /\ UNCHANGED <<keyboardVars, input>>

Estimate == EstimateCpuFrequencyMHz(input.timeBase, input.deltaTime, input.deltaCycle)

SmbiosTable ==
  PlatformSmbiosDriverEntryPoint(input.garbage, input.fails, input.templates,
                                 [count |-> input.count, MHz |-> Estimate], input.nodes)

LogSmbios ==
  /\ input.kind = "smbios"
  /\ result' = [status |-> "SUCCESS", table |-> SmbiosTable]
  /\ UNCHANGED <<keyboardVars, input>>

SortedArray == QuickSortInt32(input.array, 0, Cardinality(DOMAIN input.array) - 1)

Sort ==
  /\ input.kind = "sort"
  /\ result' = [status |-> "SUCCESS", array |-> SortedArray]
  /\ UNCHANGED <<keyboardVars, input>>

CallNext ==
  \/ \E c \in 0 .. MaxCode : Press(c) \/ Release(c)
  \/ Discover
  \/ StartDisplay
  \/ LogSmbios
  \/ Sort

CallSpec == CallInit /\ [][CallNext]_operatorVars

Returned(kind) == input.kind = kind /\ result.status = "SUCCESS"

-----------------------------------------------------------------------------
\* ConvertKeyCode never yields the same EFI key for two different key codes
\* under the same modifiers: a slip in a table row or a scan code would make
\* two physical keys indistinguishable to the console.
KeysDistinct ==
  data.Key # NullKey =>
    \A c \in 0 .. MaxCode : KeyOf(mods, c, TRUE) = data.Key => c = code

\* The keys PlatformRegisterOptionsAndKeys registers, with no state required.
HotKeys ==
  { [code |-> 28, Key |-> [ScanCode |-> 0,  UnicodeChar |-> 13]],
    [code |-> 60, Key |-> [ScanCode |-> 12, UnicodeChar |-> 0]],
    [code |-> 1,  Key |-> [ScanCode |-> 23, UnicodeChar |-> 0]] }

\* Whatever modifiers are down, a press of ENTER, F2 or ESC matches its hot key
\* and no other key does: neither Ctrl+M (whose character is masked to carriage
\* return) nor Ctrl+[ (masked to escape) starts the boot manager.
HotKeysExact ==
  \A h \in HotKeys :
    IsKeyRegistered([Key |-> h.Key, KeyState |-> NoKeyState], data)
      <=> pressed /\ code = h.code

-----------------------------------------------------------------------------
IsEnabled(node) == node.status \in {Absent, <<"okay", NUL>>, <<"ok", NUL>>}

BigEndian(cells) ==
  LET value[i \in 0 .. Len(cells)] ==
        IF i = 0 THEN 0 ELSE value[i - 1] * CELL + cells[i]
  IN  value[Len(cells)]

IsDevice(node, name) == name \in node.compatible /\ IsEnabled(node)

IsFirstDevice(i, name) ==
  /\ i \in DOMAIN input.tree /\ IsDevice(input.tree[i], name)
  /\ \A j \in 1 .. (i - 1) : ~IsDevice(input.tree[j], name)

\* A driver is given the first device of its kind that the tree has enabled (a
\* status that is no proper string, or not okay, disables a node), and is told
\* that there is none only if there is none in a tree that could be searched to
\* its end, or the first has no registers.
FirstEnabledDevice ==
  /\ Returned("discover") => IsFirstDevice(result.node, "device")
  /\ input.kind = "discover" /\ result.status = "NOT_FOUND" =>
       \/ input.end = "NOTFOUND" /\ \A i \in DOMAIN input.tree : ~IsDevice(input.tree[i], "device")
       \/ \E i \in DOMAIN input.tree : IsFirstDevice(i, "device") /\ input.tree[i].reg = Absent

\* The registers are the first entry of the reg property, read as big-endian
\* numbers; a number of more than 64 bits is never cut off.
IsFirstReg(node, base, size) ==
  /\ base = BigEndian(SubSeq(node.reg, 1, node.addressCells))
  /\ size = BigEndian(SubSeq(node.reg, node.addressCells + 1,
                             node.addressCells + node.sizeCells))
  /\ base + size <= MAX_UINT64

RegExact ==
  Returned("discover") => IsFirstReg(input.tree[result.node], result.base, result.size)

PagesCover(pagesBase, pagesSize, base, size) ==
  /\ pagesBase % PAGE = 0 /\ pagesSize % PAGE = 0
  /\ pagesBase <= base
  /\ base + size <= pagesBase + pagesSize
  /\ base - pagesBase < PAGE
  /\ pagesBase + pagesSize < base + size + PAGE
  /\ pagesBase + pagesSize <= MAX_UINT64

\* The pages added to the memory space hold every register, begin and end on
\* page boundaries, waste less than a page at each end and lie in 64 bits.
PagesCoverRegisters ==
  Returned("discover") =>
    PagesCover(result.gcdBase, result.gcdSize, result.base, result.size)

-----------------------------------------------------------------------------
\* A mode is published only if it is sane: every pixel of every line, and all
\* that the driver clears, lies in the range that the tree gives to the frame
\* buffer, and lines do not run into each other, whatever width, height and
\* stride say (their products are made in 32 and in 64 bits).
FramebufferFits ==
  Returned("display") =>
    \E i \in DOMAIN input.tree, size \in 1 .. MAX_UINT64 :
      LET node      == input.tree[i]
          end       == result.FrameBufferBase + size
          lastPixel == (result.VerticalResolution - 1) * result.PixelsPerScanLine
                         + (result.HorizontalResolution - 1)
      IN  /\ IsFirstDevice(i, "simple-framebuffer")
          /\ IsFirstReg(node, result.FrameBufferBase, size)
          /\ node.width = <<result.HorizontalResolution>> /\ result.HorizontalResolution > 0
          /\ node.height = <<result.VerticalResolution>> /\ result.VerticalResolution > 0
          /\ result.PixelsPerScanLine >= result.HorizontalResolution
          /\ result.FrameBufferBase + (lastPixel + 1) * FB_BYTES_PER_PIXEL <= end
          /\ result.FrameBufferBase + result.FrameBufferSize <= end

-----------------------------------------------------------------------------
EntriesOf(type) == {i \in DOMAIN result.table : result.table[i].record.type = type}

\* The tuples of a memory node, as the big-endian numbers of their cells.
TuplesOf(node) ==
  LET tuple == node.addressCells + node.sizeCells
  IN  [i \in 1 .. (Len(node.reg) \div tuple) |->
        LET cells == SubSeq(node.reg, (i - 1) * tuple + 1, i * tuple)
        IN  [base |-> BigEndian(SubSeq(cells, 1, node.addressCells)),
             size |-> BigEndian(SubSeq(cells, node.addressCells + 1, tuple))]]

RegionsInOrder == FlattenSeq([i \in DOMAIN input.nodes |-> TuplesOf(input.nodes[i])])

\* A byte lies in the kilobyte of an address field.
InKilobyte(byte, field) == byte \div KB = field

\* The addresses of a type 19 record have 32 bits: they reach 4 TB.
Reachable(region) == region.size > 0 /\ region.base + region.size <= KB * WORD

MappedAddressesExact ==
  LET regions == RegionsInOrder
  IN  \E first \in 0 .. Len(result.table) :
        /\ EntriesOf(19) = {first + i : i \in DOMAIN regions}
        /\ \A i \in DOMAIN regions : Reachable(regions[i]) =>
             LET record == result.table[first + i].record
             IN  /\ InKilobyte(regions[i].base, record.StartingAddress)
                 /\ InKilobyte(regions[i].base + regions[i].size - 1, record.EndingAddress)

\* What a reader of a type 17 record takes for the size.
SizeInMB(record) ==
  IF record.Size = DEVICE_SIZE_LIMIT THEN record.ExtendedSize ELSE record.Size

Total(regions) ==
  LET total[n \in 0 .. Len(regions)] ==
        IF n = 0 THEN 0 ELSE total[n - 1] + regions[n].size
  IN  total[Len(regions)]

SizeExact ==
  LET total == Total(RegionsInOrder)
  IN  total > 0 /\ total \div MB < WORD =>
        \E i \in DOMAIN result.table :
          EntriesOf(17) = {i} /\ SizeInMB(result.table[i].record) = total \div MB

\* A handle that names a record of this type.
Names(handle, type) == \E i \in EntriesOf(type) : result.table[i].handle = handle

\* Every record that is there names a record of the right type that is there,
\* also when the additions between them failed.
HandlesExact ==
  /\ 3 \notin input.fails =>
       \A i \in EntriesOf(2) : Names(result.table[i].record.ChassisHandle, 3)
  /\ 16 \notin input.fails =>
       \A i \in EntriesOf(17) \cup EntriesOf(19) :
         Names(result.table[i].record.MemoryArrayHandle, 16)

\* The SMBIOS table tells the memory as it is: one type 19 record for each
\* region, in their order, with the kilobytes of its first and last byte, and a
\* type 17 record with the size of all, if there is memory at all; memory and
\* board records name the records they belong to, whichever additions failed.
SmbiosExact ==
  Returned("smbios") =>
    /\ 19 \notin input.fails => MappedAddressesExact
    /\ 17 \notin input.fails => SizeExact
    /\ HandlesExact

\* The sort by which the frequency is measured sorts, and on the way each
\* partition splits any slice [left, right] into two smaller ones, so that the
\* recursion ends and its scans need no check of the bounds.
Sorted(a) == \A i, j \in DOMAIN a : i < j => a[i] <= a[j]

Count(a, value) == Cardinality({i \in DOMAIN a : a[i] = value})

SplitsSlice(a, left, right) ==
  LET parted == Partition(a, left, right)
  IN  /\ parted.J \in left .. (right - 1)
      /\ \A i \in left .. parted.J, j \in (parted.J + 1) .. right :
           parted.array[i] <= parted.array[j]
      /\ \A i \in DOMAIN a \ (left .. right) : parted.array[i] = a[i]

SortCorrect ==
  Returned("sort") =>
    /\ Sorted(result.array)
    /\ \A value \in {input.array[i] : i \in DOMAIN input.array} :
         Count(result.array, value) = Count(input.array, value)
    /\ \A left, right \in DOMAIN input.array :
         left < right => SplitsSlice(input.array, left, right)

=============================================================================
