# A TLA+ model of UemuPkg

UemuPkg is the UEFI firmware platform of the uemu emulator (edk2, RISC-V):
drivers for the emulator's goldfish and bcm2835 devices, a real time clock
library, a device tree library, the boot manager's platform hooks and the
start-up code.  This directory models the parts that keep state, checks them on
small instances with TLC and proves the central properties with TLAPS.

## The system

Firmware code runs on one processor.  Concurrency comes from three sources: the
task priority levels (TPL) of the UEFI event services, by which a timer's handler
interrupts whatever runs at a lower level; the devices, which change their
registers while the code reads them; and power, which may go at any moment and
leaves the non-volatile variables behind.

| Component | State | Operations | Interacts with | Hard behaviour | Correct when |
|---|---|---|---|---|---|
| PlatformSecLib | HOB list | SecPlatformMain: memory, reserved memory and I/O resources from the tree | UemuFdtLib, DXE core | overlapping and reserved ranges, malformed trees, loops that end at an error code | the HOBs describe exactly what the tree does, and start-up ends |
| UemuFdtLib | none | find a node, decode reg, align to pages | all drivers, PlatformSecLib | malformed trees; 64-bit overflow | first enabled device, exact registers, pages cover them |
| GoldfishEventsDxe | modifier flags, one key for readers, one key for dispatch, list of registrations, wait events | timer and wait-event polls, notify dispatch, Reset, ReadKeyStroke(Ex), (Un)RegisterKeyNotify, start-up | device queue, event services, console and boot manager as clients | three contexts that preempt each other; a device stream read word by word by two of them; a list walked without a lock | each key is delivered at most once and in order, no signal or dispatch is lost, the stream stays aligned, list entries in use stay registered |
| Bcm2835RngDxe | locals of one call; FIFO of the hardware | entry point, GetRNG, GetInfo | callers of EFI_RNG_PROTOCOL | hardware fills while it is read; not started yet when first called; wrap of an unsigned length | exactly the bytes asked for, none from an empty FIFO, every call returns |
| GoldfishRealTimeClockLib | base address; the device's time | LibGetTime, LibSetTime, LibRtcInitialize, VirtualNotifyEvent | RTC runtime driver, GCD services | 64 bits through two 32-bit registers of a running clock; zone offsets; an address that must move | the time returned was current, the time set is exact and in UTC, the clock is still there after the address change |
| GoldfishBatteryDxe | device context | ReadBatteryInfo, GetBatteryInfo, start-up with an SMBIOS record | battery device | registers change between the reads; interrupt status cleared by its read | no change is missed |
| SimpleFbDxe | frame buffer geometry | start-up, GOP functions | UemuFdtLib | overflow of width times pixel and of stride times height | a published mode fits in the frame buffer |
| PlatformSmbiosDxe | records and the handles among them | record logging, sort, frequency estimate | tree, timer, SMBIOS protocol | narrowing to 8, 16 and 32 bits; additions that fail | fields and handles tell the memory as it is |
| PlatformBootManagerLib | boot options, hot keys and consoles in variables; connected handles | BeforeConsole, AfterConsole, UnableToBoot | UefiBootManagerLib, variable services, drivers | power lost between two writes; firmware replaced between two boots; order of connecting and listing | shell bootable, no stale option, the user's options untouched, keys, consoles and entropy ready |

`PROJECT.json` lists the places where each of these may go wrong (its `hazards`),
with the properties that watch them or the reason why none does.

## Modules

| Module | Models | State and actions |
|---|---|---|
| `GoldfishKeys` | ConvertKeyCode, BuildKeyState, IsKeyRegistered | operators only; the three BOOLEANs of the modifiers are one set |
| `GoldfishEvents` | the running keyboard driver | the fields of GOLDFISH_EVENTS_DEV under their own names; a program counter for each of PollKeyboard (`pollPc`), KeyNotifyProcessHandler (`cbPc`) and the application (`appPc`) |
| `KeyMailbox` | nothing in the code: the abstract promise of a key buffer | one slot; keys numbered in typing order |
| `GoldfishEventsInit` | GoldfishEventsDxeInitialize | one action for each step and each clean-up label, under the timer |
| `Bcm2835Rng` | entry point and GetRNG | one action for each read of the hardware |
| `GoldfishRtc` | LibGetTime, LibSetTime | one action for each access of a register, and the tick of the clock |
| `GoldfishBattery` | entry point, ReadBatteryInfo, GetBatteryInfo | one action for each read, the protocol and the SMBIOS record |
| `UemuFdt` | UemuFdtLib, and how the drivers use it | operators only |
| `SimpleFb` | GetSimpleFrameBuffer and the mode of the entry point | operators only |
| `PlatformSmbios` | the order of the records under failed additions, processor and memory records, QuickSortInt32, the frequency estimate | operators only; the sort is a recursive function |
| `Operators` | the callers of the pure functions of the four modules above | one action for each function called with one of the `Calls` that a constant lists, and the keys of a keyboard, one after the other, in front of ConvertKeyCode |
| `PlatformSec` | SecPlatformMain | `Node` and `Index` are the places of its loops; one step is one round of one of them |
| `DeviceMemory` | what becomes of the device pages; composes `PlatformSec` with the entry points of the drivers | `gcd`, the pages with their attributes; one action for each driver dispatched, and SetVirtualAddressMap |
| `BootOptions` | PlatformRegisterFvBootOption, RemoveStaleFvFileOptions | `Boot` and `BootOrder` as variables that survive; one action for each write |
| `BootManager` | BeforeConsole, AfterConsole, UnableToBoot over several boots; composes `BootOptions` with the rest | console variables, Key#### variables, connected handles, and for each boot the outputs not seen yet (`outputs`) and the keys whose option is not in BootOrder (`strays`); one action for each write or filter pass, and power, edits and firmware updates around them |
| `GoldfishEventsProofs`, `GoldfishEventsInitProofs`, `BootManagerProofs` | theorems about the module they extend | |
| `DeviceProofs` | theorems about `Bcm2835Rng`, `GoldfishBattery` and `GoldfishRtc` | |
| `DeviceTreeProofs` | lemmas and theorems about the operators of `UemuFdt` and `SimpleFb` | |
| `OperatorProofs` | theorems about `Operators`: what a driver is told of its device, the frame buffer's mode, the key tables, the SMBIOS table, the sort | |
| `StartupProofs` | theorems about `PlatformSec` and `DeviceMemory` | |
| `SequenceLemmas` | nothing in the code: induction for sets, recursion along an interval, elements of sequences | |
| `MC*` | constants of the instances; in `MCOperators` the inputs, in `MCDevices` the three devices, one of which runs in a behaviour | |

Definitions under the words "Faulty form" are what a plausible mistake in the code
would make of the definition after them; each property is known to fail with one.

### How GoldfishEvents follows the code

- *Contexts.* PollKeyboard runs at TPL_NOTIFY: only the device acts beside it.
  KeyNotifyProcessHandler runs at TPL_CALLBACK: polls preempt it, the application
  waits.  The application calls the protocols at TPL_APPLICATION or, after
  RaiseTPL, at TPL_CALLBACK.  A section between `RaiseTPL (TPL_NOTIFY)` and
  `RestoreTPL` touches no device register and is one step.
- *Device.* Three words for each event; REG_READ returns 0 when the queue is
  empty.  It never sends EV_SYN, and code 0 is reserved, so that the only zero
  word inside an event is the value of a release.
- *HaveNotify* is not initialised in the code (line 538).  A poll starts with
  either value, so every property about dispatch also holds for spurious signals.
- *Reset* (and ResetEx, which delegates to it) runs without raising the TPL: each
  store and each read of the drain loop is a step of its own.
- *Notification functions* may do nothing, read a key, register, or unregister
  others.  They do not unregister themselves (the walk would read a freed entry)
  and do not call Reset.
- *Left out.* SetState changes nothing.  A failed allocation in RegisterKeyNotify
  changes nothing, so it is a stutter.  The KeyState that ReadKeyStrokeEx returns
  is not kept.  The 1 ms stall of WaitForKey is only time.
- *History.* Keys are numbered when they are buffered (`stamp`), and
  `keyStamp`, `notifyStamp`, `lastRead`, `lastNotified`, `deafStamp` record
  numbers for the properties.  No guard reads them.

### How BootManager and BootOptions follow the code

- A boot is `PowerOn`, then the steps of BeforeConsole, AfterConsole and, when no
  option boots, UnableToBoot.  `PowerOff` may come between any two steps.  What
  the boot manager library does in several variable writes takes several steps.
- A handle carries the fields that the filters read.  A PCI handle exists once its
  bridge is connected, a GOP handle once its display is; hence the order in which
  BeforeConsole connects and locates matters and is checked.
- Between boots options are edited by the user or the operating system, and the
  firmware may be replaced by one with other files or another volume name.
- A variable may be full once in a boot (`fullIn`); `ConsolesComplete` asks for
  less in that boot only.

### How PlatformSec and DeviceMemory follow the code

- `WalkRegs` is the round that the memory walk and the walk of reserved memory
  share; HOBs for which there is no room are dropped, as BuildResourceDescriptorHob
  does when the hand-off area is full.
- A tree states, besides its nodes, its reserve map, whether its header is intact
  and which error ends a search in it.  A driver whose search ends in an error other
  than NOTFOUND gets EFI_COMPROMISED_DATA.
- Drivers are dispatched in any order.  The keyboard, random number and battery
  drivers only warn when their pages exist already; the clock's library gives up.
  `SetVirtualAddressMap` moves the clock's base address if its page is marked for
  runtime use.

## Runs

| Run | Instance | Shows |
|---|---|---|
| `operators` | all key codes up to 130 with all modifiers; all trees of two nodes over seven status values, each with both ends of a search; reg properties of 4-bit cells with the values 0, 1, 6 and 15; all geometries of 4-bit words; SMBIOS additions of which any subset of types 2, 3, 16, 17 and 19 fails; arrays of up to five of four values | `KeysDistinct`, `HotKeysExact`; `FirstEnabledDevice`, `RegExact`, `PagesCoverRegisters`; `FramebufferFits`; `SmbiosExact`, `SortCorrect` |
| `events_all` | Esc and A, two events, one registration, every operation | `StreamAligned`, `NoLostNotify`, `NoMissedKey`, and that both key buffers implement `KeyMailbox` |
| `events_clients` | both Shift keys and Esc, an event type that is no key, four events, three registrations (two of one key, one that requires Shift), no Reset | `CursorRegistered`, `RegistrationsDistinct`, `NoStuckModifier` |
| `events_live` | Esc, two events, every operation, fairness | `DeviceDrained`, `KeySignalled`, `NotifyServed`, `CallsReturn` |
| `events_keyready` | Reset and ReadKeyStroke | `KeyReadyMeansValid` fails (finding 1) |
| `events_init` | every failure of every step, four keys typed meanwhile | `HandlerFindsItsEvents`, `NothingLeftBehind`, `EarlyKeyDelivered` |
| `devices` | generator: lengths 4, 5, 8 and 12 in 5-bit integers, FIFO of 4 words, 2 retries; battery: three registers of both interrupt sources, first and last read among them, four changes; clock: 4-bit registers, 4 ticks, starts next to both overflows, positive, negative and unspecified zones | `ExactWords`, `NoEmptyRead`, `GetRNGReturns`; `NoChangeMissed`; `GetTimeIsCurrent`, `SetTimeIsExact` |
| `rng_tail` | lengths 4 and 5 | `ExactBytes` fails (finding 2) |
| `rtc_zone` | zones 0 and 1 | `SetTimeIsUTC` fails (finding 3) |
| `boot` | three firmwares (new file, new volume), two edits, three boots cut off anywhere, eleven handles of every kind that the filters tell apart | `ShellBootable`, `NoStaleOption`, `UserOptionsKept`, `ShellNotDuplicated`; `HotKeysMapped`, `EntropyConnected`, `ConsolesComplete` |
| `hotkeys` | two firmwares whose volumes differ, two boots, no edits | `HotKeysOpenMenu` fails (finding 4) |
| `platform` | trees of 2 memory layouts, 3 of reserved memory, 3 of I/O nodes, 4 of devices and 3 reserve maps, with both ends of a search and a broken header | `HobsExact`, `StartupEnds`, `DevicesReachable` |

**Bounds.**  A keyboard buffer holds one key, so two events show every overwrite
and every order of two keys; the code 1 (Esc) is also the number of EV_KEY, so
that a reader out of phase can take a code for a type.  Three registrations are a
head, a middle and a tail of the list.  Four ticks carry across either register
of the clock between any two accesses.  Two boots are enough to cut one off and
to look at the next; the third lets a firmware come back.  Option numbers 0 to 7
are more than two edits and three boots can use, so adding never fails for want
of a number.  Cells of four bits and pages of four bytes make every overflow of an
address, a product or a rounding happen; the values 0, 1, 6 and 15 of a cell are
nothing, an odd byte, a page crossed and the end of the cell.  Five elements give
the sort slices on both sides of a pivot that are themselves partitioned.  The
trees of `platform` are chosen, not enumerated: each list has ranges that
overlap, cross a page, end at the last address, or cannot be used.  `MaxHobs` is
more than the trees that end in NOTFOUND need; the others fill the list in the
endless loop of PopulateIoResources, where HOBs are then dropped.

Deadlock is checked in `operators`, whose inputs may always be chosen again, and
in the runs of `GoldfishEvents`.  The other systems do stop: their changes, boots,
edits or keys are bounded, start-up hands over, or the driver has failed to start.

**Fairness.**  In `GoldfishEvents` a poll, once begun, runs to its end (weak
fairness of `Poll`).  The 10 ms timer is periodic and waits for nobody, so it
fires even if the application polls all the time (strong fairness of
`TimerTick`).  A poll is far shorter than 10 ms, so what it preempts goes on
(strong fairness of `Callback` and of `AppReturn`, the application inside a
call).  The application restores the TPL that it raised.  Nothing is assumed
about what the application calls.  `CallsReturn` is limited to the time while
nobody is registered: a spurious `HaveNotify` may queue the dispatcher in every
poll, and only real time, not fairness, then guarantees that the application
runs.  In `Bcm2835Rng` the processor goes on (weak fairness of `GetRNG` and of
`EntryPoint`) but the hardware may stay silent for ever.  In `GoldfishEventsInit`
the entry point goes on (strongly, as the handler interrupts it) and the timer
and its handler run.  Start-up code runs on (weak fairness of `SecPlatformMain`).

## Findings

1. *Reset without RaiseTPL* (`events_keyready`).  A poll between Reset's
   `KeyReady = FALSE` and its `ZeroMem` of `Key` leaves KeyReady TRUE with a zero
   key, against the field's comment "TRUE if Key is valid".
2. *GetRNG's tail* (`rng_tail`).  `while (RNGValueLength--)` leaves the length
   wrapped to MAX_UINTN; the outer loop goes on and writes past a buffer whose
   length is no multiple of four.  For whole words all is well (`ExactWords`,
   proved).
3. *LibSetTime's time zone* (`rtc_zone`).  The offset in seconds is subtracted
   from a time in nanoseconds.
4. *Hot keys after a firmware update* (`hotkeys`).  BeforeConsole leaves F2 and ESC
   as they are when they are mapped to an option that is still unchanged;
   AfterConsole then deletes that option as stale if the volume has another name,
   so for that boot "Map F2 and ESC to Boot Manager Menu" does not hold.  Otherwise
   it does (`HotKeysMapped`, proved), but for a key whose option a boot that was cut
   off left outside BootOrder: its number is free, and the shell may take it.

Observed while modelling, and not the subject of a run of their own:

- Keyboard: the release of one of two held Shift keys clears KeyShift; a release
  that Reset's drain loop discards leaves its modifier set; two presses in one poll
  lose the first for dispatch (the queue has depth 1); a key queued while nobody is
  registered is dispatched to a client that registers later; a wait event stays
  signalled after its key was read through the other protocol; ReadKeyStrokeEx
  takes the key and the modifiers in two critical sections; Ctrl masks digits and
  symbols to values outside the [1..26] of the comment.
- Start-up: PopulateIoResources does not end on a tree whose search fails with an
  error other than -FDT_ERR_NOTFOUND (`StartupEnds` is about the others); a reg
  tuple that cannot be used hides the ones after it in the same node (`HobsExact`
  says so).
- Pages: when a device shares some, but not all, of its pages, AddMemorySpace fails
  for the pages that exist and SetMemorySpaceAttributes for those that do not, so
  the driver gives up; a driver that shares the clock's page clears the page's
  runtime attribute.  `DevicesReachable` is about pages of one's own, and about
  devices of one page.
- SMBIOS: with no memory in the tree the type 17 record keeps its size of 0x2000,
  which is 8 GB, where the comment at PlatformSmbiosDxe.c:297 has "512 MB
  placeholder"; a type 19 record in kilobytes reaches no further than 4 TB; when the
  record of type 16 fails, those of types 17 and 19 refer to the chassis.
- Boot options: boots that are cut off may leave a menu option twice.

## Proofs

Each theorem holds for all values of the constants that satisfy the ASSUMEs of
the modules it is about.  Every safety invariant and every action property that a
passing run checks is proved; liveness is left to TLC.

*The keyboard* (`GoldfishEventsProofs`), for any codes, events, registrations and
operations:

- `TypeCorrect`, `CursorAlwaysRegistered`: from `ListSafe`.  TypeOK and
  CursorRegistered are inductive together: the walk needs the application and
  the list's changes to be excluded while a walk is on (TPL_CALLBACK), and the
  functions not to unregister the entry they run for.
- `RegistrationsAlwaysDistinct`: RegistrationsDistinct is inductive with TypeOK;
  unlinking only moves entries (`WithoutElements`).
- `StreamAlwaysAligned`: StreamAligned is not inductive, because a poll in the
  middle of Reset's drain reads words at the wrong offset.  The strengthening is
  `ZeroEndsEvent`: a zero is always the last word of its event, so a reader that
  stops at a zero stops between events, whatever its phase.
- `NoModifierStuck`: from `ReleasesCome`.  A key that was pressed is either still
  held or its release is still in the queue; the invariant says so of the keys behind
  the flags and of the presses that are still to be read, an event of which a poll
  has read a part included.  Its hypothesis is that no client calls Reset, whose
  drain loop drops releases (see "Observed" above); the run makes the same
  assumption.
- `ReadRefines`, `NotifyRefines`: each buffer implements `KeyMailbox`, step by
  step, from the order of the key numbers (`StampInv`).  `KeysTakenInOrder` draws
  the conclusion: each buffer hands its keys out once and in typing order.
- `NoNotifyLost`: from `DispatchDue`, which also covers the time inside a poll,
  when HaveNotify still has to be turned into a signal.
- `NoKeyMissed`: from `CallerKnown`, which ties the poll's caller to the check
  that waits for it.

*Its start* (`GoldfishEventsInitProofs`): `HandlerAlwaysFindsItsEvents`,
`NothingEverLeftBehind`, from `LadderInv`: at each place of the entry point and
of its clean-up exactly the objects of `LiveAt` exist, and the timer runs only
where all of them do.

*The other devices* (`DeviceProofs`):

- `NoEmptyReads` (with TypeOK: the words announced stay until they are read) and
  `ExactForWholeWords` (`Balance`: written plus remaining is the length, in whole
  words, so the wrap is never reached).
- `GetCurrent` and `SetExactly`, from `RtcInv`: between the two reads the latched
  halves are one time that the clock showed since the call began, and between the
  two writes the low half waits in the device.
- `ChangesNeverMissed`, from `ReadSoFar`: what has been read is current or its
  source is pending.

*The device tree and its users* (`DeviceTreeProofs`, `OperatorProofs`), for trees of
any length, any bytes and cells in their properties, and any width of a cell:

- `AlignRangeCovers` and `GeometryFits`: about UemuFdtAlignRange for every base, size
  and page size, and about the checks of a geometry: no product overflows, and each
  pixel is in its line and each line in the range.
- `FirstEnabledDeviceAlways`: NodeIsEnabled compares the bytes before the first
  NUL, which is what the statuses "okay" and "ok" are (`EnabledStatus`), and the node
  found is the least of the candidates.
- `RegAlwaysExact`: the number that DecodeCells builds cell by cell, with its test
  before each shift, is the big-endian one whenever it fits in 64 bits
  (`NumberIsBigEndian`, by induction along the cells).
- `PagesAlwaysCoverRegisters`, `FramebufferAlwaysFits`: the two above composed with
  the theorems about rounding and geometry.  The machine's invariant is `Answered`: a
  result is the answer of the function that was called.
- `KeysAlwaysDistinct`, `HotKeysAlwaysExact`: from `LastKey` (the last key data is
  what the last event yields under the flags as they are now, since a modifier, which
  alone changes them, yields no key) and the tables spelled out (`Characters`,
  `ScanKey`, `CharKey`).  The codes are not bounded.

The trees are only assumed to be such as libfdt can return (`IsNode`): property
values are sequences, cells have their width.  The page size divides the address
space (`FdtAssumption`), as 4096 does.

*The SMBIOS table and the sort* (`OperatorProofs`):

- `SmbiosAlwaysExact`, for every memory tree, every set of records that cannot be
  added and any constant records: the regions are the big-endian numbers of the
  tuples (`RegionsRead`), and their sum in 64 bits does not wrap as long as the size
  in megabytes fits its field.  What LogSmbiosData adds is described by `Adds` (the
  table only grows, by the types named), so that the records of a type are those of
  the one place that adds them, and every handle that a record refers to is that of
  the record before it, or the chassis'.
- `SortAlwaysCorrect`, for arrays of any integers and any length: `LoopInv` of the
  partition says that everything left of `I` is at most the pivot and everything right of
  `J` at least it, and that an element stops each scan before it leaves the slice.
  Each round narrows the space between them, so the loop ends; each partition leaves two
  smaller slices, so the recursion over `Slices` has a value; and every step swaps, so
  the elements stay the same (`Rearranged`).

`CallsAssumption` admits the memory nodes that the driver asserts, with one or two cells
for an address and for a size; `SmbiosAssumption` puts KB, MB and the limit of the size
field in their order with the widths, as 2^10, 2^20 and 0x7FFF are.

*Start-up and device pages* (`StartupProofs`), for all trees, rooms for HOBs, page
sizes, and sets of drivers:

- `HobsAlwaysExact`: from `HobsInv`.  At every place of every loop exactly what the
  loops have passed is reported (`ReportedSoFar`, `IoSoFar`), as long as no HOB was
  dropped; `AtPlace` says that all tuples before the one at hand could be used.
- `DevicesAlwaysReachable`: from `DevicesInv`.  Pages exist only because of a HOB or
  of a driver that was dispatched, a driver that started has its pages uncached, one
  that nothing hinders has started, and the clock's base address is its register's
  until it is moved.  The case of a device of one page needs that a page is never
  taken away.
- `StartupMovesOn`: the part of `StartupEnds` that is not about scheduling.  `Here` puts
  the places of the loops in the order of the code, and with a tree whose end can be
  found every step goes to a later place of the finite set `Rounds`; `RoundsLeft` falls
  with each, so no loop goes round for ever.  That a step can always be taken before the
  end is left to the run, since it is about ENABLED.

*Boot options, keys and consoles* (`BootManagerProofs`), for any option numbers,
firmwares, handles, and any number of boots, edits and updates:

- `ShellAlwaysBootable`, `ShellNeverDuplicated`, `NoOptionStale`,
  `UserOptionsAlwaysKept`: from `OptionsInv`: an option outside BootOrder is never the
  user's (`OptionsFit`), so that neither is what an option half written or half
  deleted takes the place of (`Pending`), and the list that was read still says what
  the variables hold (`Accurate`).  `ShellKept` adds that the shell is there from the
  moment it is registered, `StaleAhead` that every stale option is still ahead of the
  scan.
- `HotKeysAlwaysMapped`: from `KeysInv`: a key is only ever mapped to the menu of some
  firmware, and from the place where it is mapped on its option is in BootOrder and
  unchanged, unless it points into firmware that is gone or the key is one of
  `strays`.
- `EntropyAlwaysConnected`: from `ConnectedSoFar`, which says what is connected at
  each step of BeforeConsole, for every set of handles that `HandlesAssumption` admits.
- `ConsolesAlwaysComplete`: from `ConsolesInv`: what is not listed yet is still to be
  seen or to be written (`ListedSoFar`), and a display gets the errors only after it
  has got the console (`ErrorsShown`).

`MenuAssumption` (the menu is the same file in all firmwares: its name is a GUID that
the library fixes) and `NamesAssumption` (no handle has the path of a fixed console)
are about names.  `HandlesAssumption` is what the virtio specification says of device
and subsystem ids.

`SequenceLemmas` holds what these proofs need of data of any length.  The provers
cannot instantiate the library's induction theorems, which take an operator; the
lemmas state induction for the *set* of the numbers or sequences that have a property
(`NaturalInduction`, `IntervalInduction`), from the library's theorem that a
well-founded relation has minimal elements, and `PrefixRecursion` gives every
recursion along an interval a solution.

Only model-checked: liveness (`DeviceDrained`, `KeySignalled`, `NotifyServed`,
`CallsReturn`, `GetRNGReturns`, `StartupEnds`, `EarlyKeyDelivered`), which is out of the
prover's reach.

## Assumptions about the environment

- Event services: a signalled EVT_NOTIFY_SIGNAL event is queued once, dispatched
  as soon as the TPL allows, its signal cleared first; CheckEvent of a wait event
  consumes a signal or runs the notify function and tests again.
- RTC: reading TIME_LOW latches the high half; a write of TIME_LOW is held until
  TIME_HIGH is written.  The calendar conversions of TimeBaseLib are exact.  The
  clock does not run through all its 64 bits (`TicksAssumption`: 584 years).
- RNG: STATUS counts the words of the FIFO.  One caller at a time uses the RNG,
  the battery and the clock.
- Battery: a change sets its interrupt source, reading INT_STATUS clears all.
- UefiBootManagerLib: GetLoadOptions returns the options of BootOrder that exist;
  a new option gets the least number not in BootOrder; the two writes of an option
  may happen in either order; each write of a variable is atomic.
  GetBootManagerMenu adds the menu if there is none.  The store has room for the
  variables Boot####, BootOrder and Key####: where their writes fail
  (PlatformBm.c:594, 771 and 782) the code only ASSERTs.  AddKeyOptionVariable returns
  EFI_ALREADY_STARTED for a key whose option is unchanged.  UpdateConsoleVariable
  adds a path that is absent, and fails when the variable store is full.
- virtio: devices describe themselves as the specification has it, modern ones by
  their device id, transitional ones by their subsystem, those on MMIO by their
  type (`HandlesAssumption`); a PCI device is below a bridge.
- SMBIOS protocol: additions fail for every record of a type or for none.
- ConnectController, whose status the code only logs (PlatformBm.c:461-474), is
  not seen to fail: a handle is connected when that has been attempted.
- InstallMultipleProtocolInterfaces succeeds in the generator's entry point, which
  only ASSERTs it (Bcm2835RngDxe.c:252-255).
- GCD services: AddMemorySpace adds all pages of a range or none,
  SetMemorySpaceAttributes needs all of them to exist and to be capable, which
  they are after a successful addition (so that the clock's library never gives up
  for the attributes).
- FdtClient hands out a reg property as the tree has it, memory in whole
  tuples; the tree library visits nodes in order.
- ASSERTs are compiled out, as in a release build.

## Not modelled

- `SecEntry.S` (stack and trap set-up in assembly) and the hand-over to the DXE
  core: straight-line code that keeps no state of its own; the PPIs for a start-up
  with PEI, which this platform does not have.
- The GOP functions of SimpleFbDxe: they return fixed data or hand their arguments
  to FrameBufferBltLib.
- Constant SMBIOS records and fields, strings and the emulator's version text: data.
- WaitCallback's progress bar, PlatformBmPrintScRegisterHandler and the TPM set-up:
  library calls that change no state of this code.
- The package and build descriptions.
- A notification function that unregisters itself, and a second caller inside
  GetRNG: see the notes of these hazards in `PROJECT.json`.

What further work could add: a model of several callers of GetRNG.
