---------------------------- MODULE BootManager ----------------------------
(***************************************************************************)
(* The boot manager hooks of PlatformBootManagerLib, from one power-on to  *)
(* the next.  BeforeConsole connects the display and entropy devices,      *)
(* lists the consoles and maps the hot keys to the boot manager menu;      *)
(* AfterConsole sets up the boot options (module BootOptions);             *)
(* UnableToBoot asks for the menu again.  Between boots the firmware may   *)
(* be updated; the operating system and the user edit the options; power   *)
(* may be lost at any moment.  Variables survive, connections do not.      *)
(***************************************************************************)
EXTENDS BootOptions

CONSTANTS
  Handles,      \* device handles: see the fields that the filters read
  MaxEdits,     \* bound on the edits
  MaxBoots      \* and on the boots

ASSUME BoundAssumption == {MaxEdits, MaxBoots} \subseteq Nat

VARIABLES
  consoles,     \* the variables ConIn, ConOut and ErrOut
  keys,         \* the Key#### variables, by key
  strays,       \* keys found in this boot to have an option outside BootOrder
  connected,    \* handles that were connected in this boot
  outputs,      \* the located outputs that AddOutput has not seen yet
  writes,       \* what is still to be written to the console variables
  fullIn,       \* the boot in which such a write has failed, or 0
  edits, boots

bmVars == <<consoles, keys, strays, connected, outputs, writes, fullIn>>
allVars == <<vars, bmVars, edits, boots>>

\* Every image has its menu under the same FILE_GUID, PcdBootManagerMenuFile, and no
\* device is named as one of the consoles that are always there.
ASSUME MenuAssumption == \A f, g \in Firmwares : f.menu.file = g.menu.file
ASSUME NamesAssumption ==
  \A h \in Handles : h.name \notin {"usb", "goldfish", "serial"}

\* A key that is mapped to nothing.
Unmapped == [number |-> -1, option |-> Option([fv |-> "none", file |-> "none"], FALSE)]

BootInit ==
  /\ OptionsInit
  /\ consoles = [v \in {"ConIn", "ConOut", "ErrOut"} |-> {}]
  /\ keys = [k \in {"F2", "ESC"} |-> Unmapped]
  /\ strays = {} /\ connected = {} /\ outputs = {} /\ writes = <<>> /\ fullIn = 0
  /\ edits = 0 /\ boots = 0

-----------------------------------------------------------------------------
\* Whoever runs once an option was booted may add, switch or delete options.
\* EfiBootManagerRefreshAllBootOption, which runs just before the shell is
\* registered, adds and deletes options of devices only.
Edit ==
  /\ pc \in {"register", "trying"}
  /\ edits < MaxEdits
  /\ edits' = edits + 1
  /\ \/ \E n \in Numbers, p \in OtherPaths :
          /\ FreeNumber(n)
          /\ Boot' = SetVariable(n, Option(p, TRUE))
          /\ BootOrder' \in {Append(BootOrder, n), <<n>> \o BootOrder}
     \/ \E n \in DOMAIN Boot :
          /\ pc = "trying"
          /\ Boot' = SetVariable(n, Option(Boot[n].path, ~Boot[n].active))
          /\ UNCHANGED BootOrder
     \/ \E n \in DOMAIN Boot :
          /\ pc = "trying" \/ Boot[n].path \in OtherPaths
          /\ Boot' = DeleteVariable(n)
          /\ BootOrder' = Without(n)
  /\ UNCHANGED <<firmware, pc, number, BootOptions, Index, bmVars, boots>>

UpdateFirmware ==
  /\ pc = "off"
  /\ firmware' \in Firmwares \ {firmware}
  /\ UNCHANGED <<BootOrder, Boot, pc, number, BootOptions, Index, bmVars, edits, boots>>

PowerOn ==
  /\ pc = "off"
  /\ boots < MaxBoots
  /\ boots' = boots + 1
  /\ pc' = "bridges"
  /\ UNCHANGED <<BootOrder, Boot, firmware, number, BootOptions, Index, bmVars, edits>>

\* Power is lost, or the boot is over and the system is switched off.
PowerOff ==
  /\ pc # "off"
  /\ pc' = "off" /\ number' = 0 /\ BootOptions' = <<>> /\ Index' = 1
  /\ strays' = {} /\ connected' = {} /\ outputs' = {} /\ writes' = <<>>
  /\ UNCHANGED <<BootOrder, Boot, firmware, consoles, keys, fullIn, edits, boots>>

-----------------------------------------------------------------------------
\* The handles that carry a protocol by now.  A PCI device has its handle once
\* its root bridge is connected, a display its GOP once it is connected itself.
BridgeHandles == {h \in Handles : h.kind = "bridge"}
PciIoHandles  ==
  {h \in Handles : h.kind = "pci" /\ \E b \in BridgeHandles \cap connected : b.name = h.bridge}
GopHandles    ==
  {h \in Handles : h.kind = "framebuffer" \/ (h.kind = "pci" /\ h.display /\ h \in connected)}
VirtioHandles == {h \in Handles : h.kind = "mmio"}

VIRTIO_VENDOR_ID == 6900
VIRTIO_SUBSYSTEM_ENTROPY_SOURCE == 4

IsPciDisplay(h) == h.readable /\ h.display

IsVirtioRng(h) == h.SubSystemDeviceId = VIRTIO_SUBSYSTEM_ENTROPY_SOURCE

\* 4160 is 0x1040, the first id of modern devices.
IsModern(h)       == h.DeviceId = 4160 + VIRTIO_SUBSYSTEM_ENTROPY_SOURCE /\ h.RevisionId >= 1
IsTransitional(h) == h.DeviceId \in 4096 .. 4159 /\ h.RevisionId = 0

\* How virtio devices describe themselves over either transport, and that a PCI
\* device is below a bridge.
ASSUME HandlesAssumption ==
  \A h \in Handles :
    /\ h.kind = "pci" => \E b \in Handles : b.kind = "bridge" /\ b.name = h.bridge
    /\ h.virtio # "no" =>
         \/ /\ h.kind = "mmio"
            /\ h.virtio = "entropy" <=> h.SubSystemDeviceId = VIRTIO_SUBSYSTEM_ENTROPY_SOURCE
         \/ /\ h.kind = "pci" /\ h.readable /\ h.VendorId = VIRTIO_VENDOR_ID
            /\ \/ /\ h.DeviceId \in Nat /\ h.DeviceId >= 4160
                  /\ h.RevisionId \in Nat \ {0} /\ h.SubsystemId \in Nat /\ h.SubsystemId >= 64
                  /\ h.virtio = "entropy"
                       <=> h.DeviceId = 4160 + VIRTIO_SUBSYSTEM_ENTROPY_SOURCE
               \/ /\ IsTransitional(h)
                  /\ h.virtio = "entropy" <=> h.SubsystemId = VIRTIO_SUBSYSTEM_ENTROPY_SOURCE

\* Faulty form: the subsystem of a transitional device is not looked at.
IsVirtioPciRngByIds(h) ==
  /\ h.readable
  /\ h.VendorId = VIRTIO_VENDOR_ID
  /\ (IsModern(h) /\ h.SubsystemId >= 64) \/ IsTransitional(h)

IsVirtioPciRng(h) ==
  /\ h.readable
  /\ h.VendorId = VIRTIO_VENDOR_ID
  /\ \/ IsModern(h) /\ h.SubsystemId >= 64
     \/ IsTransitional(h) /\ h.SubsystemId = VIRTIO_SUBSYSTEM_ENTROPY_SOURCE

\* FilterAndProcess with Connect: the handles are located once, before any of
\* them is connected.
ConnectThose(filtered) ==
  /\ connected' = connected \cup filtered
  /\ UNCHANGED <<BootOrder, Boot, firmware, number, BootOptions, Index,
                 consoles, keys, strays, fullIn, edits, boots>>

\* Faulty form: the outputs are listed before the displays are connected.
OutputHandlesEarly == {h \in GopHandles : h.path /\ h.kind = "framebuffer"}

\* AddOutput skips a handle without a device path.
OutputHandles == {h \in GopHandles : h.path}

Write(variable, device) == [variable |-> variable, device |-> device]

\* The updates of console variables that AddOutput makes, and those that
\* BeforeConsole makes after it.
OutputWrites(h) == <<Write("ConOut", h.name), Write("ErrOut", h.name)>>

FixedWrites ==
  <<Write("ConIn", "usb"), Write("ConIn", "goldfish"), Write("ConIn", "serial"),
    Write("ConOut", "serial"), Write("ErrOut", "serial")>>

ConnectRootBridges ==
  pc = "bridges" /\ pc' = "displays" /\ UNCHANGED <<outputs, writes>> /\ ConnectThose(BridgeHandles)

ConnectDisplays ==
  /\ pc = "displays" /\ pc' = "outputs" /\ UNCHANGED <<outputs, writes>>
  /\ ConnectThose({h \in PciIoHandles : IsPciDisplay(h)})

\* The GOP handles are located.
LocateOutputs ==
  /\ pc = "outputs" /\ pc' = "consoles"
  /\ outputs' = OutputHandles /\ UNCHANGED writes /\ ConnectThose({})

\* AddOutput starts on the next handle, or there is none left.
AddOutput ==
  /\ pc = "consoles" /\ writes = <<>>
  /\ \/ \E h \in outputs :
          outputs' = outputs \ {h} /\ writes' = OutputWrites(h) /\ UNCHANGED pc
     \/ outputs = {} /\ UNCHANGED outputs /\ writes' = FixedWrites /\ pc' = "fixed"
  /\ ConnectThose({})

\* Faulty form: a display that is no console may still show the errors.
AfterFailureGoOn(w) == Tail(writes)

\* AddOutput gives up a display that ConOut does not take.  The other failures
\* are ignored.
AfterFailure(w) ==
  IF pc = "consoles" /\ w.variable = "ConOut" THEN <<>> ELSE Tail(writes)

\* EfiBootManagerUpdateConsoleVariable adds the device if it is not there.  It
\* fails once in a behaviour, when the variable store is full.
UpdateConsoleVariable ==
  /\ pc \in {"consoles", "fixed"}
  /\ writes # <<>>
  /\ LET w == Head(writes)
     IN  \/ /\ consoles' = [consoles EXCEPT ![w.variable] = @ \cup {w.device}]
            /\ writes' = Tail(writes)
            /\ UNCHANGED fullIn
         \/ /\ fullIn = 0 /\ w.device \notin consoles[w.variable]
            /\ writes' = AfterFailure(w)
            /\ fullIn' = boots
            /\ UNCHANGED consoles
  /\ UNCHANGED <<vars, keys, strays, connected, outputs, edits, boots>>

-----------------------------------------------------------------------------
\* BmIsBootManagerMenuFilePath: the volume exists, the file is named as the menu.
IsMenu(path) ==
  /\ path \in FvFilePaths
  /\ \E p \in firmware.files : p.fv = path.fv
  /\ path.file = firmware.menu.file

Menus == {n \in Listed : IsMenu(Boot[n].path)}

\* EfiBootManagerGetBootManagerMenu: the first option that is the menu.  If there
\* is none the menu of this firmware is added.
GetBootManagerMenu(found, add) ==
  /\ \/ /\ Menus # {}
        /\ \E i \in DOMAIN BootOrder :
             /\ BootOrder[i] \in Menus
             /\ \A j \in 1 .. i - 1 : BootOrder[j] \notin Menus
             /\ number' = BootOrder[i]
        /\ pc' = found
        /\ UNCHANGED <<BootOrder, Boot>>
     \/ /\ Menus = {}
        /\ StartAdding(Option(firmware.menu, TRUE))
        /\ pc' = add
  /\ UNCHANGED <<firmware, BootOptions, Index, edits, boots, bmVars>>

AddMenu(add, added) ==
  /\ pc = add
  /\ pc' = added
  /\ FinishAdding(Option(firmware.menu, TRUE))
  /\ UNCHANGED <<firmware, BootOptions, Index, edits, boots, bmVars>>

\* A key option counts as long as its Boot#### is what it was (a checksum).
IsValid(key) ==
  /\ keys[key].number \in DOMAIN Boot
  /\ Boot[keys[key].number] = keys[key].option

\* Such an option is in use as long as it is in BootOrder; outside, its number is
\* free for the next option that is added.
IsStray(key) == keys[key].number \notin ToSet(BootOrder)

\* EfiBootManagerAddKeyOptionVariable: EFI_ALREADY_STARTED if the key is mapped,
\* to whatever it is mapped.
AddKeyOption(key) ==
  /\ \/ ~IsValid(key) /\ keys' = [keys EXCEPT ![key] = Numbered(number)] /\ UNCHANGED strays
     \/ /\ IsValid(key) /\ UNCHANGED keys
        /\ strays' = IF IsStray(key) THEN strays \cup {key} ELSE strays
  /\ UNCHANGED <<BootOrder, Boot, firmware, number, BootOptions, Index,
                 consoles, connected, outputs, writes, fullIn, edits, boots>>

RegisterMenu ==
  \/ pc = "fixed" /\ writes = <<>> /\ GetBootManagerMenu("F2", "addMenu")
  \/ AddMenu("addMenu", "F2")

\* Faulty form: with F2 mapped by an earlier boot, ESC is taken to be mapped too.
AfterF2IfNew == IF IsValid("F2") THEN "mmioRng" ELSE "ESC"

AfterF2 == "ESC"

PlatformRegisterOptionsAndKeys ==
  \/ RegisterMenu
  \/ pc = "F2" /\ pc' = AfterF2 /\ AddKeyOption("F2")
  \/ pc = "ESC" /\ pc' = "mmioRng" /\ AddKeyOption("ESC")

ConnectVirtioRng ==
  /\ pc = "mmioRng" /\ pc' = "pciRng" /\ UNCHANGED <<outputs, writes>>
  /\ ConnectThose({h \in VirtioHandles : IsVirtioRng(h)})

ConnectVirtioPciRng ==
  /\ pc = "pciRng" /\ pc' = "console" /\ UNCHANGED <<outputs, writes>>
  /\ ConnectThose({h \in PciIoHandles : IsVirtioPciRng(h)})

BeforeConsole ==
  \/ ConnectRootBridges \/ ConnectDisplays \/ LocateOutputs \/ AddOutput
  \/ UpdateConsoleVariable \/ PlatformRegisterOptionsAndKeys \/ ConnectVirtioRng \/ ConnectVirtioPciRng

\* EfiBootManagerConnectAll, and then the boot options.
ConnectAll ==
  pc = "console" /\ pc' = "register" /\ UNCHANGED <<outputs, writes>> /\ ConnectThose(Handles)

AfterConsole ==
  \/ ConnectAll
  \/ SetUpOptions /\ UNCHANGED <<bmVars, edits, boots>>

\* BDS boots one option after another.
TryOptions ==
  /\ pc = "booted"
  /\ pc' = "trying"
  /\ UNCHANGED <<BootOrder, Boot, firmware, number, BootOptions, Index, bmVars, edits, boots>>

\* None could be booted: the menu is booted again and again.
UnableToBoot ==
  \/ pc = "trying" /\ GetBootManagerMenu("menu", "addLast")
  \/ AddMenu("addLast", "menu")

BootNext ==
  \/ Edit \/ UpdateFirmware \/ PowerOn \/ PowerOff
  \/ BeforeConsole \/ AfterConsole \/ TryOptions \/ UnableToBoot

BootSpec == BootInit /\ [][BootNext]_allVars

-----------------------------------------------------------------------------
\* "Map F2 and ESC to Boot Manager Menu": once the boot options are set up, both
\* keys lead to an option that is the menu of this firmware.
OpensMenu(key) == IsValid(key) /\ IsMenu(keys[key].option.path)

HotKeysOpenMenu == pc = "booted" => OpensMenu("F2") /\ OpensMenu("ESC")

\* They do, whatever was edited or cut off before, unless a key still has the
\* mapping to the menu of firmware that is gone, or its option was left outside
\* BootOrder by a boot that was cut off, where the shell may take its number.
HotKeysMapped ==
  pc = "booted" =>
    \A key \in {"F2", "ESC"} \ strays :
      OpensMenu(key) \/ keys[key].option.path \in FvFilePaths \ firmware.files

\* Before the consoles start every virtio entropy source is connected, over either
\* transport, and no other virtio device is, unless it is a PCI display.
EntropyConnected ==
  pc = "console" =>
    \A h \in Handles :
      /\ h.virtio = "entropy" => h \in connected
      /\ h.virtio \notin {"no", "entropy"} /\ h \in connected => h.kind = "pci" /\ h.display

\* Every input and output is listed before the consoles start, also the displays
\* that had to be connected first, unless a variable was full; and a display
\* never shows the errors without showing the console.
Displays ==
  {h.name : h \in {g \in Handles :
    (g.kind = "framebuffer" \/ (g.kind = "pci" /\ IsPciDisplay(g))) /\ g.path}}

ConsolesComplete ==
  /\ pc = "console" /\ fullIn # boots =>
       /\ {"usb", "goldfish", "serial"} \subseteq consoles["ConIn"]
       /\ Displays \cup {"serial"} \subseteq consoles["ConOut"] \cap consoles["ErrOut"]
  /\ consoles["ErrOut"] \cap Displays \subseteq consoles["ConOut"]

=============================================================================
