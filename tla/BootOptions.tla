---------------------------- MODULE BootOptions ----------------------------
(***************************************************************************)
(* The boot options that PlatformBootManagerLib keeps in non-volatile      *)
(* variables from one boot to the next, and what AfterConsole does to      *)
(* them: it registers the shell of this firmware                           *)
(* (PlatformRegisterFvBootOption) and then deletes what points into        *)
(* firmware that is gone (RemoveStaleFvFileOptions).  BootManager adds the *)
(* rest of a boot and what happens between boots.                          *)
(* One write of a variable is atomic.  An option is two variables, its     *)
(* Boot#### and its place in BootOrder; which of them UefiBootManagerLib   *)
(* writes first is not known here, so that both orders are modelled.       *)
(**************************************************************************)
EXTENDS Naturals, FiniteSets, SequencesExt

CONSTANTS
  Numbers,      \* option numbers, the #### of Boot####
  Firmwares,    \* firmware images: the FvFiles they hold, among them the shell
                \* and the boot manager menu
  OtherPaths    \* paths that are not FvFile paths

ASSUME BootAssumption ==
  /\ Numbers \subseteq Nat
  /\ \A f \in Firmwares : {f.shell, f.menu} \subseteq f.files
  /\ OtherPaths \cap UNION {f.files : f \in Firmwares} = {}

FvFilePaths == UNION {f.files : f \in Firmwares}

VARIABLES
  BootOrder, Boot,    \* the variables: Boot maps numbers to options
  firmware,           \* the image in flash
  pc,                 \* where the boot manager is
  number,             \* the option number being added or deleted
  BootOptions, Index  \* RemoveStaleFvFileOptions' list and loop counter

vars == <<BootOrder, Boot, firmware, pc, number, BootOptions, Index>>

Option(path, active) == [path |-> path, active |-> active]

Numbered(n) == [number |-> n, option |-> Boot[n]]

\* The elements of a list that are in S, in order.
Selected(list, S) ==
  LET sel[i \in 0 .. Len(list)] ==
        IF i = 0 THEN <<>>
        ELSE IF list[i] \in S THEN Append(sel[i - 1], list[i]) ELSE sel[i - 1]
  IN  sel[Len(list)]

OptionsOf(list) == [i \in DOMAIN list |-> Numbered(list[i])]

\* EfiBootManagerGetLoadOptions: the options of BootOrder that exist, in order.
GetLoadOptions == OptionsOf(Selected(BootOrder, DOMAIN Boot))

Listed == ToSet(BootOrder) \cap DOMAIN Boot

SetVariable(n, option) ==
  [m \in DOMAIN Boot \cup {n} |-> IF m = n THEN option ELSE Boot[m]]

DeleteVariable(n) == [m \in DOMAIN Boot \ {n} |-> Boot[m]]

Without(n) == Selected(BootOrder, ToSet(BootOrder) \ {n})

\* An option is given the least number that BootOrder does not name.
FreeNumber(n) ==
  /\ n \in Numbers \ ToSet(BootOrder)
  /\ \A m \in Numbers : m < n => m \in ToSet(BootOrder)

\* EfiBootManagerAddLoadOptionVariable at position MAX_UINTN, up to the first of
\* its two writes, and the rest of it.
StartAdding(option) ==
  /\ number' \in Numbers /\ FreeNumber(number')
  /\ \/ Boot' = SetVariable(number', option) /\ UNCHANGED BootOrder
     \/ BootOrder' = Append(BootOrder, number') /\ UNCHANGED Boot

FinishAdding(option) ==
  /\ Boot' = SetVariable(number, option)
  /\ BootOrder' = IF number \in ToSet(BootOrder) THEN BootOrder ELSE Append(BootOrder, number)
  /\ UNCHANGED number

OptionsInit ==
  /\ BootOrder = <<>> /\ Boot = [n \in {} |-> 0]
  /\ firmware \in Firmwares
  /\ pc = "off" /\ number = 0
  /\ BootOptions = <<>> /\ Index = 1

-----------------------------------------------------------------------------
\* Faulty forms: the shell is added at every boot; a disabled option counts.
ShellIsRegisteredNever == FALSE
ShellIsRegisteredByPath == \E n \in Listed : Boot[n].path = firmware.shell

\* EfiBootManagerFindLoadOption finds exact duplicates only.
ShellIsRegistered == \E n \in Listed : Boot[n] = Option(firmware.shell, TRUE)

\* PlatformRegisterFvBootOption for the shell.
RegisterShell ==
  /\ pc = "register"
  /\ \/ ShellIsRegistered /\ pc' = "list" /\ UNCHANGED <<number, BootOrder, Boot>>
     \/ ~ShellIsRegistered /\ pc' = "add" /\ StartAdding(Option(firmware.shell, TRUE))
  /\ UNCHANGED <<firmware, BootOptions, Index>>

AddShell ==
  /\ pc = "add"
  /\ pc' = "list"
  /\ FinishAdding(Option(firmware.shell, TRUE))
  /\ UNCHANGED <<firmware, BootOptions, Index>>

ListOptions ==
  /\ pc = "list"
  /\ BootOptions' = GetLoadOptions
  /\ Index' = 1
  /\ pc' = "scan"
  /\ UNCHANGED <<BootOrder, Boot, firmware, number>>

\* Faulty forms: any path that is not a file of this firmware; a firmware volume
\* that still exists, without a look into it.
IsStaleOutside(path)  == path \notin firmware.files
IsStaleByVolume(path) ==
  path \in FvFilePaths /\ \A p \in firmware.files : p.fv # path.fv

\* An FvFile path whose volume, or whose file in that volume, is not there.
IsStale(path) == path \in FvFilePaths /\ path \notin firmware.files

\* One round of the loop, up to the first of the two writes of a deletion.
ScanOption ==
  /\ pc = "scan"
  /\ Index \in DOMAIN BootOptions
  /\ LET this == BootOptions[Index]
     IN  IF IsStale(this.option.path)
         THEN /\ number' = this.number
              /\ \/ BootOrder' = Without(this.number) /\ UNCHANGED Boot
                 \/ Boot' = DeleteVariable(this.number) /\ UNCHANGED BootOrder
              /\ pc' = "delete"
              /\ UNCHANGED Index
         ELSE Index' = Index + 1 /\ UNCHANGED <<number, BootOrder, Boot, pc>>
  /\ UNCHANGED <<firmware, BootOptions>>

DeleteOption ==
  /\ pc = "delete"
  /\ Boot' = DeleteVariable(number)
  /\ BootOrder' = Without(number)
  /\ Index' = Index + 1
  /\ pc' = "scan"
  /\ UNCHANGED <<firmware, number, BootOptions>>

EndScan ==
  /\ pc = "scan"
  /\ Index \notin DOMAIN BootOptions
  /\ pc' = "booted"
  /\ UNCHANGED <<BootOrder, Boot, firmware, number, BootOptions, Index>>

SetUpOptions == RegisterShell \/ AddShell \/ ListOptions \/ ScanOption
                \/ DeleteOption \/ EndScan

-----------------------------------------------------------------------------
\* The boot options that are the enabled shell of this firmware.
Shells == {n \in Listed : Boot[n] = Option(firmware.shell, TRUE)}

\* Once the boot options are set up, whatever earlier boots were cut off and
\* whatever was edited, the shell of this firmware can be booted.
ShellBootable == pc = "booted" => Shells # {}

\* Booting again, also after a boot that was cut off, adds no second shell.
ShellNotDuplicated ==
  [][SetUpOptions => Cardinality(Shells') <= 1 \/ Cardinality(Shells') <= Cardinality(Shells)]_vars

\* "Remove all ... boot options whose device paths do not resolve exactly to an
\* FvFile in the system": none is left after an update of the firmware.
NoStaleOption ==
  pc = "booted" => \A n \in Listed : Boot[n].path \in OtherPaths \cup firmware.files

\* Everything else belongs to the user: booting neither removes, changes nor
\* reorders the options that do not point into firmware.
UserOptions ==
  OptionsOf(Selected(BootOrder, {n \in DOMAIN Boot : Boot[n].path \in OtherPaths}))

UserOptionsKept == [][SetUpOptions => UserOptions' = UserOptions]_vars

=============================================================================
