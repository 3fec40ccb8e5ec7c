-------------------------- MODULE GoldfishBattery --------------------------
(***************************************************************************)
(* The battery driver (GoldfishBatteryDxe): its entry point, which reads   *)
(* the battery once and then installs the protocol, and GetBatteryInfo,    *)
(* whose ReadBatteryInfo acknowledges the pending changes and then reads   *)
(* the registers one by one while the battery goes on changing.            *)
(***************************************************************************)
EXTENDS Naturals, Sequences

CONSTANTS
  Changing,    \* registers the battery changes
  Values,      \* what a register may hold
  MaxChanges   \* bound on the changes

\* ReadBatteryInfo's reads after INT_STATUS.
ReadOrder ==
  <<"AcOnline", "Status", "Health", "Present", "Capacity", "VoltageNow", "Temp",
    "ChargeCounter", "VoltageMax", "CurrentMax", "CurrentNow", "CurrentAvg",
    "ChargeFullUah", "CycleCount">>

Registers == {ReadOrder[i] : i \in DOMAIN ReadOrder}

ASSUME ChangingAssumption == Changing \subseteq Registers
ASSUME MaxChangesAssumption == MaxChanges \in Nat

VARIABLES
  regs, INT_STATUS, changes,   \* the device
  initPc,                      \* where GoldfishBatteryDxeInitialize is
  readPc, Info,                \* ReadBatteryInfo: its next read, its result
  records                      \* types of the SMBIOS records logged

batteryVars == <<regs, INT_STATUS, changes, initPc, readPc, Info, records>>

\* The interrupt source that stands for a register.
SourceOf(r) == IF r = "AcOnline" THEN "AC_STATUS_CHANGED" ELSE "BATTERY_STATUS_CHANGED"

\* Places of ReadBatteryInfo: the register it reads next, or none.
Ack == 0

Done == Len(ReadOrder) + 1

BatteryInit ==
  /\ regs \in {[r \in Registers |-> v] : v \in Values}
  /\ INT_STATUS = {}
  /\ changes = 0
  /\ initPc = "read"
  /\ readPc = Ack
  /\ Info = regs
  /\ records = {}

-----------------------------------------------------------------------------
\* A register changes, and the device records why.
Change(r) ==
  /\ changes < MaxChanges
  /\ changes' = changes + 1
  /\ \E v \in Values \ {regs[r]} : regs' = [regs EXCEPT ![r] = v]
  /\ INT_STATUS' = INT_STATUS \cup {SourceOf(r)}
  /\ UNCHANGED <<initPc, readPc, Info, records>>

\* INT_STATUS is cleared by the read.
Acknowledge ==
  /\ readPc = Ack
  /\ readPc' = 1
  /\ INT_STATUS' = {}
  /\ UNCHANGED <<regs, changes, initPc, Info, records>>

\* Faulty form: the last read is followed by another acknowledgement.
ReadRegisterThenAck ==
  /\ readPc \in DOMAIN ReadOrder
  /\ Info' = [Info EXCEPT ![ReadOrder[readPc]] = regs[ReadOrder[readPc]]]
  /\ readPc' = readPc + 1
  /\ INT_STATUS' = IF readPc' = Done THEN {} ELSE INT_STATUS
  /\ UNCHANGED <<regs, changes, initPc, records>>

ReadRegister ==
  /\ readPc \in DOMAIN ReadOrder
  /\ Info' = [Info EXCEPT ![ReadOrder[readPc]] = regs[ReadOrder[readPc]]]
  /\ readPc' = readPc + 1
  /\ UNCHANGED <<regs, INT_STATUS, changes, initPc, records>>

\* The entry point installs the protocol after its own ReadBatteryInfo, or
\* frees the device when it cannot.
InstallProtocol ==
  /\ initPc = "read"
  /\ readPc = Done
  /\ initPc' \in {"installed", "failed"}
  /\ UNCHANGED <<regs, INT_STATUS, changes, readPc, Info, records>>

\* The battery's SMBIOS record.  A failure, of the SMBIOS protocol, of memory or
\* of Add, is not the driver's: nothing that was installed is taken back.
LogBatterySmbios ==
  /\ initPc = "installed"
  /\ readPc = Done
  /\ initPc' = "done"
  /\ records' \in {records, records \cup {"Type22"}}
  /\ UNCHANGED <<regs, INT_STATUS, changes, readPc, Info>>

\* A client may call as soon as the protocol is installed.
GetBatteryInfo ==
  /\ initPc \in {"installed", "done"}
  /\ readPc = Done
  /\ readPc' = Ack
  /\ UNCHANGED <<regs, INT_STATUS, changes, initPc, Info, records>>

BatteryNext ==
  \/ \E r \in Changing : Change(r)
  \/ Acknowledge
  \/ ReadRegister
  \/ InstallProtocol
  \/ LogBatterySmbios
  \/ GetBatteryInfo

BatterySpec == BatteryInit /\ [][BatteryNext]_batteryVars

-----------------------------------------------------------------------------
\* ReadBatteryInfo "reads INT_STATUS first to acknowledge": whatever changes
\* while the registers are being read, the information returned is either still
\* that of the device or the device still has the change pending.
NoChangeMissed ==
  readPc = Done =>
    \A r \in Registers : Info[r] = regs[r] \/ SourceOf(r) \in INT_STATUS

=============================================================================
