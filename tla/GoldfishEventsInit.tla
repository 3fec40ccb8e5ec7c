------------------------- MODULE GoldfishEventsInit -------------------------
(***************************************************************************)
(* GoldfishEventsDxeInitialize: the resources of the keyboard driver are   *)
(* created one by one, and given back in reverse order when one of them    *)
(* cannot be.  The polling timer runs from the moment it is set, so that   *)
(* its handler interrupts both the rest of the ladder and the clean-up.    *)
(***************************************************************************)
EXTENDS Naturals

CONSTANT MaxKeys   \* bound on the keys typed meanwhile

ASSUME MaxKeysAssumption == MaxKeys \in Nat

WaitEvents == {"WaitForKey", "WaitForKeyEx"}
Events == WaitEvents \cup {"KeyNotifyProcessEvent", "TimerEvent"}

VARIABLES
  pc,         \* the step the entry point is at, or the label it cleans up at
  live,       \* Dev and the events that exist
  timerSet,   \* the periodic timer is running
  installed,  \* the protocols are on the handle
  typed,      \* keys typed so far, and those the device holds
  waiting,
  pollPc,     \* KeyboardTimerHandler: not running, polling, or signalling
  KeyReady,
  signalled   \* wait events signalled

vars == <<pc, live, timerSet, installed, typed, waiting, pollPc, KeyReady, signalled>>

Init ==
  /\ pc = "AllocateDev"
  /\ live = {} /\ timerSet = FALSE /\ installed = FALSE
  /\ typed = 0 /\ waiting = 0
  /\ pollPc = "none" /\ KeyReady = FALSE /\ signalled = {}

\* The entry point runs when the timer's handler does not.
AtStep(step) == pc = step /\ pollPc = "none"

KeepDevice == UNCHANGED <<typed, waiting, pollPc, KeyReady, signalled>>

-----------------------------------------------------------------------------
\* A key is typed.  The emulated device stores it only once it is live.
Type ==
  /\ typed < MaxKeys
  /\ typed' = typed + 1
  /\ waiting' = IF "Dev" \in live THEN waiting + 1 ELSE waiting
  /\ UNCHANGED <<pc, live, timerSet, installed, pollPc, KeyReady, signalled>>

\* AllocateZeroPool, and bringing the device into its live state.
AllocateDev ==
  /\ AtStep("AllocateDev")
  /\ \/ pc' = "WaitForKey" /\ live' = {"Dev"}
     \/ pc' = "failed" /\ UNCHANGED live
  /\ UNCHANGED <<timerSet, installed>> /\ KeepDevice

\* Faulty form: a failure skips the label of the event created last.
CleanupLabelSkipping ==
  [WaitForKey |-> "FreeDev", WaitForKeyEx |-> "FreeDev",
   KeyNotifyProcessEvent |-> "CloseWaitForKey", TimerEvent |-> "CloseWaitForKeyEx"]

\* Where the failure to create an event goes.
CleanupLabel ==
  [WaitForKey |-> "FreeDev", WaitForKeyEx |-> "CloseWaitForKey",
   KeyNotifyProcessEvent |-> "CloseWaitForKeyEx", TimerEvent |-> "CloseKeyNotifyProcess"]

StepAfter ==
  [WaitForKey |-> "WaitForKeyEx", WaitForKeyEx |-> "KeyNotifyProcessEvent",
   KeyNotifyProcessEvent |-> "TimerEvent", TimerEvent |-> "SetTimer"]

CreateEvent(e) ==
  /\ AtStep(e)
  /\ \/ live' = live \cup {e} /\ pc' = StepAfter[e]
     \/ pc' = CleanupLabel[e] /\ UNCHANGED live
  /\ UNCHANGED <<timerSet, installed>> /\ KeepDevice

SetTimer ==
  /\ AtStep("SetTimer")
  /\ \/ pc' = "Install" /\ timerSet' = TRUE
     \/ pc' = "CloseTimer" /\ UNCHANGED timerSet
  /\ UNCHANGED <<live, installed>> /\ KeepDevice

InstallProtocols ==
  /\ AtStep("Install")
  /\ \/ pc' = "started" /\ installed' = TRUE
     \/ pc' = "CloseTimer" /\ UNCHANGED installed
  /\ UNCHANGED <<live, timerSet>> /\ KeepDevice

\* Faulty form: the timer is closed after the event its handler signals.
LabelsTimerLate ==
  [CloseTimer            |-> <<"WaitForKeyEx", "CloseKeyNotifyProcess">>,
   CloseKeyNotifyProcess |-> <<"KeyNotifyProcessEvent", "CloseWaitForKeyEx">>,
   CloseWaitForKeyEx     |-> <<"TimerEvent", "CloseWaitForKey">>,
   CloseWaitForKey       |-> <<"WaitForKey", "FreeDev">>]

\* What each label closes, and the label it falls through to.
Labels ==
  [CloseTimer            |-> <<"TimerEvent", "CloseKeyNotifyProcess">>,
   CloseKeyNotifyProcess |-> <<"KeyNotifyProcessEvent", "CloseWaitForKeyEx">>,
   CloseWaitForKeyEx     |-> <<"WaitForKeyEx", "CloseWaitForKey">>,
   CloseWaitForKey       |-> <<"WaitForKey", "FreeDev">>]

\* Closing the timer's event also cancels the timer.
CloseEvent(label) ==
  /\ AtStep(label)
  /\ live' = live \ {Labels[label][1]}
  /\ pc' = Labels[label][2]
  /\ timerSet' = (timerSet /\ "TimerEvent" \in live')
  /\ UNCHANGED installed /\ KeepDevice

FreeDev ==
  /\ AtStep("FreeDev")
  /\ live' = live \ {"Dev"}
  /\ pc' = "failed"
  /\ UNCHANGED <<timerSet, installed>> /\ KeepDevice

\* KeyboardTimerHandler: PollKeyboard drains the device, then both wait events
\* are signalled if a key is buffered.
TimerTick ==
  /\ timerSet /\ pollPc = "none"
  /\ pollPc' = "poll"
  /\ UNCHANGED <<pc, live, timerSet, installed, typed, waiting, KeyReady, signalled>>

PollKeyboard ==
  /\ pollPc = "poll"
  /\ waiting' = 0
  /\ KeyReady' = (KeyReady \/ waiting > 0)
  /\ pollPc' = IF KeyReady' THEN "signal" ELSE "none"
  /\ UNCHANGED <<pc, live, timerSet, installed, typed, signalled>>

\* Faulty form: the handler signals the event of the simple protocol only.
SignalEventsOne ==
  /\ pollPc = "signal"
  /\ pollPc' = "none"
  /\ signalled' = {"WaitForKey"}
  /\ UNCHANGED <<pc, live, timerSet, installed, typed, waiting, KeyReady>>

SignalEvents ==
  /\ pollPc = "signal"
  /\ pollPc' = "none"
  /\ signalled' = WaitEvents
  /\ UNCHANGED <<pc, live, timerSet, installed, typed, waiting, KeyReady>>

EntryPoint ==
  \/ AllocateDev
  \/ \E e \in Events : CreateEvent(e)
  \/ SetTimer
  \/ InstallProtocols
  \/ \E label \in DOMAIN Labels : CloseEvent(label)
  \/ FreeDev

Next == Type \/ EntryPoint \/ TimerTick \/ PollKeyboard \/ SignalEvents

Spec == Init /\ [][Next]_vars

FairSpec == Spec /\ SF_vars(EntryPoint) /\ WF_vars(TimerTick)
                 /\ WF_vars(PollKeyboard) /\ WF_vars(SignalEvents)

-----------------------------------------------------------------------------
\* The handler of the timer, whenever it interrupts the entry point, finds the
\* device and the events it signals.
HandlerFindsItsEvents ==
  timerSet \/ pollPc # "none" => {"Dev", "KeyNotifyProcessEvent"} \cup WaitEvents \subseteq live

\* A driver that could not be started leaves nothing behind that would run or
\* use memory; one that is started has everything.
NothingLeftBehind ==
  /\ pc = "failed" => live = {} /\ ~timerSet /\ ~installed
  /\ pc = "started" => live = {"Dev"} \cup Events /\ timerSet /\ installed

\* A key typed while the driver was starting is not lost: the wait events are
\* signalled for it once the driver is up.
EarlyKeyDelivered ==
  (pc = "started" /\ waiting > 0) ~> (signalled = WaitEvents)

=============================================================================
