---------------------- MODULE GoldfishEventsInitProofs ----------------------
(***************************************************************************)
(* The start of the keyboard driver, for any number of keys typed          *)
(* meanwhile: what exists at each place of the ladder and of the clean-up. *)
(***************************************************************************)
EXTENDS GoldfishEventsInit, TLAPS

\* What is live at each step, and at each label of the clean-up.
LiveAt ==
  [AllocateDev           |-> {},
   WaitForKey            |-> {"Dev"},
   WaitForKeyEx          |-> {"Dev", "WaitForKey"},
   KeyNotifyProcessEvent |-> {"Dev"} \cup WaitEvents,
   TimerEvent            |-> {"Dev", "KeyNotifyProcessEvent"} \cup WaitEvents,
   SetTimer              |-> {"Dev"} \cup Events,
   Install               |-> {"Dev"} \cup Events,
   started               |-> {"Dev"} \cup Events,
   CloseTimer            |-> {"Dev"} \cup Events,
   CloseKeyNotifyProcess |-> {"Dev", "KeyNotifyProcessEvent"} \cup WaitEvents,
   CloseWaitForKeyEx     |-> {"Dev"} \cup WaitEvents,
   CloseWaitForKey       |-> {"Dev", "WaitForKey"},
   FreeDev               |-> {"Dev"},
   failed                |-> {}]

\* The values of LiveAt, one by one.
LEMMA LiveAtValues ==
  /\ DOMAIN LiveAt =
       {"AllocateDev", "WaitForKey", "WaitForKeyEx", "KeyNotifyProcessEvent", "TimerEvent",
        "SetTimer", "Install", "started", "CloseTimer", "CloseKeyNotifyProcess",
        "CloseWaitForKeyEx", "CloseWaitForKey", "FreeDev", "failed"}
  /\ LiveAt["AllocateDev"] = {}
  /\ LiveAt["WaitForKey"] = {"Dev"}
  /\ LiveAt["WaitForKeyEx"] = {"Dev", "WaitForKey"}
  /\ LiveAt["KeyNotifyProcessEvent"] = {"Dev"} \cup WaitEvents
  /\ LiveAt["TimerEvent"] = {"Dev", "KeyNotifyProcessEvent"} \cup WaitEvents
  /\ LiveAt["SetTimer"] = {"Dev"} \cup Events
  /\ LiveAt["Install"] = {"Dev"} \cup Events
  /\ LiveAt["started"] = {"Dev"} \cup Events
  /\ LiveAt["CloseTimer"] = {"Dev"} \cup Events
  /\ LiveAt["CloseKeyNotifyProcess"] = {"Dev", "KeyNotifyProcessEvent"} \cup WaitEvents
  /\ LiveAt["CloseWaitForKeyEx"] = {"Dev"} \cup WaitEvents
  /\ LiveAt["CloseWaitForKey"] = {"Dev", "WaitForKey"}
  /\ LiveAt["FreeDev"] = {"Dev"}
  /\ LiveAt["failed"] = {}
  BY DEF LiveAt

LadderInv ==
  /\ pc \in DOMAIN LiveAt
  /\ live = LiveAt[pc]
  /\ timerSet \in BOOLEAN /\ installed \in BOOLEAN
  /\ timerSet => pc \in {"Install", "started", "CloseTimer"}
  /\ pc \in {"Install", "started"} => timerSet
  /\ installed = (pc = "started")
  /\ pollPc # "none" => timerSet

\* It is inductive along the entry point and each label of its clean-up.
LEMMA LadderInvariant == Spec => []LadderInv
<1>1. Init => LadderInv
  BY LiveAtValues DEF Init, LadderInv
<1>2. LadderInv /\ [Next]_vars => LadderInv'
  <2> SUFFICES ASSUME LadderInv, [Next]_vars PROVE LadderInv'
    OBVIOUS
  <2> USE DEF LadderInv
  \* The handler and the keyboard disturb nothing but pollPc.
  <2>a. ASSUME UNCHANGED <<pc, live, timerSet, installed>>, pollPc' # "none" => timerSet
        PROVE  LadderInv'
    BY <2>a, LiveAtValues
  <2>1. CASE Type
    BY <2>1, <2>a DEF Type
  <2>2. CASE AllocateDev
    BY <2>2, LiveAtValues DEF AllocateDev, AtStep, KeepDevice
  <2>3. ASSUME NEW e \in Events, CreateEvent(e) PROVE LadderInv'
    <3>1. pc = e /\ pollPc' = "none" /\ timerSet' = FALSE /\ installed' = FALSE
      BY <2>3 DEF CreateEvent, AtStep, KeepDevice, Events, WaitEvents
    <3>2. CASE live' = live \cup {e} /\ pc' = StepAfter[e]
      <4>1. CASE e = "WaitForKey"
        BY <3>1, <3>2, <4>1, LiveAtValues DEF StepAfter, Events, WaitEvents
      <4>2. CASE e = "WaitForKeyEx"
        BY <3>1, <3>2, <4>2, LiveAtValues DEF StepAfter, Events, WaitEvents
      <4>3. CASE e = "KeyNotifyProcessEvent"
        BY <3>1, <3>2, <4>3, LiveAtValues DEF StepAfter, Events, WaitEvents
      <4>4. CASE e = "TimerEvent"
        BY <3>1, <3>2, <4>4, LiveAtValues DEF StepAfter, Events, WaitEvents
      <4>5. QED
        BY <4>1, <4>2, <4>3, <4>4 DEF Events, WaitEvents
    <3>3. CASE pc' = CleanupLabel[e] /\ live' = live
      <4>1. CASE e = "WaitForKey"
        BY <3>1, <3>3, <4>1, LiveAtValues DEF CleanupLabel, Events, WaitEvents
      <4>2. CASE e = "WaitForKeyEx"
        BY <3>1, <3>3, <4>2, LiveAtValues DEF CleanupLabel, Events, WaitEvents
      <4>3. CASE e = "KeyNotifyProcessEvent"
        BY <3>1, <3>3, <4>3, LiveAtValues DEF CleanupLabel, Events, WaitEvents
      <4>4. CASE e = "TimerEvent"
        BY <3>1, <3>3, <4>4, LiveAtValues DEF CleanupLabel, Events, WaitEvents
      <4>5. QED
        BY <4>1, <4>2, <4>3, <4>4 DEF Events, WaitEvents
    <3>4. QED
      BY <2>3, <3>2, <3>3 DEF CreateEvent
  <2>4. CASE SetTimer
    BY <2>4, LiveAtValues DEF SetTimer, AtStep, KeepDevice
  <2>5. CASE InstallProtocols
    BY <2>5, LiveAtValues DEF InstallProtocols, AtStep, KeepDevice
  <2>6. ASSUME NEW label \in DOMAIN Labels, CloseEvent(label) PROVE LadderInv'
    <3>1. /\ pc = label /\ pollPc' = "none" /\ ~installed' /\ installed' \in BOOLEAN
          /\ live' = live \ {Labels[label][1]}
          /\ pc' = Labels[label][2]
          /\ timerSet' = (timerSet /\ "TimerEvent" \in live')
      <4>1. pc = label /\ pollPc' = pollPc /\ pollPc = "none" /\ installed' = installed
        BY <2>6 DEF CloseEvent, AtStep, KeepDevice
      <4>2. label # "started"
        BY DEF Labels
      <4>3. QED
        BY <2>6, <4>1, <4>2 DEF CloseEvent
    <3>2. label \in {"CloseTimer", "CloseKeyNotifyProcess", "CloseWaitForKeyEx", "CloseWaitForKey"}
      BY DEF Labels
    <3>3. CASE label = "CloseTimer"
      BY <3>1, <3>3, LiveAtValues DEF Labels, Events, WaitEvents
    <3>4. CASE label = "CloseKeyNotifyProcess"
      BY <3>1, <3>4, LiveAtValues DEF Labels, Events, WaitEvents
    <3>5. CASE label = "CloseWaitForKeyEx"
      BY <3>1, <3>5, LiveAtValues DEF Labels, Events, WaitEvents
    <3>6. CASE label = "CloseWaitForKey"
      BY <3>1, <3>6, LiveAtValues DEF Labels, Events, WaitEvents
    <3>7. QED
      BY <3>2, <3>3, <3>4, <3>5, <3>6
  <2>7. CASE FreeDev
    BY <2>7, LiveAtValues DEF FreeDev, AtStep, KeepDevice
  <2>8. CASE TimerTick
    BY <2>8, <2>a DEF TimerTick
  <2>9. CASE PollKeyboard
    BY <2>9, <2>a DEF PollKeyboard
  <2>10. CASE SignalEvents
    BY <2>10, <2>a DEF SignalEvents
  <2>11. CASE UNCHANGED vars
    BY <2>11, <2>a DEF vars
  <2>12. QED
    BY <2>1, <2>2, <2>3, <2>4, <2>5, <2>6, <2>7, <2>8, <2>9, <2>10, <2>11 DEF Next, EntryPoint
<1>3. QED
  BY <1>1, <1>2, PTL DEF Spec

\* The timer's handler never interrupts the entry point, nor its clean-up, when
\* the device or an event that it signals is not there.
THEOREM HandlerAlwaysFindsItsEvents == Spec => []HandlerFindsItsEvents
<1>1. LadderInv => HandlerFindsItsEvents
  BY LiveAtValues DEF LadderInv, HandlerFindsItsEvents, Events
<1>2. QED
  BY <1>1, LadderInvariant, PTL

\* Whichever steps fail, a driver that could not be started gives back all it
\* took, and one that is started has everything.
THEOREM NothingEverLeftBehind == Spec => []NothingLeftBehind
<1>1. LadderInv => NothingLeftBehind
  BY LiveAtValues DEF LadderInv, NothingLeftBehind
<1>2. QED
  BY <1>1, LadderInvariant, PTL

=============================================================================
