--------------------------- MODULE GoldfishEvents ---------------------------
(***************************************************************************)
(* The UEFI driver of the emulator's keyboard (GoldfishEventsDxe).         *)
(*                                                                         *)
(* One processor runs three contexts.  PollKeyboard runs at TPL_NOTIFY,    *)
(* from the 10 ms timer or from a check of WaitForKey, and only the device *)
(* itself acts beside it.  KeyNotifyProcessHandler runs at TPL_CALLBACK:   *)
(* the timer preempts it, the application waits.  The application calls    *)
(* the two text-input protocols at TPL_APPLICATION or TPL_CALLBACK, and    *)
(* both other contexts preempt it between any two of its steps.  A section *)
(* between RaiseTPL (TPL_NOTIFY) and RestoreTPL is one step: it does not   *)
(* touch the device, and nothing else runs.                                *)
(***************************************************************************)
EXTENDS GoldfishKeys, FiniteSets

CONSTANTS
  Codes,          \* Linux key codes on the host keyboard
  OtherTypes,     \* types of device events that are not key events
  Registrations,  \* what clients register: a Key, a KeyState and a function fn
  NoEntry,        \* the end of the notify list
  MaxEvents,      \* bound on the events the host keyboard produces
  AppOps,         \* protocol calls the application makes
  NotifyOps       \* protocol calls a notification function makes

WaitEvents == {"WaitForKey", "WaitForKeyEx"}

AppOperations == {"Reset", "ReadKeyStroke", "ReadKeyStrokeEx", "CheckEvent",
                  "RegisterKeyNotify", "UnregisterKeyNotify", "RaiseTPL"}

\* Key code 0 is KEY_RESERVED and type 0 is EV_SYN: the device sends neither.
\* Linux key codes have 16 bits, as PollKeyboard's cast of Code has.
MAX_UINT16 == 65535
ASSUME CodesAssumption == Codes \subseteq 1 .. MAX_UINT16
ASSUME OtherTypesAssumption == OtherTypes \subseteq Nat \ {0, EV_KEY}
ASSUME MaxEventsAssumption == MaxEvents \in Nat
ASSUME NoEntryAssumption == NoEntry \notin Registrations
ASSUME OpsAssumption == AppOps \subseteq AppOperations /\ NotifyOps \subseteq AppOperations

VARIABLES
  \* The device: words not yet read, keys held down, events produced.
  devq, held, produced,
  \* GOLDFISH_EVENTS_DEV: the modifiers whose flag is TRUE, the buffered key,
  \* the key queued for dispatch, the registered notifications in order.
  mods, Key, KeyReady, NotifyKeyData, NotifyKeyReady, NotifyList,
  \* The event services: signalled wait events, KeyNotifyProcessEvent queued.
  signalled, notifyPending,
  \* PollKeyboard: where it is, who called it, the words of the event it has
  \* read, and its local HaveNotify; back at their initial values when dead.
  pollPc, caller, pollType, pollCode, HaveNotify,
  \* KeyNotifyProcessHandler: where it is, its KeyData and its list cursor.
  cbPc, cbData, cursor,
  \* The application: the call it is in, and whether it raised the TPL.
  appPc, appTpl,
  \* History, read by properties only: number of keys buffered so far, the
  \* numbers of Key and of NotifyKeyData, of the last key read and of the last
  \* key dequeued for dispatch, and the last key typed to an empty NotifyList.
  stamp, keyStamp, notifyStamp, lastRead, lastNotified, deafStamp

deviceVars == <<devq, held, produced>>
bufferVars == <<mods, Key, KeyReady, NotifyKeyData, NotifyKeyReady>>
eventVars  == <<signalled, notifyPending>>
pollVars   == <<pollPc, caller, pollType, pollCode, HaveNotify>>
cbVars     == <<cbPc, cbData, cursor>>
appVars    == <<appPc, appTpl>>
stampVars  == <<stamp, keyStamp, notifyStamp, lastRead, lastNotified>>
vars == <<deviceVars, bufferVars, NotifyList, eventVars, pollVars, cbVars,
          appVars, stampVars, deafStamp>>

ZeroKeyData == [Key |-> NullKey, KeyState |-> NoKeyState]

\* Reset's stores in program order, then its drain loop.
ResetNext ==
  [KeyReady       |-> "Shift",
   Shift          |-> "Ctrl",
   Ctrl           |-> "Alt",
   Alt            |-> "NotifyKeyReady",
   NotifyKeyReady |-> "Key",
   Key            |-> "NotifyKeyData",
   NotifyKeyData  |-> "drainType"]

Init ==
  /\ devq = <<>> /\ held = {} /\ produced = 0
  /\ mods = {} /\ Key = NullKey /\ KeyReady = FALSE
  /\ NotifyKeyData = ZeroKeyData /\ NotifyKeyReady = FALSE
  /\ NotifyList = <<>>
  /\ signalled = [e \in WaitEvents |-> FALSE] /\ notifyPending = FALSE
  /\ pollPc = "idle" /\ caller = "timer"
  /\ pollType = 0 /\ pollCode = 0 /\ HaveNotify = FALSE
  /\ cbPc = "idle" /\ cbData = ZeroKeyData /\ cursor = NoEntry
  /\ appPc = "run" /\ appTpl = "APPLICATION"
  /\ stamp = 0 /\ keyStamp = 0 /\ notifyStamp = 0
  /\ lastRead = 0 /\ lastNotified = 0 /\ deafStamp = 0

-----------------------------------------------------------------------------
(***************************************************************************)
(* The device: three words per event, and 0 from REG_READ when it has no   *)
(* word left.                                                              *)
(***************************************************************************)
Produce(type, code, value) ==
  /\ produced < MaxEvents
  /\ produced' = produced + 1
  /\ devq' = devq \o <<type, code, value>>
  /\ UNCHANGED <<bufferVars, NotifyList, eventVars, pollVars, cbVars, appVars,
                 stampVars, deafStamp>>

HostPress(code) ==
  /\ code \notin held
  /\ held' = held \cup {code}
  /\ Produce(EV_KEY, code, 1)

HostRelease(code) ==
  /\ code \in held
  /\ held' = held \ {code}
  /\ Produce(EV_KEY, code, 0)

HostOther(type, code, value) ==
  /\ UNCHANGED held
  /\ Produce(type, code, value)

NextWord == IF devq = <<>> THEN 0 ELSE Head(devq)

\* REG_READ returns NextWord and dequeues it.
ReadWord ==
  /\ devq' = IF devq = <<>> THEN <<>> ELSE Tail(devq)
  /\ UNCHANGED <<held, produced>>

-----------------------------------------------------------------------------
(***************************************************************************)
(* PollKeyboard.  HaveNotify has no initial value in the code, so a poll   *)
(* starts with either.                                                     *)
(***************************************************************************)
StartPoll(who) ==
  /\ pollPc = "idle"
  /\ pollPc' = "type"
  /\ caller' = who
  /\ HaveNotify' \in BOOLEAN
  /\ UNCHANGED <<deviceVars, bufferVars, NotifyList, eventVars, pollType,
                 pollCode, cbVars, appTpl, stampVars, deafStamp>>

\* Faulty form: no poll while a key is buffered.
TimerTickUnlessKey == ~KeyReady /\ StartPoll("timer") /\ UNCHANGED appPc

TimerTick == StartPoll("timer") /\ UNCHANGED appPc

PollType ==
  /\ pollPc = "type"
  /\ NextWord # 0
  /\ pollType' = NextWord
  /\ ReadWord
  /\ pollPc' = "code"
  /\ UNCHANGED <<bufferVars, NotifyList, eventVars, caller, pollCode, HaveNotify,
                 cbVars, appVars, stampVars, deafStamp>>

PollCode ==
  /\ pollPc = "code"
  /\ pollCode' = NextWord
  /\ ReadWord
  /\ pollPc' = "value"
  /\ UNCHANGED <<bufferVars, NotifyList, eventVars, caller, pollType, HaveNotify,
                 cbVars, appVars, stampVars, deafStamp>>

\* The latest key overwrites both buffers.
BufferKey(k) ==
  /\ Key' = k
  /\ KeyReady' = TRUE
  /\ NotifyKeyData' = [Key |-> k, KeyState |-> BuildKeyState(mods')]
  /\ NotifyKeyReady' = TRUE
  /\ HaveNotify' = TRUE
  /\ stamp' = stamp + 1
  /\ keyStamp' = stamp'
  /\ notifyStamp' = stamp'
  /\ UNCHANGED <<lastRead, lastNotified>>

\* Releases, modifier-only events and unmapped keys.
NoKey(k) == k = NullKey

DiscardKey ==
  UNCHANGED <<Key, KeyReady, NotifyKeyData, NotifyKeyReady, HaveNotify, stampVars>>

PollValue ==
  /\ pollPc = "value"
  /\ ReadWord
  /\ pollPc' = "type"
  /\ \/ /\ pollType # EV_KEY
        /\ UNCHANGED mods
        /\ DiscardKey
     \/ /\ pollType = EV_KEY
        /\ mods' = ModifiersAfter(mods, pollCode, NextWord = 1)
        /\ LET k == KeyOf(mods, pollCode, NextWord = 1)
           IN  IF NoKey(k) THEN DiscardKey ELSE BufferKey(k)
  /\ pollType' = 0 /\ pollCode' = 0
  /\ UNCHANGED <<NotifyList, eventVars, caller, cbVars, appVars, deafStamp>>

\* Faulty form: only the timer's polls dispatch.
SignalsNotifyFromTimer == HaveNotify /\ NotifyList # <<>> /\ caller = "timer"

\* PollKeyboard signals KeyNotifyProcessEvent.
SignalsNotify == HaveNotify /\ NotifyList # <<>>

\* Faulty forms: a check does not signal its own event; the timer signals none.
SignalsFromTimer(e) == KeyReady /\ caller = "timer"
SignalsFromCheck(e) == KeyReady /\ caller = e

\* The timer signals both wait events, a check its own.
Signals(e) == KeyReady /\ caller \in {"timer", e}

\* A zero type ends the loop; then the tails of PollKeyboard and of its caller,
\* KeyboardTimerHandler or the notify function of the wait event itself.
PollBreak ==
  /\ pollPc = "type"
  /\ NextWord = 0
  /\ ReadWord
  /\ pollPc' = "idle"
  /\ notifyPending' = (notifyPending \/ SignalsNotify)
  /\ signalled' = [e \in WaitEvents |-> signalled[e] \/ Signals(e)]
  /\ caller' = "timer" /\ HaveNotify' = FALSE
  /\ UNCHANGED <<bufferVars, NotifyList, pollType, pollCode, cbVars, appVars,
                 stampVars, deafStamp>>

-----------------------------------------------------------------------------
(***************************************************************************)
(* Protocol functions that are one TPL_NOTIFY section.  Each returns an    *)
(* error, and changes nothing, when its guard does not hold.               *)
(***************************************************************************)
Registered == {NotifyList[i] : i \in DOMAIN NotifyList}

\* Faulty form: the key stays buffered.
ReadKeyStrokeKeeps ==
  /\ KeyReady
  /\ lastRead' = keyStamp
  /\ UNCHANGED <<bufferVars, NotifyList, stamp, keyStamp, notifyStamp,
                 lastNotified, deafStamp>>

ReadKeyStroke ==
  /\ KeyReady
  /\ KeyReady' = FALSE
  /\ lastRead' = keyStamp
  /\ UNCHANGED <<mods, Key, NotifyKeyData, NotifyKeyReady, NotifyList,
                 stamp, keyStamp, notifyStamp, lastNotified, deafStamp>>

\* Faulty form: no search for an equal registration.
RegisterKeyNotifyAlways(r) ==
  /\ Len(NotifyList) <= Cardinality(Registrations)
  /\ NotifyList' = Append(NotifyList, r)
  /\ deafStamp' = IF NotifyList = <<>> THEN stamp ELSE deafStamp
  /\ UNCHANGED <<bufferVars, stampVars>>

\* An equal registration is found in the list and returned again.
RegisterKeyNotify(r) ==
  /\ r \notin Registered
  /\ NotifyList' = Append(NotifyList, r)
  /\ deafStamp' = IF NotifyList = <<>> THEN stamp ELSE deafStamp
  /\ UNCHANGED <<bufferVars, stampVars>>

\* RemoveEntryList unlinks the entry the handle stands for.
Without(list, i) == SubSeq(list, 1, i - 1) \o SubSeq(list, i + 1, Len(list))

UnregisterKeyNotify(r) ==
  /\ \E i \in DOMAIN NotifyList :
       /\ NotifyList[i] = r
       /\ NotifyList' = Without(NotifyList, i)
  /\ UNCHANGED <<bufferVars, stampVars, deafStamp>>

-----------------------------------------------------------------------------
(***************************************************************************)
(* KeyNotifyProcessHandler, queued by the signal and run as soon as the    *)
(* TPL drops below TPL_CALLBACK.  The services clear the signal first.     *)
(***************************************************************************)
CbDispatch ==
  /\ notifyPending
  /\ pollPc = "idle" /\ cbPc = "idle" /\ appTpl = "APPLICATION"
  /\ notifyPending' = FALSE
  /\ cbPc' = "dequeue"
  /\ UNCHANGED <<deviceVars, bufferVars, NotifyList, signalled, pollVars, cbData,
                 cursor, appVars, stampVars, deafStamp>>

\* GetFirstNode.
FirstEntry == IF NotifyList = <<>> THEN NoEntry ELSE Head(NotifyList)

\* Faulty form: the walk does not stop at the list head.
EntryAfterCyclic(list, entry) ==
  LET i == CHOOSE j \in DOMAIN list : list[j] = entry
  IN  IF i = Len(list) THEN list[1] ELSE list[i + 1]

\* GetNextNode in a list, from one of its entries.
EntryAfter(list, entry) ==
  LET i == CHOOSE j \in DOMAIN list : list[j] = entry
  IN  IF i = Len(list) THEN NoEntry ELSE list[i + 1]

\* Faulty form: the key stays queued.
DequeueKeyKeeps ==
  /\ cbData' = NotifyKeyData
  /\ UNCHANGED NotifyKeyReady
  /\ lastNotified' = notifyStamp

DequeueKey ==
  /\ cbData' = NotifyKeyData
  /\ NotifyKeyReady' = FALSE
  /\ lastNotified' = notifyStamp

CbDequeue ==
  /\ cbPc = "dequeue"
  /\ pollPc = "idle"
  /\ IF NotifyKeyReady
     THEN DequeueKey /\ cbPc' = "walk" /\ cursor' = FirstEntry
     ELSE cbPc' = "idle" /\ UNCHANGED <<cbData, NotifyKeyReady, cursor, lastNotified>>
  /\ UNCHANGED <<deviceVars, mods, Key, KeyReady, NotifyKeyData, NotifyList,
                 eventVars, pollVars, appVars, stamp, keyStamp, notifyStamp,
                 lastRead, deafStamp>>

\* What a notification function may do.  It does not unregister itself, which
\* would free the entry the walk is on.
NotifyFunction ==
  \/ UNCHANGED <<bufferVars, NotifyList, stampVars, deafStamp>>
  \/ "ReadKeyStroke" \in NotifyOps /\ ReadKeyStroke
  \/ "RegisterKeyNotify" \in NotifyOps /\ \E r \in Registrations : RegisterKeyNotify(r)
  \/ /\ "UnregisterKeyNotify" \in NotifyOps
     /\ \E r \in Registrations \ {cursor} : UnregisterKeyNotify(r)

\* Faulty form: the next node is taken before the function is called, which may
\* unregister it.
CbVisitNextFirst ==
  /\ cbPc = "walk"
  /\ pollPc = "idle"
  /\ cursor # NoEntry
  /\ IF IsKeyRegistered(cursor, cbData)
     THEN NotifyFunction
     ELSE UNCHANGED <<bufferVars, NotifyList, stampVars, deafStamp>>
  /\ cursor' = EntryAfter(NotifyList, cursor)
  /\ UNCHANGED <<deviceVars, eventVars, pollVars, cbPc, cbData, appVars>>

\* One entry: call its function if it matches, then step to the next node.
CbVisit ==
  /\ cbPc = "walk"
  /\ pollPc = "idle"
  /\ cursor # NoEntry
  /\ IF IsKeyRegistered(cursor, cbData)
     THEN NotifyFunction
     ELSE UNCHANGED <<bufferVars, NotifyList, stampVars, deafStamp>>
  /\ cursor' = EntryAfter(NotifyList', cursor)
  /\ UNCHANGED <<deviceVars, eventVars, pollVars, cbPc, cbData, appVars>>

CbReturn ==
  /\ cbPc = "walk"
  /\ pollPc = "idle"
  /\ cursor = NoEntry
  /\ cbPc' = "idle"
  /\ cbData' = ZeroKeyData
  /\ UNCHANGED <<deviceVars, bufferVars, NotifyList, eventVars, pollVars, cursor,
                 appVars, stampVars, deafStamp>>

-----------------------------------------------------------------------------
(***************************************************************************)
(* The application.  It runs when neither other context does, and at       *)
(* TPL_APPLICATION a queued KeyNotifyProcessHandler goes first.            *)
(***************************************************************************)
AppMayRun ==
  /\ pollPc = "idle"
  /\ cbPc = "idle"
  /\ notifyPending => appTpl = "CALLBACK"

AppMayCall(op) == AppMayRun /\ appPc = "run" /\ op \in AppOps

\* ReadKeyStroke, and the first half of ReadKeyStrokeEx, which reads the
\* modifiers for its KeyState in a section of its own.
AppReadKeyStroke(op, pc) ==
  /\ AppMayCall(op)
  /\ ReadKeyStroke
  /\ appPc' = pc
  /\ UNCHANGED <<deviceVars, eventVars, pollVars, cbVars, appTpl>>

AppReadKeyStrokeEx ==
  /\ AppMayRun
  /\ appPc = "buildKeyState"
  /\ appPc' = "run"
  /\ UNCHANGED <<deviceVars, bufferVars, NotifyList, eventVars, pollVars, cbVars,
                 appTpl, stampVars, deafStamp>>

AppRegister(r) ==
  /\ AppMayCall("RegisterKeyNotify")
  /\ RegisterKeyNotify(r)
  /\ UNCHANGED <<deviceVars, eventVars, pollVars, cbVars, appVars>>

AppUnregister(r) ==
  /\ AppMayCall("UnregisterKeyNotify")
  /\ UnregisterKeyNotify(r)
  /\ UNCHANGED <<deviceVars, eventVars, pollVars, cbVars, appVars>>

AppReset ==
  /\ AppMayCall("Reset")
  /\ appPc' = "KeyReady"
  /\ UNCHANGED <<deviceVars, bufferVars, NotifyList, eventVars, pollVars, cbVars,
                 appTpl, stampVars, deafStamp>>

\* One store of Reset: appPc names the field it clears.
AppResetStore ==
  /\ AppMayRun
  /\ appPc \in DOMAIN ResetNext
  /\ KeyReady' = (KeyReady /\ appPc # "KeyReady")
  /\ mods' = mods \ {appPc}
  /\ NotifyKeyReady' = (NotifyKeyReady /\ appPc # "NotifyKeyReady")
  /\ Key' = IF appPc = "Key" THEN NullKey ELSE Key
  /\ NotifyKeyData' = IF appPc = "NotifyKeyData" THEN ZeroKeyData ELSE NotifyKeyData
  /\ appPc' = ResetNext[appPc]
  /\ UNCHANGED <<deviceVars, NotifyList, eventVars, pollVars, cbVars, appTpl,
                 stampVars, deafStamp>>

\* Faulty form: Reset drains a single event.
DrainNextOnce == [drainType |-> "drainCode", drainCode |-> "drainValue",
                  drainValue |-> "run"]

\* The three reads of one round of Reset's drain loop.
DrainNext == [drainType |-> "drainCode", drainCode |-> "drainValue",
              drainValue |-> "drainType"]

\* Faulty form: the loop condition is inverted.
DrainDoneInverted == appPc = "drainType" /\ NextWord # 0

DrainDone == appPc = "drainType" /\ NextWord = 0

\* One read of the drain loop, which ends at a zero in the type position.
AppResetDrain ==
  /\ AppMayRun
  /\ appPc \in DOMAIN DrainNext
  /\ appPc' = IF DrainDone THEN "run" ELSE DrainNext[appPc]
  /\ ReadWord
  /\ UNCHANGED <<bufferVars, NotifyList, eventVars, pollVars, cbVars, appTpl,
                 stampVars, deafStamp>>

\* CheckEvent of a wait event consumes a signal it finds, and otherwise runs
\* the event's notify function, which polls.
AppCheckSignalled(e) ==
  /\ AppMayCall("CheckEvent")
  /\ signalled[e]
  /\ signalled' = [signalled EXCEPT ![e] = FALSE]
  /\ UNCHANGED <<deviceVars, bufferVars, NotifyList, notifyPending, pollVars,
                 cbVars, appVars, stampVars, deafStamp>>

AppCheckPoll(e) ==
  /\ AppMayCall("CheckEvent")
  /\ ~signalled[e]
  /\ StartPoll(e)
  /\ appPc' = e

\* Back in CheckEvent after the poll: success if the event is signalled now.
AppCheckDone ==
  /\ AppMayRun
  /\ appPc \in WaitEvents
  /\ signalled' = [signalled EXCEPT ![appPc] = FALSE]
  /\ appPc' = "run"
  /\ UNCHANGED <<deviceVars, bufferVars, NotifyList, notifyPending, pollVars,
                 cbVars, appTpl, stampVars, deafStamp>>

AppRaiseTPL ==
  /\ AppMayCall("RaiseTPL")
  /\ appTpl = "APPLICATION"
  /\ appTpl' = "CALLBACK"
  /\ UNCHANGED <<deviceVars, bufferVars, NotifyList, eventVars, pollVars, cbVars,
                 appPc, stampVars, deafStamp>>

AppRestoreTPL ==
  /\ AppMayCall("RaiseTPL")
  /\ appTpl = "CALLBACK"
  /\ appTpl' = "APPLICATION"
  /\ UNCHANGED <<deviceVars, bufferVars, NotifyList, eventVars, pollVars, cbVars,
                 appPc, stampVars, deafStamp>>

-----------------------------------------------------------------------------
Host ==
  \/ \E c \in Codes : HostPress(c) \/ HostRelease(c)
  \/ \E t \in OtherTypes, c \in Codes : HostOther(t, c, 1)

Poll == PollType \/ PollCode \/ PollValue \/ PollBreak

Callback == CbDispatch \/ CbDequeue \/ CbVisit \/ CbReturn

\* The application inside a call, which it always finishes.
AppReturn == \/ AppReadKeyStrokeEx
             \/ AppResetStore
             \/ AppResetDrain
             \/ AppCheckDone

App == \/ AppReturn
       \/ AppReadKeyStroke("ReadKeyStroke", "run")
       \/ AppReadKeyStroke("ReadKeyStrokeEx", "buildKeyState")
       \/ AppReset
       \/ \E r \in Registrations : AppRegister(r) \/ AppUnregister(r)
       \/ \E e \in WaitEvents : AppCheckSignalled(e) \/ AppCheckPoll(e)
       \/ AppRaiseTPL
       \/ AppRestoreTPL

Next == Host \/ TimerTick \/ Poll \/ Callback \/ App

Spec == Init /\ [][Next]_vars

\* A poll runs to its end.  The timer is periodic and its interrupt waits for
\* nobody, so it fires even when the application polls all the time; and a poll
\* is much shorter than the 10 ms between two ticks, so the preempted contexts
\* get on with what they are in the middle of.  The application restores the
\* TPL it raised.
Fairness ==
  /\ SF_vars(TimerTick)
  /\ WF_vars(Poll)
  /\ SF_vars(Callback)
  /\ SF_vars(AppReturn)
  /\ SF_vars(AppRestoreTPL)

FairSpec == Spec /\ Fairness

-----------------------------------------------------------------------------
Words == Codes \cup OtherTypes \cup {0, EV_KEY}

\* Every image of a word under ConvertKeyCode.
InputKeys == {NullKey} \cup {PressedKey(m, w) : m \in SUBSET Modifiers, w \in Words}

KeyStates == {NoKeyState} \cup {BuildKeyState(m) : m \in SUBSET Modifiers}

AppPcs == {"run", "buildKeyState"} \cup WaitEvents \cup DOMAIN ResetNext \cup DOMAIN DrainNext

TypeOK ==
  /\ devq \in Seq(Words) /\ held \subseteq Codes /\ produced \in 0 .. MaxEvents
  /\ mods \subseteq Modifiers
  /\ Key \in InputKeys /\ KeyReady \in BOOLEAN
  /\ NotifyKeyData \in [Key : InputKeys, KeyState : KeyStates]
  /\ NotifyKeyReady \in BOOLEAN
  /\ NotifyList \in Seq(Registrations)
  /\ signalled \in [WaitEvents -> BOOLEAN] /\ notifyPending \in BOOLEAN
  /\ pollPc \in {"idle", "type", "code", "value"}
  /\ caller \in WaitEvents \cup {"timer"}
  /\ pollType \in Words /\ pollCode \in Words /\ HaveNotify \in BOOLEAN
  /\ cbPc \in {"idle", "dequeue", "walk"}
  /\ cbData \in [Key : InputKeys, KeyState : KeyStates]
  /\ cursor \in Registrations \cup {NoEntry}
  /\ appPc \in AppPcs /\ appTpl \in {"APPLICATION", "CALLBACK"}
  /\ stamp \in Nat /\ keyStamp \in Nat /\ notifyStamp \in Nat
  /\ lastRead \in Nat /\ lastNotified \in Nat /\ deafStamp \in Nat

(***************************************************************************)
(* Each key buffer implements the mailbox.  Keys read with ReadKeyStroke   *)
(* and ReadKeyStrokeEx come out once and in typing order although the poll *)
(* overwrites Key and Reset clears KeyReady at any moment; and a hot key   *)
(* is dispatched at most once although a poll may signal the dispatcher    *)
(* for nothing (its HaveNotify is uninitialised).                          *)
(***************************************************************************)
ReadMailbox == INSTANCE KeyMailbox WITH
  slot <- IF KeyReady THEN keyStamp ELSE 0, last <- lastRead

NotifyMailbox == INSTANCE KeyMailbox WITH
  slot <- IF NotifyKeyReady THEN notifyStamp ELSE 0, last <- lastNotified

ReadMailboxSpec == ReadMailbox!Spec
NotifyMailboxSpec == NotifyMailbox!Spec

\* The device stream is self-synchronising.  A poll that interrupts Reset's
\* drain loop in the middle of an event reads codes as types, but once Reset
\* has returned every poll starts at the first word of an event.
StreamAligned ==
  appPc \notin DOMAIN DrainNext =>
    Len(devq) % 3 = CASE pollPc = "code"  -> 2
                      [] pollPc = "value" -> 1
                      [] OTHER            -> 0

\* What StreamAligned rests on: a zero word is the last word of its event, so a
\* reader that stops at a zero, in whatever phase it is, stops at an event.
ZeroEndsEvent ==
  \A i \in DOMAIN devq : devq[i] = 0 => (Len(devq) - i) % 3 = 0

\* A key typed while somebody was registered, and not taken for dispatch yet,
\* has KeyNotifyProcessHandler queued or about to dequeue it.
NoLostNotify ==
  (/\ pollPc = "idle"
   /\ NotifyKeyReady
   /\ NotifyList # <<>>
   /\ notifyStamp > deafStamp)
     => notifyPending \/ cbPc = "dequeue"

\* KeyNotifyProcessHandler walks the list below TPL_NOTIFY: the entry it stands
\* on is never unregistered (and freed) under it.
CursorRegistered ==
  cbPc = "walk" => cursor \in Registered \cup {NoEntry}

\* One entry per registration, so one handle stands for each.
RegistrationsDistinct ==
  \A i, j \in DOMAIN NotifyList : NotifyList[i] = NotifyList[j] => i = j

\* A check of WaitForKey or WaitForKeyEx does not report EFI_NOT_READY while a
\* key is buffered, whatever ran between its poll and its test of the signal.
NoMissedKey ==
  (appPc \in WaitEvents /\ pollPc = "idle" /\ KeyReady) => signalled[appPc]

\* "KeyReady: TRUE if Key is valid": a successful ReadKeyStroke returns a key.
KeyReadyMeansValid == KeyReady => Key # NullKey

\* A modifier flag is TRUE only while one of the modifier's keys is down.
NoStuckModifier ==
  (pollPc = "idle" /\ devq = <<>>) =>
    \A m \in mods : ModifierKeys[m] \cap held # {}

\* The device is drained again and again.
DeviceDrained == []<>(devq = <<>>)

\* A key stays buffered only until both wait events are signalled for it, or
\* somebody takes it.
KeySignalled == \A e \in WaitEvents : KeyReady ~> (signalled[e] \/ ~KeyReady)

\* A key typed while somebody is registered is taken for dispatch, unless they
\* all unregister first, and the walk of the list ends.
NotifyServed ==
  /\ (NotifyKeyReady /\ NotifyList # <<>> /\ notifyStamp > deafStamp)
       ~> (~NotifyKeyReady \/ NotifyList = <<>>)
  /\ (cbPc # "idle") ~> (cbPc = "idle")

\* Every protocol call returns, Reset's drain loop included.  (While somebody
\* is registered, a poll may signal KeyNotifyProcessEvent for nothing, and
\* fairness alone does not keep its handler from running all the time.)
CallsReturn == (appPc # "run" /\ NotifyList = <<>>) ~> (appPc = "run")

=============================================================================
