----------------------- MODULE GoldfishEventsProofs -----------------------
(***************************************************************************)
(* Theorems about GoldfishEvents, for every keyboard, every set of         *)
(* registrations and every bound on the events.                            *)
(***************************************************************************)
EXTENDS GoldfishEvents, SequenceTheorems, TLAPS

\* The width of a code does not matter below, only that it is not 0.
LEMMA CodesArePositive == Codes \subseteq Nat \ {0}
<1>1. \A c \in 1 .. MAX_UINT16 : c \in Nat \ {0}
  OBVIOUS
<1>2. QED
  BY <1>1, CodesAssumption

\* Every key ConvertKeyCode can yield is an image of the words it is given.
LEMMA KeyOfType ==
  ASSUME NEW m \in SUBSET Modifiers, NEW w \in Words, NEW p
  PROVE  KeyOf(m, w, p) \in InputKeys
  BY DEF InputKeys, KeyOf

\* ConvertKeyCode keeps the modifier flags a set of modifiers.
LEMMA ModifiersAfterType ==
  ASSUME NEW m \in SUBSET Modifiers, NEW w, NEW p
  PROVE  ModifiersAfter(m, w, p) \in SUBSET Modifiers
  BY DEF ModifiersAfter

\* Facts about the words read from the device.
LEMMA WordTypes ==
  ASSUME TypeOK
  PROVE  /\ NextWord \in Words
         /\ ReadWord => devq' \in Seq(Words) /\ held' = held /\ produced' = produced
  <1>1. 0 \in Words
    BY DEF Words
  <1>2. devq \in Seq(Words)
    BY DEF TypeOK
  <1>3. CASE devq = <<>>
    BY <1>1, <1>2, <1>3 DEF NextWord, ReadWord
  <1>4. CASE devq # <<>>
    BY <1>2, <1>4, HeadTailProperties DEF NextWord, ReadWord
  <1> QED
    BY <1>3, <1>4

\* Unlinking an entry leaves a list of registrations.
LEMMA WithoutType ==
  ASSUME NEW S, NEW list \in Seq(S), NEW i \in DOMAIN list
  PROVE  Without(list, i) \in Seq(S)
  BY SubSeqProperties DEF Without

\* The node after an entry of the list is an entry of it or the end.
LEMMA EntryAfterType ==
  ASSUME NEW S, NEW list \in Seq(S), NEW i \in DOMAIN list
  PROVE  EntryAfter(list, list[i]) \in {list[k] : k \in DOMAIN list} \cup {NoEntry}
  <1> DEFINE j == CHOOSE k \in DOMAIN list : list[k] = list[i]
  <1>1. j \in 1 .. Len(list)
    BY LenProperties
  <1>2. CASE j = Len(list)
    BY <1>2 DEF EntryAfter
  <1>3. CASE j # Len(list)
    <2>1. j + 1 \in 1 .. Len(list)
      BY <1>1, <1>3, LenProperties
    <2> QED
      BY <1>3, <2>1, LenProperties DEF EntryAfter
  <1> QED
    BY <1>2, <1>3

\* Unlinking an entry moves every later one down by one place.
LEMMA WithoutElements ==
  ASSUME NEW S, NEW list \in Seq(S), NEW i \in DOMAIN list
  PROVE  /\ DOMAIN Without(list, i) = 1 .. Len(list) - 1
         /\ \A j \in 1 .. Len(list) - 1 :
              Without(list, i)[j] = IF j < i THEN list[j] ELSE list[j + 1]
  <1> DEFINE front == SubSeq(list, 1, i - 1)
             back  == SubSeq(list, i + 1, Len(list))
  <1>1. /\ Len(list) \in Nat /\ DOMAIN list = 1 .. Len(list)
        /\ i \in 1 .. Len(list)
    BY LenProperties
  <1>2. /\ front \in Seq(S) /\ Len(front) = i - 1
        /\ \A j \in 1 .. i - 1 : front[j] = list[j]
    <2>1. \A j \in 1 .. i - 1 : list[j] \in S
      BY <1>1, ElementOfSeq
    <2> QED
      BY <1>1, <2>1, SubSeqProperties
  <1>3. /\ back \in Seq(S) /\ Len(back) = Len(list) - i
        /\ \A j \in 1 .. Len(list) - i : back[j] = list[j + i]
    <2>1. \A j \in i + 1 .. Len(list) : list[j] \in S
      BY <1>1, ElementOfSeq
    <2> QED
      BY <1>1, <2>1, SubSeqProperties
  <1>4. Without(list, i) = front \o back
    BY DEF Without
  <1> HIDE DEF front, back
  <1>5. /\ front \o back \in Seq(S)
        /\ Len(front \o back) = Len(list) - 1
        /\ \A j \in 1 .. Len(list) - 1 :
             (front \o back)[j] = IF j <= i - 1 THEN front[j] ELSE back[j - (i - 1)]
    <2>1. /\ front \o back \in Seq(S)
          /\ Len(front \o back) = Len(front) + Len(back)
          /\ \A j \in 1 .. Len(front) + Len(back) :
               (front \o back)[j] = IF j <= Len(front) THEN front[j] ELSE back[j - Len(front)]
      BY <1>2, <1>3, ConcatProperties
    <2>2. Len(front) + Len(back) = Len(list) - 1
      BY <1>1, <1>2, <1>3
    <2> QED
      BY <1>2, <2>1, <2>2
  <1>6. ASSUME NEW j \in 1 .. Len(list) - 1
        PROVE  (front \o back)[j] = IF j < i THEN list[j] ELSE list[j + 1]
    <2>1. CASE j < i
      <3>1. j \in 1 .. i - 1 /\ j <= i - 1
        BY <1>1, <2>1
      <3> QED
        BY <1>2, <1>5, <2>1, <3>1
    <2>2. CASE ~(j < i)
      <3>1. /\ ~(j <= i - 1)
            /\ j - (i - 1) \in 1 .. Len(list) - i
            /\ (j - (i - 1)) + i = j + 1
        BY <1>1, <2>2
      <3>2. back[j - (i - 1)] = list[j + 1]
        BY <1>3, <3>1
      <3> QED
        BY <1>5, <2>2, <3>1, <3>2
    <2> QED
      BY <2>1, <2>2
  <1> QED
    BY <1>4, <1>5, <1>6, LenProperties

\* Unlinking one entry keeps every other.
LEMMA WithoutKeeps ==
  ASSUME NEW S, NEW list \in Seq(S), NEW i \in DOMAIN list,
         NEW k \in DOMAIN list, list[k] # list[i]
  PROVE  \E j \in DOMAIN Without(list, i) : Without(list, i)[j] = list[k]
  <1>1. /\ Len(list) \in Nat /\ i \in 1 .. Len(list) /\ k \in 1 .. Len(list) /\ k # i
    BY LenProperties
  <1>2. CASE k < i
    <2>1. k \in 1 .. Len(list) - 1
      BY <1>1, <1>2
    <2> QED
      BY <1>2, <2>1, WithoutElements
  <1>3. CASE ~(k < i)
    <2>1. k - 1 \in 1 .. Len(list) - 1 /\ ~(k - 1 < i) /\ (k - 1) + 1 = k
      BY <1>1, <1>3
    <2> QED
      BY <2>1, WithoutElements
  <1> QED
    BY <1>2, <1>3

\* A notification function keeps the list a list of registrations and the
\* entry the walk is on in it.
LEMMA NotifyFunctionKeeps ==
  ASSUME TypeOK, CursorRegistered, cbPc = "walk", cursor # NoEntry,
         NotifyFunction
  PROVE  NotifyList' \in Seq(Registrations) /\ cursor \in Registered'
  <1>1. NotifyList \in Seq(Registrations) /\ cursor \in Registered
    BY DEF TypeOK, CursorRegistered
  <1>2. CASE UNCHANGED NotifyList
    BY <1>1, <1>2 DEF Registered
  <1>3. ASSUME NEW r \in Registrations, RegisterKeyNotify(r)
        PROVE  NotifyList' \in Seq(Registrations) /\ cursor \in Registered'
    BY <1>1, <1>3, AppendProperties, LenProperties DEF RegisterKeyNotify, Registered
  <1>4. ASSUME NEW r \in Registrations \ {cursor}, UnregisterKeyNotify(r)
        PROVE  NotifyList' \in Seq(Registrations) /\ cursor \in Registered'
    <2>1. PICK i \in DOMAIN NotifyList : NotifyList[i] = r /\ NotifyList' = Without(NotifyList, i)
      BY <1>4 DEF UnregisterKeyNotify
    <2>2. PICK k \in DOMAIN NotifyList : NotifyList[k] = cursor
      BY <1>1 DEF Registered
    <2>3. PICK j \in DOMAIN NotifyList' : NotifyList'[j] = cursor
      BY <1>1, <1>4, <2>1, <2>2, WithoutKeeps
    <2> QED
      BY <1>1, <2>1, <2>3, WithoutType DEF Registered
  <1> QED
    BY <1>2, <1>3, <1>4 DEF NotifyFunction, ReadKeyStroke

\* Neither the device, nor a poll, nor most calls touch the list or its walk.
LEMMA NoListChange ==
  ASSUME Host \/ TimerTick \/ Poll \/ (App /\ UNCHANGED NotifyList)
  PROVE  UNCHANGED <<cbVars, NotifyList>>
  <1>1. CASE Host \/ TimerTick \/ Poll
    BY <1>1 DEF Host, HostPress, HostRelease, HostOther, Produce, TimerTick, StartPoll,
                Poll, PollType, PollCode, PollValue, PollBreak
  <1>2. CASE App /\ UNCHANGED NotifyList
    BY <1>2 DEF App, AppReturn, AppReadKeyStroke, AppReadKeyStrokeEx, AppRegister,
                AppUnregister, AppReset, AppResetStore, AppResetDrain,
                AppCheckSignalled, AppCheckPoll, AppCheckDone, AppRaiseTPL,
                AppRestoreTPL, StartPoll
  <1> QED
    BY <1>1, <1>2

\* The types, which also say that every buffered and dispatched key is one
\* that ConvertKeyCode can yield.
\* The walk relies on its cursor being an entry, so the two go together.
THEOREM ListSafe == Spec => [](TypeOK /\ CursorRegistered)
  <1> USE CodesArePositive, OtherTypesAssumption, MaxEventsAssumption
  <1>0. ASSUME Init PROVE TypeOK /\ CursorRegistered
    <2>1. ZeroKeyData \in [Key : InputKeys, KeyState : KeyStates] /\ NullKey \in InputKeys
      BY DEF ZeroKeyData, InputKeys, KeyStates
    <2>2. 0 \in Words /\ "run" \in AppPcs
      BY DEF Words, AppPcs
    <2>3. <<>> \in Seq(Words) /\ <<>> \in Seq(Registrations)
      BY EmptySeq
    <2>4. 0 \in 0 .. MaxEvents
      OBVIOUS
    <2>5. signalled \in [WaitEvents -> BOOLEAN]
      BY <1>0 DEF Init
    <2>6. TypeOK
      BY <1>0, <2>1, <2>2, <2>3, <2>4, <2>5 DEF Init, TypeOK
    <2> QED
      BY <1>0, <2>6 DEF Init, CursorRegistered
  <1>1. ASSUME TypeOK, CursorRegistered, [Next]_vars PROVE TypeOK'
    <2>1. ASSUME NEW c \in Codes, HostPress(c) PROVE TypeOK'
      BY SMTT(30), <1>1, <2>1 DEF TypeOK, HostPress, Produce, Words, EV_KEY, deviceVars, bufferVars, eventVars, pollVars, cbVars, appVars, stampVars
    <2>2. ASSUME NEW c \in Codes, HostRelease(c) PROVE TypeOK'
      BY <1>1, <2>2 DEF TypeOK, HostRelease, Produce, Words, EV_KEY, deviceVars, bufferVars, eventVars, pollVars, cbVars, appVars, stampVars
    <2>3. ASSUME NEW t \in OtherTypes, NEW c \in Codes, HostOther(t, c, 1) PROVE TypeOK'
      BY <1>1, <2>3 DEF TypeOK, HostOther, Produce, Words, EV_KEY, deviceVars, bufferVars, eventVars, pollVars, cbVars, appVars, stampVars
    <2>4. ASSUME TimerTick PROVE TypeOK'
      BY <1>1, <2>4 DEF TypeOK, TimerTick, StartPoll, deviceVars, bufferVars, eventVars, pollVars, cbVars, appVars, stampVars
    <2>5. ASSUME PollType PROVE TypeOK'
      BY <1>1, <2>5, WordTypes DEF TypeOK, PollType, deviceVars, bufferVars, eventVars, pollVars, cbVars, appVars, stampVars
    <2>6. ASSUME PollCode PROVE TypeOK'
      BY <1>1, <2>6, WordTypes DEF TypeOK, PollCode, deviceVars, bufferVars, eventVars, pollVars, cbVars, appVars, stampVars
    <2>7. ASSUME PollValue PROVE TypeOK'
      <3> DEFINE k == KeyOf(mods, pollCode, NextWord = 1)
      <3>1. mods' \in SUBSET Modifiers
        BY <1>1, <2>7, ModifiersAfterType DEF TypeOK, PollValue
      <3>2. k \in InputKeys /\ BuildKeyState(mods') \in KeyStates
        BY <1>1, <3>1, KeyOfType DEF TypeOK, KeyStates
      <3>3. /\ Key' \in InputKeys /\ KeyReady' \in BOOLEAN
            /\ NotifyKeyData' \in [Key : InputKeys, KeyState : KeyStates]
            /\ NotifyKeyReady' \in BOOLEAN /\ HaveNotify' \in BOOLEAN
            /\ stamp' \in Nat /\ keyStamp' \in Nat /\ notifyStamp' \in Nat
            /\ lastRead' \in Nat /\ lastNotified' \in Nat
        <4>1. CASE DiscardKey
          BY <1>1, <4>1 DEF TypeOK, DiscardKey, stampVars
        <4>2. CASE BufferKey(k)
          BY <1>1, <4>2, <3>2 DEF TypeOK, BufferKey
        <4> QED
          BY <2>7, <4>1, <4>2 DEF PollValue
      <3>4. devq' \in Seq(Words) /\ held' = held /\ produced' = produced
        BY <1>1, <2>7, WordTypes DEF PollValue
      <3>5. 0 \in Words
        BY DEF Words
      <3> QED
        BY <1>1, <2>7, <3>1, <3>3, <3>4, <3>5
           DEF TypeOK, PollValue, eventVars, cbVars, appVars
    <2>8. ASSUME PollBreak PROVE TypeOK'
      BY <1>1, <2>8, WordTypes DEF TypeOK, PollBreak, SignalsNotify, Signals, deviceVars, bufferVars, eventVars, pollVars, cbVars, appVars, stampVars
    <2>9. ASSUME CbDispatch PROVE TypeOK'
      BY <1>1, <2>9 DEF TypeOK, CbDispatch, deviceVars, bufferVars, eventVars, pollVars, cbVars, appVars, stampVars
    <2>10. ASSUME CbDequeue PROVE TypeOK'
      <3>1. FirstEntry \in Registrations \cup {NoEntry}
        BY <1>1, HeadTailProperties DEF TypeOK, FirstEntry
      <3>2. CASE NotifyKeyReady
        BY <1>1, <2>10, <3>1, <3>2 DEF TypeOK, CbDequeue, DequeueKey, deviceVars, eventVars, pollVars, appVars
      <3>3. CASE ~NotifyKeyReady
        BY <1>1, <2>10, <3>3 DEF TypeOK, CbDequeue, DequeueKey, deviceVars, eventVars, pollVars, appVars
      <3> QED
        BY <3>2, <3>3
    <2>11. ASSUME CbReturn PROVE TypeOK'
      BY <1>1, <2>11 DEF TypeOK, CbReturn, ZeroKeyData, InputKeys, KeyStates, deviceVars, bufferVars, eventVars, pollVars, cbVars, appVars, stampVars
    <2>12. ASSUME AppReadKeyStrokeEx PROVE TypeOK'
      BY <1>1, <2>12 DEF TypeOK, AppReadKeyStrokeEx, AppPcs, deviceVars, bufferVars, eventVars, pollVars, cbVars, appVars, stampVars
    <2>13. ASSUME AppResetStore PROVE TypeOK'
      BY <1>1, <2>13 DEF TypeOK, AppResetStore, AppPcs, ResetNext, DrainNext, ZeroKeyData, InputKeys, KeyStates, deviceVars, bufferVars, eventVars, pollVars, cbVars, appVars, stampVars
    <2>14. ASSUME AppResetDrain PROVE TypeOK'
      <3>1. appPc' \in AppPcs
        BY <2>14 DEF AppResetDrain, AppPcs, DrainNext
      <3>2. /\ devq' \in Seq(Words) /\ held' = held /\ produced' = produced
            /\ UNCHANGED <<bufferVars, NotifyList, eventVars, pollVars, cbVars, appTpl, stampVars,
                           deafStamp>>
        BY <1>1, <2>14, WordTypes DEF AppResetDrain
      <3> QED
        BY <1>1, <3>1, <3>2 DEF TypeOK, bufferVars, eventVars, pollVars, cbVars, stampVars
    <2>15. ASSUME AppCheckDone PROVE TypeOK'
      BY <1>1, <2>15 DEF TypeOK, AppCheckDone, AppPcs, deviceVars, bufferVars, eventVars, pollVars, cbVars, appVars, stampVars
    <2>16. ASSUME AppReadKeyStroke("ReadKeyStroke", "run") PROVE TypeOK'
      BY <1>1, <2>16 DEF TypeOK, AppReadKeyStroke, ReadKeyStroke, AppPcs, deviceVars, bufferVars, eventVars, pollVars, cbVars, appVars, stampVars
    <2>17. ASSUME AppReadKeyStroke("ReadKeyStrokeEx", "buildKeyState") PROVE TypeOK'
      BY <1>1, <2>17 DEF TypeOK, AppReadKeyStroke, ReadKeyStroke, AppPcs, deviceVars, bufferVars, eventVars, pollVars, cbVars, appVars, stampVars
    <2>18. ASSUME AppReset PROVE TypeOK'
      BY <1>1, <2>18 DEF TypeOK, AppReset, AppPcs, ResetNext, deviceVars, bufferVars, eventVars, pollVars, cbVars, appVars, stampVars
    <2>19. ASSUME NEW r \in Registrations, AppRegister(r) PROVE TypeOK'
      BY <1>1, <2>19 DEF TypeOK, AppRegister, RegisterKeyNotify, deviceVars, bufferVars, eventVars, pollVars, cbVars, appVars, stampVars
    <2>20. ASSUME NEW r \in Registrations, AppUnregister(r) PROVE TypeOK'
      BY <1>1, <2>20, WithoutType DEF TypeOK, AppUnregister, UnregisterKeyNotify, deviceVars, bufferVars, eventVars, pollVars, cbVars, appVars, stampVars
    <2>21. ASSUME NEW e \in WaitEvents, AppCheckSignalled(e) PROVE TypeOK'
      BY <1>1, <2>21 DEF TypeOK, AppCheckSignalled, deviceVars, bufferVars, eventVars, pollVars, cbVars, appVars, stampVars
    <2>22. ASSUME NEW e \in WaitEvents, AppCheckPoll(e) PROVE TypeOK'
      BY <1>1, <2>22 DEF TypeOK, AppCheckPoll, StartPoll, AppPcs, deviceVars, bufferVars, eventVars, pollVars, cbVars, appVars, stampVars
    <2>23. ASSUME AppRaiseTPL PROVE TypeOK'
      BY <1>1, <2>23 DEF TypeOK, AppRaiseTPL, deviceVars, bufferVars, eventVars, pollVars, cbVars, appVars, stampVars
    <2>24. ASSUME AppRestoreTPL PROVE TypeOK'
      BY <1>1, <2>24 DEF TypeOK, AppRestoreTPL, deviceVars, bufferVars, eventVars, pollVars, cbVars, appVars, stampVars
    <2>30. ASSUME CbVisit PROVE TypeOK'
      <3>1. NotifyList' \in Seq(Registrations) /\ cursor \in Registered'
        <4>1. CASE NotifyFunction
          BY <1>1, <2>30, <4>1, NotifyFunctionKeeps DEF CbVisit
        <4>2. CASE UNCHANGED NotifyList
          BY <1>1, <2>30, <4>2 DEF TypeOK, CursorRegistered, Registered, CbVisit
        <4> QED
          BY <2>30, <4>1, <4>2 DEF CbVisit
      <3>2. /\ UNCHANGED <<mods, Key, NotifyKeyData, NotifyKeyReady, stamp, keyStamp,
                           notifyStamp, lastNotified>>
            /\ KeyReady' \in BOOLEAN /\ lastRead' \in Nat /\ deafStamp' \in Nat
        BY <1>1, <2>30
           DEF TypeOK, CbVisit, NotifyFunction, ReadKeyStroke, RegisterKeyNotify,
               UnregisterKeyNotify, bufferVars, stampVars
      <3>3. cursor' \in Registered' \cup {NoEntry}
        BY <2>30, <3>1, EntryAfterType DEF CbVisit, Registered
      <3>4. cursor' \in Registrations \cup {NoEntry}
        BY <3>1, <3>3, ElementOfSeq, LenProperties DEF Registered
      <3> QED
        BY <1>1, <2>30, <3>1, <3>2, <3>4 DEF TypeOK, CbVisit, deviceVars, eventVars, pollVars, appVars
    <2>31. CASE UNCHANGED vars
      BY <1>1, <2>31 DEF TypeOK, vars, deviceVars, bufferVars, eventVars, pollVars, cbVars, appVars, stampVars
    <2> QED
      BY <1>1, <2>1, <2>2, <2>3, <2>4, <2>5, <2>6, <2>7, <2>8, <2>9, <2>10, <2>11, <2>12, <2>13, <2>14, <2>15, <2>16, <2>17, <2>18, <2>19, <2>20, <2>21, <2>22, <2>23, <2>24, <2>30, <2>31 DEF Next, Host, Poll, Callback, App, AppReturn
  <1>2. ASSUME TypeOK, CursorRegistered, [Next]_vars PROVE CursorRegistered'
    <2>1. CASE CbVisit
      <3>1. cursor \in Registered' /\ NotifyList' \in Seq(Registrations)
        <4>1. CASE NotifyFunction
          BY <1>2, <2>1, <4>1, NotifyFunctionKeeps DEF CbVisit
        <4>2. CASE UNCHANGED NotifyList
          BY <1>2, <2>1, <4>2 DEF TypeOK, CursorRegistered, Registered, CbVisit
        <4> QED
          BY <2>1, <4>1, <4>2 DEF CbVisit
      <3> QED
        BY <2>1, <3>1, EntryAfterType DEF CbVisit, CursorRegistered, Registered
    <2>2. CASE CbDequeue
      <3>1. NotifyList = <<>> \/ (1 \in DOMAIN NotifyList /\ Head(NotifyList) = NotifyList[1])
        BY <1>2, LenProperties, EmptySeq DEF TypeOK
      <3> QED
        BY <1>2, <2>2, <3>1 DEF CbDequeue, CursorRegistered, Registered, FirstEntry
    <2>3. CASE CbDispatch \/ CbReturn
      BY <2>3 DEF CbDispatch, CbReturn, CursorRegistered
    <2>4. CASE App /\ ~UNCHANGED NotifyList
      <3>1. cbPc = "idle" /\ cbPc' = cbPc
        BY <2>4 DEF App, AppReturn, AppReadKeyStroke, AppReadKeyStrokeEx, AppRegister, AppUnregister,
                    AppReset, AppResetStore, AppResetDrain, AppCheckSignalled,
                    AppCheckPoll, AppCheckDone, AppRaiseTPL, AppRestoreTPL,
                    StartPoll, ReadKeyStroke, AppMayCall, AppMayRun, cbVars
      <3> QED
        BY <3>1 DEF CursorRegistered
    <2>5. CASE UNCHANGED <<cbVars, NotifyList>>
      BY <1>2, <2>5 DEF CursorRegistered, Registered, cbVars
    <2> QED
      BY <1>2, <2>1, <2>2, <2>3, <2>4, <2>5, NoListChange DEF Next, Callback, vars
  <1> QED
    BY <1>0, <1>1, <1>2, PTL DEF Spec

\* Every state of the driver is well typed.
THEOREM TypeCorrect == Spec => []TypeOK
  BY ListSafe, PTL

\* No entry of the notify list is freed under KeyNotifyProcessHandler's walk.
THEOREM CursorAlwaysRegistered == Spec => []CursorRegistered
  BY ListSafe, PTL

\* Unlinking keeps the entries distinct.
LEMMA WithoutDistinct ==
  ASSUME NEW S, NEW list \in Seq(S), NEW i \in DOMAIN list,
         \A j, k \in DOMAIN list : list[j] = list[k] => j = k
  PROVE  \A j, k \in DOMAIN Without(list, i) :
           Without(list, i)[j] = Without(list, i)[k] => j = k
  <1> DEFINE Old(j) == IF j < i THEN j ELSE j + 1
  <1>1. /\ Len(list) \in Nat /\ DOMAIN list = 1 .. Len(list) /\ i \in 1 .. Len(list)
    BY LenProperties
  <1>2. \A j \in 1 .. Len(list) - 1 : Old(j) \in DOMAIN list
    BY <1>1
  <1>3. \A j \in 1 .. Len(list) - 1 : Without(list, i)[j] = list[Old(j)]
    BY WithoutElements
  <1>4. \A j, k \in 1 .. Len(list) - 1 : Old(j) = Old(k) => j = k
    BY <1>1
  <1>5. DOMAIN Without(list, i) = 1 .. Len(list) - 1
    BY WithoutElements
  <1> HIDE DEF Old
  <1> QED
    BY <1>2, <1>3, <1>4, <1>5

\* RegisterKeyNotify adds only what is not in the list.
LEMMA RegistrationsKept ==
  ASSUME TypeOK, RegistrationsDistinct, NEW r \in Registrations,
         RegisterKeyNotify(r) \/ UnregisterKeyNotify(r)
  PROVE  RegistrationsDistinct'
  <1>1. /\ NotifyList \in Seq(Registrations) /\ Len(NotifyList) \in Nat
        /\ DOMAIN NotifyList = 1 .. Len(NotifyList)
    BY LenProperties DEF TypeOK
  <1>2. CASE UnregisterKeyNotify(r)
    BY <1>1, <1>2, WithoutDistinct DEF UnregisterKeyNotify, RegistrationsDistinct
  <1>3. CASE RegisterKeyNotify(r)
    <2>1. r \notin Registered /\ NotifyList' = Append(NotifyList, r)
      BY <1>3 DEF RegisterKeyNotify
    <2>2. /\ DOMAIN NotifyList' = 1 .. Len(NotifyList) + 1
          /\ \A j \in 1 .. Len(NotifyList) : NotifyList'[j] = NotifyList[j]
          /\ NotifyList'[Len(NotifyList) + 1] = r
      BY <1>1, <2>1, AppendProperties, LenProperties
    <2>3. \A j \in 1 .. Len(NotifyList) : NotifyList'[j] # r
      BY <1>1, <2>1, <2>2 DEF Registered
    <2>4. \A j \in DOMAIN NotifyList' :
            j \in 1 .. Len(NotifyList) \/ j = Len(NotifyList) + 1
      BY <1>1, <2>2
    <2> QED
      BY <1>1, <2>2, <2>3, <2>4 DEF RegistrationsDistinct
  <1> QED
    BY <1>2, <1>3

\* A pair of a key and a function is registered at most once, whoever registers
\* it: the application, or a function in the middle of a walk.
THEOREM RegistrationsAlwaysDistinct == Spec => []RegistrationsDistinct
  <1>1. Init => RegistrationsDistinct
    BY DEF Init, RegistrationsDistinct
  <1>2. TypeOK /\ RegistrationsDistinct /\ [Next]_vars => RegistrationsDistinct'
    <2> SUFFICES ASSUME TypeOK, RegistrationsDistinct, [Next]_vars
                 PROVE  RegistrationsDistinct'
      OBVIOUS
    <2>1. CASE UNCHANGED NotifyList
      BY <2>1 DEF RegistrationsDistinct
    <2>2. CASE CbVisit
      BY <2>1, <2>2, RegistrationsKept DEF CbVisit, NotifyFunction, ReadKeyStroke
    <2>3. CASE App /\ ~UNCHANGED NotifyList
      <3>1. \E r \in Registrations : AppRegister(r) \/ AppUnregister(r)
        BY <2>3 DEF App, AppReturn, AppReadKeyStroke, AppReadKeyStrokeEx, AppReset,
                    AppResetStore, AppResetDrain, AppCheckSignalled, AppCheckPoll,
                    AppCheckDone, AppRaiseTPL, AppRestoreTPL, ReadKeyStroke, StartPoll
      <3> QED
        BY <3>1, RegistrationsKept DEF AppRegister, AppUnregister
    <2>4. CASE CbDispatch \/ CbDequeue \/ CbReturn
      BY <2>1, <2>4 DEF CbDispatch, CbDequeue, CbReturn, DequeueKey
    <2>5. CASE UNCHANGED vars
      BY <2>1, <2>5 DEF vars
    <2> QED
      BY <2>1, <2>2, <2>3, <2>4, <2>5, NoListChange DEF Next, Callback
  <1> QED
    BY <1>1, <1>2, TypeCorrect, PTL DEF Spec

-----------------------------------------------------------------------------
\* Adding an event to the stream keeps every phase.
LEMMA ModThree ==
  ASSUME NEW n \in Nat
  PROVE  /\ (n + 3) % 3 = n % 3
         /\ n % 3 = 0 /\ n # 0 => (n - 1) % 3 = 2
         /\ n % 3 = 2 => n # 0 /\ (n - 1) % 3 = 1
         /\ n % 3 = 1 => n # 0 /\ (n - 1) % 3 = 0
  OBVIOUS

\* Reading a word keeps zeros at the end of their events, and a zero that is
\* read ends its event.
LEMMA ReadWordKeeps ==
  ASSUME TypeOK, ZeroEndsEvent, ReadWord
  PROVE  /\ ZeroEndsEvent'
         /\ Len(devq) \in Nat
         /\ devq = <<>> => Len(devq') = 0
         /\ devq # <<>> => Len(devq) # 0 /\ Len(devq') = Len(devq) - 1
         /\ NextWord = 0 => Len(devq') % 3 = 0
         /\ NextWord # 0 => devq # <<>>
  <1>1. devq \in Seq(Words)
    BY DEF TypeOK
  <1>2. CASE devq = <<>>
    BY <1>2, EmptySeq DEF ReadWord, NextWord, ZeroEndsEvent
  <1>3. CASE devq # <<>>
    <2> DEFINE n == Len(devq)
    <2>1. /\ n \in Nat \ {0}
          /\ devq' \in Seq(Words)
          /\ Len(devq') = n - 1
          /\ DOMAIN devq = 1 .. n
          /\ DOMAIN devq' = 1 .. n - 1
          /\ \A i \in 1 .. n - 1 : devq'[i] = devq[i + 1]
      BY <1>1, <1>3, HeadTailProperties, LenProperties, EmptySeq DEF ReadWord
    <2>2. ZeroEndsEvent'
      <3> SUFFICES ASSUME NEW i \in 1 .. n - 1, devq'[i] = 0
                   PROVE  ((n - 1) - i) % 3 = 0
        BY <2>1 DEF ZeroEndsEvent
      <3>1. i + 1 \in 1 .. n /\ devq[i + 1] = 0 /\ n - (i + 1) = (n - 1) - i
        BY <2>1
      <3> QED
        BY <2>1, <3>1 DEF ZeroEndsEvent
    <2>3. NextWord = 0 => (n - 1) % 3 = 0
      <3>1. NextWord = devq[1] /\ 1 \in 1 .. n
        BY <1>1, <1>3, <2>1 DEF NextWord
      <3> QED
        BY <2>1, <3>1 DEF ZeroEndsEvent
    <2> QED
      BY <1>3, <2>1, <2>2, <2>3
  <1> QED
    BY <1>2, <1>3

\* A new event ends in the only word of it that may be zero.
LEMMA ProduceKeeps ==
  ASSUME TypeOK, ZeroEndsEvent, NEW t \in Words \ {0}, NEW c \in Words \ {0},
         NEW v \in Words, Produce(t, c, v)
  PROVE  ZeroEndsEvent' /\ Len(devq') % 3 = Len(devq) % 3
  <1> DEFINE n == Len(devq)
  <1>1. devq \in Seq(Words) /\ n \in Nat /\ DOMAIN devq = 1 .. n
    BY LenProperties DEF TypeOK
  <1>2. /\ devq' \in Seq(Words)
        /\ Len(devq') = n + 3
        /\ DOMAIN devq' = 1 .. n + 3
        /\ \A i \in 1 .. n : devq'[i] = devq[i]
        /\ devq'[n + 1] = t /\ devq'[n + 2] = c
    <2>1. <<t, c, v>> \in Seq(Words) /\ Len(<<t, c, v>>) = 3
      OBVIOUS
    <2>2. devq' = devq \o <<t, c, v>>
      BY DEF Produce
    <2> QED
      BY <1>1, <2>1, <2>2, ConcatProperties, LenProperties
  <1>3. ASSUME NEW i \in 1 .. n + 3, devq'[i] = 0
        PROVE  ((n + 3) - i) % 3 = 0
    <2>1. CASE i \in 1 .. n
      <3>1. devq[i] = 0 /\ n - i \in Nat /\ (n + 3) - i = (n - i) + 3
        BY <1>1, <1>2, <1>3, <2>1
      <3> QED
        BY <1>1, <2>1, <3>1, ModThree DEF ZeroEndsEvent
    <2>2. CASE i = n + 3
      BY <1>1, <2>2
    <2> QED
      BY <1>1, <1>2, <1>3, <2>1, <2>2
  <1> QED
    BY <1>1, <1>2, <1>3, ModThree DEF ZeroEndsEvent

\* The stream resynchronises by itself: once Reset has returned, every poll
\* starts at the first word of an event, whatever interrupted Reset.
THEOREM StreamAlwaysAligned == Spec => [](ZeroEndsEvent /\ StreamAligned)
  <1> DEFINE Inv == ZeroEndsEvent /\ StreamAligned
  <1>1. ASSUME Init PROVE Inv
    BY <1>1, EmptySeq DEF Init, ZeroEndsEvent, StreamAligned, DrainNext
  <1>2. ASSUME TypeOK, Inv, [Next]_vars PROVE Inv'
    <2>1. CASE Host
      <3> USE CodesArePositive, OtherTypesAssumption
      <3>1. PICK t \in Words \ {0}, c \in Words \ {0}, v \in Words : Produce(t, c, v)
        BY <2>1 DEF Host, HostPress, HostRelease, HostOther, Words, EV_KEY
      <3>2. ZeroEndsEvent' /\ Len(devq') % 3 = Len(devq) % 3
        BY <1>2, <3>1, ProduceKeeps
      <3> QED
        BY <1>2, <3>1, <3>2 DEF Produce, StreamAligned, appVars, pollVars
    <2>2. CASE PollType
      BY <1>2, <2>2, ReadWordKeeps, ModThree DEF PollType, StreamAligned, appVars
    <2>3. CASE PollCode
      BY <1>2, <2>3, ReadWordKeeps, ModThree DEF PollCode, StreamAligned, appVars
    <2>4. CASE PollValue
      BY <1>2, <2>4, ReadWordKeeps, ModThree DEF PollValue, StreamAligned, appVars
    <2>5. CASE PollBreak
      BY <1>2, <2>5, ReadWordKeeps, ModThree DEF PollBreak, StreamAligned, appVars
    <2>6. CASE AppResetDrain
      BY <1>2, <2>6, ReadWordKeeps
         DEF AppResetDrain, DrainDone, AppMayRun, StreamAligned, DrainNext, pollVars
    <2>7. CASE AppResetStore
      BY <1>2, <2>7
         DEF AppResetStore, AppMayRun, StreamAligned, ZeroEndsEvent, ResetNext, DrainNext,
             pollVars, deviceVars
    <2>8. CASE TimerTick \/ \E e \in WaitEvents : AppCheckPoll(e)
      BY <1>2, <2>8
         DEF TimerTick, AppCheckPoll, AppMayCall, StartPoll, StreamAligned, ZeroEndsEvent,
             DrainNext, WaitEvents, deviceVars
    <2>9. CASE AppReadKeyStrokeEx \/ AppCheckDone \/ AppReset \/ AppRaiseTPL \/ AppRestoreTPL
      BY <1>2, <2>9
         DEF AppReadKeyStrokeEx, AppCheckDone, AppReset, AppRaiseTPL, AppRestoreTPL,
             AppMayCall, AppMayRun, StreamAligned, ZeroEndsEvent, DrainNext, WaitEvents,
             deviceVars, pollVars
    <2>10. CASE \/ AppReadKeyStroke("ReadKeyStroke", "run")
                \/ AppReadKeyStroke("ReadKeyStrokeEx", "buildKeyState")
                \/ \E r \in Registrations : AppRegister(r) \/ AppUnregister(r)
                \/ \E e \in WaitEvents : AppCheckSignalled(e)
      BY <1>2, <2>10
         DEF AppReadKeyStroke, AppRegister, AppUnregister, AppCheckSignalled,
             AppMayCall, AppMayRun, StreamAligned, ZeroEndsEvent, DrainNext,
             deviceVars, pollVars, appVars
    <2>11. CASE Callback
      BY <1>2, <2>11
         DEF Callback, CbDispatch, CbDequeue, CbVisit, CbReturn, StreamAligned,
             ZeroEndsEvent, deviceVars, pollVars, appVars
    <2>12. CASE UNCHANGED vars
      BY <1>2, <2>12 DEF vars, StreamAligned, ZeroEndsEvent, deviceVars, pollVars, appVars
    <2> QED
      BY <1>2, <2>1, <2>2, <2>3, <2>4, <2>5, <2>6, <2>7, <2>8, <2>9, <2>10, <2>11,
         <2>12 DEF Next, Poll, App, AppReturn
  <1> QED
    BY <1>1, <1>2, TypeCorrect, PTL DEF Spec

-----------------------------------------------------------------------------
\* How the numbers of the keys relate: a buffered key is newer than every key
\* taken from its buffer, and no number is ahead of the count.
StampInv ==
  /\ keyStamp <= stamp /\ notifyStamp <= stamp
  /\ lastRead <= stamp /\ lastNotified <= stamp
  /\ KeyReady => lastRead < keyStamp
  /\ NotifyKeyReady => lastNotified < notifyStamp

\* The steps that leave both buffers, and every number, alone.
LEMMA BuffersUnchanged ==
  ASSUME [Next]_vars, ~PollValue, ~CbDequeue, ~CbVisit, ~AppResetStore,
         ~AppReadKeyStroke("ReadKeyStroke", "run"),
         ~AppReadKeyStroke("ReadKeyStrokeEx", "buildKeyState")
  PROVE  UNCHANGED <<KeyReady, NotifyKeyReady, stampVars>>
  <1>1. CASE Host \/ TimerTick \/ Poll \/ UNCHANGED vars
    BY <1>1 DEF Host, HostPress, HostRelease, HostOther, Produce, TimerTick, StartPoll,
                Poll, PollType, PollCode, PollBreak, bufferVars, vars
  <1>2. CASE Callback
    BY <1>2 DEF Callback, CbDispatch, CbReturn, bufferVars
  <1>3. CASE App
    BY <1>3 DEF App, AppReturn, AppReadKeyStrokeEx, AppRegister, AppUnregister,
                RegisterKeyNotify, UnregisterKeyNotify, AppReset, AppResetDrain,
                AppCheckSignalled, AppCheckPoll, AppCheckDone, AppRaiseTPL,
                AppRestoreTPL, StartPoll, bufferVars
  <1> QED
    BY <1>1, <1>2, <1>3 DEF Next

\* What each of the other steps does to the numbers and the two flags.
LEMMA BufferSteps ==
  ASSUME TypeOK
  PROVE  /\ PollValue =>
              \/ UNCHANGED <<KeyReady, NotifyKeyReady, stampVars>>
              \/ /\ stamp' = stamp + 1 /\ keyStamp' = stamp' /\ notifyStamp' = stamp'
                 /\ KeyReady' = TRUE /\ NotifyKeyReady' = TRUE
                 /\ UNCHANGED <<lastRead, lastNotified>>
         /\ CbDequeue =>
              /\ UNCHANGED <<KeyReady, stamp, keyStamp, notifyStamp, lastRead>>
              /\ NotifyKeyReady' = FALSE
              /\ lastNotified' = IF NotifyKeyReady THEN notifyStamp ELSE lastNotified
         /\ (\/ CbVisit
             \/ AppReadKeyStroke("ReadKeyStroke", "run")
             \/ AppReadKeyStroke("ReadKeyStrokeEx", "buildKeyState")) =>
              /\ UNCHANGED <<NotifyKeyReady, stamp, keyStamp, notifyStamp, lastNotified>>
              /\ \/ UNCHANGED <<KeyReady, lastRead>>
                 \/ KeyReady /\ KeyReady' = FALSE /\ lastRead' = keyStamp
         /\ AppResetStore =>
              /\ UNCHANGED stampVars
              /\ KeyReady' \in {KeyReady, FALSE}
              /\ NotifyKeyReady' \in {NotifyKeyReady, FALSE}
  <1>1. PollValue =>
          \/ UNCHANGED <<KeyReady, NotifyKeyReady, stampVars>>
          \/ /\ stamp' = stamp + 1 /\ keyStamp' = stamp' /\ notifyStamp' = stamp'
             /\ KeyReady' = TRUE /\ NotifyKeyReady' = TRUE
             /\ UNCHANGED <<lastRead, lastNotified>>
    BY DEF PollValue, DiscardKey, BufferKey
  <1>2. CbDequeue =>
          /\ UNCHANGED <<KeyReady, stamp, keyStamp, notifyStamp, lastRead>>
          /\ NotifyKeyReady' = FALSE
          /\ lastNotified' = IF NotifyKeyReady THEN notifyStamp ELSE lastNotified
    BY DEF TypeOK, CbDequeue, DequeueKey
  <1>3. (\/ CbVisit
         \/ AppReadKeyStroke("ReadKeyStroke", "run")
         \/ AppReadKeyStroke("ReadKeyStrokeEx", "buildKeyState")) =>
          /\ UNCHANGED <<NotifyKeyReady, stamp, keyStamp, notifyStamp, lastNotified>>
          /\ \/ UNCHANGED <<KeyReady, lastRead>>
             \/ KeyReady /\ KeyReady' = FALSE /\ lastRead' = keyStamp
    BY DEF CbVisit, NotifyFunction, RegisterKeyNotify, UnregisterKeyNotify,
           AppReadKeyStroke, ReadKeyStroke, bufferVars, stampVars
  <1>4. AppResetStore =>
          /\ UNCHANGED stampVars
          /\ KeyReady' \in {KeyReady, FALSE}
          /\ NotifyKeyReady' \in {NotifyKeyReady, FALSE}
    BY DEF TypeOK, AppResetStore
  <1> QED
    BY <1>1, <1>2, <1>3, <1>4

\* The numbers of the keys in the buffers are in typing order.
LEMMA StampsOrdered == Spec => []StampInv
  <1>1. Init => StampInv
    BY DEF Init, StampInv
  <1>2. TypeOK /\ StampInv /\ [Next]_vars => StampInv'
    <2> SUFFICES ASSUME TypeOK, StampInv, [Next]_vars PROVE StampInv'
      OBVIOUS
    <2>0. /\ stamp \in Nat /\ keyStamp \in Nat /\ notifyStamp \in Nat
          /\ lastRead \in Nat /\ lastNotified \in Nat
      BY DEF TypeOK
    <2>1. CASE PollValue
      <3>1. CASE UNCHANGED <<KeyReady, NotifyKeyReady, stampVars>>
        BY <3>1 DEF StampInv, stampVars
      <3>2. CASE /\ stamp' = stamp + 1 /\ keyStamp' = stamp' /\ notifyStamp' = stamp'
                 /\ KeyReady' = TRUE /\ NotifyKeyReady' = TRUE
                 /\ UNCHANGED <<lastRead, lastNotified>>
        BY <2>0, <3>2 DEF StampInv
      <3> QED
        BY <2>1, <3>1, <3>2, BufferSteps
    <2>2. CASE CbDequeue
      BY <2>0, <2>2, BufferSteps DEF StampInv
    <2>3. CASE \/ CbVisit
               \/ AppReadKeyStroke("ReadKeyStroke", "run")
               \/ AppReadKeyStroke("ReadKeyStrokeEx", "buildKeyState")
      BY <2>0, <2>3, BufferSteps DEF StampInv
    <2>4. CASE AppResetStore
      BY <2>0, <2>4, BufferSteps DEF StampInv, stampVars
    <2>5. CASE UNCHANGED <<KeyReady, NotifyKeyReady, stampVars>>
      BY <2>5 DEF StampInv, stampVars
    <2> QED
      BY <2>1, <2>2, <2>3, <2>4, <2>5, BuffersUnchanged
  <1> QED
    BY <1>1, <1>2, TypeCorrect, PTL DEF Spec

\* Keys leave the read buffer once and in typing order: ReadKeyStroke and
\* ReadKeyStrokeEx implement the mailbox, preempted by any poll.
THEOREM ReadRefines == Spec => ReadMailboxSpec
  <1>1. Init => ReadMailbox!Init
    BY DEF Init, ReadMailbox!Init
  <1>2. TypeOK /\ StampInv /\ [Next]_vars => [ReadMailbox!Next]_ReadMailbox!vars
    <2> SUFFICES ASSUME TypeOK, StampInv, [Next]_vars
                 PROVE  [ReadMailbox!Next]_ReadMailbox!vars
      OBVIOUS
    <2> USE DEF ReadMailbox!Next, ReadMailbox!vars, ReadMailbox!Put, ReadMailbox!Take,
                ReadMailbox!Clear
    <2>0. stamp \in Nat /\ keyStamp \in Nat /\ lastRead \in Nat
      BY DEF TypeOK
    <2>1. CASE PollValue
      <3>1. CASE UNCHANGED <<KeyReady, NotifyKeyReady, stampVars>>
        BY <3>1 DEF StampInv, stampVars
      <3>2. CASE /\ stamp' = stamp + 1 /\ keyStamp' = stamp' /\ notifyStamp' = stamp'
                 /\ KeyReady' = TRUE /\ NotifyKeyReady' = TRUE
                 /\ UNCHANGED <<lastRead, lastNotified>>
        BY <2>0, <3>2 DEF StampInv
      <3> QED
        BY <2>1, <3>1, <3>2, BufferSteps
    <2>2. CASE CbDequeue
      BY <2>2, BufferSteps
    <2>3. CASE \/ CbVisit
               \/ AppReadKeyStroke("ReadKeyStroke", "run")
               \/ AppReadKeyStroke("ReadKeyStrokeEx", "buildKeyState")
      <3>1. \/ UNCHANGED <<KeyReady, keyStamp, lastRead>>
            \/ KeyReady /\ KeyReady' = FALSE /\ lastRead' = keyStamp /\ keyStamp' = keyStamp
        BY <2>3, BufferSteps
      <3>2. CASE UNCHANGED <<KeyReady, keyStamp, lastRead>>
        BY <3>2
      <3>3. CASE KeyReady /\ KeyReady' = FALSE /\ lastRead' = keyStamp /\ keyStamp' = keyStamp
        BY <2>0, <3>3 DEF StampInv
      <3> QED
        BY <3>1, <3>2, <3>3
    <2>4. CASE AppResetStore
      BY <2>4, BufferSteps DEF stampVars
    <2>5. CASE UNCHANGED <<KeyReady, NotifyKeyReady, stampVars>>
      BY <2>5 DEF stampVars
    <2> QED
      BY <2>1, <2>2, <2>3, <2>4, <2>5, BuffersUnchanged
  <1> QED
    BY <1>1, <1>2, TypeCorrect, StampsOrdered, PTL
       DEF Spec, ReadMailboxSpec, ReadMailbox!Spec

\* A key is dispatched at most once and in typing order: the notify buffer is
\* a mailbox too, whatever the uninitialised HaveNotify signals.
THEOREM NotifyRefines == Spec => NotifyMailboxSpec
  <1>1. Init => NotifyMailbox!Init
    BY DEF Init, NotifyMailbox!Init
  <1>2. TypeOK /\ StampInv /\ [Next]_vars => [NotifyMailbox!Next]_NotifyMailbox!vars
    <2> SUFFICES ASSUME TypeOK, StampInv, [Next]_vars
                 PROVE  [NotifyMailbox!Next]_NotifyMailbox!vars
      OBVIOUS
    <2> USE DEF NotifyMailbox!Next, NotifyMailbox!vars, NotifyMailbox!Put,
                NotifyMailbox!Take, NotifyMailbox!Clear
    <2>0. stamp \in Nat /\ notifyStamp \in Nat /\ lastNotified \in Nat
      BY DEF TypeOK
    <2>1. CASE PollValue
      <3>1. CASE UNCHANGED <<KeyReady, NotifyKeyReady, stampVars>>
        BY <3>1 DEF StampInv, stampVars
      <3>2. CASE /\ stamp' = stamp + 1 /\ keyStamp' = stamp' /\ notifyStamp' = stamp'
                 /\ KeyReady' = TRUE /\ NotifyKeyReady' = TRUE
                 /\ UNCHANGED <<lastRead, lastNotified>>
        BY <2>0, <3>2 DEF StampInv
      <3> QED
        BY <2>1, <3>1, <3>2, BufferSteps
    <2>2. CASE CbDequeue
      BY <2>0, <2>2, BufferSteps DEF StampInv
    <2>3. CASE \/ CbVisit
               \/ AppReadKeyStroke("ReadKeyStroke", "run")
               \/ AppReadKeyStroke("ReadKeyStrokeEx", "buildKeyState")
      BY <2>3, BufferSteps
    <2>4. CASE AppResetStore
      BY <2>4, BufferSteps DEF stampVars
    <2>5. CASE UNCHANGED <<KeyReady, NotifyKeyReady, stampVars>>
      BY <2>5 DEF stampVars
    <2> QED
      BY <2>1, <2>2, <2>3, <2>4, <2>5, BuffersUnchanged
  <1> QED
    BY <1>1, <1>2, TypeCorrect, StampsOrdered, PTL
       DEF Spec, NotifyMailboxSpec, NotifyMailbox!Spec

\* A mailbox never holds a key at or before one already taken, so that no key is
\* taken twice and none after a newer one: the keys that ReadKeyStroke returns.
LEMMA ReadInOrder == ReadMailboxSpec => ReadMailbox!TakenInOrder
  <1> USE DEF ReadMailbox!TypeOK, ReadMailbox!Fresh, ReadMailbox!Next, ReadMailbox!vars, ReadMailbox!Put,
              ReadMailbox!Take, ReadMailbox!Clear
  <1>1. ReadMailbox!Init => ReadMailbox!TypeOK /\ ReadMailbox!Fresh
    BY DEF ReadMailbox!Init
  <1>2. ReadMailbox!TypeOK /\ ReadMailbox!Fresh /\ [ReadMailbox!Next]_ReadMailbox!vars
        => (ReadMailbox!TypeOK /\ ReadMailbox!Fresh)'
    OBVIOUS
  <1>3. ReadMailbox!TypeOK /\ ReadMailbox!Fresh /\ [ReadMailbox!Next]_ReadMailbox!vars
        => [lastRead' # lastRead => lastRead' > lastRead]_ReadMailbox!vars
    OBVIOUS
  <1> QED
    BY <1>1, <1>2, <1>3, PTL DEF ReadMailboxSpec, ReadMailbox!Spec, ReadMailbox!TakenInOrder

\* A mailbox never holds a key at or before one already taken, so that no key is
\* taken twice and none after a newer one: the hot keys that are dispatched.
LEMMA NotifyInOrder == NotifyMailboxSpec => NotifyMailbox!TakenInOrder
  <1> USE DEF NotifyMailbox!TypeOK, NotifyMailbox!Fresh, NotifyMailbox!Next, NotifyMailbox!vars, NotifyMailbox!Put,
              NotifyMailbox!Take, NotifyMailbox!Clear
  <1>1. NotifyMailbox!Init => NotifyMailbox!TypeOK /\ NotifyMailbox!Fresh
    BY DEF NotifyMailbox!Init
  <1>2. NotifyMailbox!TypeOK /\ NotifyMailbox!Fresh /\ [NotifyMailbox!Next]_NotifyMailbox!vars
        => (NotifyMailbox!TypeOK /\ NotifyMailbox!Fresh)'
    OBVIOUS
  <1>3. NotifyMailbox!TypeOK /\ NotifyMailbox!Fresh /\ [NotifyMailbox!Next]_NotifyMailbox!vars
        => [lastNotified' # lastNotified => lastNotified' > lastNotified]_NotifyMailbox!vars
    OBVIOUS
  <1> QED
    BY <1>1, <1>2, <1>3, PTL DEF NotifyMailboxSpec, NotifyMailbox!Spec, NotifyMailbox!TakenInOrder

\* ReadKeyStroke and the dispatch of the hot keys each take a key at most once, and
\* in the order in which the keys were typed.
THEOREM KeysTakenInOrder == Spec => ReadMailbox!TakenInOrder /\ NotifyMailbox!TakenInOrder
BY ReadRefines, NotifyRefines, ReadInOrder, NotifyInOrder, PTL

-----------------------------------------------------------------------------
\* NoLostNotify, and while a poll runs: its HaveNotify stands for the signal
\* it is going to send.
DispatchDue ==
  (NotifyKeyReady /\ NotifyList # <<>> /\ notifyStamp > deafStamp) =>
    \/ notifyPending
    \/ cbPc = "dequeue"
    \/ pollPc # "idle" /\ HaveNotify

\* Registering and unregistering never make a queued key due.
LEMMA ListChangeKeepsDue ==
  ASSUME TypeOK, StampInv,
         \/ \E r \in Registrations : RegisterKeyNotify(r) \/ UnregisterKeyNotify(r)
         \/ UNCHANGED <<NotifyKeyReady, NotifyList, notifyStamp, deafStamp>>,
         NotifyKeyReady' /\ NotifyList' # <<>> /\ notifyStamp' > deafStamp'
  PROVE  NotifyKeyReady /\ NotifyList # <<>> /\ notifyStamp > deafStamp
  <1>1. ASSUME NEW r \in Registrations, RegisterKeyNotify(r)
        PROVE  NotifyKeyReady /\ NotifyList # <<>> /\ notifyStamp > deafStamp
    <2>1. NotifyKeyReady' = NotifyKeyReady /\ notifyStamp' = notifyStamp
      BY <1>1 DEF RegisterKeyNotify, bufferVars, stampVars
    <2>2. NotifyList # <<>>
      BY <1>1, <2>1 DEF RegisterKeyNotify, TypeOK, StampInv
    <2> QED
      BY <1>1, <2>1, <2>2 DEF RegisterKeyNotify
  <1>2. ASSUME NEW r \in Registrations, UnregisterKeyNotify(r)
        PROVE  NotifyKeyReady /\ NotifyList # <<>> /\ notifyStamp > deafStamp
    <2>1. NotifyList # <<>>
      BY <1>2 DEF UnregisterKeyNotify
    <2> QED
      BY <1>2, <2>1 DEF UnregisterKeyNotify, bufferVars, stampVars
  <1> QED
    BY <1>1, <1>2

\* No key typed while somebody is registered waits for a dispatch that nobody
\* has asked for: KeyNotifyProcessEvent is queued or its handler about to take
\* the key whenever no poll is running.
THEOREM NoNotifyLost == Spec => []NoLostNotify
  <1>1. Init => DispatchDue
    BY DEF Init, DispatchDue
  <1>2. ASSUME TypeOK, StampInv, DispatchDue, [Next]_vars PROVE DispatchDue'
    <2>1. CASE Host
      BY <1>2, <2>1
         DEF Host, HostPress, HostRelease, HostOther, Produce, DispatchDue, bufferVars,
             eventVars, pollVars, cbVars, stampVars
    <2>2. CASE TimerTick \/ \E e \in WaitEvents : AppCheckPoll(e)
      BY <1>2, <2>2
         DEF TimerTick, AppCheckPoll, StartPoll, DispatchDue, bufferVars, eventVars,
             cbVars, stampVars
    <2>3. CASE PollType \/ PollCode
      BY <1>2, <2>3
         DEF PollType, PollCode, DispatchDue, bufferVars, eventVars, cbVars, stampVars
    <2>4. CASE PollValue
      <3>1. CASE DiscardKey
        BY <1>2, <2>4, <3>1
           DEF PollValue, DiscardKey, DispatchDue, eventVars, cbVars, stampVars
      <3>2. CASE HaveNotify' = TRUE
        BY <2>4, <3>2 DEF PollValue, DispatchDue
      <3> QED
        BY <2>4, <3>1, <3>2 DEF PollValue, BufferKey
    <2>5. CASE PollBreak
      BY <1>2, <2>5 DEF PollBreak, SignalsNotify, DispatchDue, bufferVars, cbVars, stampVars
    <2>6. CASE CbDispatch
      BY <2>6 DEF CbDispatch, DispatchDue
    <2>7. CASE CbDequeue
      BY <2>7, BufferSteps, <1>2 DEF DispatchDue
    <2>8. CASE CbVisit
      <3>1. \/ \E r \in Registrations : RegisterKeyNotify(r) \/ UnregisterKeyNotify(r)
            \/ UNCHANGED <<NotifyKeyReady, NotifyList, notifyStamp, deafStamp>>
        BY <2>8 DEF CbVisit, NotifyFunction, ReadKeyStroke, bufferVars, stampVars
      <3>2. UNCHANGED <<notifyPending, cbPc, pollPc, HaveNotify>>
        BY <2>8 DEF CbVisit, eventVars, pollVars
      <3> QED
        BY <1>2, <3>1, <3>2, ListChangeKeepsDue DEF DispatchDue
    <2>9. CASE CbReturn
      BY <1>2, <2>9 DEF CbReturn, DispatchDue, bufferVars, eventVars, pollVars, stampVars
    <2>10. CASE \E r \in Registrations : AppRegister(r) \/ AppUnregister(r)
      <3>1. \E r \in Registrations : RegisterKeyNotify(r) \/ UnregisterKeyNotify(r)
        BY <2>10 DEF AppRegister, AppUnregister
      <3>2. UNCHANGED <<notifyPending, cbPc, pollPc, HaveNotify>>
        BY <2>10 DEF AppRegister, AppUnregister, eventVars, pollVars, cbVars
      <3> QED
        BY <1>2, <3>1, <3>2, ListChangeKeepsDue DEF DispatchDue
    <2>11. CASE AppResetStore
      BY <1>2, <2>11
         DEF AppResetStore, DispatchDue, eventVars, pollVars, cbVars, stampVars
    <2>12. CASE \/ AppReadKeyStroke("ReadKeyStroke", "run")
                \/ AppReadKeyStroke("ReadKeyStrokeEx", "buildKeyState")
      BY <1>2, <2>12
         DEF AppReadKeyStroke, ReadKeyStroke, DispatchDue, eventVars, pollVars, cbVars
    <2>13. CASE \/ AppReadKeyStrokeEx \/ AppResetDrain \/ AppCheckDone \/ AppReset
                \/ AppRaiseTPL \/ AppRestoreTPL
                \/ \E e \in WaitEvents : AppCheckSignalled(e)
      BY <1>2, <2>13
         DEF AppReadKeyStrokeEx, AppResetDrain, AppCheckDone, AppReset, AppRaiseTPL,
             AppRestoreTPL, AppCheckSignalled, DispatchDue, bufferVars, eventVars,
             pollVars, cbVars, stampVars
    <2>14. CASE UNCHANGED vars
      BY <1>2, <2>14
         DEF vars, DispatchDue, bufferVars, eventVars, pollVars, cbVars, stampVars
    <2> QED
      BY <1>2, <2>1, <2>2, <2>3, <2>4, <2>5, <2>6, <2>7, <2>8, <2>9, <2>10, <2>11,
         <2>12, <2>13, <2>14 DEF Next, Poll, Callback, App, AppReturn
  <1>3. DispatchDue => NoLostNotify
    BY DEF DispatchDue, NoLostNotify
  <1> QED
    BY <1>1, <1>2, <1>3, TypeCorrect, StampsOrdered, PTL DEF Spec

-----------------------------------------------------------------------------
\* A poll runs for the timer or for the check the application is in.
CallerKnown == pollPc # "idle" => caller \in {"timer", appPc}

\* A check of a wait event that finds a key in the driver succeeds, whatever
\* ran between its poll and its test of the signal.
THEOREM NoKeyMissed == Spec => []NoMissedKey
  <1> DEFINE Inv == CallerKnown /\ NoMissedKey
  <1>1. Init => Inv
    BY DEF Init, CallerKnown, NoMissedKey, WaitEvents
  <1>2. ASSUME TypeOK, Inv, [Next]_vars PROVE Inv'
    <2>1. CASE Host
      <3>1. UNCHANGED <<KeyReady, signalled, pollPc, caller, appPc>>
        BY <2>1 DEF Host, HostPress, HostRelease, HostOther, Produce, bufferVars, eventVars,
                    pollVars, appVars
      <3> QED
        BY <1>2, <3>1 DEF CallerKnown, NoMissedKey
    <2>2. CASE TimerTick \/ \E e \in WaitEvents : AppCheckPoll(e)
      BY <2>2 DEF TimerTick, AppCheckPoll, StartPoll, CallerKnown, NoMissedKey
    <2>3. CASE PollType \/ PollCode \/ PollValue
      BY <1>2, <2>3 DEF PollType, PollCode, PollValue, CallerKnown, NoMissedKey, appVars
    <2>4. CASE PollBreak
      BY <1>2, <2>4 DEF PollBreak, Signals, CallerKnown, NoMissedKey, bufferVars, appVars
    <2>5. CASE Callback
      <3>1. pollPc' = pollPc /\ caller' = caller /\ appPc' = appPc /\ signalled' = signalled
        BY <2>5 DEF Callback, CbDispatch, CbDequeue, CbVisit, CbReturn, pollVars, appVars,
                    eventVars
      <3>2. KeyReady' => KeyReady
        BY <2>5 DEF Callback, CbDispatch, CbDequeue, CbVisit, CbReturn, NotifyFunction,
                    ReadKeyStroke, RegisterKeyNotify, UnregisterKeyNotify, bufferVars
      <3> QED
        BY <1>2, <3>1, <3>2 DEF CallerKnown, NoMissedKey
    <2>6. CASE AppReadKeyStrokeEx \/ AppResetStore \/ AppResetDrain \/ AppReset
      BY <2>6
         DEF AppReadKeyStrokeEx, AppResetStore, AppResetDrain, AppReset, AppMayCall,
             AppMayRun, CallerKnown, NoMissedKey, WaitEvents, ResetNext, DrainNext, pollVars
    <2>7. CASE \/ AppCheckDone
               \/ AppReadKeyStroke("ReadKeyStroke", "run")
               \/ AppReadKeyStroke("ReadKeyStrokeEx", "buildKeyState")
      BY <2>7
         DEF AppCheckDone, AppReadKeyStroke, AppMayCall, AppMayRun, CallerKnown,
             NoMissedKey, WaitEvents, pollVars
    <2>8. CASE \/ \E r \in Registrations : AppRegister(r) \/ AppUnregister(r)
               \/ \E e \in WaitEvents : AppCheckSignalled(e)
               \/ AppRaiseTPL \/ AppRestoreTPL
      BY <2>8
         DEF AppRegister, AppUnregister, AppCheckSignalled, AppRaiseTPL, AppRestoreTPL,
             AppMayCall, AppMayRun, CallerKnown, NoMissedKey, WaitEvents, pollVars, appVars
    <2>9. CASE UNCHANGED vars
      BY <1>2, <2>9
         DEF vars, CallerKnown, NoMissedKey, bufferVars, eventVars, pollVars, appVars
    <2> QED
      BY <1>2, <2>1, <2>2, <2>3, <2>4, <2>5, <2>6, <2>7, <2>8, <2>9
         DEF Next, Poll, App, AppReturn
  <1> QED
    BY <1>1, <1>2, TypeCorrect, PTL DEF Spec

-----------------------------------------------------------------------------
\* The values of the events that the driver has not taken yet; what it has read
\* of the first of them is in pollType and pollCode.
ValueWords == {i \in DOMAIN devq : (Len(devq) - i) % 3 = 0}
CodeOf(i) == IF i > 1 THEN devq[i - 1] ELSE pollCode
TypeOf(i) == IF i > 2 THEN devq[i - 2] ELSE pollType

ReleaseAfter(i, code) ==
  \E j \in ValueWords : j > i /\ TypeOf(j) = EV_KEY /\ CodeOf(j) = code /\ devq[j] = 0

\* The key is down, or the driver will yet be told of its release.
UpToDate(i, code) == code \in held \/ ReleaseAfter(i, code)

\* What NoStuckModifier rests on: a release follows whatever sets a flag, the
\* presses to come included, while nobody but PollKeyboard reads the device.
ReleasesCome ==
  /\ \A i \in ValueWords : TypeOf(i) = EV_KEY /\ devq[i] = 1 => UpToDate(i, CodeOf(i))
  /\ \A m \in mods : \E c \in ModifierKeys[m] : UpToDate(0, c)
  /\ \A i \in DOMAIN devq : (Len(devq) - i) % 3 = 2 => devq[i] # 0
  /\ appPc \notin DOMAIN ResetNext \cup DOMAIN DrainNext

\* A read of the device moves every word down by one place.
LEMMA ReadWordShifts ==
  ASSUME TypeOK, ReadWord, devq # <<>>
  PROVE  /\ Len(devq) \in Nat \ {0}
         /\ Len(devq') = Len(devq) - 1
         /\ DOMAIN devq = 1 .. Len(devq)
         /\ DOMAIN devq' = 1 .. Len(devq) - 1
         /\ \A i \in 1 .. Len(devq) - 1 : devq'[i] = devq[i + 1]
         /\ NextWord = devq[1]
  <1>1. devq \in Seq(Words)
    BY DEF TypeOK
  <1> QED
    BY <1>1, HeadTailProperties, LenProperties, EmptySeq DEF ReadWord, NextWord

\* The phase of the first words, by the length of the stream.
LEMMA FirstPhases ==
  ASSUME NEW n \in Nat \ {0}
  PROVE  /\ (n - 1) % 3 = 0 <=> n % 3 = 1
         /\ n > 1 => ((n - 2) % 3 = 0 <=> n % 3 = 2)
         /\ n > 2 => ((n - 3) % 3 = 0 <=> n % 3 = 0)
<1>1. n % 3 \in 0 .. 2 /\ n = 3 * (n \div 3) + (n % 3) /\ n \div 3 \in Nat
  OBVIOUS
<1> DEFINE q == n \div 3
<1>2. CASE n % 3 = 0
  <2>1. n - 1 = 3 * (q - 1) + 2 /\ n - 2 = 3 * (q - 1) + 1 /\ n - 3 = 3 * (q - 1)
    BY <1>1, <1>2
  <2> QED
    BY <1>1, <1>2, <2>1
<1>3. CASE n % 3 = 1
  <2>1. n - 1 = 3 * q /\ n - 2 = 3 * (q - 1) + 2 /\ n - 3 = 3 * (q - 1) + 1
    BY <1>1, <1>3
  <2> QED
    BY <1>1, <1>3, <2>1
<1>4. CASE n % 3 = 2
  <2>1. n - 1 = 3 * q + 1 /\ n - 2 = 3 * q /\ n - 3 = 3 * (q - 1) + 2
    BY <1>1, <1>4
  <2> QED
    BY <1>1, <1>4, <2>1
<1> QED
  BY <1>1, <1>2, <1>3, <1>4

\* A poll's reads leave every event to come what it is.
LEMMA EventsShift ==
  ASSUME TypeOK, StreamAligned, ReleasesCome, PollType \/ PollCode \/ PollValue
  PROVE  /\ devq # <<>>
         /\ \A i \in 1 .. Len(devq) - 1 :
              /\ i \in ValueWords' <=> i + 1 \in ValueWords
              /\ i \in ValueWords' => TypeOf(i)' = TypeOf(i + 1) /\ CodeOf(i)' = CodeOf(i + 1)
         /\ 1 \in ValueWords <=> PollValue
  <1>1. /\ Len(devq) \in Nat /\ devq \in Seq(Words)
        /\ appPc \notin DOMAIN DrainNext
    BY LenProperties DEF TypeOK, ReleasesCome
  <1>2. /\ PollType => Len(devq) % 3 = 0
        /\ PollCode => Len(devq) % 3 = 2
        /\ PollValue => Len(devq) % 3 = 1
    BY <1>1 DEF StreamAligned, PollType, PollCode, PollValue
  <1>3. devq # <<>>
    BY <1>2, EmptySeq DEF PollType, NextWord
  <1>4. ReadWord
    BY DEF PollType, PollCode, PollValue
  <1> DEFINE n == Len(devq)
  <1>5. /\ n \in Nat \ {0} /\ Len(devq') = n - 1
        /\ DOMAIN devq = 1 .. n /\ DOMAIN devq' = 1 .. n - 1
        /\ \A i \in 1 .. n - 1 : devq'[i] = devq[i + 1]
        /\ NextWord = devq[1]
    BY <1>3, <1>4, ReadWordShifts
  <1>6. \A i \in 1 .. n - 1 : i \in ValueWords' <=> i + 1 \in ValueWords
    BY <1>5 DEF ValueWords
  <1>7. ASSUME NEW i \in 1 .. n - 1, i \in ValueWords'
        PROVE  TypeOf(i)' = TypeOf(i + 1) /\ CodeOf(i)' = CodeOf(i + 1)
    <2>1. (n - (i + 1)) % 3 = 0
      BY <1>5, <1>6, <1>7 DEF ValueWords
    <2>2. CASE PollType
      <3>1. i > 1
        BY <1>2, <1>5, <2>1, <2>2
      <3>2. pollType' = devq[1]
        BY <1>5, <2>2 DEF PollType
      <3>3. CodeOf(i)' = CodeOf(i + 1)
        BY <1>5, <3>1 DEF CodeOf
      <3>4. TypeOf(i)' = TypeOf(i + 1)
        BY <1>5, <3>1, <3>2 DEF TypeOf
      <3> QED
        BY <3>3, <3>4
    <2>3. CASE PollCode
      <3>1. i # 2
        BY <1>2, <1>5, <2>1, <2>3
      <3>2. pollCode' = devq[1] /\ pollType' = pollType
        BY <1>5, <2>3 DEF PollCode
      <3>3. CodeOf(i)' = CodeOf(i + 1)
        BY <1>5, <3>2 DEF CodeOf
      <3>4. TypeOf(i)' = TypeOf(i + 1)
        BY <1>5, <3>1, <3>2 DEF TypeOf
      <3> QED
        BY <3>3, <3>4
    <2>4. CASE PollValue
      <3>1. i > 2
        <4>1. i # 1
          BY <1>2, <1>5, <2>1, <2>4, FirstPhases
        <4>2. i # 2
          BY <1>2, <1>5, <2>1, <2>4, FirstPhases
        <4> QED
          BY <1>5, <4>1, <4>2
      <3>2. CodeOf(i)' = CodeOf(i + 1)
        BY <1>5, <3>1 DEF CodeOf
      <3>3. TypeOf(i)' = TypeOf(i + 1)
        BY <1>5, <3>1 DEF TypeOf
      <3> QED
        BY <3>2, <3>3
    <2> QED
      BY <2>2, <2>3, <2>4
  <1>8. 1 \in ValueWords <=> PollValue
    <2>1. PollValue => ~PollType /\ ~PollCode
      BY DEF PollValue, PollType, PollCode
    <2>2. (n - 1) % 3 = 0 <=> n % 3 = 1
      BY <1>5, FirstPhases
    <2> QED
      BY <1>2, <1>5, <2>1, <2>2 DEF ValueWords
  <1> QED
    BY <1>3, <1>6, <1>7, <1>8

\* A read of a poll takes no release that is still to come away.
LEMMA UpToDateKept ==
  ASSUME TypeOK, StreamAligned, ReleasesCome, PollType \/ PollCode \/ PollValue,
         NEW i \in Nat, NEW code, UpToDate(i + 1, code)
  PROVE  UpToDate(i, code)'
  <1> DEFINE n == Len(devq)
  <1>1. devq # <<>> /\ ReadWord /\ held' = held
    BY EventsShift DEF PollType, PollCode, PollValue, ReadWord
  <1>2. /\ n \in Nat \ {0} /\ DOMAIN devq = 1 .. n
        /\ \A j \in 1 .. n - 1 : devq'[j] = devq[j + 1]
    BY <1>1, ReadWordShifts
  <1>3. CASE code \in held
    BY <1>1, <1>3 DEF UpToDate
  <1>4. CASE ReleaseAfter(i + 1, code)
    <2>1. PICK j \in ValueWords :
            j > i + 1 /\ TypeOf(j) = EV_KEY /\ CodeOf(j) = code /\ devq[j] = 0
      BY <1>4 DEF ReleaseAfter
    <2>2. j \in 1 .. n
      BY <1>2 DEF ValueWords
    <2>3. j - 1 \in 1 .. n - 1 /\ j - 1 > i /\ (j - 1) + 1 = j
      BY <1>2, <2>1, <2>2
    <2>4. /\ j - 1 \in ValueWords' /\ TypeOf(j - 1)' = EV_KEY /\ CodeOf(j - 1)' = code
          /\ devq'[j - 1] = 0
      BY <1>2, <2>1, <2>3, EventsShift
    <2> QED
      BY <2>3, <2>4 DEF UpToDate, ReleaseAfter
  <1> QED
    BY <1>3, <1>4 DEF UpToDate

\* A new event leaves the others what they are and is the last one.
LEMMA EventAdded ==
  ASSUME TypeOK, NEW t \in Words \ {0}, NEW c \in Words, NEW v \in Words, Produce(t, c, v),
         NEW n, n = Len(devq)
  PROVE  /\ n \in Nat /\ n + 3 \in ValueWords'
         /\ Len(devq') = n + 3 /\ DOMAIN devq = 1 .. n /\ DOMAIN devq' = 1 .. n + 3
         /\ \A i \in 1 .. n : devq'[i] = devq[i]
         /\ devq'[n + 1] = t /\ devq'[n + 3] = v
         /\ TypeOf(n + 3)' = t /\ CodeOf(n + 3)' = c
         /\ \A i \in 1 .. n : i \in ValueWords' <=> i \in ValueWords
         /\ \A i \in 1 .. n : TypeOf(i)' = TypeOf(i) /\ CodeOf(i)' = CodeOf(i)
         /\ ValueWords' \subseteq 1 .. n \cup {n + 3}
  <1>1. devq \in Seq(Words) /\ n \in Nat /\ DOMAIN devq = 1 .. n
    BY LenProperties DEF TypeOK
  <1>2. /\ devq' \in Seq(Words)
        /\ Len(devq') = n + 3
        /\ DOMAIN devq' = 1 .. n + 3
        /\ \A i \in 1 .. n : devq'[i] = devq[i]
        /\ devq'[n + 1] = t /\ devq'[n + 2] = c /\ devq'[n + 3] = v
    <2>1. <<t, c, v>> \in Seq(Words) /\ Len(<<t, c, v>>) = 3
      OBVIOUS
    <2>2. devq' = devq \o <<t, c, v>>
      BY DEF Produce
    <2> QED
      BY <1>1, <2>1, <2>2, ConcatProperties, LenProperties
  <1>3. pollType' = pollType /\ pollCode' = pollCode
    BY DEF Produce, pollVars
  <1>4. \A i \in 1 .. n : TypeOf(i)' = TypeOf(i) /\ CodeOf(i)' = CodeOf(i)
    BY <1>1, <1>2, <1>3 DEF TypeOf, CodeOf
  <1>5. TypeOf(n + 3)' = t /\ CodeOf(n + 3)' = c
    <2>1. (n + 3) - 2 = n + 1 /\ (n + 3) - 1 = n + 2 /\ n + 3 > 2 /\ n + 3 > 1
      BY <1>1
    <2> QED
      BY <1>2, <2>1 DEF TypeOf, CodeOf
  <1>6. \A i \in 1 .. n : i \in ValueWords' <=> i \in ValueWords
    <2>1. \A i \in 1 .. n : n - i \in Nat /\ (n + 3) - i = (n - i) + 3
      BY <1>1
    <2>2. \A i \in 1 .. n : ((n + 3) - i) % 3 = (n - i) % 3
      BY <2>1, ModThree
    <2> QED
      BY <1>1, <1>2, <2>2 DEF ValueWords
  <1>7. n + 3 \in ValueWords' /\ ValueWords' \subseteq 1 .. n \cup {n + 3}
    BY <1>1, <1>2 DEF ValueWords
  <1> QED
    BY <1>1, <1>2, <1>4, <1>5, <1>6, <1>7

\* No modifier flag is stuck once the driver has taken every event, unless Reset
\* has drained the device: a release is never passed over, whichever of the two
\* keys of a modifier it is of, and whatever runs between two reads of a poll.
THEOREM NoModifierStuck == "Reset" \notin AppOps /\ Spec => []NoStuckModifier
  <1> DEFINE Inv == "Reset" \notin AppOps /\ ReleasesCome
  <1>1. "Reset" \notin AppOps /\ Init => Inv
    BY EmptySeq DEF Init, ReleasesCome, ValueWords, ResetNext, DrainNext
  <1>2. ASSUME TypeOK, StreamAligned, Inv, [Next]_vars PROVE Inv'
    <2>1. CASE Host
      <3> USE CodesArePositive, OtherTypesAssumption
      <3>1. PICK t \in Words \ {0}, c \in Words, v \in {0, 1} :
              /\ Produce(t, c, v)
              /\ \/ t = EV_KEY /\ v = 1 /\ held' = held \cup {c}
                 \/ t = EV_KEY /\ v = 0 /\ held' = held \ {c}
                 \/ t # EV_KEY /\ held' = held
        BY <2>1 DEF Host, HostPress, HostRelease, HostOther, Words, EV_KEY
      <3>0. PICK n : n = Len(devq)
        OBVIOUS
      <3>2. /\ n \in Nat /\ n + 3 \in ValueWords'
            /\ Len(devq') = n + 3 /\ DOMAIN devq = 1 .. n /\ DOMAIN devq' = 1 .. n + 3
            /\ \A i \in 1 .. n : devq'[i] = devq[i]
            /\ devq'[n + 1] = t /\ devq'[n + 3] = v
            /\ TypeOf(n + 3)' = t /\ CodeOf(n + 3)' = c
            /\ \A i \in 1 .. n : i \in ValueWords' <=> i \in ValueWords
            /\ \A i \in 1 .. n : TypeOf(i)' = TypeOf(i) /\ CodeOf(i)' = CodeOf(i)
            /\ ValueWords' \subseteq 1 .. n \cup {n + 3}
        <4>1. v \in Words
          BY DEF Words, EV_KEY
        <4> QED
          BY <1>2, <3>0, <3>1, <4>1, EventAdded
      <3>3. ASSUME NEW i \in 0 .. n, NEW code, UpToDate(i, code) PROVE UpToDate(i, code)'
        <4>1. CASE ReleaseAfter(i, code)
          <5>1. PICK j \in ValueWords :
                  j > i /\ TypeOf(j) = EV_KEY /\ CodeOf(j) = code /\ devq[j] = 0
            BY <4>1 DEF ReleaseAfter
          <5>2. j \in 1 .. n
            BY <3>2 DEF ValueWords
          <5> QED
            BY <3>2, <5>1, <5>2 DEF UpToDate, ReleaseAfter
        <4>2. CASE code \in held /\ code \notin held'
          <5>1. t = EV_KEY /\ v = 0 /\ code = c
            BY <3>1, <4>2
          <5>2. n + 3 > i
            BY <3>2
          <5> QED
            BY <3>2, <5>1, <5>2 DEF UpToDate, ReleaseAfter
        <4>3. CASE code \in held'
          BY <4>3 DEF UpToDate
        <4> QED
          BY <3>3, <4>1, <4>2, <4>3 DEF UpToDate
      <3>4. ASSUME NEW i \in ValueWords', TypeOf(i)' = EV_KEY, devq'[i] = 1
            PROVE  UpToDate(i, CodeOf(i))'
        <4>1. CASE i \in 1 .. n
          <5>1. UpToDate(i, CodeOf(i))
            BY <1>2, <3>2, <3>4, <4>1 DEF ReleasesCome
          <5>2. i \in 0 .. n
            BY <3>2, <4>1
          <5> DEFINE code == CodeOf(i)
          <5>3. CodeOf(i)' = code
            BY <3>2, <4>1
          <5> HIDE DEF code
          <5> QED
            BY <3>3, <5>1, <5>2, <5>3 DEF code
        <4>2. CASE i = n + 3
          BY <3>1, <3>2, <3>4, <4>2 DEF UpToDate
        <4> QED
          BY <3>2, <4>1, <4>2
      <3>5. \A m \in mods' : \E c1 \in ModifierKeys[m] : UpToDate(0, c1)'
        <4>1. mods' = mods /\ 0 \in 0 .. n
          BY <3>1, <3>2 DEF Produce, bufferVars
        <4> QED
          BY <1>2, <3>3, <4>1 DEF ReleasesCome
      <3>6. \A i \in DOMAIN devq' : (Len(devq') - i) % 3 = 2 => devq'[i] # 0
        <4>0. \A i \in 1 .. n : n - i \in Nat /\ (n + 3) - i = (n - i) + 3
          BY <3>2
        <4>1. \A i \in 1 .. n : ((n + 3) - i) % 3 = (n - i) % 3
          BY <4>0, ModThree
        <4>2. \A i \in 1 .. n : (Len(devq') - i) % 3 = 2 => devq'[i] # 0
          BY <1>2, <3>2, <4>1 DEF ReleasesCome
        <4>3. \A i \in n + 1 .. n + 3 : ((n + 3) - i) % 3 = 2 => i = n + 1
          BY <3>2
        <4> QED
          BY <3>2, <4>2, <4>3
      <3>7. appPc' = appPc
        BY <3>1 DEF Produce, appVars
      <3> QED
        BY <1>2, <3>4, <3>5, <3>6, <3>7 DEF ReleasesCome
    <2>2. CASE PollType \/ PollCode \/ PollValue
      <3> DEFINE n == Len(devq)
      <3>1. devq # <<>> /\ ReadWord /\ held' = held /\ appPc' = appPc
        BY <1>2, <2>2, EventsShift DEF PollType, PollCode, PollValue, ReadWord, appVars
      <3>2. /\ n \in Nat \ {0} /\ Len(devq') = n - 1
            /\ DOMAIN devq = 1 .. n /\ DOMAIN devq' = 1 .. n - 1
            /\ \A i \in 1 .. n - 1 : devq'[i] = devq[i + 1]
            /\ NextWord = devq[1]
        BY <1>2, <3>1, ReadWordShifts
      <3>3. \A i \in 1 .. n - 1 :
              /\ i \in ValueWords' <=> i + 1 \in ValueWords
              /\ i \in ValueWords' => TypeOf(i)' = TypeOf(i + 1) /\ CodeOf(i)' = CodeOf(i + 1)
        BY <1>2, <2>2, EventsShift
      <3>4. \A i \in Nat : \A code : UpToDate(i + 1, code) => UpToDate(i, code)'
        BY <1>2, <2>2, UpToDateKept
      <3>5. ASSUME NEW i \in ValueWords', TypeOf(i)' = EV_KEY, devq'[i] = 1
            PROVE  UpToDate(i, CodeOf(i))'
        <4>1. i \in 1 .. n - 1 /\ i \in Nat
          BY <3>2 DEF ValueWords
        <4>2. UpToDate(i + 1, CodeOf(i + 1))
          BY <1>2, <3>2, <3>3, <3>5, <4>1 DEF ReleasesCome
        <4> DEFINE code == CodeOf(i + 1)
        <4>3. CodeOf(i)' = code
          BY <3>3, <3>5, <4>1
        <4> HIDE DEF code
        <4> QED
          BY <3>4, <4>1, <4>2, <4>3 DEF code
      <3>6. \A m \in mods' : \E c \in ModifierKeys[m] : UpToDate(0, c)'
        <4>1. ASSUME NEW code, UpToDate(0, code),
                     ~(PollValue /\ pollType = EV_KEY /\ pollCode = code /\ devq[1] = 0)
              PROVE  UpToDate(0, code)'
          <5>1. CASE code \in held
            BY <3>1, <5>1 DEF UpToDate
          <5>2. CASE ReleaseAfter(0, code)
            <6>1. PICK j \in ValueWords :
                    j > 0 /\ TypeOf(j) = EV_KEY /\ CodeOf(j) = code /\ devq[j] = 0
              BY <5>2 DEF ReleaseAfter
            <6>2. j \in 1 .. n
              BY <3>2 DEF ValueWords
            <6>3. j # 1
              <7>1. 1 \in ValueWords <=> PollValue
                BY <1>2, <2>2, EventsShift
              <7> QED
                BY <4>1, <6>1, <7>1 DEF TypeOf, CodeOf
            <6>4. j > 0 + 1
              BY <6>2, <6>3
            <6>5. UpToDate(0 + 1, code)
              BY <6>1, <6>4 DEF UpToDate, ReleaseAfter
            <6> QED
              BY <3>4, <6>5
          <5> QED
            BY <4>1, <5>1, <5>2 DEF UpToDate
        <4>2. CASE UNCHANGED mods /\ ~(PollValue /\ pollType = EV_KEY)
          BY <1>2, <4>1, <4>2 DEF ReleasesCome
        <4>3. CASE PollValue /\ pollType = EV_KEY
          <5>1. mods' = ModifiersAfter(mods, pollCode, devq[1] = 1)
            BY <3>2, <4>3 DEF PollValue
          <5>2. CASE devq[1] = 1
            <6>1. ASSUME NEW m \in mods PROVE \E c \in ModifierKeys[m] : UpToDate(0, c)'
              BY <1>2, <4>1, <5>2 DEF ReleasesCome
            <6>2. PICK code : code = pollCode
              OBVIOUS
            <6>3. UpToDate(0, code)'
              <7>1. 1 \in ValueWords /\ TypeOf(1) = EV_KEY /\ CodeOf(1) = code
                BY <1>2, <2>2, <4>3, <6>2, EventsShift DEF TypeOf, CodeOf
              <7>2. UpToDate(0 + 1, code)
                BY <1>2, <5>2, <7>1 DEF ReleasesCome
              <7> QED
                BY <3>4, <7>2
            <6>4. mods' = mods \cup {m \in Modifiers : code \in ModifierKeys[m]}
              BY <5>1, <5>2, <6>2 DEF ModifiersAfter
            <6> QED
              BY <6>1, <6>3, <6>4
          <5>3. CASE devq[1] # 1
            <6>1. mods' = {m \in mods : m \notin Modifiers \/ pollCode \notin ModifierKeys[m]}
              BY <5>1, <5>3 DEF ModifiersAfter
            <6>2. mods \subseteq Modifiers
              BY <1>2 DEF TypeOK
            <6> QED
              BY <1>2, <4>1, <6>1, <6>2 DEF ReleasesCome
          <5> QED
            BY <5>2, <5>3
        <4> QED
          BY <2>2, <4>2, <4>3 DEF PollType, PollCode, PollValue, bufferVars
      <3>7. \A i \in DOMAIN devq' : (Len(devq') - i) % 3 = 2 => devq'[i] # 0
        <4>1. \A i \in 1 .. n - 1 : (n - 1) - i = n - (i + 1) /\ i + 1 \in 1 .. n
          BY <3>2
        <4> QED
          BY <1>2, <3>2, <4>1 DEF ReleasesCome
      <3> QED
        BY <1>2, <3>1, <3>5, <3>6, <3>7 DEF ReleasesCome
    <2>3. CASE PollBreak
      <3>1. appPc \notin DOMAIN DrainNext /\ Len(devq) % 3 = 0 /\ devq \in Seq(Words)
        BY <1>2, <2>3 DEF ReleasesCome, StreamAligned, PollBreak, TypeOK
      <3>2. devq = <<>>
        <4> SUFFICES ASSUME devq # <<>> PROVE FALSE
          OBVIOUS
        <4>1. Len(devq) \in Nat \ {0} /\ 1 \in DOMAIN devq /\ devq[1] = 0
          BY <1>2, <2>3, ReadWordShifts DEF PollBreak
        <4>2. (Len(devq) - 1) % 3 = 2
          BY <3>1, <4>1
        <4> QED
          BY <1>2, <4>1, <4>2 DEF ReleasesCome
      <3> QED
        BY <1>2, <2>3, <3>2
           DEF PollBreak, ReadWord, ReleasesCome, UpToDate, ReleaseAfter, ValueWords, TypeOf,
               CodeOf, bufferVars, appVars
    <2>4. CASE UNCHANGED <<devq, held, mods, pollType, pollCode, appPc>>
      BY <1>2, <2>4
         DEF ReleasesCome, UpToDate, ReleaseAfter, ValueWords, TypeOf, CodeOf
    <2>5. CASE App \/ TimerTick \/ Callback \/ UNCHANGED vars
      <3>1. UNCHANGED <<devq, held, mods, pollType, pollCode>>
        BY <1>2, <2>5
           DEF App, AppReturn, AppReadKeyStroke, AppReadKeyStrokeEx, AppRegister,
               AppUnregister, AppReset, AppResetStore, AppResetDrain, AppCheckSignalled,
               AppCheckPoll, AppCheckDone, AppRaiseTPL, AppRestoreTPL, StartPoll,
               TimerTick, Callback, CbDispatch, CbDequeue, CbVisit, CbReturn,
               NotifyFunction, ReadKeyStroke, RegisterKeyNotify, UnregisterKeyNotify,
               ReleasesCome, deviceVars, bufferVars, pollVars, vars
      <3>2. appPc' \notin DOMAIN ResetNext \cup DOMAIN DrainNext
        BY <1>2, <2>5
           DEF App, AppReturn, AppReadKeyStroke, AppReadKeyStrokeEx, AppRegister,
               AppUnregister, AppReset, AppResetStore, AppResetDrain, AppCheckSignalled,
               AppCheckPoll, AppCheckDone, AppRaiseTPL, AppRestoreTPL, AppMayCall,
               TimerTick, Callback, CbDispatch, CbDequeue, CbVisit, CbReturn,
               ReleasesCome, WaitEvents, ResetNext, DrainNext, appVars, vars
      <3> QED
        BY <1>2, <3>1, <3>2
           DEF ReleasesCome, UpToDate, ReleaseAfter, ValueWords, TypeOf, CodeOf
    <2> QED
      BY <1>2, <2>1, <2>2, <2>3, <2>5 DEF Next, Poll
  <1>3. Inv => NoStuckModifier
    <2> SUFFICES ASSUME Inv, devq = <<>>, NEW m \in mods
                 PROVE  ModifierKeys[m] \cap held # {}
      BY DEF NoStuckModifier
    <2>1. PICK c \in ModifierKeys[m] : UpToDate(0, c)
      BY DEF ReleasesCome
    <2>2. ValueWords = {}
      BY DEF ValueWords
    <2> QED
      BY <2>1, <2>2 DEF UpToDate, ReleaseAfter
  <1> QED
    BY <1>1, <1>2, <1>3, TypeCorrect, StreamAlwaysAligned, PTL DEF Spec

=============================================================================
