---------------------------- MODULE DeviceProofs ----------------------------
(***************************************************************************)
(* The three drivers that read a device register by register while it      *)
(* changes: GetRNG never reads an empty FIFO and delivers exactly the      *)
(* bytes of a request of whole words, for any buffers, depth and bound on  *)
(* the retries; ReadBatteryInfo misses no change, whatever registers       *)
(* change, how often and to what values; and the clock is read and set     *)
(* exactly, for any width of its registers.                                *)
(***************************************************************************)
EXTENDS Bcm2835Rng, GoldfishBattery, GoldfishRtc, TLAPS

(* The random number generator. *)

\* A subtraction that does not wrap, and an addition that does not.
LEMMA NoWrap ==
  ASSUME NEW a \in Nat, NEW b \in Nat
  PROVE  /\ b <= a => Minus(a, b) = a - b
         /\ a + b <= MAX_UINTN => Plus(a, b) = a + b
BY BoundsAssumption DEF Minus, Plus

\* UINTN arithmetic stays within UINTN.
LEMMA UintnArithmetic ==
  ASSUME NEW a \in 0 .. MAX_UINTN, NEW b \in 0 .. MAX_UINTN
  PROVE  Minus(a, b) \in 0 .. MAX_UINTN /\ Plus(a, b) \in 0 .. MAX_UINTN
BY BoundsAssumption DEF Minus, Plus

\* Type correctness together with NoEmptyRead, which keeps Num in its range:
\* the words RNG_STATUS announced stay in the FIFO until GetRNG reads them,
\* whatever the buffer sizes.
AnnouncedInv == TypeOK /\ NoEmptyRead

\* It is inductive: only GetRNG takes words.
LEMMA AnnouncedInvariant == Spec => []AnnouncedInv
<1>1. Init => AnnouncedInv
  <2> SUFFICES ASSUME Init PROVE AnnouncedInv
    OBVIOUS
  <2>1. enabled \in BOOLEAN
    BY DEF Init
  <2>2. QED
    BY <2>1, BoundsAssumption DEF Init, AnnouncedInv, TypeOK, NoEmptyRead
<1>2. AnnouncedInv /\ [Next]_vars => AnnouncedInv'
  <2> SUFFICES ASSUME AnnouncedInv, [Next]_vars
               PROVE  AnnouncedInv'
    OBVIOUS
  <2> USE BoundsAssumption, LengthsAssumption DEF AnnouncedInv, TypeOK, NoEmptyRead
  <2>1. CASE EntryPoint
    BY <2>1 DEF EntryPoint, getRngVars
  <2>2. CASE Fill
    BY <2>2 DEF Fill, getRngVars
  <2>3. ASSUME NEW len \in Lengths, Call(len)
        PROVE  AnnouncedInv'
    BY <2>3 DEF Call
  <2>4. CASE ReadStatus
    BY <2>4 DEF ReadStatus, RetriesAfterPoll
  <2>5. CASE ReadWord
    <3>1. Num' = Num - 1 /\ RNGValueLength' = RNGValueLength - 4
      BY <2>5, NoWrap DEF ReadWord, WordWanted
    <3>2. written' \in 0 .. MAX_UINTN
      BY <2>5, UintnArithmetic DEF ReadWord
    <3>3. QED
      BY <2>5, <3>1, <3>2 DEF ReadWord, ReadData, WordWanted
  <2>6. CASE ReadTail
    <3>1. RNGValueLength' \in 0 .. MAX_UINTN /\ written' \in 0 .. MAX_UINTN
      BY <2>6, UintnArithmetic DEF ReadTail
    <3>2. QED
      BY <2>6, <3>1 DEF ReadTail, ReadData
  <2>7. CASE EndRound
    BY <2>7 DEF EndRound
  <2>8. CASE UNCHANGED vars
    BY <2>8 DEF vars, getRngVars
  <2>9. QED
    BY <2>1, <2>2, <2>3, <2>4, <2>5, <2>6, <2>7, <2>8 DEF Next, GetRNG
<1>3. QED
  BY <1>1, <1>2, PTL DEF Spec

\* No word of an empty FIFO is passed on as random, in any instance.
THEOREM NoEmptyReads == Spec => []NoEmptyRead
BY AnnouncedInvariant, PTL DEF AnnouncedInv

\* What is written and what is still to be written make up the buffer, in whole
\* words, so that the tail loop and its wrap are never reached.
Balance ==
  /\ written + RNGValueLength = length
  /\ RNGValueLength % 4 = 0
  /\ Status = "SUCCESS" => RNGValueLength = 0

BalanceInv == WholeWords => Balance

\* GetRNG keeps inside the buffer and fills it, for buffers of whole words.
THEOREM ExactForWholeWords == Spec => []ExactWords
<1>1. Init => BalanceInv
  BY DEF Init, BalanceInv, Balance
<1>2. AnnouncedInv /\ BalanceInv /\ [Next]_vars => BalanceInv'
  <2> SUFFICES ASSUME AnnouncedInv, BalanceInv, [Next]_vars
               PROVE  BalanceInv'
    OBVIOUS
  <2> USE BoundsAssumption, LengthsAssumption DEF AnnouncedInv, TypeOK
  <2>1. ASSUME NEW len \in Lengths, Call(len)
        PROVE  BalanceInv'
    BY <2>1 DEF Call, BalanceInv, Balance, WholeWords
  <2>2. CASE EntryPoint \/ Fill \/ GetRNG \/ UNCHANGED vars
    <3>1. length' = length
      BY <2>2 DEF EntryPoint, Fill, GetRNG, ReadStatus, ReadWord, ReadTail, EndRound,
                  vars, getRngVars
    <3> SUFFICES ASSUME WholeWords PROVE Balance'
      BY <3>1 DEF BalanceInv, WholeWords
    <3> USE DEF Balance
    <3>2. Balance
      BY DEF BalanceInv
    <3>3. CASE EntryPoint \/ Fill \/ UNCHANGED vars
      BY <3>2, <3>3 DEF EntryPoint, Fill, vars, getRngVars
    <3>4. CASE ReadStatus
      BY <3>2, <3>4 DEF ReadStatus
    <3>5. CASE ReadWord
      <4>1. RNGValueLength' = RNGValueLength - 4
        BY <3>5, NoWrap DEF ReadWord, WordWanted
      <4>2. written' = written + 4
        BY <3>2, <3>5, NoWrap DEF ReadWord, WordWanted
      <4>3. Status # "SUCCESS"
        BY <3>2, <3>5 DEF ReadWord, WordWanted
      <4>4. QED
        BY <3>2, <3>5, <4>1, <4>2, <4>3 DEF ReadWord, WordWanted
    <3>6. ~ReadTail
      BY <3>2 DEF ReadTail, WordWanted
    <3>7. CASE EndRound
      BY <3>2, <3>7 DEF EndRound
    <3>8. QED
      BY <2>2, <3>3, <3>4, <3>5, <3>6, <3>7 DEF GetRNG
  <2>3. QED
    BY <2>1, <2>2 DEF Next
<1>3. AnnouncedInv /\ BalanceInv => ExactWords
  BY DEF AnnouncedInv, TypeOK, BalanceInv, Balance, ExactWords, ExactBytes
<1>4. QED
  BY <1>1, <1>2, <1>3, AnnouncedInvariant, PTL DEF Spec

-----------------------------------------------------------------------------
(* The battery. *)

\* The typing the argument needs.
Typed ==
  /\ regs \in [Registers -> Values]
  /\ Info \in [Registers -> Values]
  /\ readPc \in 0 .. Done

\* What has been read so far is current or has its change pending.
ReadSoFar ==
  \A i \in DOMAIN ReadOrder :
    i < readPc => \/ Info[ReadOrder[i]] = regs[ReadOrder[i]]
              \/ SourceOf(ReadOrder[i]) \in INT_STATUS

\* No change is lost between the acknowledgement and the end of the reads.
THEOREM ChangesNeverMissed == BatterySpec => []NoChangeMissed
<1> DEFINE Inv == Typed /\ ReadSoFar
<1>1. BatteryInit => Inv
  BY DEF BatteryInit, Typed, ReadSoFar, Ack, Done, Registers, ReadOrder
<1>2. Inv /\ [BatteryNext]_batteryVars => Inv'
  <2> SUFFICES ASSUME Inv, [BatteryNext]_batteryVars PROVE Inv'
    OBVIOUS
  <2>0. /\ DOMAIN ReadOrder = 1 .. 14 /\ Done = 15
        /\ \A i \in DOMAIN ReadOrder : ReadOrder[i] \in Registers
    BY DEF ReadOrder, Registers, Done
  <2>1. ASSUME NEW r \in Changing, Change(r)
        PROVE  Inv'
    <3>1. PICK v \in Values : regs' = [regs EXCEPT ![r] = v]
      BY <2>1 DEF Change
    <3>2. QED
      BY <2>0, <2>1, <3>1 DEF Change, Typed, ReadSoFar
  <2>2. CASE Acknowledge
    BY <2>0, <2>2 DEF Acknowledge, Typed, ReadSoFar
  <2>3. CASE ReadRegister
    BY <2>0, <2>3 DEF ReadRegister, Typed, ReadSoFar
  <2>4. CASE InstallProtocol
    BY <2>0, <2>4 DEF InstallProtocol, Typed, ReadSoFar
  <2>8. CASE LogBatterySmbios
    BY <2>0, <2>8 DEF LogBatterySmbios, Typed, ReadSoFar
  <2>5. CASE GetBatteryInfo
    BY <2>0, <2>5 DEF GetBatteryInfo, Ack, Typed, ReadSoFar
  <2>6. CASE UNCHANGED batteryVars
    BY <2>6 DEF batteryVars, Typed, ReadSoFar
  <2>7. QED
    BY <2>1, <2>2, <2>3, <2>4, <2>5, <2>6, <2>8 DEF BatteryNext
<1>3. Inv => NoChangeMissed
  BY DEF ReadSoFar, NoChangeMissed, Registers, ReadOrder, Done
<1>4. QED
  BY <1>1, <1>2, <1>3, PTL DEF BatterySpec

-----------------------------------------------------------------------------
(* The clock. *)

\* The values of the 64 bits.
Full == Half * Half

\* There are values.
LEMMA FullIsPositive == Full \in Nat /\ Full > 0
BY RtcConstantsAssumption DEF Full

\* Division with remainder, for any divisor.
LEMMA DivMod ==
  ASSUME NEW n \in Int, NEW m \in Nat, m > 0
  PROVE  /\ n % m \in 0 .. (m - 1)
         /\ n \div m \in Int
         /\ n = m * (n \div m) + (n % m)
OBVIOUS

\* A number of 64 bits is made of its two halves.
LEMMA Halves ==
  ASSUME NEW n \in Int
  PROVE  (n \div Half) * Half + (n % Half) = n
BY DivMod, RtcConstantsAssumption

\* Uint64 has 64 bits.
LEMMA Uint64Type ==
  ASSUME NEW n \in Int
  PROVE  Uint64(n) \in 0 .. (Full - 1)
BY DivMod, FullIsPositive DEF Uint64, Full

\* A sum that overflows once.
LEMMA Uint64Sum ==
  ASSUME NEW n \in Int, n >= 0 - Full, n < Full + Full
  PROVE  Uint64(n) = IF n < 0 THEN n + Full ELSE IF n < Full THEN n ELSE n - Full
<1> DEFINE q == n \div Full
           r == n % Full
<1>1. /\ r \in 0 .. (Full - 1) /\ q \in Int /\ n = Full * q + r
  BY DivMod, FullIsPositive
<1>2. q \in {-1, 0, 1}
  <2> HIDE DEF q, r
  <2>1. Full * q > 0 - 2 * Full /\ Full * q < 2 * Full
    BY <1>1, FullIsPositive
  <2>2. ASSUME q >= 2 PROVE FALSE
    <3>1. Full * q >= Full * 2
      BY <1>1, <2>2, FullIsPositive
    <3>2. QED
      BY <1>1, <2>1, <3>1, FullIsPositive
  <2>3. ASSUME q <= -2 PROVE FALSE
    <3>1. Full * q <= Full * (-2)
      BY <1>1, <2>3, FullIsPositive
    <3>2. QED
      BY <1>1, <2>1, <3>1, FullIsPositive
  <2>4. QED
    BY <1>1, <2>2, <2>3
<1>3. QED
  <2> HIDE DEF q, r
  <2>1. Uint64(n) = r
    BY DEF Uint64, Full, r
  <2>2. Full * q = IF q = 1 THEN Full ELSE IF q = 0 THEN 0 ELSE 0 - Full
    BY <1>2, FullIsPositive
  <2>3. QED
    BY <1>1, <1>2, <2>1, <2>2, FullIsPositive

-----------------------------------------------------------------------------
\* Between LibSetTime's two writes the low half waits in the device.
LowWaits == rtcPc = "setHigh" => lowLatch = EpochNanoseconds(Time) % Half

\* During LibGetTime the clock has ticked some times since the call, and what
\* the two registers return together is a time it showed on the way.
Elapsed ==
  rtcPc \in {"getLow", "getHigh"} =>
    \E e \in 0 .. ticks :
      /\ clock = Uint64(started + e)
      /\ rtcPc = "getHigh" =>
           \E d \in 0 .. e : highLatch * Half + Low = Uint64(started + d)

RtcTyped ==
  /\ clock \in 0 .. (Full - 1)
  /\ started \in 0 .. (Full - 1)
  /\ ticks \in 0 .. MaxTicks
  /\ Time \in Times

RtcInv == RtcTyped /\ LowWaits /\ Elapsed

\* The times set and converted are integers.
LEMMA TimesAreIntegers ==
  ASSUME NEW t \in Times
  PROVE  /\ Offset(t) \in Int
         /\ t.epoch * NANO_SEC \in Nat
         /\ EpochNanoseconds(t) \in 0 .. (Full - 1)
<1>1. Offset(t) \in Int /\ t.epoch * NANO_SEC \in Nat
  BY TimesAssumption, RtcConstantsAssumption DEF Offset
<1>2. EpochNanoseconds(t) \in 0 .. (Full - 1)
  BY <1>1, Uint64Type DEF EpochNanoseconds
<1>3. QED
  BY <1>1, <1>2

\* One more tick: the clock shows the next time since the call.
LEMMA NextTick ==
  ASSUME NEW s \in 0 .. (Full - 1), NEW e \in Nat, e + 1 <= MaxTicks
  PROVE  Uint64(Uint64(s + e) + 1) = Uint64(s + (e + 1))
<1>1. e + 1 < Full /\ MaxTicks \in Nat
  BY TicksAssumption, RtcConstantsAssumption, FullIsPositive DEF Full
<1>2. Uint64(s + e) = IF s + e < Full THEN s + e ELSE s + e - Full
  BY <1>1, Uint64Sum, FullIsPositive
<1>3. Uint64(s + (e + 1)) = IF s + (e + 1) < Full THEN s + (e + 1) ELSE s + (e + 1) - Full
  BY <1>1, Uint64Sum, FullIsPositive
<1>4. \A n \in 0 .. Full : Uint64(n) = IF n < Full THEN n ELSE n - Full
  BY Uint64Sum, FullIsPositive
<1>5. QED
  BY <1>1, <1>2, <1>3, <1>4, FullIsPositive

\* What the reads and the writes leave half done, at each of their steps.
LEMMA RtcInvariant == RtcSpec => []RtcInv
<1>1. RtcInit => RtcInv
  BY RtcConstantsAssumption DEF RtcInit, RtcInv, RtcTyped, LowWaits, Elapsed, Full
<1>2. RtcInv /\ [RtcNext]_rtcVars => RtcInv'
  <2> SUFFICES ASSUME RtcInv, [RtcNext]_rtcVars PROVE RtcInv'
    OBVIOUS
  <2> USE DEF RtcInv
  <2>1. CASE Tick
    <3>1. RtcTyped' /\ LowWaits'
      BY <2>1, Uint64Type, FullIsPositive, RtcConstantsAssumption DEF Tick, RtcTyped, LowWaits
    <3>2. Elapsed'
      <4> SUFFICES ASSUME rtcPc \in {"getLow", "getHigh"}
                   PROVE  \E e \in 0 .. (ticks + 1) :
                            /\ clock' = Uint64(started + e)
                            /\ rtcPc = "getHigh" =>
                                 \E d \in 0 .. e : highLatch * Half + Low = Uint64(started + d)
        BY <2>1 DEF Tick, Elapsed
      <4>1. PICK e \in 0 .. ticks :
              /\ clock = Uint64(started + e)
              /\ rtcPc = "getHigh" =>
                   \E d \in 0 .. e : highLatch * Half + Low = Uint64(started + d)
        BY DEF Elapsed
      <4>2. e \in Nat /\ ticks \in Nat /\ e + 1 <= MaxTicks /\ e + 1 \in 0 .. (ticks + 1)
        BY <2>1, <4>1, RtcConstantsAssumption DEF Tick, RtcTyped
      <4>3. clock' = Uint64(started + (e + 1))
        BY <2>1, <4>1, <4>2, NextTick DEF Tick, RtcTyped
      <4>4. 0 .. e \subseteq 0 .. (e + 1)
        BY <4>2
      <4>5. QED
        BY <4>1, <4>2, <4>3, <4>4
    <3>3. QED
      BY <3>1, <3>2
  <2>2. ASSUME NEW t \in Times, CallGetTime(t)
        PROVE  RtcInv'
    <3>1. clock = Uint64(started' + 0)
      BY <2>2, Uint64Sum, FullIsPositive DEF CallGetTime, RtcTyped
    <3>2. 0 \in 0 .. ticks'
      BY <2>2 DEF CallGetTime, RtcTyped
    <3>3. Elapsed'
      BY <2>2, <3>1, <3>2 DEF CallGetTime, Elapsed
    <3>4. QED
      BY <2>2, <3>3 DEF CallGetTime, RtcTyped, LowWaits
  <2>3. CASE GetTimeLow
    <3>1. highLatch' * Half + Low' = clock
      BY <2>3, Halves DEF GetTimeLow, RtcTyped
    <3>2. PICK e \in 0 .. ticks : clock = Uint64(started + e)
      BY <2>3 DEF GetTimeLow, Elapsed
    <3>3. e \in 0 .. e
      BY <3>2 DEF RtcTyped
    <3>4. Elapsed'
      BY <2>3, <3>1, <3>2, <3>3 DEF GetTimeLow, Elapsed
    <3>5. QED
      BY <2>3, <3>4 DEF GetTimeLow, RtcTyped, LowWaits
  <2>4. CASE GetTimeHigh
    BY <2>4 DEF GetTimeHigh, RtcTyped, LowWaits, Elapsed
  <2>5. ASSUME NEW t \in Times, CallSetTime(t)
        PROVE  RtcInv'
    BY <2>5 DEF CallSetTime, RtcTyped, LowWaits, Elapsed
  <2>6. CASE SetTimeLow
    BY <2>6 DEF SetTimeLow, RtcTyped, LowWaits, Elapsed
  <2>7. CASE SetTimeHigh
    <3>1. clock' = EpochNanoseconds(Time)
      BY <2>7, Halves, TimesAreIntegers, FullIsPositive
      DEF SetTimeHigh, HighWord, LowWaits, RtcTyped
    <3>2. clock' \in 0 .. (Full - 1)
      BY <3>1, TimesAreIntegers DEF RtcTyped
    <3>3. QED
      BY <2>7, <3>2 DEF SetTimeHigh, RtcTyped, LowWaits, Elapsed
  <2>8. CASE UNCHANGED rtcVars
    BY <2>8 DEF rtcVars, RtcTyped, LowWaits, Elapsed
  <2>9. QED
    BY <2>1, <2>2, <2>3, <2>4, <2>5, <2>6, <2>7, <2>8 DEF RtcNext, GetTime, SetTime
<1>3. QED
  BY <1>1, <1>2, PTL DEF RtcSpec

\* Whenever the clock is set without an offset, both halves of the time reach
\* it, however often it ticks between the two writes.
THEOREM SetExactly == RtcSpec => SetTimeIsExact
<1>1. RtcInv /\ SetTimeHigh /\ Offset(Time) = 0 => clock' = Uint64(Time.epoch * NANO_SEC)
  <2> SUFFICES ASSUME RtcInv, SetTimeHigh, Offset(Time) = 0
               PROVE  clock' = Uint64(Time.epoch * NANO_SEC)
    OBVIOUS
  <2>1. clock' = EpochNanoseconds(Time)
    BY Halves, TimesAreIntegers, FullIsPositive
    DEF SetTimeHigh, HighWord, LowWaits, RtcInv, RtcTyped
  <2>2. Time.epoch * NANO_SEC - 0 = Time.epoch * NANO_SEC
    BY TimesAreIntegers DEF RtcInv, RtcTyped
  <2>3. QED
    BY <2>1, <2>2 DEF EpochNanoseconds
<1>2. QED
  BY <1>1, RtcInvariant, PTL DEF SetTimeIsExact

\* The time returned is one that the clock showed during the call.
THEOREM GetCurrent == RtcSpec => GetTimeIsCurrent
<1> DEFINE Shown == \E elapsed \in 0 .. MaxTicks :
                      /\ elapsed <= Uint64(clock - started)
                      /\ result' = EpochSeconds(Uint64(started + elapsed), Time)
<1>1. RtcInv /\ GetTimeHigh => Shown
  <2> SUFFICES ASSUME RtcInv, GetTimeHigh PROVE Shown
    OBVIOUS
  <2> USE DEF RtcInv
  <2>1. PICK e \in 0 .. ticks :
          /\ clock = Uint64(started + e)
          /\ \E d \in 0 .. e : highLatch * Half + Low = Uint64(started + d)
    BY DEF Elapsed, GetTimeHigh
  <2>2. PICK d \in 0 .. e : highLatch * Half + Low = Uint64(started + d)
    BY <2>1
  <2>3. e < Full /\ e <= MaxTicks /\ e \in Nat /\ d \in Nat
    BY <2>1, <2>2, TicksAssumption, RtcConstantsAssumption, FullIsPositive DEF RtcTyped, Full
  <2>4. clock = IF started + e < Full THEN started + e ELSE started + e - Full
    BY <2>1, <2>3, Uint64Sum, FullIsPositive DEF RtcTyped
  <2>5. Uint64(clock - started) = e
    BY <2>3, <2>4, Uint64Sum, FullIsPositive DEF RtcTyped
  <2>6. result' = EpochSeconds(Uint64(started + d), Time)
    BY <2>2 DEF GetTimeHigh, Combined
  <2>7. d \in 0 .. MaxTicks /\ d <= Uint64(clock - started)
    BY <2>2, <2>3, <2>5, RtcConstantsAssumption
  <2>8. QED
    BY <2>6, <2>7
<1>2. QED
  BY <1>1, RtcInvariant, PTL DEF GetTimeIsCurrent

=============================================================================
