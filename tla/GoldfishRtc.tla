---------------------------- MODULE GoldfishRtc ----------------------------
(***************************************************************************)
(* The real time clock library (GoldfishRealTimeClockLib): LibGetTime and  *)
(* LibSetTime, which move a 64-bit time in nanoseconds through two 32-bit  *)
(* registers while the clock runs.  The runtime services call them one at  *)
(* a time.  The calendar fields of an EFI_TIME are one number, the seconds *)
(* since the epoch that TimeBaseLib converts them to and from.             *)
(***************************************************************************)
EXTENDS Integers

CONSTANTS
  Half,           \* 2^32, the values of one register
  NANO_SEC, SEC_PER_MIN, SEC_PER_HOUR,
  Unspecified,    \* EFI_UNSPECIFIED_TIMEZONE
  Times,          \* EFI_TIMEs: epoch (seconds), TimeZone (minutes), Daylight
  StartTimes,     \* what the clock may show at boot
  MaxTicks        \* bound on the ticks of the clock

ASSUME RtcConstantsAssumption ==
  /\ {Half, NANO_SEC, SEC_PER_MIN, SEC_PER_HOUR} \subseteq Nat \ {0}
  /\ MaxTicks \in Nat
  /\ StartTimes \subseteq 0 .. (Half * Half - 1)

\* Times are counted from the epoch on; time zones are offsets.
ASSUME TimesAssumption ==
  /\ Unspecified \in Int
  /\ \A t \in Times : t.epoch \in Nat /\ t.TimeZone \in Int

\* The clock does not run through all its 64 bits, for 584 years.
ASSUME TicksAssumption == MaxTicks < Half * Half

VARIABLES
  clock,     \* the device: its time, the high half its last read of TIME_LOW
  highLatch, \* latched, the low half that waits for a write of TIME_HIGH
  lowLatch,
  ticks,
  rtcPc,        \* the call in progress, its Time and its local Low
  Time, Low,
  result,    \* what the last LibGetTime returned, in seconds
  started    \* history: the clock at the start of the last LibGetTime

rtcVars == <<clock, highLatch, lowLatch, ticks, rtcPc, Time, Low, result, started>>

Uint64(n) == n % (Half * Half)

\* Seconds that the fields TimeZone and Daylight add to UTC.
Offset(t) ==
  IF t.TimeZone # Unspecified THEN t.TimeZone * SEC_PER_MIN
  ELSE IF t.Daylight THEN SEC_PER_HOUR ELSE 0

\* LibGetTime's conversion of the clock.
EpochSeconds(ns, t) == Uint64(ns \div NANO_SEC + Offset(t))

\* LibSetTime's conversion to the clock: nanoseconds less seconds.
EpochNanoseconds(t) == Uint64(t.epoch * NANO_SEC - Offset(t))

RtcInit ==
  /\ clock \in StartTimes
  /\ highLatch = 0 /\ lowLatch = 0
  /\ ticks = 0
  /\ rtcPc = "idle"
  /\ Time \in Times
  /\ Low = 0
  /\ result = EpochSeconds(clock, Time)
  /\ started = clock

-----------------------------------------------------------------------------
\* The device counts, from the last value of 64 bits on to 0.
Tick ==
  /\ ticks < MaxTicks
  /\ ticks' = ticks + 1
  /\ clock' = Uint64(clock + 1)
  /\ UNCHANGED <<highLatch, lowLatch, rtcPc, Time, Low, result, started>>

\* The caller's Time already holds the time zone to report in.
CallGetTime(t) ==
  /\ rtcPc = "idle"
  /\ rtcPc' = "getLow"
  /\ Time' = t
  /\ started' = clock
  /\ UNCHANGED <<clock, highLatch, lowLatch, ticks, Low, result>>

\* Faulty form: High is not widened before it is shifted.
CombinedIn32Bits(high, low) == ((high * Half) % Half) + low

\* The two halves as nanoseconds.
Combined(high, low) == high * Half + low

\* Reading TIME_LOW latches the high half, which TIME_HIGH then returns.
GetTimeLow ==
  /\ rtcPc = "getLow"
  /\ rtcPc' = "getHigh"
  /\ Low' = clock % Half
  /\ highLatch' = clock \div Half
  /\ UNCHANGED <<clock, lowLatch, ticks, Time, result, started>>

GetTimeHigh ==
  /\ rtcPc = "getHigh"
  /\ rtcPc' = "idle"
  /\ result' = EpochSeconds(Combined(highLatch, Low), Time)
  /\ UNCHANGED <<clock, highLatch, lowLatch, ticks, Time, Low, started>>

CallSetTime(t) ==
  /\ rtcPc = "idle"
  /\ rtcPc' = "setLow"
  /\ Time' = t
  /\ UNCHANGED <<clock, highLatch, lowLatch, ticks, Low, result, started>>

SetTimeLow ==
  /\ rtcPc = "setLow"
  /\ rtcPc' = "setHigh"
  /\ lowLatch' = EpochNanoseconds(Time) % Half
  /\ UNCHANGED <<clock, highLatch, ticks, Time, Low, result, started>>

\* Faulty form: the high word is the low word again.
HighWordTruncated(t) == EpochNanoseconds(t) % Half

HighWord(t) == EpochNanoseconds(t) \div Half

\* The write of TIME_HIGH makes both halves take effect.
SetTimeHigh ==
  /\ rtcPc = "setHigh"
  /\ rtcPc' = "idle"
  /\ clock' = HighWord(Time) * Half + lowLatch
  /\ UNCHANGED <<highLatch, lowLatch, ticks, Time, Low, result, started>>

GetTime == (\E t \in Times : CallGetTime(t)) \/ GetTimeLow \/ GetTimeHigh
SetTime == (\E t \in Times : CallSetTime(t)) \/ SetTimeLow \/ SetTimeHigh

RtcNext == Tick \/ GetTime \/ SetTime

RtcSpec == RtcInit /\ [][RtcNext]_rtcVars

-----------------------------------------------------------------------------
\* The time that LibGetTime returns is one the clock showed during the call, in
\* the time zone asked for, also when the low half overflows between the reads
\* of the two registers.
GetTimeIsCurrent ==
  [][GetTimeHigh =>
       \E elapsed \in 0 .. MaxTicks :
         /\ elapsed <= Uint64(clock - started)
         /\ result' = EpochSeconds(Uint64(started + elapsed), Time)]_rtcVars

\* "Adjust for the correct time zone, i.e. convert to UTC time zone": when
\* LibSetTime returns, the clock shows the time set, in UTC.
SetTimeIsUTC ==
  [][SetTimeHigh => clock' = Uint64((Time.epoch - Offset(Time)) * NANO_SEC)]_rtcVars

\* It does when no offset has to be subtracted: both halves of the time reach
\* the clock, although it goes on counting between the two writes.
SetTimeIsExact ==
  [][SetTimeHigh /\ Offset(Time) = 0 => clock' = Uint64(Time.epoch * NANO_SEC)]_rtcVars

=============================================================================
