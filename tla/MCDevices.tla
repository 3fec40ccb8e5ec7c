----------------------------- MODULE MCDevices -----------------------------
(***************************************************************************)
(* The three devices that are read register by register: the random number *)
(* generator, the battery and the clock.  Their drivers share no state, so *)
(* one of them runs in a behaviour and the other two stay as they are.     *)
(***************************************************************************)
EXTENDS Bcm2835Rng, GoldfishBattery, GoldfishRtc

CONSTANT Devices      \* those that some behaviour runs

VARIABLE device

allVars == <<device, vars, batteryVars, rtcVars>>

OnlyRng     == device = "rng"     /\ UNCHANGED <<device, batteryVars, rtcVars>>
OnlyBattery == device = "battery" /\ UNCHANGED <<device, vars, rtcVars>>
OnlyRtc     == device = "rtc"     /\ UNCHANGED <<device, vars, batteryVars>>

\* A device that does not run has one initial state.
DevicesInit ==
  /\ device \in Devices
  /\ Init /\ BatteryInit /\ RtcInit
  /\ device # "battery" => regs["Temp"] = CHOOSE v \in Values : TRUE
  /\ device # "rtc" => clock = (CHOOSE c \in StartTimes : TRUE)
                       /\ Time = (CHOOSE t \in Times : TRUE)

DevicesNext ==
  \/ OnlyRng /\ Next
  \/ OnlyBattery /\ BatteryNext
  \/ OnlyRtc /\ RtcNext

DevicesSpec ==
  /\ DevicesInit /\ [][DevicesNext]_allVars
  /\ WF_allVars(OnlyRng /\ GetRNG)
  /\ WF_allVars(OnlyRng /\ EntryPoint)

-----------------------------------------------------------------------------
\* Buffers of whole words, and one that ends inside a word.
AllLengths == {4, 5, 8, 12}
OneTail    == {4, 5}

\* The power supply, and the first and the last of the battery's registers.
AcAndBattery == {"AcOnline", "Status", "CycleCount"}

\* Just before the low half, and before the 64 bits, wrap.
Around == {14, 15, 255}

EfiTime(epoch, zone, daylight) ==
  [epoch |-> epoch, TimeZone |-> zone, Daylight |-> daylight]

\* UTC, both sides of it, and daylight saving with and without a time zone.
AllTimes ==
  {EfiTime(7, 0, FALSE), EfiTime(60, Unspecified, FALSE), EfiTime(7, Unspecified, TRUE),
   EfiTime(60, 1, TRUE), EfiTime(7, -2, FALSE)}

ZonedTimes == {EfiTime(7, 0, FALSE), EfiTime(7, 1, FALSE)}

=============================================================================
