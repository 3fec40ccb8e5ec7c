----------------------------- MODULE Bcm2835Rng -----------------------------
(***************************************************************************)
(* The random number driver (Bcm2835RngDxe): its entry point, which makes  *)
(* the protocol available before it starts the hardware, and one caller of *)
(* GetRNG at a time, beside the hardware that fills its FIFO meanwhile.    *)
(* What the bytes are is left out; how many there are is what is modelled. *)
(***************************************************************************)
EXTENDS Naturals

CONSTANTS
  Lengths,          \* buffer sizes callers ask for
  RNG_MAX_RETRIES,  \* times the status is read again when the FIFO is empty
  MAX_UINTN,        \* the largest UINTN, of lengths and of pointers
  FifoDepth         \* words the hardware buffers

ASSUME LengthsAssumption == Lengths \subseteq 1 .. MAX_UINTN
ASSUME BoundsAssumption ==
  /\ RNG_MAX_RETRIES \in Nat
  /\ FifoDepth \in Nat
  /\ MAX_UINTN \in Nat /\ MAX_UINTN >= 4

VARIABLES
  fifo,       \* the hardware: words it holds, and whether it is running
  enabled,
  entryPc,    \* where Bcm2835RngEntryPoint is
  pc,         \* GetRNG: where it is, its locals, its last return value
  RNGValueLength, Num, Retries, Status,
  length,     \* what the caller asked for
  written     \* how far RNGValue has moved

getRngVars == <<pc, RNGValueLength, Num, Retries, Status, length, written>>
vars == <<fifo, enabled, entryPc, getRngVars>>

\* UINTN addition and subtraction.
Plus(a, b)  == IF a + b > MAX_UINTN THEN a + b - (MAX_UINTN + 1) ELSE a + b
Minus(a, b) == IF b > a THEN (MAX_UINTN + 1 + a) - b ELSE a - b

Init ==
  /\ fifo = 0 /\ enabled = FALSE
  /\ entryPc = "install"
  /\ pc = "idle" /\ Status = "none"
  /\ RNGValueLength = 0 /\ Num = 0 /\ Retries = 0
  /\ length = 0 /\ written = 0

-----------------------------------------------------------------------------
\* InstallMultipleProtocolInterfaces, then the write of RNG_STATUS, then the
\* write of RNG_CTRL.  Callbacks may call GetRNG between any two of them.
EntryPoint ==
  /\ pc = "idle"
  /\ entryPc # "run"
  /\ entryPc' = [install |-> "warmup", warmup |-> "enable", enable |-> "run"][entryPc]
  /\ enabled' = (entryPc = "enable")
  /\ UNCHANGED <<fifo, getRngVars>>

\* The hardware adds a word.
Fill ==
  /\ enabled
  /\ fifo < FifoDepth
  /\ fifo' = fifo + 1
  /\ UNCHANGED <<enabled, entryPc, getRngVars>>

\* A call with valid arguments.  Invalid ones return at once.
Call(len) ==
  /\ entryPc # "install"
  /\ pc = "idle"
  /\ pc' = "status"
  /\ length' = len /\ RNGValueLength' = len
  /\ written' = 0 /\ Num' = 0
  /\ Retries' = RNG_MAX_RETRIES
  /\ Status' = "none"
  /\ UNCHANGED <<fifo, enabled, entryPc>>

\* Faulty form: the bound on the retries is not counted down.
RetriesAfterPollKept == Retries

RetriesAfterPoll == Retries - 1

\* RNG_STATUS holds the number of words in the FIFO.  An empty FIFO is polled
\* again, RNG_MAX_RETRIES times, and is then a device error.
ReadStatus ==
  /\ pc = "status"
  /\ Num' = fifo
  /\ \/ /\ fifo > 0
        /\ pc' = "data"
        /\ UNCHANGED <<Retries, Status>>
     \/ /\ fifo = 0 /\ Retries > 0
        /\ Retries' = RetriesAfterPoll
        /\ UNCHANGED <<pc, Status>>
     \/ /\ fifo = 0 /\ Retries = 0
        /\ pc' = "idle" /\ Status' = "DEVICE_ERROR"
        /\ UNCHANGED Retries
  /\ UNCHANGED <<fifo, enabled, entryPc, RNGValueLength, length, written>>

\* Reading RNG_DATA dequeues a word, if there is one.
ReadData ==
  /\ fifo' = IF fifo > 0 THEN fifo - 1 ELSE 0
  /\ UNCHANGED <<enabled, entryPc>>

\* Faulty forms: the word loop forgets one of its two bounds.
WordWantedAnyLength == Num > 0
WordWantedAnyNum    == RNGValueLength >= 4

WordWanted == RNGValueLength >= 4 /\ Num > 0

ReadWord ==
  /\ pc = "data"
  /\ WordWanted
  /\ ReadData
  /\ written' = Plus(written, 4)
  /\ RNGValueLength' = Minus(RNGValueLength, 4)
  /\ Num' = Minus(Num, 1)
  /\ UNCHANGED <<pc, Retries, Status, length>>

\* The last one to three bytes.  The test that ends the byte loop decrements
\* RNGValueLength once more, from 0, and the outer loop goes round again.
ReadTail ==
  /\ pc = "data"
  /\ ~WordWanted
  /\ RNGValueLength > 0 /\ Num > 0
  /\ ReadData
  /\ written' = Plus(written, RNGValueLength)
  /\ RNGValueLength' = Minus(0, 1)
  /\ pc' = "status" /\ Retries' = RNG_MAX_RETRIES
  /\ UNCHANGED <<Num, Status, length>>

\* The words announced are used up, or the buffer is full.
EndRound ==
  /\ pc = "data"
  /\ ~WordWanted
  /\ RNGValueLength = 0 \/ Num = 0
  /\ IF RNGValueLength = 0
     THEN pc' = "idle" /\ Status' = "SUCCESS" /\ UNCHANGED Retries
     ELSE pc' = "status" /\ Retries' = RNG_MAX_RETRIES /\ UNCHANGED Status
  /\ UNCHANGED <<fifo, enabled, entryPc, RNGValueLength, Num, length, written>>

GetRNG == ReadStatus \/ ReadWord \/ ReadTail \/ EndRound

Next == EntryPoint \/ Fill \/ (\E len \in Lengths : Call(len)) \/ GetRNG

Spec == Init /\ [][Next]_vars

\* GetRNG and the entry point run on; the hardware may stay silent for ever.
FairSpec == Spec /\ WF_vars(GetRNG) /\ WF_vars(EntryPoint)

-----------------------------------------------------------------------------
TypeOK ==
  /\ fifo \in 0 .. FifoDepth /\ enabled \in BOOLEAN
  /\ entryPc \in {"install", "warmup", "enable", "run"}
  /\ pc \in {"idle", "status", "data"}
  /\ Status \in {"none", "SUCCESS", "DEVICE_ERROR"}
  /\ RNGValueLength \in 0 .. MAX_UINTN
  /\ Num \in 0 .. FifoDepth
  /\ Retries \in 0 .. RNG_MAX_RETRIES
  /\ length \in {0} \cup Lengths
  /\ written \in 0 .. MAX_UINTN

\* "The driver shall return exactly this numbers of bytes": GetRNG writes inside
\* the caller's buffer, and a call that succeeds has written all of it, however
\* the hardware's words arrive during the call.
ExactBytes ==
  /\ written <= length
  /\ Status = "SUCCESS" => written = length

\* It does so when the buffer is a number of whole words.
WholeWords == length % 4 = 0

ExactWords == WholeWords => ExactBytes

\* The words that RNG_STATUS announced are still there when they are read: no
\* word of an empty FIFO is passed on as random.
NoEmptyRead == pc = "data" => Num <= fifo

\* GetRNG returns, also when it is called before the hardware is started or
\* when the hardware stays silent.
GetRNGReturns == (pc # "idle" /\ WholeWords) ~> (pc = "idle")

=============================================================================
