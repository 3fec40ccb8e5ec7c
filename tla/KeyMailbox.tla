----------------------------- MODULE KeyMailbox -----------------------------
(***************************************************************************)
(* What the keyboard driver promises of each of its two key buffers: a     *)
(* mailbox that holds one key, the latest.  Keys are numbered in the order *)
(* the driver converted them.  A key may be lost, to a newer key or to a   *)
(* reset, but the keys that are taken come out in the order they were      *)
(* typed and none comes out twice.                                         *)
(***************************************************************************)
EXTENDS Naturals

VARIABLES
  slot,      \* number of the key in the mailbox, 0 when it is empty
  last       \* number of the last key that was taken, 0 before the first

vars == <<slot, last>>

Init == slot = 0 /\ last = 0

\* A newer key replaces whatever the mailbox holds.
Put ==
  /\ slot' \in Nat
  /\ slot' > slot
  /\ slot' > last
  /\ UNCHANGED last

Take ==
  /\ slot # 0
  /\ last' = slot
  /\ slot' = 0

Clear ==
  /\ slot' = 0
  /\ UNCHANGED last

Next == Put \/ Take \/ Clear

Spec == Init /\ [][Next]_vars

TypeOK == slot \in Nat /\ last \in Nat

\* The key in the mailbox is newer than every key taken from it.
Fresh == slot # 0 => slot > last

\* Keys are taken at most once and in the order they were typed.
TakenInOrder == [][last' # last => last' > last]_vars

=============================================================================
