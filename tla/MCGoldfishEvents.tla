-------------------------- MODULE MCGoldfishEvents --------------------------
EXTENDS GoldfishEvents

CONSTANTS NumRegistrations

\* Key codes of the instances.
LeftShift  == 42
RightShift == 54
Esc        == 1
KeyA       == 30

NoCodes == {}

EscOnly == {Esc}
EscA == {Esc, KeyA}
ShiftsEsc == {LeftShift, RightShift, Esc}
AbsEvents == {3}

EscPlain == [NullKey EXCEPT !.ScanCode = 23]

\* The hot key of the boot manager, the same key with Shift required, and a
\* second client of the plain key.
MCRegistrations ==
  LET all == << [Key |-> EscPlain, KeyState |-> NoKeyState, fn |-> "boot"],
                [Key |-> EscPlain, KeyState |-> NoKeyState, fn |-> "app"],
                [Key |-> EscPlain, KeyState |-> BuildKeyState({"Shift"}), fn |-> "app"] >>
  IN  {all[i] : i \in 1 .. NumRegistrations}

AllOps == AppOperations
NotifyClientOps == {"RegisterKeyNotify", "UnregisterKeyNotify", "RaiseTPL"}
ResetOps == {"Reset", "ReadKeyStroke"}
FunctionOps == {"ReadKeyStroke", "RegisterKeyNotify", "UnregisterKeyNotify"}
NoOps == {}

=============================================================================
