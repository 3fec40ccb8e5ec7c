---------------------------- MODULE GoldfishKeys ----------------------------
(***************************************************************************)
(* Key translation of GoldfishEventsDxe: Linux key codes and the modifier  *)
(* flags of GOLDFISH_EVENTS_DEV to EFI_INPUT_KEY, EFI_KEY_STATE, and the   *)
(* match of a key against a registered notification.                       *)
(*                                                                         *)
(* The three BOOLEANs KeyShift, KeyCtrl and KeyAlt are one set: the        *)
(* modifiers whose flag is TRUE.  Characters are their code points.  A     *)
(* shift or toggle state is the set of its bits, so the value 0 is {}.     *)
(***************************************************************************)
EXTENDS Naturals, Sequences

EV_KEY == 1

Modifiers == {"Shift", "Ctrl", "Alt"}

\* The two key codes that drive each modifier flag (left, right).
ModifierKeys == [Shift |-> {42, 54}, Ctrl |-> {29, 97}, Alt |-> {56, 100}]

LockKeys == {58, 69, 70}                     \* Caps, Num and Scroll Lock

MAX_KEYBOARD_CODE == 112

NullKey == [ScanCode |-> 0, UnicodeChar |-> 0]

(***************************************************************************)
(* The character tables, one record per designated range of mKeyMap and    *)
(* mKeyMapShift.  Every other entry of the arrays is zero.                 *)
(***************************************************************************)
KeyRows ==
  { [first |-> 2,  plain   |-> <<49, 50, 51, 52, 53, 54, 55, 56, 57, 48>>,
                   shifted |-> <<33, 64, 35, 36, 37, 94, 38, 42, 40, 41>>],
    [first |-> 12, plain   |-> <<45, 61>>,
                   shifted |-> <<95, 43>>],
    [first |-> 16, plain   |-> <<113, 119, 101, 114, 116, 121, 117, 105, 111, 112>>,
                   shifted |-> <<81, 87, 69, 82, 84, 89, 85, 73, 79, 80>>],
    [first |-> 26, plain   |-> <<91, 93>>,
                   shifted |-> <<123, 125>>],
    [first |-> 30, plain   |-> <<97, 115, 100, 102, 103, 104, 106, 107, 108>>,
                   shifted |-> <<65, 83, 68, 70, 71, 72, 74, 75, 76>>],
    [first |-> 39, plain   |-> <<59, 39, 96>>,
                   shifted |-> <<58, 34, 126>>],
    [first |-> 43, plain   |-> <<92>>,
                   shifted |-> <<124>>],
    [first |-> 44, plain   |-> <<122, 120, 99, 118, 98, 110, 109>>,
                   shifted |-> <<90, 88, 67, 86, 66, 78, 77>>],
    [first |-> 51, plain   |-> <<44, 46, 47>>,
                   shifted |-> <<60, 62, 63>>],
    [first |-> 57, plain   |-> <<32>>,
                   shifted |-> <<32>>] }

RowsOf(code) == {r \in KeyRows : code \in r.first .. (r.first + Len(r.plain) - 1)}

mKeyMap == [code \in 0 .. MAX_KEYBOARD_CODE |->
              IF RowsOf(code) = {} THEN 0
              ELSE LET r == CHOOSE row \in RowsOf(code) : TRUE
                   IN  r.plain[code - r.first + 1]]

mKeyMapShift == [code \in 0 .. MAX_KEYBOARD_CODE |->
                   IF RowsOf(code) = {} THEN 0
                   ELSE LET r == CHOOSE row \in RowsOf(code) : TRUE
                        IN  r.shifted[code - r.first + 1]]

(***************************************************************************)
(* Keys that yield a scan code and no character (F1..F10, ESC, the arrows, *)
(* the editing pad), and keys that yield a control character.              *)
(***************************************************************************)
FunctionKeys == 59 .. 68

ScanKeys == {<<1, 23>>, <<103, 1>>, <<108, 2>>, <<106, 3>>, <<105, 4>>,
             <<102, 5>>, <<107, 6>>, <<110, 7>>, <<111, 8>>, <<104, 9>>,
             <<109, 10>>} \cup {<<c, 11 + (c - 59)>> : c \in FunctionKeys}

CharKeys == {<<14, 8>>, <<15, 9>>, <<28, 13>>}  \* Backspace, Tab, Enter

\* Faulty form: only the left key's release clears the flag.
ModifiersAfterLeft(mods, code, pressed) ==
  LET own == {m \in Modifiers : code \in ModifierKeys[m]}
  IN  IF pressed THEN mods \cup own
      ELSE IF code \in {42, 29, 56} THEN mods \ own ELSE mods

\* ConvertKeyCode's effect on the modifier flags.
ModifiersAfter(mods, code, pressed) ==
  LET own == {m \in Modifiers : code \in ModifierKeys[m]}
  IN  IF pressed THEN mods \cup own ELSE mods \ own

\* Faulty form: Ctrl masks the scan code too.
RegularKeyMasked(mods, code) ==
  LET char == IF "Shift" \in mods THEN mKeyMapShift[code] ELSE mKeyMap[code]
      both == IF "Ctrl" \in mods THEN char % 32 ELSE char
  IN  [ScanCode |-> both, UnicodeChar |-> both]

\* ConvertKeyCode's regular character keys: Shift picks the table, Ctrl keeps
\* the low five bits of the character; the scan code keeps the character.
RegularKey(mods, code) ==
  LET char == IF "Shift" \in mods THEN mKeyMapShift[code] ELSE mKeyMap[code]
  IN  [ScanCode    |-> char,
       UnicodeChar |-> IF "Ctrl" \in mods THEN char % 32 ELSE char]

\* The second member of the only pair of the table that starts with code.
Entry(table, code) == (CHOOSE p \in table : p[1] = code)[2]
InTable(table, code) == \E p \in table : p[1] = code

\* The EFI_INPUT_KEY of a pressed key: modifiers and locks yield none.
PressedKey(mods, code) ==
  IF \/ \E m \in Modifiers : code \in ModifierKeys[m]
     \/ code \in LockKeys
     \/ code >= MAX_KEYBOARD_CODE
  THEN NullKey
  ELSE IF InTable(ScanKeys, code)
       THEN [ScanCode |-> Entry(ScanKeys, code), UnicodeChar |-> 0]
       ELSE IF InTable(CharKeys, code)
            THEN [ScanCode |-> 0, UnicodeChar |-> Entry(CharKeys, code)]
            ELSE RegularKey(mods, code)

\* Faulty form: the key code itself is reported.
KeyOfRaw(mods, code, pressed) ==
  IF pressed THEN [ScanCode |-> code, UnicodeChar |-> 0] ELSE NullKey

\* ConvertKeyCode's result: a release yields no key.
KeyOf(mods, code, pressed) ==
  IF pressed THEN PressedKey(mods, code) ELSE NullKey

\* A flag reports both sides of its modifier, whichever key set it.
BuildKeyState(mods) ==
  [KeyShiftState  |-> {<<"State", "Valid">>} \cup ({"Left", "Right"} \X mods),
   KeyToggleState |-> {<<"State", "Valid">>}]

\* What ZeroMem leaves in an EFI_KEY_DATA, and what the boot manager registers
\* with: no bit of either state is set.
NoKeyState == [KeyShiftState |-> {}, KeyToggleState |-> {}]

\* Faulty form: the scan code is not compared.
IsKeyRegisteredByChar(registered, input) ==
  registered.Key.UnicodeChar = input.Key.UnicodeChar

\* Key equal; a state the registration left at 0 matches any.
IsKeyRegistered(registered, input) ==
  /\ registered.Key = input.Key
  /\ registered.KeyState.KeyShiftState \in {{}, input.KeyState.KeyShiftState}
  /\ registered.KeyState.KeyToggleState \in {{}, input.KeyState.KeyToggleState}

=============================================================================
