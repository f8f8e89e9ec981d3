------------------------------ MODULE KeyCodes ------------------------------
(***************************************************************************)
(* The three codes of a key and the tables between them: the code of the   *)
(* FreeBSD console driver in K_CODE mode (raw), the Linux code svgalib     *)
(* works with (low: SCANCODE_A ...) and the code of ktest (up: KEYB_A ...).*)
(***************************************************************************)
EXTENDS Integers, Sequences

KEYB_MAX == 256
KEYB_ESC == 59
KEYB_PAUSE == 93
KEYB_RCONTROL == 106

\* KEYS[] (keytest.c), by runs of consecutive up codes.
Letters   == <<30, 48, 46, 32, 18, 33, 34, 35, 23, 36, 37, 38, 50, 49, 24, 25,
               16, 19, 31, 20, 22, 47, 17, 45, 21, 44>>
Digits    == <<11, 2, 3, 4, 5, 6, 7, 8, 9, 10>>
Pad       == <<82, 79, 80, 81, 75, 76, 77, 71, 72, 73>>
FKeys == <<59, 60, 61, 62, 63, 64, 65, 66, 67, 68, 87, 88>>
Others    == <<1, 41, 12, 13, 14, 15, 26, 27, 28, 39, 40, 43, 86, 51, 52, 53, 57,
               110, 111, 102, 107, 104, 109, 105, 106, 103, 108,
               98, 55, 74, 78, 83, 96, 99, 101>>
Modifiers == <<42, 54, 29, 97, 56, 100, 125, 126, 127, 70, 69, 58>>

Run(first, lows) == {[up |-> first + i - 1, low |-> lows[i]] : i \in 1..Len(lows)}

\* Mutant: KEYB_MENU is the 139 that key.h has commented out.
KeysOldMenu ==
  Run(1, Letters \o Digits \o Pad \o FKeys \o Others) \cup Run(103, Modifiers)
    \cup {[up |-> 139, low |-> 127]}

\* Mutant: the end marker { KEYB_MAX, 0 } is taken for an entry.
KeysWithEnd ==
  Run(1, Letters \o Digits \o Pad \o FKeys \o Others) \cup Run(103, Modifiers)
    \cup {[up |-> KEYB_MAX, low |-> 0]}

KEYS == Run(1, Letters \o Digits \o Pad \o FKeys \o Others) \cup Run(103, Modifiers)

\* KEY[] (key.c): the up codes that have a name.
Defined == (1..93) \cup (103..114) \cup (128..138) \cup (140..198)
             \cup (200..203) \cup {205, 206, 224, 225} \cup (230..247)

key_is_defined(code) == code < KEYB_MAX /\ code \in Defined

(***************************************************************************)
(* The switch of kbd_mapkey(): raw code to low code.  A code without a     *)
(* case is kept; keymap files are not used.                                *)
(***************************************************************************)
Cases(raw) ==
  CASE raw = 92  -> 99  [] raw = 104 -> 101                          \* PrtSc, Pause
    [] raw = 102 -> 110 [] raw = 94  -> 102 [] raw = 96  -> 104      \* Ins, Home, PgUp
    [] raw = 103 -> 111 [] raw = 99  -> 107 [] raw = 101 -> 109      \* Del, End, PgDn
    [] raw = 95  -> 103 [] raw = 100 -> 108                          \* arrows: up, down,
    [] raw = 97  -> 105 [] raw = 98  -> 106                          \* left, right
    [] raw = 91  -> 98  [] raw = 89  -> 96  [] raw = 93  -> 100      \* pad /, Enter, AltGr
    [] raw = 105 -> 125 [] raw = 106 -> 126 [] raw = 107 -> 127      \* Win, Win, Menu
    [] raw = 109 -> 89  [] raw = 110 -> 90                           \* Sun keys
    [] raw = 111 -> 91  [] raw = 115 -> 92
    [] OTHER -> raw

\* Mutant: Page Up where Up Arrow should be, a neighbour in the switch.
MapkeySwapped(raw) == IF raw = 96 THEN 103 ELSE Cases(raw)

kbd_mapkey(raw) == Cases(raw)

(***************************************************************************)
(* The keyboard (external): the keys by their raw codes, and the Linux     *)
(* code that names each.  The main block has the codes of the PC/AT set 1; *)
(* the extended keys follow from 0x59 on, right Control being 0x5a.        *)
(***************************************************************************)
MainBlock == (1..83) \cup {86, 87, 88}
Extended == <<96, 97, 98, 99, 100, 102, 103, 104, 105, 106, 107, 108, 109, 110,
              111, 101, 125, 126, 127>>
SunKeys == {109, 110, 111, 115}
Keyboard == MainBlock \cup 89..107
Linux(raw) == IF raw \in MainBlock THEN raw ELSE Extended[raw - 88]
=============================================================================
