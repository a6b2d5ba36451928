------------------------------- MODULE Base64 -------------------------------
(***************************************************************************)
(* The base64 of ets/common/WebSocketSSHClient.ets against RFC 4648: btoa  *)
(* encodes what the user types for the proxy, atob decodes what the server *)
(* writes.  A byte is the set of its ones, of 0..7, a character of the     *)
(* code is its place in the alphabet, the set of its ones of 0..5, and the *)
(* loop of either is a comprehension over its groups.                      *)
(***************************************************************************)
EXTENDS Words, Sequences, SequencesExt

Byte == SUBSET (0..7)

Pad == {6}      \* '=': the 64 of atob, above the alphabet

Groups(n, size) == (n + size - 1) \div size

At(s, k) == IF k <= Len(s) THEN s[k] ELSE {}

Bitmap_narrowShift(s, g) ==
  ShiftLeft(At(s, 3 * g + 1), 16) \cup ShiftLeft(At(s, 3 * g + 2), 7) \cup At(s, 3 * g + 3)

Bitmap(s, g) ==
  ShiftLeft(At(s, 3 * g + 1), 16) \cup ShiftLeft(At(s, 3 * g + 2), 8) \cup At(s, 3 * g + 3)

(* btoa: i is where the loop stands after it has taken the group. *)
BtoaGroup(s, g) ==
  LET i == IF 3 * g + 3 <= Len(s) THEN 3 * g + 3 ELSE Len(s)
  IN <<Field(Bitmap(s, g), 18, 6), Field(Bitmap(s, g), 12, 6),
       IF i - 2 < Len(s) THEN Field(Bitmap(s, g), 6, 6) ELSE Pad,
       IF i - 1 < Len(s) THEN Field(Bitmap(s, g), 0, 6) ELSE Pad>>

Btoa(s) == FlattenSeq([g \in 1..Groups(Len(s), 3) |-> BtoaGroup(s, g - 1)])

(* atob: indexOf gives -1 for what is not in the alphabet; the last group  *)
(* may lack two characters.                                                *)
IndexOf(s, k) == IF k <= Len(s) /\ s[k] # Pad THEN s[k] ELSE Word

OrPad(s, k) == IF k <= Len(s) THEN IndexOf(s, k) ELSE Pad

Joined(a, b, c, d) == ShiftLeft(a, 18) \cup ShiftLeft(b, 12) \cup ShiftLeft(c, 6) \cup d

AtobGroup_noPadTest(s, g) ==
  LET c == OrPad(s, 4 * g + 3)
      d == OrPad(s, 4 * g + 4)
      bitmap == Joined(IndexOf(s, 4 * g + 1), IndexOf(s, 4 * g + 2), c, d)
  IN <<Field(bitmap, 16, 8), Field(bitmap, 8, 8)>> \o (IF d # Pad THEN <<Field(bitmap, 0, 8)>> ELSE <<>>)

AtobGroup(s, g) ==
  LET c == OrPad(s, 4 * g + 3)
      d == OrPad(s, 4 * g + 4)
      bitmap == Joined(IndexOf(s, 4 * g + 1), IndexOf(s, 4 * g + 2), c, d)
  IN <<Field(bitmap, 16, 8)>>
       \o (IF c # Pad THEN <<Field(bitmap, 8, 8)>> ELSE <<>>)
       \o (IF d # Pad THEN <<Field(bitmap, 0, 8)>> ELSE <<>>)

(* replace(/=+$/, '') *)
Unpadded(code) == SubSeq(code, 1, Max({k \in 1..Len(code) : code[k] # Pad} \cup {0}))

Atob(code) ==
  LET s == Unpadded(code)
  IN FlattenSeq([g \in 1..Groups(Len(s), 4) |-> AtobGroup(s, g - 1)])

----------------------------------------------------------------------------

(* RFC 4648, bit by bit: six bits a character, the highest bit of a byte   *)
(* first, zeros to fill the last character, '=' to fill the group.         *)
Bit(s, k) == 7 - (k % 8) \in At(s, k \div 8 + 1)

Encoded(s) ==
  [c \in 1..(4 * Groups(Len(s), 3)) |->
    IF c > Groups(8 * Len(s), 6) THEN Pad ELSE {b \in 0..5 : Bit(s, 6 * (c - 1) + 5 - b)}]
=============================================================================
