------------------------------- MODULE Base64 -------------------------------
(***************************************************************************)
(* base64.cpp.  A text is a sequence of bytes, an encoded text a sequence  *)
(* of indices into the alphabet base64char, or Pad for '='.                *)
(***************************************************************************)
EXTENDS Integers, Sequences

Pad == 64

(* Mutant: the bits the third byte adds to the third character are lost. *)
EncodedShort(text, j) ==
  LET i == 3 * ((j - 1) \div 4) + 1
      byte(k) == IF k <= Len(text) THEN text[k] ELSE 0
  IN CASE j % 4 = 1 -> byte(i) \div 4
       [] j % 4 = 2 -> 16 * (byte(i) % 4) + byte(i + 1) \div 16
       [] j % 4 = 3 -> IF i + 1 > Len(text) THEN Pad ELSE 4 * (byte(i + 1) % 16)
       [] j % 4 = 0 -> IF i + 2 > Len(text) THEN Pad ELSE byte(i + 2) % 64

(* The character at position j of the encoded text. *)
Encoded(text, j) ==
  LET i == 3 * ((j - 1) \div 4) + 1                  \* the first byte of its group
      byte(k) == IF k <= Len(text) THEN text[k] ELSE 0
  IN CASE j % 4 = 1 -> byte(i) \div 4
       [] j % 4 = 2 -> 16 * (byte(i) % 4) + byte(i + 1) \div 16
       [] j % 4 = 3 -> IF i + 1 > Len(text) THEN Pad
                       ELSE 4 * (byte(i + 1) % 16) + byte(i + 2) \div 64
       [] j % 4 = 0 -> IF i + 2 > Len(text) THEN Pad ELSE byte(i + 2) % 64

base64_encode(text) == [j \in 1..4 * ((Len(text) + 2) \div 3) |-> Encoded(text, j)]

(* What temp[] holds for a character: 0xFF for one not in the alphabet. *)
Temp(c) == IF c = Pad THEN 255 ELSE c

(* The three bytes of a group of four characters; << drops the high bits. *)
Decoded(chars, j) ==
  LET i == 4 * ((j - 1) \div 3)
      t(k) == Temp(chars[i + k])
  IN CASE j % 3 = 1 -> ((4 * t(1)) % 256) + ((t(2) \div 16) % 4)
       [] j % 3 = 2 -> 16 * (t(2) % 16) + ((t(3) \div 4) % 16)
       [] j % 3 = 0 -> 64 * (t(3) % 4) + (t(4) % 64)

(* The loop ends with the characters or with the first group that is       *)
(* padded, of which it decodes the bytes before the padding.               *)
base64_decode(chars) ==
  LET groups == Len(chars) \div 4
      ends == {g \in 1..groups : Pad \in {chars[4 * g - 1], chars[4 * g]}}
      length == IF ends = {} THEN 3 * groups
                ELSE LET g == CHOOSE g \in ends : \A h \in ends : g <= h
                     IN IF chars[4 * g - 1] = Pad THEN 3 * g - 2 ELSE 3 * g - 1
  IN [j \in 1..length |-> Decoded(chars, j)]
=============================================================================
