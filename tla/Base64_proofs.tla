---------------------------- MODULE Base64_proofs ----------------------------
(***************************************************************************)
(* What base64_encode makes of a text, base64_decode turns back into it,   *)
(* whatever the text's length and the bytes in it.                         *)
(***************************************************************************)
EXTENDS Base64, TLAPS

Byte == 0..255
Groups(text) == (Len(text) + 2) \div 3

\* The number of groups of three bytes, the last one short of two at most.
LEMMA GroupsCover ==
  ASSUME NEW n \in Nat
  PROVE  LET g == (n + 2) \div 3
         IN g \in Nat /\ n \in {3 * g - 2, 3 * g - 1, 3 * g}
OBVIOUS

\* Where position j of a group is, counted from 1.
LEMMA PositionInThree ==
  ASSUME NEW q \in Nat
  PROVE  /\ (3 * q + 1 - 1) \div 3 = q /\ (3 * q + 2 - 1) \div 3 = q /\ (3 * q + 3 - 1) \div 3 = q
         /\ (3 * q + 1) % 3 = 1 /\ (3 * q + 2) % 3 = 2 /\ (3 * q + 3) % 3 = 0
OBVIOUS

LEMMA PositionInFour ==
  ASSUME NEW q \in Nat
  PROVE  /\ (4 * q + 1 - 1) \div 4 = q /\ (4 * q + 2 - 1) \div 4 = q
         /\ (4 * q + 3 - 1) \div 4 = q /\ (4 * q + 4 - 1) \div 4 = q
         /\ (4 * q + 1) % 4 = 1 /\ (4 * q + 2) % 4 = 2
         /\ (4 * q + 3) % 4 = 3 /\ (4 * q + 4) % 4 = 0
OBVIOUS

LEMMA FirstByte ==
  ASSUME NEW a \in Byte, NEW b \in Byte
  PROVE  LET t1 == a \div 4
             t2 == 16 * (a % 4) + b \div 16
         IN ((4 * t1) % 256) + ((t2 \div 16) % 4) = a
BY DEF Byte

LEMMA SecondByte ==
  ASSUME NEW a \in Byte, NEW b \in Byte, NEW c \in Byte
  PROVE  LET t2 == 16 * (a % 4) + b \div 16
             t3 == 4 * (b % 16) + c \div 64
         IN 16 * (t2 % 16) + ((t3 \div 4) % 16) = b
BY DEF Byte

LEMMA ThirdByte ==
  ASSUME NEW b \in Byte, NEW c \in Byte
  PROVE  LET t3 == 4 * (b % 16) + c \div 64
             t4 == c % 64
         IN 64 * (t3 % 4) + (t4 % 64) = c
BY DEF Byte

\* A byte the text does not have counts as 0.
ByteOf(text, k) == IF k <= Len(text) THEN text[k] ELSE 0

\* The four characters of group q.
LEMMA EncodedGroup ==
  ASSUME NEW text, NEW q \in Nat
  PROVE  /\ Encoded(text, 4 * q + 1) = ByteOf(text, 3 * q + 1) \div 4
         /\ Encoded(text, 4 * q + 2) =
              16 * (ByteOf(text, 3 * q + 1) % 4) + ByteOf(text, 3 * q + 2) \div 16
         /\ Encoded(text, 4 * q + 3) =
              IF 3 * q + 2 > Len(text) THEN Pad
              ELSE 4 * (ByteOf(text, 3 * q + 2) % 16) + ByteOf(text, 3 * q + 3) \div 64
         /\ Encoded(text, 4 * q + 4) =
              IF 3 * q + 3 > Len(text) THEN Pad ELSE ByteOf(text, 3 * q + 3) % 64
<1> DEFINE i(j) == 3 * ((j - 1) \div 4) + 1
<1>1. /\ (4 * q + 1) % 4 = 1 /\ (4 * q + 2) % 4 = 2
      /\ (4 * q + 3) % 4 = 3 /\ (4 * q + 4) % 4 = 0
  BY PositionInFour
<1>2. 3 * q + 1 + 1 = 3 * q + 2 /\ 3 * q + 1 + 2 = 3 * q + 3
  OBVIOUS
<1>3. 1 # 2 /\ 1 # 3 /\ 2 # 1 /\ 2 # 3 /\ 3 # 1 /\ 3 # 2 /\ 0 # 1 /\ 0 # 2 /\ 0 # 3
  OBVIOUS
<1>4. Encoded(text, 4 * q + 1) = ByteOf(text, 3 * q + 1) \div 4
  <2>1. i(4 * q + 1) = 3 * q + 1
    BY PositionInFour
  <2> QED BY <1>1, <1>3, <2>1, Zenon DEF Encoded, ByteOf
<1>5. Encoded(text, 4 * q + 2) =
        16 * (ByteOf(text, 3 * q + 1) % 4) + ByteOf(text, 3 * q + 2) \div 16
  <2>1. i(4 * q + 2) = 3 * q + 1
    BY PositionInFour
  <2> QED BY <1>1, <1>2, <1>3, <2>1, Zenon DEF Encoded, ByteOf
<1>6. Encoded(text, 4 * q + 3) =
        IF 3 * q + 2 > Len(text) THEN Pad
        ELSE 4 * (ByteOf(text, 3 * q + 2) % 16) + ByteOf(text, 3 * q + 3) \div 64
  <2>1. i(4 * q + 3) = 3 * q + 1
    BY PositionInFour
  <2> QED BY <1>1, <1>2, <1>3, <2>1, Zenon DEF Encoded, ByteOf
<1>7. Encoded(text, 4 * q + 4) =
        IF 3 * q + 3 > Len(text) THEN Pad ELSE ByteOf(text, 3 * q + 3) % 64
  <2>1. i(4 * q + 4) = 3 * q + 1
    BY PositionInFour
  <2> QED BY <1>1, <1>2, <1>3, <2>1, Zenon DEF Encoded, ByteOf
<1> QED BY <1>4, <1>5, <1>6, <1>7

LEMMA BytesOf ==
  ASSUME NEW text \in Seq(Byte), NEW k \in Nat \ {0}
  PROVE  ByteOf(text, k) \in Byte
<1>1. Len(text) \in Nat /\ \A i \in 1..Len(text) : text[i] \in Byte
  OBVIOUS
<1>2. k <= Len(text) => text[k] \in Byte
  BY <1>1
<1> QED BY <1>2 DEF Byte, ByteOf

\* Only '=' is encoded as Pad, every other character as an index below it.
LEMMA PadMarksTheEnd ==
  ASSUME NEW text \in Seq(Byte), NEW q \in Nat
  PROVE  /\ Encoded(text, 4 * q + 3) = Pad <=> 3 * q + 2 > Len(text)
         /\ Encoded(text, 4 * q + 4) = Pad <=> 3 * q + 3 > Len(text)
         /\ Encoded(text, 4 * q + 1) # Pad /\ Encoded(text, 4 * q + 2) # Pad
<1> DEFINE a == ByteOf(text, 3 * q + 1)
           b == ByteOf(text, 3 * q + 2)
           c == ByteOf(text, 3 * q + 3)
<1>1. a \in Byte /\ b \in Byte /\ c \in Byte
  BY BytesOf
<1>2. /\ Encoded(text, 4 * q + 1) = a \div 4
      /\ Encoded(text, 4 * q + 2) = 16 * (a % 4) + b \div 16
      /\ Encoded(text, 4 * q + 3) =
           IF 3 * q + 2 > Len(text) THEN Pad ELSE 4 * (b % 16) + c \div 64
      /\ Encoded(text, 4 * q + 4) = IF 3 * q + 3 > Len(text) THEN Pad ELSE c % 64
  BY EncodedGroup
<1> HIDE DEF a, b, c
<1>3. /\ a \div 4 < 64 /\ 16 * (a % 4) + b \div 16 < 64
      /\ 4 * (b % 16) + c \div 64 < 64 /\ c % 64 < 64
  BY <1>1 DEF Byte
<1>4. /\ a \div 4 \in Nat /\ 16 * (a % 4) + b \div 16 \in Nat
      /\ 4 * (b % 16) + c \div 64 \in Nat /\ c % 64 \in Nat
  BY <1>1 DEF Byte
<1> QED BY <1>2, <1>3, <1>4 DEF Pad

LEMMA CodeLength ==
  ASSUME NEW text \in Seq(Byte)
  PROVE  /\ Groups(text) \in Nat
         /\ Len(text) \in {3 * Groups(text) - 2, 3 * Groups(text) - 1, 3 * Groups(text)}
         /\ Len(base64_encode(text)) = 4 * Groups(text)
         /\ Len(base64_encode(text)) \div 4 = Groups(text)
         /\ \A j \in 1..4 * Groups(text) : base64_encode(text)[j] = Encoded(text, j)
<1>1. Len(text) \in Nat
  OBVIOUS
<1>2. /\ Groups(text) \in Nat
      /\ Len(text) \in {3 * Groups(text) - 2, 3 * Groups(text) - 1, 3 * Groups(text)}
  BY <1>1, GroupsCover DEF Groups
<1>3. base64_encode(text) = [j \in 1..4 * Groups(text) |-> Encoded(text, j)]
  BY DEF base64_encode, Groups
<1> QED BY <1>2, <1>3

\* A group is padded exactly when the text ends inside it, so only the last
\* group can be.
LEMMA PaddedGroups ==
  ASSUME NEW text \in Seq(Byte), NEW g \in 1..Groups(text)
  PROVE  LET chars == base64_encode(text)
         IN /\ chars[4 * g - 1] = Pad <=> 3 * g - 1 > Len(text)
            /\ chars[4 * g] = Pad <=> 3 * g > Len(text)
<1> DEFINE q == g - 1
<1>1. Groups(text) \in Nat /\ q \in Nat
  BY CodeLength
<1>2. 4 * g - 1 = 4 * q + 3 /\ 4 * g = 4 * q + 4 /\ 3 * g - 1 = 3 * q + 2 /\ 3 * g = 3 * q + 3
  BY <1>1
<1>3. 4 * g - 1 \in 1..4 * Groups(text) /\ 4 * g \in 1..4 * Groups(text)
  BY <1>1
<1>4. /\ Encoded(text, 4 * q + 3) = Pad <=> 3 * q + 2 > Len(text)
      /\ Encoded(text, 4 * q + 4) = Pad <=> 3 * q + 3 > Len(text)
  BY <1>1, PadMarksTheEnd
<1> QED BY <1>2, <1>3, <1>4, CodeLength

\* base64_decode finds the length of the text.
LEMMA DecodedLength ==
  ASSUME NEW text \in Seq(Byte)
  PROVE  base64_decode(base64_encode(text)) =
           [j \in 1..Len(text) |-> Decoded(base64_encode(text), j)]
<1> DEFINE chars == base64_encode(text)
           groups == Len(chars) \div 4
           ends == {g \in 1..groups : Pad \in {chars[4 * g - 1], chars[4 * g]}}
           first == CHOOSE g \in ends : \A h \in ends : g <= h
           length == IF ends = {} THEN 3 * groups
                     ELSE IF chars[4 * first - 1] = Pad THEN 3 * first - 2 ELSE 3 * first - 1
<1>1. base64_decode(chars) = [j \in 1..length |-> Decoded(chars, j)]
  BY DEF base64_decode
<1>2. /\ groups = Groups(text) /\ groups \in Nat
      /\ Len(text) \in {3 * groups - 2, 3 * groups - 1, 3 * groups}
  BY CodeLength
<1>3. \A g \in 1..groups : /\ chars[4 * g - 1] = Pad <=> 3 * g - 1 > Len(text)
                           /\ chars[4 * g] = Pad <=> 3 * g > Len(text)
  BY <1>2, PaddedGroups
<1>4. \A g \in ends : g = groups /\ 3 * g > Len(text)
  BY <1>2, <1>3
<1>5. CASE Len(text) = 3 * groups
  <2>1. ends = {}
    BY <1>2, <1>4, <1>5
  <2> QED BY <1>1, <1>5, <2>1
<1>6. CASE Len(text) # 3 * groups
  <2>1. groups \in 1..groups /\ 3 * groups > Len(text)
    BY <1>2, <1>6
  <2>2. groups \in ends
    BY <1>3, <2>1
  <2>3. first = groups
    BY <1>4, <2>2
  <2> HIDE DEF first
  <2>4. length = IF 3 * groups - 1 > Len(text) THEN 3 * groups - 2 ELSE 3 * groups - 1
    BY <1>3, <2>1, <2>2, <2>3
  <2>5. length = Len(text)
    BY <1>2, <1>6, <2>4
  <2> QED BY <1>1, <2>5
<1> QED BY <1>5, <1>6

\* Byte by byte it is the text.
LEMMA DecodedByte ==
  ASSUME NEW text \in Seq(Byte), NEW j \in 1..Len(text)
  PROVE  Decoded(base64_encode(text), j) = text[j]
<1> DEFINE chars == base64_encode(text)
           q == (j - 1) \div 3
           a == ByteOf(text, 3 * q + 1)
           b == ByteOf(text, 3 * q + 2)
           c == ByteOf(text, 3 * q + 3)
           t(k) == Temp(chars[4 * q + k])
<1>1. q \in Nat /\ j \in {3 * q + 1, 3 * q + 2, 3 * q + 3}
  OBVIOUS
<1>2. 4 * q + 4 <= 4 * Groups(text) /\ Groups(text) \in Nat
  BY <1>1, CodeLength
<1>3. Decoded(chars, j) =
        CASE j % 3 = 1 -> ((4 * t(1)) % 256) + ((t(2) \div 16) % 4)
          [] j % 3 = 2 -> 16 * (t(2) % 16) + ((t(3) \div 4) % 16)
          [] j % 3 = 0 -> 64 * (t(3) % 4) + (t(4) % 64)
  BY Zenon DEF Decoded
<1> HIDE DEF q
<1>4. \A k \in 1..4 : chars[4 * q + k] = Encoded(text, 4 * q + k)
  BY <1>1, <1>2, CodeLength
<1>5. a \in Byte /\ b \in Byte /\ c \in Byte
  BY <1>1, BytesOf
<1>6. ByteOf(text, j) = text[j]
  BY DEF ByteOf
<1>7. /\ t(1) = a \div 4
      /\ t(2) = 16 * (a % 4) + b \div 16
      /\ 3 * q + 2 <= Len(text) => t(3) = 4 * (b % 16) + c \div 64
      /\ 3 * q + 3 <= Len(text) => t(4) = c % 64
  BY <1>1, <1>4, EncodedGroup, PadMarksTheEnd DEF Temp
<1> HIDE DEF t, a, b, c, chars
<1>8. CASE j = 3 * q + 1
  <2>0. j % 3 = 1
    BY <1>1, <1>8, PositionInThree
  <2>1. Decoded(chars, j) = ((4 * t(1)) % 256) + ((t(2) \div 16) % 4)
    BY <1>3, <2>0
  <2>2. Decoded(chars, j) = a
    BY <1>5, <1>7, <2>1, FirstByte
  <2> QED BY <1>6, <1>8, <2>2 DEF a, chars
<1>9. CASE j = 3 * q + 2
  <2>1. Decoded(chars, j) = 16 * (t(2) % 16) + ((t(3) \div 4) % 16)
    BY <1>1, <1>3, <1>9, PositionInThree
  <2>2. 3 * q + 2 <= Len(text)
    BY <1>9
  <2>3. Decoded(chars, j) = b
    BY <1>5, <1>7, <2>1, <2>2, SecondByte
  <2> QED BY <1>6, <1>9, <2>3 DEF b, chars
<1>10. CASE j = 3 * q + 3
  <2>1. Decoded(chars, j) = 64 * (t(3) % 4) + (t(4) % 64)
    BY <1>1, <1>3, <1>10, PositionInThree
  <2>2. 3 * q + 2 <= Len(text) /\ 3 * q + 3 <= Len(text)
    BY <1>1, <1>10
  <2>3. Decoded(chars, j) = c
    BY <1>5, <1>7, <2>1, <2>2, ThirdByte
  <2> QED BY <1>6, <1>10, <2>3 DEF c, chars
<1> QED BY <1>1, <1>8, <1>9, <1>10

\* What base64_encode makes of any sequence of bytes, base64_decode turns back
\* into it: no bit moves to another byte, no padding is taken for data.
THEOREM RoundTrip ==
  ASSUME NEW text \in Seq(Byte)
  PROVE  base64_decode(base64_encode(text)) = text
<1>1. base64_decode(base64_encode(text)) = [j \in 1..Len(text) |-> text[j]]
  BY DecodedLength, DecodedByte
<1>2. text = [j \in 1..Len(text) |-> text[j]]
  OBVIOUS
<1> QED BY <1>1, <1>2
=============================================================================
