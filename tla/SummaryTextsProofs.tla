------------------------- MODULE SummaryTextsProofs -------------------------
(***************************************************************************)
(* Texts for every item, whatever the sizes of the buffers: the digits of  *)
(* a number stay in theirs and are the number, a message is a text just if *)
(* it is UTF-8, the cut of a string is marked, a key in base 58 is the     *)
(* key, an address that agrees with it is its text, and a time is its date *)
(* and second.                                                             *)
(***************************************************************************)
EXTENDS SummaryTexts, SequenceTheorems, WellFoundedInduction, TLAPS

IsNumber == item.kind \in NumberKinds

\* One amount is too long by one: the point is due where the last byte is.
OneTooMany ==
  /\ item.kind \in AmountKinds
  /\ Decimals(item) = Room(item) - 1
  /\ Len(out) = Room(item) + 1

\* Why the digits stay inside: the loop is entered with room for one more, and what it
\* has written when it is left is too long only by the point, and never shown.
NumberInv ==
  /\ item \in Items
  /\ phase = "digits" => IsNumber
  /\ IsNumber =>
       /\ phase \in {"digits", "number", "shown", "failed"}
       /\ out \in Seq(Int)
       /\ dVal \in Nat
       /\ phase = "digits" => Len(out) < Room(item)
       /\ phase # "digits" => Len(out) <= Room(item) \/ (OneTooMany /\ phase # "shown")

\* The room is an integer that leaves a digit's place, and so are the decimals.
LEMMA RoomForDigits ==
  ASSUME NEW one \in Items, one.kind \in NumberKinds
  PROVE  /\ Room(one) \in Nat \ {0}
         /\ Decimals(one) \in Int
         /\ one.kind \notin AmountKinds => Decimals(one) = -1
         /\ Magnitude(one) \in Nat
<1>1. Len(<<DASH>>) = 1 /\ Len(<<>>) = 0
  OBVIOUS
<1>2. /\ Len(Sign(one)) \in {0, 1}
      /\ one.kind = "PrintableAmount" => Len(Sign(one)) = 0
  BY <1>1 DEF Sign
<1>3. Room(one) \in Nat \ {0}
  <2> DEFINE sign == Len(Sign(one))
  <2>1. TEXT_BUFFER_LENGTH \in Nat \ {0, 1} /\ MAX_PRINTABLE_AMOUNT_SIZE \in Nat \ {0}
    BY TextsAssumption DEF TextsAssumption
  <2>2. CASE one.kind = "PrintableAmount"
    <3>1. sign = 0 /\ Room(one) = MAX_PRINTABLE_AMOUNT_SIZE - sign
      BY <1>2, <2>2 DEF Room
    <3> QED
      BY <2>1, <3>1
  <2>3. CASE one.kind # "PrintableAmount"
    <3>1. sign \in {0, 1} /\ Room(one) = TEXT_BUFFER_LENGTH - sign
      BY <1>2, <2>3 DEF Room
    <3> HIDE DEF sign
    <3> QED
      BY <2>1, <3>1
  <2> QED
    BY <2>2, <2>3
<1>4. Decimals(one) \in Int /\ (one.kind \notin AmountKinds => Decimals(one) = -1)
  <2>1. CASE one.kind \in IntegerKinds
    BY <2>1 DEF Decimals, IntegerKinds, AmountKinds
  <2>2. CASE one.kind = "TokenAmount"
    <3>1. one.decimals \in 0..255
      BY <2>2, TextsAssumption DEF TextsAssumption
    <3> QED
      BY <2>2, <3>1 DEF Decimals, IntegerKinds, AmountKinds
  <2>3. CASE one.kind \in {"Amount", "PrintableAmount"}
    BY <2>3 DEF Decimals, IntegerKinds, AmountKinds, RENEC_DECIMALS
  <2> QED
    BY <2>1, <2>2, <2>3 DEF NumberKinds, AmountKinds
<1>5. Magnitude(one) \in Nat
  BY TextsAssumption DEF TextsAssumption, Magnitude
<1> QED
  BY <1>3, <1>4, <1>5

\* A turn of the loop writes a digit, and the point when it is due.
LEMMA TurnLength ==
  ASSUME out \in Seq(Int), dVal \in Nat
  PROVE  /\ PointAndDigit \in Seq(Int)
         /\ Len(PointAndDigit) = Len(out) + IF Len(out) = Decimals(item) THEN 2 ELSE 1
<1> DEFINE pointed == IF Len(out) = Decimals(item) THEN Append(out, DOT) ELSE out
<1>1. DOT \in Int /\ ZERO + (dVal % 10) \in Int /\ Len(out) \in Nat
  BY LenProperties DEF DOT, ZERO
<1>2. /\ pointed \in Seq(Int)
      /\ Len(pointed) = Len(out) + IF Len(out) = Decimals(item) THEN 1 ELSE 0
  BY <1>1, AppendProperties
<1> HIDE DEF pointed
<1>3. /\ Append(pointed, ZERO + (dVal % 10)) \in Seq(Int)
      /\ Len(Append(pointed, ZERO + (dVal % 10))) = Len(pointed) + 1
  BY <1>1, <1>2, AppendProperties
<1>4. PointAndDigit = Append(pointed, ZERO + (dVal % 10))
  BY DEF PointAndDigit, pointed
<1> QED
  BY <1>1, <1>2, <1>3, <1>4

\* The invariant holds before the first digit.
LEMMA NumberInit == Init => NumberInv
<1> SUFFICES ASSUME Init PROVE NumberInv
  OBVIOUS
<1>1. item \in Items /\ out = <<>> /\ out \in Seq(Int) /\ Len(out) = 0
  BY EmptySeq DEF Init
<1>2. CASE IsNumber
  <2>1. phase = "digits" /\ dVal = Magnitude(item)
    BY <1>2 DEF Init, IsNumber, NumberKinds, AmountKinds, IntegerKinds, KeyKinds
  <2>2. Room(item) \in Nat \ {0} /\ Magnitude(item) \in Nat
    BY <1>1, <1>2, RoomForDigits DEF IsNumber
  <2> QED
    BY <1>1, <1>2, <2>1, <2>2 DEF NumberInv
<1>3. CASE ~IsNumber
  BY <1>1, <1>3 DEF Init, NumberInv, IsNumber
<1> QED
  BY <1>2, <1>3

\* Every step keeps it.
LEMMA NumberStep == NumberInv /\ [Next]_vars => NumberInv'
<1> SUFFICES ASSUME NumberInv, [Next]_vars PROVE NumberInv'
  OBVIOUS
<1>1. CASE WriteDigit
  <2>1. IsNumber /\ item' = item /\ IsNumber'
    BY <1>1 DEF WriteDigit, NumberInv, IsNumber
  <2>2. Room(item) \in Nat \ {0} /\ Decimals(item) \in Int
        /\ (item.kind \notin AmountKinds => Decimals(item) = -1)
    BY <2>1, RoomForDigits DEF NumberInv, IsNumber
  <2>3. /\ out \in Seq(Int) /\ dVal \in Nat /\ Len(out) < Room(item) /\ Len(out) \in Nat
    BY <1>1, <2>1, LenProperties DEF WriteDigit, NumberInv
  <2>4. /\ out' \in Seq(Int)
        /\ Len(out') = Len(out) + IF Len(out) = Decimals(item) THEN 2 ELSE 1
    BY <1>1, <2>3, TurnLength DEF WriteDigit
  <2>5. dVal' \in Nat
    BY <1>1, <2>3 DEF WriteDigit
  <2>6. \/ phase' = "digits" /\ Len(out') < Room(item)
        \/ phase' = "number"
    BY <1>1 DEF WriteDigit
  <2>7. Len(out') <= Room(item) \/ OneTooMany'
    BY <2>1, <2>2, <2>3, <2>4 DEF OneTooMany
  <2> QED
    BY <2>1, <2>4, <2>5, <2>6, <2>7 DEF NumberInv, IsNumber
<1>2. CASE FinishNumber
  <2>1. CASE IsNumber
    <3>1. /\ UNCHANGED <<item, out, dVal>>
          /\ phase = "number" /\ phase' \in {"shown", "failed"}
          /\ phase' = "shown" => ~(Len(out) >= Room(item))
      BY <1>2 DEF FinishNumber
    <3>2. Room(item) \in Nat /\ Len(out) \in Nat
      BY <2>1, RoomForDigits, LenProperties DEF NumberInv, IsNumber
    <3> QED
      BY <2>1, <3>1, <3>2 DEF NumberInv, IsNumber, OneTooMany
  <2>2. CASE ~IsNumber
    BY <1>2, <2>2 DEF FinishNumber, NumberInv, IsNumber
  <2> QED
    BY <2>1, <2>2
<1>3. CASE EncodeDigit \/ FinishKey \/ PrintText \/ ScanSequence \/ FinishScan
  BY <1>3 DEF EncodeDigit, FinishKey, PrintText, ScanSequence, FinishScan, NumberInv,
              IsNumber
<1>4. CASE UNCHANGED vars
  BY <1>4 DEF vars, NumberInv, IsNumber, OneTooMany
<1> QED
  BY <1>1, <1>2, <1>3, <1>4 DEF Next

\* Whatever the sizes of the buffers, the number and its decimals, print_u64, print_i64
\* and print_token_amount write inside their buffer, but for the one byte of an amount
\* whose point falls on the last one, which is not shown.
THEOREM NumbersStayInside == Spec => []WritesStayInside
<1>1. NumberInv => WritesStayInside
  <2> SUFFICES ASSUME NumberInv, IsNumber, Len(out) > Room(item)
               PROVE  OneTooMany /\ phase # "shown"
    BY DEF WritesStayInside, IsNumber, OneTooMany
  <2>1. Room(item) \in Nat /\ Len(out) \in Nat
    BY RoomForDigits, LenProperties DEF NumberInv, IsNumber
  <2> QED
    BY <2>1 DEF NumberInv
<1> QED
  BY <1>1, NumberInit, NumberStep, PTL DEF Spec

-----------------------------------------------------------------------------
(* The bytes of off-chain messages. *)

Byte == 0..255

\* A byte that continues a sequence has ten in its two highest bits.
Continues(byte) == byte \div 64 = 2

\* These are the bytes that is_data_utf8 takes to continue one.
LEMMA ContinuationBytes == \A byte \in Byte : Continues(byte) <=> byte \in 128..191
BY DEF Byte, Continues

\* The characters: no surrogates, neither U+FFFE nor U+FFFF, and none encoded longer
\* than needed.
IsScalar(point, smallest) ==
  point \in smallest..1114111 /\ point \notin 55296..57343 \cup {65534, 65535}

\* The same as inequalities.
LEMMA Scalars ==
  ASSUME NEW point \in Int, NEW smallest \in Nat
  PROVE  IsScalar(point, smallest) <=>
           /\ point >= smallest /\ point <= 1114111
           /\ point < 55296 \/ point > 57343
           /\ point # 65534 /\ point # 65535
BY SMT DEF IsScalar

\* What a character of a number of bytes is, by its head and its continuation.
LEMMA CharacterParts ==
  ASSUME NEW bytes, NEW k \in 1..4, Len(bytes) = k
  PROVE  EncodesCharacter(bytes) <=>
           /\ bytes[1] \in Heads[k].from..(Heads[k].from + Heads[k].size - 1)
           /\ \A i \in 2..k : Continues(bytes[i])
           /\ IsScalar(CodePoint(bytes), SmallestOfLength[k])
BY SMT DEF EncodesCharacter, Continues, IsScalar

\* The table of the heads.
LEMMA HeadsOfLengths ==
  /\ Heads[1].from = 0 /\ Heads[1].size = 128 /\ SmallestOfLength[1] = 0
  /\ Heads[2].from = 192 /\ Heads[2].size = 32 /\ SmallestOfLength[2] = 128
  /\ Heads[3].from = 224 /\ Heads[3].size = 16 /\ SmallestOfLength[3] = 2048
  /\ Heads[4].from = 240 /\ Heads[4].size = 8 /\ SmallestOfLength[4] = 65536
BY SMT DEF Heads, SmallestOfLength

\* The value of a character, by the number of its bytes.
LEMMA CodePoints ==
  ASSUME NEW bytes
  PROVE  /\ Len(bytes) = 1 => CodePoint(bytes) = bytes[1] - Heads[1].from
         /\ Len(bytes) = 2 =>
              CodePoint(bytes) = (bytes[1] - Heads[2].from) * 64 + (bytes[2] - 128)
         /\ Len(bytes) = 3 =>
              CodePoint(bytes) = ((bytes[1] - Heads[3].from) * 64 + (bytes[2] - 128)) * 64 + (bytes[3] - 128)
         /\ Len(bytes) = 4 =>
              CodePoint(bytes) = (((bytes[1] - Heads[4].from) * 64 + (bytes[2] - 128)) * 64 + (bytes[3] - 128)) * 64
                                 + (bytes[4] - 128)
<1>1. Len(bytes) = 1 => CodePoint(bytes) = bytes[1] - Heads[1].from
  BY SMT DEF CodePoint
<1>2. Len(bytes) = 2 => CodePoint(bytes) = (bytes[1] - Heads[2].from) * 64 + (bytes[2] - 128)
  BY SMT DEF CodePoint
<1>3. Len(bytes) = 3 =>
        CodePoint(bytes) = ((bytes[1] - Heads[3].from) * 64 + (bytes[2] - 128)) * 64 + (bytes[3] - 128)
  BY SMT DEF CodePoint
<1>4. Len(bytes) = 4 =>
        CodePoint(bytes) = (((bytes[1] - Heads[4].from) * 64 + (bytes[2] - 128)) * 64 + (bytes[3] - 128)) * 64
                           + (bytes[4] - 128)
  BY SMT DEF CodePoint
<1> QED BY <1>1, <1>2, <1>3, <1>4

\* is_data_utf8 finds a sequence of a length just if so many bytes encode a character.
LEMMA LengthsOfCharacters ==
  ASSUME NEW data \in Seq(Byte), NEW k \in 1..4, k <= Len(data),
         NEW bytes \in Seq(Byte), Len(bytes) = k, \A i \in 1..k : bytes[i] = data[i]
  PROVE  k \in SequenceLengths(data) <=> EncodesCharacter(bytes)
<1>1. \A i \in 1..k : bytes[i] \in Byte
  <2>1. \A i \in 1..Len(bytes) : bytes[i] \in Byte
    BY ElementOfSeq
  <2> QED BY <2>1
<1>2. Continued(data, k) <=> \A i \in 2..k : Continues(bytes[i])
  <2>1. \A i \in 2..k : data[i] \in Byte /\ data[i] = bytes[i]
    BY <1>1
  <2>2. \A i \in 2..k : data[i] \in 128..191 <=> Continues(bytes[i])
    BY <2>1, ContinuationBytes
  <2> QED BY <2>2 DEF Continued
<1>3. CASE k = 1
  <2>1. PICK a \in Byte : bytes[1] = a /\ data[1] = a
    BY <1>1, <1>3
  <2>2. CodePoint(bytes) = a
    BY <1>3, <2>1, CodePoints, HeadsOfLengths DEF Byte
  <2>a. EncodesCharacter(bytes) <=>
          /\ a \in Heads[1].from..(Heads[1].from + Heads[1].size - 1)
          /\ IsScalar(CodePoint(bytes), SmallestOfLength[1])
    <3>1. \A i \in 2..1 : Continues(bytes[i])
      OBVIOUS
    <3> QED BY <1>3, <2>1, <3>1, CharacterParts
  <2>b. Heads[1].from..(Heads[1].from + Heads[1].size - 1) = 0..127
    BY HeadsOfLengths
  <2>3. EncodesCharacter(bytes) <=> a \in 0..127 /\ IsScalar(a, 0)
    BY <2>2, <2>a, <2>b, HeadsOfLengths
  <2>4. a \in 0..127 => IsScalar(a, 0)
    BY Scalars
  <2>5. 1 \in SequenceLengths(data) <=> a < 128
    BY <1>2, <1>3, <2>1 DEF SequenceLengths
  <2> QED BY <1>3, <2>1, <2>3, <2>4, <2>5 DEF Byte
<1>4. CASE k = 2
  <2>1. PICK a, b : /\ bytes[1] = a /\ bytes[2] = b
                        /\ data[1] = a /\ data[2] = b
    BY <1>4
  <2>2. a \in Byte /\ b \in Byte
    BY <1>1, <1>4, <2>1
  <2>3. (\A i \in 2..2 : Continues(bytes[i])) <=> Continues(b)
    BY <2>1
  <2>4. (\A i \in 2..2 : Continues(bytes[i])) <=> b \in 128..191
    BY <2>2, <2>3, ContinuationBytes
  <2>5. PICK point : point = CodePoint(bytes) /\ point = (a - 192) * 64 + (b - 128)
    BY <1>4, <2>1, CodePoints, HeadsOfLengths
  <2>a. EncodesCharacter(bytes) <=>
          /\ a \in Heads[2].from..(Heads[2].from + Heads[2].size - 1)
          /\ \A i \in 2..2 : Continues(bytes[i])
          /\ IsScalar(CodePoint(bytes), SmallestOfLength[2])
    BY <1>4, <2>1, CharacterParts
  <2>b. Heads[2].from..(Heads[2].from + Heads[2].size - 1) = 192..223
    BY HeadsOfLengths
  <2>6. EncodesCharacter(bytes) <=>
          /\ a \in 192..223 /\ b \in 128..191
          /\ IsScalar(point, 128)
    BY <2>4, <2>5, <2>a, <2>b, HeadsOfLengths
  <2>7. 2 \in SequenceLengths(data) <=>
          /\ Continued(data, 2)
          /\ a \in 194..223
    BY <2>1, SMT DEF SequenceLengths, IsNoCharacter
  <2>8. Continued(data, 2) <=> b \in 128..191
    BY <1>2, <1>4, <2>4
  <2>9. ASSUME a \in 192..223, b \in 128..191
        PROVE  IsScalar(point, 128) <=>
             a >= 194
    <3>1. point \in Int
      BY <2>5, <2>9
    <3>2. IsScalar(point, 128) <=>
               a >= 194
      BY <2>5, <2>9, <3>1, Scalars, SMT
    <3> QED BY <2>9, <3>1, <3>2, SMT
  <2>0. a \in 192..223 /\ a >= 194 <=> a \in 194..223
    BY <2>2 DEF Byte
  <2> QED BY <1>4, <2>0, <2>6, <2>7, <2>8, <2>9
<1>5. CASE k = 3
  <2>1. PICK a, b, c : /\ bytes[1] = a /\ bytes[2] = b /\ bytes[3] = c
                           /\ data[1] = a /\ data[2] = b /\ data[3] = c
    BY <1>5
  <2>2. a \in Byte /\ b \in Byte /\ c \in Byte
    BY <1>1, <1>5, <2>1
  <2>3. (\A i \in 2..3 : Continues(bytes[i])) <=> Continues(b) /\ Continues(c)
    BY <2>1
  <2>4. (\A i \in 2..3 : Continues(bytes[i])) <=> b \in 128..191 /\ c \in 128..191
    BY <2>2, <2>3, ContinuationBytes
  <2>5. PICK point : point = CodePoint(bytes) /\ point = ((a - 224) * 64 + (b - 128)) * 64 + (c - 128)
    BY <1>5, <2>1, CodePoints, HeadsOfLengths
  <2>a. EncodesCharacter(bytes) <=>
          /\ a \in Heads[3].from..(Heads[3].from + Heads[3].size - 1)
          /\ \A i \in 2..3 : Continues(bytes[i])
          /\ IsScalar(CodePoint(bytes), SmallestOfLength[3])
    BY <1>5, <2>1, CharacterParts
  <2>b. Heads[3].from..(Heads[3].from + Heads[3].size - 1) = 224..239
    BY HeadsOfLengths
  <2>6. EncodesCharacter(bytes) <=>
          /\ a \in 224..239 /\ b \in 128..191 /\ c \in 128..191
          /\ IsScalar(point, 2048)
    BY <2>4, <2>5, <2>a, <2>b, HeadsOfLengths
  <2>7. 3 \in SequenceLengths(data) <=>
          /\ Continued(data, 3)
          /\ a \in 224..239
          /\ ~(a = 224 /\ b \in 128..159)
          /\ ~(a = 237 /\ b \in 160..191)
          /\ ~(a = 239 /\ b = 191 /\ c \in {190, 191})
    BY <2>1, SMT DEF SequenceLengths, IsNoCharacter
  <2>8. Continued(data, 3) <=> b \in 128..191 /\ c \in 128..191
    BY <1>2, <1>5, <2>4
  <2>9. ASSUME a \in 224..239, b \in 128..191, c \in 128..191
        PROVE  IsScalar(point, 2048) <=>
             /\ ~(a = 224 /\ b \in 128..159)
             /\ ~(a = 237 /\ b \in 160..191)
             /\ ~(a = 239 /\ b = 191 /\ c \in {190, 191})
    <3>1. point \in Int
      BY <2>5, <2>9
    <3>2. IsScalar(point, 2048) <=>
               /\ ~(a = 224 /\ b < 160)
               /\ ~(a = 237 /\ b >= 160)
               /\ ~(a = 239 /\ b = 191 /\ (c = 190 \/ c = 191))
      BY <2>5, <2>9, <3>1, Scalars, SMT
    <3> QED BY <2>9, <3>1, <3>2, SMT
  <2> QED BY <1>5, <2>2, <2>6, <2>7, <2>8, <2>9, SMT DEF Byte
<1>6. CASE k = 4
  <2>1. PICK a, b, c, d : /\ bytes[1] = a /\ bytes[2] = b /\ bytes[3] = c /\ bytes[4] = d
                              /\ data[1] = a /\ data[2] = b /\ data[3] = c /\ data[4] = d
    BY <1>6
  <2>2. a \in Byte /\ b \in Byte /\ c \in Byte /\ d \in Byte
    BY <1>1, <1>6, <2>1
  <2>3. (\A i \in 2..4 : Continues(bytes[i])) <=> Continues(b) /\ Continues(c) /\ Continues(d)
    BY <2>1
  <2>4. (\A i \in 2..4 : Continues(bytes[i])) <=> b \in 128..191 /\ c \in 128..191 /\ d \in 128..191
    BY <2>2, <2>3, ContinuationBytes
  <2>5. PICK point : point = CodePoint(bytes) /\ point = (((a - 240) * 64 + (b - 128)) * 64 + (c - 128)) * 64 + (d - 128)
    BY <1>6, <2>1, CodePoints, HeadsOfLengths
  <2>a. EncodesCharacter(bytes) <=>
          /\ a \in Heads[4].from..(Heads[4].from + Heads[4].size - 1)
          /\ \A i \in 2..4 : Continues(bytes[i])
          /\ IsScalar(CodePoint(bytes), SmallestOfLength[4])
    BY <1>6, <2>1, CharacterParts
  <2>b. Heads[4].from..(Heads[4].from + Heads[4].size - 1) = 240..247
    BY HeadsOfLengths
  <2>6. EncodesCharacter(bytes) <=>
          /\ a \in 240..247 /\ b \in 128..191 /\ c \in 128..191 /\ d \in 128..191
          /\ IsScalar(point, 65536)
    BY <2>4, <2>5, <2>a, <2>b, HeadsOfLengths
  <2>7. 4 \in SequenceLengths(data) <=>
          /\ Continued(data, 4)
          /\ a \in 240..244
          /\ ~(a = 240 /\ b \in 128..143)
          /\ ~(a = 244 /\ b > 143)
    BY <2>1, SMT DEF SequenceLengths, IsNoCharacter
  <2>8. Continued(data, 4) <=> b \in 128..191 /\ c \in 128..191 /\ d \in 128..191
    BY <1>2, <1>6, <2>4
  <2>9. ASSUME a \in 240..247, b \in 128..191, c \in 128..191, d \in 128..191
        PROVE  IsScalar(point, 65536) <=>
             /\ a <= 244
             /\ ~(a = 240 /\ b \in 128..143)
             /\ ~(a = 244 /\ b > 143)
    <3>1. point \in Int
      BY <2>5, <2>9
    <3>2. IsScalar(point, 65536) <=>
               /\ a <= 244
               /\ ~(a = 240 /\ b < 144)
               /\ ~(a = 244 /\ b > 143)
      BY <2>5, <2>9, <3>1, Scalars, SMT
    <3>3. b \in 128..143 => b < 144
      OBVIOUS
    <3>4. b < 144 => b \in 128..143
      <4>1. b \in Int /\ b >= 128
        BY <2>9
      <4> QED BY <4>1
    <3> QED BY <3>2, <3>3, <3>4
  <2> QED BY <1>6, <2>2, <2>6, <2>7, <2>8, <2>9, SMT DEF Byte
<1> QED BY <1>3, <1>4, <1>5, <1>6

\* A character of the value that begins behind its first n bytes.
CharacterAt(value, n, k) ==
  n + k <= Len(value) /\ EncodesCharacter(SubSeq(value, n + 1, n + k))

\* What is_data_utf8 finds behind the bytes it has passed.
LEMMA LengthsBehind ==
  ASSUME NEW value \in Seq(Byte), NEW n \in 0..Len(value), NEW k \in 1..4
  PROVE  k \in SequenceLengths(Without(n, value)) <=> CharacterAt(value, n, k)
<1> DEFINE data == Without(n, value)
           bytes == SubSeq(value, n + 1, n + k)
<1>1. Len(value) \in Nat /\ \A i \in 1..Len(value) : value[i] \in Byte
  BY LenProperties, ElementOfSeq
<1>2. /\ data \in Seq(Byte) /\ Len(data) = Len(value) - n
      /\ \A i \in 1..(Len(value) - n) : data[i] = value[n + i]
  <2>1. \A i \in (n + 1)..Len(value) : value[i] \in Byte
    BY <1>1
  <2>2. /\ SubSeq(value, n + 1, Len(value)) \in Seq(Byte)
        /\ Len(SubSeq(value, n + 1, Len(value))) =
             IF n + 1 <= Len(value) THEN Len(value) - (n + 1) + 1 ELSE 0
        /\ \A i \in 1..(Len(value) - (n + 1) + 1) :
             SubSeq(value, n + 1, Len(value))[i] = value[(n + 1) + i - 1]
    BY <1>1, <2>1, SubSeqProperties
  <2> QED BY <1>1, <2>2 DEF Without
<1>3. CASE n + k <= Len(value)
  <2>1. \A i \in (n + 1)..(n + k) : value[i] \in Byte
    BY <1>1, <1>3
  <2>2. /\ bytes \in Seq(Byte)
        /\ Len(bytes) = IF n + 1 <= n + k THEN n + k - (n + 1) + 1 ELSE 0
        /\ \A i \in 1..(n + k - (n + 1) + 1) : bytes[i] = value[(n + 1) + i - 1]
    BY <1>1, <2>1, SubSeqProperties
  <2>3. /\ bytes \in Seq(Byte) /\ Len(bytes) = k
        /\ \A i \in 1..k : bytes[i] = value[n + i]
    BY <1>1, <2>2
  <2> HIDE DEF data, bytes
  <2>4. k <= Len(data) /\ \A i \in 1..k : bytes[i] = data[i]
    BY <1>1, <1>2, <1>3, <2>3
  <2>5. k \in SequenceLengths(data) <=> EncodesCharacter(bytes)
    BY <1>2, <2>3, <2>4, LengthsOfCharacters
  <2> QED BY <1>3, <2>5 DEF data, bytes, CharacterAt
<1>4. CASE n + k > Len(value)
  <2>1. ~Continued(data, k)
    BY <1>1, <1>2, <1>4 DEF Continued
  <2> HIDE DEF data
  <2>2. k \notin SequenceLengths(data)
    BY <2>1 DEF SequenceLengths
  <2> QED BY <1>1, <1>4, <2>2 DEF data, CharacterAt
<1> QED BY <1>1, <1>3, <1>4

\* A head has one length.
LEMMA OneLength ==
  ASSUME NEW data, NEW k \in SequenceLengths(data), NEW l \in SequenceLengths(data)
  PROVE  k = l
<1>1. PICK a : a = data[1]
  OBVIOUS
<1>2. /\ k \in 1..4 /\ l \in 1..4
      /\ k = 1 => a < 128
      /\ k = 2 => a \in 194..223
      /\ k = 3 => a \in 224..239
      /\ k = 4 => a \in 240..244
      /\ l = 1 => a < 128
      /\ l = 2 => a \in 194..223
      /\ l = 3 => a \in 224..239
      /\ l = 4 => a \in 240..244
  BY <1>1, SMT DEF SequenceLengths
<1> QED BY <1>2, SMT

\* Cuts of the first q bytes of a value into characters.
AreCuts(cuts, value, q) ==
  /\ cuts \subseteq 0..q
  /\ 0 \in cuts /\ q \in cuts
  /\ \A n \in cuts \ {q} : \E k \in 1..4 : n + k \in cuts /\ CharacterAt(value, n, k)

\* The first bytes of a value are a text if they can be cut.
LEMMA TextIsCut ==
  ASSUME NEW value \in Seq(Byte), NEW q \in 0..Len(value)
  PROVE  EncodesText(SubSeq(value, 1, q)) <=> \E cuts : AreCuts(cuts, value, q)
<1> DEFINE bytes == SubSeq(value, 1, q)
<1>1. Len(value) \in Nat /\ \A i \in 1..Len(value) : value[i] \in Byte
  BY LenProperties, ElementOfSeq
<1>2. /\ bytes \in Seq(Byte) /\ Len(bytes) = q
      /\ \A i \in 1..q : bytes[i] = value[i]
  <2>1. \A i \in 1..q : value[i] \in Byte
    BY <1>1
  <2>2. /\ SubSeq(value, 1, q) \in Seq(Byte)
        /\ Len(SubSeq(value, 1, q)) = IF 1 <= q THEN q - 1 + 1 ELSE 0
        /\ \A i \in 1..(q - 1 + 1) : SubSeq(value, 1, q)[i] = value[1 + i - 1]
    BY <1>1, <2>1, SubSeqProperties
  <2> QED BY <1>1, <2>2
<1>3. ASSUME NEW n \in Nat, NEW k \in 1..4, n + k <= q
      PROVE  SubSeq(bytes, n + 1, n + k) = SubSeq(value, n + 1, n + k)
  <2>1. q >= 1 /\ q \in 1..Len(value) /\ n + 1 \in 1..q /\ n + k \in 1..q
    BY <1>1, <1>3
  <2>2. SubSeq(SubSeq(value, 1, q), n + 1, n + k) = SubSeq(value, 1 + (n + 1) - 1, 1 + (n + k) - 1)
    <3>1. n + 1 \in 1..(q - 1 + 1) /\ n + k \in 1..(q - 1 + 1) /\ 1 \in 1..Len(value)
      BY <1>1, <2>1
    <3> QED BY <2>1, <3>1, SubSeqOfSubSeq
  <2>3. 1 + (n + 1) - 1 = n + 1 /\ 1 + (n + k) - 1 = n + k
    OBVIOUS
  <2> QED BY <2>2, <2>3
<1> HIDE DEF bytes
<1>4. ASSUME NEW inner \in SUBSET (1..(Len(bytes) - 1)),
             \A n \in (inner \cup {0, Len(bytes)}) \ {Len(bytes)} :
               \E k \in 1..4 : /\ n + k \in inner \cup {0, Len(bytes)}
                               /\ EncodesCharacter(SubSeq(bytes, n + 1, n + k))
      PROVE  AreCuts(inner \cup {0, Len(bytes)}, value, q)
  <2> DEFINE cuts == inner \cup {0, Len(bytes)}
  <2>1. /\ q \in Nat /\ q <= Len(value) /\ Len(bytes) = q
        /\ cuts = inner \cup {0, q} /\ inner \subseteq 1..(q - 1)
    BY <1>1, <1>2
  <2>2. \A n \in cuts \ {q} :
          \E k \in 1..4 : n + k \in cuts /\ EncodesCharacter(SubSeq(bytes, n + 1, n + k))
    BY <1>4, <2>1
  <2> HIDE DEF cuts
  <2>3. \A n \in cuts : n \in Int /\ n >= 0 /\ n <= q
    BY <2>1
  <2>4. cuts \subseteq 0..q /\ 0 \in cuts /\ q \in cuts
    BY <2>1, <2>3
  <2>5. ASSUME NEW n \in cuts \ {q}
        PROVE  \E k \in 1..4 : n + k \in cuts /\ CharacterAt(value, n, k)
    <3>1. PICK k \in 1..4 : n + k \in cuts /\ EncodesCharacter(SubSeq(bytes, n + 1, n + k))
      BY <2>2
    <3>2. n \in Nat /\ n + k <= q
      BY <2>3, <3>1
    <3>3. SubSeq(bytes, n + 1, n + k) = SubSeq(value, n + 1, n + k)
      BY <1>3, <3>2
    <3>4. n + k <= Len(value)
      BY <1>1, <2>1, <3>2
    <3>5. CharacterAt(value, n, k)
      BY <3>1, <3>3, <3>4 DEF CharacterAt
    <3> QED BY <3>1, <3>5
  <2>6. AreCuts(cuts, value, q)
    BY <2>4, <2>5 DEF AreCuts
  <2> QED BY <2>1, <2>6
<1>5. ASSUME NEW cuts, AreCuts(cuts, value, q)
      PROVE  EncodesText(bytes)
  <2> DEFINE inner == cuts \ {0, q}
  <2>1. inner \in SUBSET (1..(Len(bytes) - 1)) /\ inner \cup {0, Len(bytes)} = cuts
    <3>1. cuts \subseteq 0..q /\ 0 \in cuts /\ q \in cuts
      BY <1>5 DEF AreCuts
    <3> QED BY <1>1, <1>2, <3>1
  <2>2. ASSUME NEW n \in cuts \ {Len(bytes)}
        PROVE  \E k \in 1..4 : n + k \in cuts /\ EncodesCharacter(SubSeq(bytes, n + 1, n + k))
    <3>1. PICK k \in 1..4 : n + k \in cuts /\ CharacterAt(value, n, k)
      BY <1>2, <1>5 DEF AreCuts
    <3>2. n \in Nat /\ n + k <= q
      <4>1. cuts \subseteq 0..q
        BY <1>5 DEF AreCuts
      <4> QED BY <1>1, <3>1, <4>1
    <3> QED BY <1>3, <3>1, <3>2 DEF CharacterAt
  <2> HIDE DEF inner
  <2> QED BY <2>1, <2>2 DEF EncodesText
<1> QED BY <1>4, <1>5 DEF EncodesText, bytes

\* One more character behind a text.
LEMMA TextGoesOn ==
  ASSUME NEW value \in Seq(Byte), NEW n \in 0..Len(value), NEW k \in 1..4,
         EncodesText(SubSeq(value, 1, n)), CharacterAt(value, n, k)
  PROVE  n + k \in 0..Len(value) /\ EncodesText(SubSeq(value, 1, n + k))
<1>1. Len(value) \in Nat
  BY LenProperties
<1>2. n + k \in 0..Len(value)
  BY <1>1 DEF CharacterAt
<1>3. PICK cuts : AreCuts(cuts, value, n)
  BY TextIsCut
<1>4. AreCuts(cuts \cup {n + k}, value, n + k)
  <2>1. cuts \subseteq 0..n /\ 0 \in cuts /\ n \in cuts
    BY <1>3 DEF AreCuts
  <2>2. cuts \cup {n + k} \subseteq 0..(n + k)
    BY <1>1, <2>1
  <2>3. ASSUME NEW m \in (cuts \cup {n + k}) \ {n + k}
        PROVE  \E l \in 1..4 : m + l \in cuts \cup {n + k} /\ CharacterAt(value, m, l)
    <3>1. CASE m = n
      BY <3>1
    <3>2. CASE m # n
      BY <1>3, <3>2 DEF AreCuts
    <3> QED BY <3>1, <3>2
  <2> QED BY <2>1, <2>2, <2>3 DEF AreCuts
<1> QED BY <1>2, <1>4, TextIsCut

\* Where the scan of a message is: what it has passed is a text, and every way to cut
\* the message into characters cuts it here.
Passed(n) ==
  /\ n \in 0..Len(item.value)
  /\ tmp = Without(n, item.value)
  /\ phase \in {"utf8", "is_utf8"} => EncodesText(SubSeq(item.value, 1, n))
  /\ phase = "is_utf8" => n = Len(item.value)
  /\ \A cuts : AreCuts(cuts, item.value, Len(item.value)) => n \in cuts

\* The whole message is its own beginning.
LEMMA WholeValue ==
  ASSUME NEW value \in Seq(Byte)
  PROVE  /\ SubSeq(value, 1, Len(value)) = value
         /\ Without(0, value) = value
         /\ Len(value) \in Nat
         /\ \A n \in 0..Len(value) : /\ Without(n, value) \in Seq(Byte)
                                     /\ Len(Without(n, value)) = Len(value) - n
                                     /\ Without(n, value) = <<>> <=> n = Len(value)
                                     /\ SubSeq(value, 1, n) \o Without(n, value) = value
<1>1. Len(value) \in Nat /\ SubSeq(value, 1, Len(value)) = value
      /\ \A i \in 1..Len(value) : value[i] \in Byte
  BY LenProperties, SubSeqFull, ElementOfSeq
<1>2. Without(0, value) = value
  BY <1>1 DEF Without
<1>3. ASSUME NEW n \in 0..Len(value)
      PROVE  /\ Without(n, value) \in Seq(Byte)
             /\ Len(Without(n, value)) = Len(value) - n
             /\ Without(n, value) = <<>> <=> n = Len(value)
             /\ SubSeq(value, 1, n) \o Without(n, value) = value
  <2>1. \A i \in (n + 1)..Len(value) : value[i] \in Byte
    BY <1>1
  <2>2. /\ SubSeq(value, n + 1, Len(value)) \in Seq(Byte)
        /\ Len(SubSeq(value, n + 1, Len(value))) =
             IF n + 1 <= Len(value) THEN Len(value) - (n + 1) + 1 ELSE 0
    BY <1>1, <2>1, SubSeqProperties
  <2>3. n \in Nat /\ n <= Len(value) /\ n + 1 \in Int
    BY <1>1
  <2> DEFINE rest == SubSeq(value, n + 1, Len(value))
  <2> HIDE DEF rest
  <2>4. rest \in Seq(Byte) /\ Len(rest) = Len(value) - n
    <3>1. rest \in Seq(Byte) /\ Len(rest) = IF n + 1 <= Len(value) THEN Len(value) - (n + 1) + 1 ELSE 0
      BY <2>2 DEF rest
    <3>2. PICK l \in Nat : l = Len(value)
      BY <1>1
    <3>3. n \in Nat /\ n <= l
      BY <2>3, <3>2
    <3>4. (IF n + 1 <= l THEN l - (n + 1) + 1 ELSE 0) = l - n
      BY <3>3
    <3> QED BY <3>1, <3>2, <3>4
  <2>5. rest = <<>> <=> n = Len(value)
    <3>1. Len(<<>>) = 0
      BY EmptySeq
    <3>2. rest # <<>> => Len(rest) \in Nat /\ Len(rest) # 0
      BY <2>4, EmptySeq
    <3>3. PICK l \in Nat : l = Len(value)
      BY <1>1
    <3>4. l - n = 0 <=> n = l
      BY <2>3
    <3>5. rest = <<>> <=> Len(rest) = 0
      BY <3>1, <3>2
    <3> QED BY <2>4, <3>3, <3>4, <3>5
  <2>6. SubSeq(value, 1, n) \o rest = value
    <3>1. 1 \in 1..(Len(value) + 1) /\ n \in (1 - 1)..Len(value) /\ Len(value) \in n..Len(value)
      BY <1>1, <2>3
    <3>2. SubSeq(value, 1, n) \o SubSeq(value, n + 1, Len(value)) = SubSeq(value, 1, Len(value))
      BY <3>1, ConcatAdjacentSubSeq
    <3> QED BY <1>1, <3>2 DEF rest
  <2>7. Without(n, value) = rest
    BY DEF rest, Without
  <2> QED BY <2>4, <2>5, <2>6, <2>7
<1> QED BY <1>1, <1>2, <1>3

\* Passing more of what is left is passing more of the whole.
LEMMA WithoutMore ==
  ASSUME NEW value \in Seq(Byte), NEW n \in 0..Len(value), NEW k \in 1..4, n + k <= Len(value)
  PROVE  Without(k, Without(n, value)) = Without(n + k, value)
<1> DEFINE rest == Without(n, value)
           left == Without(k, rest)
           less == Without(n + k, value)
<1>1. Len(value) \in Nat /\ \A i \in 1..Len(value) : value[i] \in Byte
  BY LenProperties, ElementOfSeq
<1>2. /\ rest \in Seq(Byte) /\ Len(rest) = Len(value) - n
      /\ \A i \in 1..(Len(value) - n) : rest[i] = value[n + i]
  <2>1. \A i \in (n + 1)..Len(value) : value[i] \in Byte
    BY <1>1
  <2>2. \A i \in 1..(Len(value) - (n + 1) + 1) : rest[i] = value[(n + 1) + i - 1]
    BY <1>1, <2>1, SubSeqProperties DEF Without
  <2> HIDE DEF rest
  <2>3. rest \in Seq(Byte) /\ Len(rest) = Len(value) - n
    BY WholeValue DEF rest
  <2> QED BY <1>1, <2>2, <2>3
<1>3. /\ less \in Seq(Byte) /\ Len(less) = Len(value) - (n + k)
      /\ \A i \in 1..(Len(value) - (n + k)) : less[i] = value[(n + k) + i]
  <2>1. \A i \in (n + k + 1)..Len(value) : value[i] \in Byte
    BY <1>1
  <2>2. \A i \in 1..(Len(value) - ((n + k) + 1) + 1) : less[i] = value[((n + k) + 1) + i - 1]
    BY <1>1, <2>1, SubSeqProperties DEF Without
  <2>4. n + k \in 0..Len(value)
    BY <1>1
  <2> HIDE DEF less
  <2>3. less \in Seq(Byte) /\ Len(less) = Len(value) - (n + k)
    BY <2>4, WholeValue DEF less
  <2> QED BY <1>1, <2>2, <2>3
<1> HIDE DEF rest
<1>4. /\ left \in Seq(Byte) /\ Len(left) = Len(rest) - k
      /\ \A i \in 1..(Len(rest) - k) : left[i] = rest[k + i]
  <2>1. Len(rest) \in Nat /\ \A i \in 1..Len(rest) : rest[i] \in Byte
    BY <1>2, LenProperties, ElementOfSeq
  <2>2. \A i \in (k + 1)..Len(rest) : rest[i] \in Byte
    BY <2>1
  <2>3. \A i \in 1..(Len(rest) - (k + 1) + 1) : left[i] = rest[(k + 1) + i - 1]
    BY <2>1, <2>2, SubSeqProperties DEF Without
  <2>4. k \in 0..Len(rest)
    BY <1>1, <1>2
  <2> HIDE DEF left
  <2>5. left \in Seq(Byte) /\ Len(left) = Len(rest) - k
    BY <1>2, <2>4, WholeValue DEF left
  <2>6. ASSUME NEW i \in 1..(Len(rest) - k) PROVE left[i] = rest[k + i]
    <3>1. i \in 1..(Len(rest) - (k + 1) + 1) /\ (k + 1) + i - 1 = k + i
      BY <2>1
    <3> QED BY <2>3, <3>1
  <2> QED BY <2>5, <2>6
<1> HIDE DEF left, less
<1>5. Len(left) = Len(less) /\ Len(left) = Len(value) - (n + k) /\ Len(left) \in Nat
  BY <1>1, <1>2, <1>3, <1>4
<1>6. ASSUME NEW i \in 1..Len(left) PROVE left[i] = less[i]
  <2>1. left[i] = rest[k + i]
    BY <1>2, <1>4, <1>5
  <2>2. rest[k + i] = value[n + (k + i)]
    BY <1>1, <1>2, <1>5
  <2>3. less[i] = value[(n + k) + i]
    BY <1>3, <1>5
  <2>4. n + (k + i) = (n + k) + i
    BY <1>5
  <2> QED BY <2>1, <2>2, <2>3, <2>4
<1>7. left = less
  BY <1>3, <1>4, <1>5, <1>6, SeqEqual
<1> QED BY <1>7 DEF left, less, rest

\* A message has its class from what the scan has passed, and no other phases.
ScanInv ==
  /\ item \in Items
  /\ item.kind = "Message" =>
       /\ phase \in {"utf8", "is_utf8", "is_ascii", "binary"}
       /\ phase = "is_ascii" <=> is_data_ascii(item.value)
       /\ phase = "binary" => ~EncodesText(item.value)
       /\ \E n \in 0..Len(item.value) : Passed(n)

\* No byte at all is a text, and every cut begins there.
LEMMA NothingPassed ==
  ASSUME NEW value \in Seq(Byte)
  PROVE  EncodesText(SubSeq(value, 1, 0))
<1>1. Len(value) \in Nat /\ 0 \in 0..Len(value)
  BY LenProperties
<1>2. AreCuts({0}, value, 0)
  BY DEF AreCuts
<1> QED BY <1>1, <1>2, TextIsCut

\* A message is of bytes.
LEMMA MessagesAreBytes ==
  ASSUME NEW one \in Items, one.kind = "Message"
  PROVE  one.value \in Seq(Byte)
BY TextsAssumption DEF TextsAssumption, TextKinds, Byte

\* Before the scan nothing is passed, and ASCII is recognised at once.
LEMMA ScanInit == Init => ScanInv
<1> SUFFICES ASSUME Init, item.kind = "Message" PROVE ScanInv
  BY DEF Init, ScanInv
<1>1. item \in Items /\ item.value \in Seq(Byte)
  BY MessagesAreBytes DEF Init
<1>2. /\ phase = IF is_data_ascii(item.value) THEN "is_ascii" ELSE "utf8"
      /\ tmp = item.value
  BY DEF Init, NumberKinds, AmountKinds, IntegerKinds, KeyKinds
<1>3. 0 \in 0..Len(item.value) /\ tmp = Without(0, item.value)
  BY <1>1, <1>2, WholeValue
<1>4. EncodesText(SubSeq(item.value, 1, 0))
  BY <1>1, NothingPassed
<1>5. Passed(0)
  BY <1>2, <1>3, <1>4 DEF Passed, AreCuts
<1> QED BY <1>1, <1>2, <1>3, <1>5 DEF ScanInv

\* A sequence passed is a character, and any cut cuts behind it; where there is none the
\* message is not a text.
LEMMA ScanPasses ==
  ASSUME ScanInv, ScanSequence
  PROVE  ScanInv'
<1>1. item.kind = "Message" => item \in Items /\ item.value \in Seq(Byte)
  BY MessagesAreBytes DEF ScanInv
<1>2. phase = "utf8" /\ item' = item /\ tmp # <<>>
  BY DEF ScanSequence
<1> SUFFICES ASSUME item.kind = "Message" PROVE ScanInv'
  BY <1>2 DEF ScanInv
<1> DEFINE value == item.value
<1>3. PICK n \in 0..Len(value) : Passed(n)
  BY DEF ScanInv
<1>4. /\ value \in Seq(Byte) /\ Len(value) \in Nat
      /\ tmp = Without(n, value) /\ n # Len(value)
      /\ EncodesText(SubSeq(value, 1, n))
  BY <1>1, <1>2, <1>3, WholeValue DEF Passed
<1>5. ~is_data_ascii(value)
  BY <1>2 DEF ScanInv
<1> HIDE DEF value
<1>6. \A cuts : AreCuts(cuts, value, Len(value)) =>
        \E k \in 1..4 : n + k \in cuts /\ k \in SequenceLengths(tmp)
  <2> SUFFICES ASSUME NEW cuts, AreCuts(cuts, value, Len(value))
               PROVE  \E k \in 1..4 : n + k \in cuts /\ k \in SequenceLengths(tmp)
    OBVIOUS
  <2>1. n \in cuts
    BY <1>3 DEF Passed, value
  <2>2. PICK k \in 1..4 : n + k \in cuts /\ CharacterAt(value, n, k)
    BY <1>4, <2>1 DEF AreCuts
  <2> QED BY <1>4, <2>2, LengthsBehind
<1>7. CASE \E k \in SequenceLengths(tmp) : tmp' = Without(k, tmp) /\ UNCHANGED phase
  <2>1. PICK k \in SequenceLengths(tmp) : tmp' = Without(k, tmp) /\ phase' = phase
    BY <1>7
  <2>2. k \in 1..4
    BY DEF SequenceLengths
  <2>3. CharacterAt(value, n, k)
    BY <1>4, <2>2, LengthsBehind
  <2>4. n + k \in 0..Len(value) /\ EncodesText(SubSeq(value, 1, n + k))
    BY <1>4, <2>2, <2>3, TextGoesOn
  <2>5. tmp' = Without(n + k, value)
    BY <1>4, <2>1, <2>2, <2>3, WithoutMore DEF CharacterAt
  <2>6. \A cuts : AreCuts(cuts, value, Len(value)) => n + k \in cuts
    BY <1>6, OneLength
  <2>7. Passed(n + k)'
    BY <1>2, <2>1, <2>4, <2>5, <2>6 DEF Passed, value
  <2>8. n + k \in 0..Len(value)'
    BY <1>2, <2>4 DEF value
  <2>9. \E m \in 0..Len(item'.value) : Passed(m)'
    BY <2>7, <2>8 DEF value
  <2> QED BY <1>1, <1>2, <1>5, <2>1, <2>9 DEF ScanInv, value
<1>8. CASE SequenceLengths(tmp) = {} /\ phase' = "binary" /\ UNCHANGED tmp
  <2>1. ~\E cuts : AreCuts(cuts, value, Len(value))
    BY <1>6, <1>8
  <2>2. Len(value) \in 0..Len(value) /\ SubSeq(value, 1, Len(value)) = value
    BY <1>4, WholeValue
  <2>3. ~EncodesText(value)
    BY <1>4, <2>1, <2>2, TextIsCut
  <2>4. Passed(n)'
    BY <1>2, <1>3, <1>8 DEF Passed
  <2>5. \E m \in 0..Len(item'.value) : Passed(m)'
    BY <1>2, <1>3, <2>4 DEF value
  <2> QED BY <1>1, <1>2, <1>5, <1>8, <2>3, <2>5 DEF ScanInv, value
<1> QED BY <1>7, <1>8 DEF ScanSequence

\* Every step keeps the invariant of the scan.
LEMMA ScanStep == ScanInv /\ [Next]_vars => ScanInv'
<1> SUFFICES ASSUME ScanInv, [Next]_vars PROVE ScanInv'
  OBVIOUS
<1>1. CASE ScanSequence
  BY <1>1, ScanPasses
<1>2. CASE FinishScan
  <2>1. item' = item /\ tmp' = tmp /\ phase = "utf8" /\ phase' = "is_utf8" /\ tmp = <<>>
    BY <1>2 DEF FinishScan
  <2> SUFFICES ASSUME item.kind = "Message" PROVE ScanInv'
    BY <2>1 DEF ScanInv
  <2>2. item \in Items /\ item.value \in Seq(Byte) /\ ~is_data_ascii(item.value)
    BY <2>1, MessagesAreBytes DEF ScanInv
  <2>3. PICK n \in 0..Len(item.value) : Passed(n)
    BY DEF ScanInv
  <2>4. n = Len(item.value)
    BY <2>1, <2>2, <2>3, WholeValue DEF Passed
  <2>5. Passed(n)'
    BY <2>1, <2>3, <2>4 DEF Passed
  <2> QED BY <2>1, <2>2, <2>3, <2>5 DEF ScanInv
<1>3. CASE WriteDigit \/ FinishNumber \/ EncodeDigit \/ FinishKey \/ PrintText
  BY <1>3 DEF WriteDigit, FinishNumber, EncodeDigit, FinishKey, PrintText, ScanInv
<1>4. CASE UNCHANGED vars
  BY <1>4 DEF vars, ScanInv, Passed
<1> QED BY <1>1, <1>2, <1>3, <1>4 DEF Next

\* A message of any length is signed under its text just if it is the shortest encoding
\* of characters to its last byte, and everything else asks for blind signing:
\* is_data_utf8 agrees with the definition of UTF-8, whatever the bytes.
THEOREM MessagesAlwaysClassified == Spec => []MessagesAreClassified
<1>1. ScanInv => MessagesAreClassified
  <2> SUFFICES ASSUME ScanInv, item.kind = "Message" PROVE MessagesAreClassified
    BY DEF MessagesAreClassified
  <2>1. item.value \in Seq(Byte)
    BY MessagesAreBytes DEF ScanInv
  <2>2. PICK n \in 0..Len(item.value) : Passed(n)
    BY DEF ScanInv
  <2>3. /\ Len(item.value) \in Nat
        /\ Len(tmp) = Len(item.value) - n
        /\ item.value = SubSeq(item.value, 1, n) \o tmp
        /\ SubSeq(item.value, 1, Len(item.value)) = item.value
    BY <2>1, <2>2, WholeValue DEF Passed
  <2>4. Len(item.value) - Len(tmp) = n
    BY <2>2, <2>3
  <2>5. phase \in {"utf8", "is_utf8"} => EncodesText(SubSeq(item.value, 1, n))
    BY <2>2 DEF Passed
  <2>6. phase = "is_utf8" => SubSeq(item.value, 1, n) = item.value
    BY <2>2, <2>3 DEF Passed
  <2>7. phase = "is_ascii" <=> \A i \in DOMAIN item.value : item.value[i] \in 32..126
    BY DEF ScanInv, is_data_ascii, SPACE, TILDE
  <2>8. phase = "binary" => ~EncodesText(item.value)
    BY DEF ScanInv
  <2> QED BY <2>3, <2>4, <2>5, <2>6, <2>7, <2>8 DEF MessagesAreClassified
<1> QED BY <1>1, ScanInit, ScanStep, PTL DEF Spec

-----------------------------------------------------------------------------
(* Strings. *)

\* A set of naturals has a least element.
LEMMA LeastElement ==
  ASSUME NEW S \in SUBSET Nat, S # {}
  PROVE  \E least \in S : \A n \in S : least <= n
<1> DEFINE R == {pair \in Nat \X Nat : pair[1] < pair[2]}
<1>1. IsWellFoundedOn(R, Nat)
  BY NatLessThanWellFounded DEF OpToRel
<1>2. \E least \in S : \A n \in S : <<n, least>> \notin R
  BY <1>1, WFMin
<1>3. \A least \in S, n \in S : <<n, least>> \notin R => least <= n
  OBVIOUS
<1> QED BY <1>2, <1>3

\* What Min chooses of the lengths that it is given.
LEMMA MinIsLeast ==
  ASSUME NEW S \in SUBSET Nat, S # {}
  PROVE  Min(S) \in S /\ \A n \in S : Min(S) <= n
BY LeastElement DEF Min

\* A C string ends at the first NUL, or with its buffer.
LEMMA CStringEnds ==
  ASSUME NEW bytes \in Seq(Byte)
  PROVE  \E n \in 0..Len(bytes) : /\ CString(bytes) = SubSeq(bytes, 1, n)
                                  /\ n = Len(bytes) \/ bytes[n + 1] = NUL
<1> DEFINE ends == {n \in 0..Len(bytes) : n = Len(bytes) \/ bytes[n + 1] = NUL}
<1>1. Len(bytes) \in Nat
  BY LenProperties
<1>2. ends \in SUBSET Nat /\ Len(bytes) \in ends
  BY <1>1
<1>3. Min(ends) \in ends
  BY <1>2, MinIsLeast
<1>4. CString(bytes) = SubSeq(bytes, 1, Min(ends))
  BY DEF CString
<1> QED BY <1>3, <1>4

\* A text that fits in its buffer is shown as it is, and one that does not ends in the mark.
LEMMA CutText ==
  ASSUME NEW value \in Seq(Byte), NEW length \in Nat \ {0, 1}, ~(Len(value) < length)
  PROVE  LET marked == Append(Cut(value, length - 2), TILDE)
         IN  /\ marked \in Seq(Byte)
             /\ Len(marked) = length - 1
             /\ marked[length - 1] = TILDE
             /\ \A i \in 1..(length - 2) : marked[i] = value[i]
<1> DEFINE kept == SubSeq(value, 1, length - 2)
<1>1. Len(value) \in Nat /\ \A i \in 1..Len(value) : value[i] \in Byte
  BY LenProperties, ElementOfSeq
<1>2. length - 2 \in Nat /\ length - 2 < Len(value)
  BY <1>1
<1>3. /\ kept \in Seq(Byte) /\ Len(kept) = length - 2
      /\ \A i \in 1..(length - 2) : kept[i] = value[i]
  <2>1. \A i \in 1..(length - 2) : value[i] \in Byte
    BY <1>1, <1>2
  <2>2. /\ kept \in Seq(Byte) /\ Len(kept) = IF 1 <= length - 2 THEN length - 2 - 1 + 1 ELSE 0
        /\ \A i \in 1..(length - 2 - 1 + 1) : kept[i] = value[1 + i - 1]
    BY <1>2, <2>1, SubSeqProperties
  <2> HIDE DEF kept
  <2>3. PICK l \in Nat : l = length - 2
    BY <1>2
  <2>4. (IF 1 <= l THEN l - 1 + 1 ELSE 0) = l /\ l - 1 + 1 = l
    BY <2>3
  <2>5. \A i \in 1..l : 1 + i - 1 = i
    OBVIOUS
  <2> QED BY <2>2, <2>3, <2>4, <2>5
<1>4. Cut(value, length - 2) = kept
  BY <1>1, <1>2 DEF Cut
<1> HIDE DEF kept
<1>5. /\ Append(kept, TILDE) \in Seq(Byte)
      /\ Len(Append(kept, TILDE)) = Len(kept) + 1
      /\ \A i \in 1..Len(kept) : Append(kept, TILDE)[i] = kept[i]
      /\ Append(kept, TILDE)[Len(kept) + 1] = TILDE
  <2>1. TILDE \in Byte
    BY DEF TILDE, Byte
  <2> QED BY <1>3, <2>1, AppendProperties
<1>6. length - 2 + 1 = length - 1
  OBVIOUS
<1> QED BY <1>3, <1>4, <1>5, <1>6

\* What print_string shows.
LEMMA StringsShown ==
  ASSUME NEW value \in Seq(Byte), NEW length \in Nat \ {0, 1}
  PROVE  LET shown == print_string(value, length)
         IN  shown = value \/ (Len(shown) = length - 1 /\ Last(shown) = TILDE)
BY CutText DEF print_string, Last

\* What print_sized_string shows: a byte before the mark is a byte of the string.
LEMMA SizedStringsShown ==
  ASSUME NEW value \in Seq(Byte), NEW length \in Nat \ {0, 1}
  PROVE  LET shown == print_sized_string(value, length)
         IN  \/ shown = value
             \/ Len(shown) = length - 1 /\ Last(shown) = TILDE
             \/ \E n \in DOMAIN value : value[n] = NUL /\ shown = SubSeq(value, 1, n - 1)
<1> DEFINE shown == print_sized_string(value, length)
           marked == Append(Cut(value, length - 2), TILDE)
<1>1. Len(value) \in Nat
  BY LenProperties
<1>4. DOMAIN value = 1..Len(value)
  BY LenProperties
<1>5. SubSeq(value, 1, Len(value)) = value
  BY SubSeqFull
<1>2. CASE Len(value) < length
  <2>1. shown = CString(value)
    BY <1>2 DEF print_sized_string
  <2>2. PICK n \in 0..Len(value) : /\ CString(value) = SubSeq(value, 1, n)
                                   /\ n = Len(value) \/ value[n + 1] = NUL
    BY CStringEnds
  <2>3. CASE n = Len(value)
    BY <1>5, <2>1, <2>2, <2>3
  <2>4. CASE n # Len(value)
    <3>1. n + 1 \in DOMAIN value /\ (n + 1) - 1 = n
      <4>1. n \in Nat /\ n <= Len(value) /\ n # Len(value)
        BY <1>1, <2>2, <2>4
      <4>2. n + 1 \in 1..Len(value)
        BY <1>1, <4>1
      <4>3. (n + 1) - 1 = n
        BY <4>1
      <4>4. n + 1 \in DOMAIN value
        BY <1>4, <4>2, Zenon
      <4> QED BY <4>3, <4>4
    <3> QED BY <2>1, <2>2, <2>4, <3>1
  <2> QED BY <2>3, <2>4
<1>3. CASE ~(Len(value) < length)
  <2>1. shown = CString(marked)
    BY <1>3 DEF print_sized_string
  <2>2. /\ marked \in Seq(Byte)
        /\ Len(marked) = length - 1
        /\ marked[length - 1] = TILDE
        /\ \A i \in 1..(length - 2) : marked[i] = value[i]
    BY <1>3, CutText
  <2> HIDE DEF marked
  <2>3. PICK n \in 0..Len(marked) : /\ CString(marked) = SubSeq(marked, 1, n)
                                    /\ n = Len(marked) \/ marked[n + 1] = NUL
    BY <2>2, CStringEnds
  <2>4. CASE n = Len(marked)
    <3>1. shown = marked
      BY <2>1, <2>2, <2>3, <2>4, SubSeqFull
    <3> QED BY <2>2, <3>1 DEF Last
  <2>5. CASE n # Len(marked)
    <3>1. n \in Nat /\ n + 1 <= length - 1 /\ marked[n + 1] = NUL
      BY <2>2, <2>3, <2>5
    <3>2. n + 1 # length - 1
      BY <2>2, <3>1 DEF NUL, TILDE
    <3>3. n + 1 \in 1..(length - 2) /\ value[n + 1] = NUL
      BY <2>2, <3>1, <3>2
    <3>4. n + 1 \in DOMAIN value /\ n <= length - 2
      BY <1>1, <1>3, <1>4, <3>1, <3>2
    <3>5. SubSeq(marked, 1, n) = SubSeq(value, 1, n)
      <4>1. \A i \in 1..n : marked[i] = value[i]
        BY <2>2, <3>1, <3>4
      <4> QED BY <3>1, <4>1 DEF SubSeq
    <3>6. (n + 1) - 1 = n
      BY <3>1
    <3> QED BY <2>1, <2>3, <3>3, <3>4, <3>5, <3>6
  <2> QED BY <2>4, <2>5
<1> QED BY <1>2, <1>3

\* A string is shown as it was printed.
TextInv ==
  /\ item \in Items
  /\ item.kind \in {"String", "SizedString"} =>
       /\ phase \in {"text", "shown", "failed"}
       /\ phase = "shown" => text = Printed(item).text

\* Nothing is shown at first.
LEMMA TextInit == Init => TextInv
BY DEF Init, TextInv, NumberKinds, AmountKinds, IntegerKinds, KeyKinds

\* Only PrintText shows a string.
LEMMA TextStep == TextInv /\ [Next]_vars => TextInv'
<1> SUFFICES ASSUME TextInv, [Next]_vars PROVE TextInv'
  OBVIOUS
<1>1. CASE PrintText
  BY <1>1 DEF PrintText, TextInv
<1>2. CASE WriteDigit \/ FinishNumber \/ EncodeDigit \/ FinishKey \/ ScanSequence \/ FinishScan
  BY <1>2 DEF WriteDigit, FinishNumber, EncodeDigit, FinishKey, ScanSequence, FinishScan, TextInv
<1>3. CASE UNCHANGED vars
  BY <1>3 DEF vars, TextInv
<1> QED BY <1>1, <1>2, <1>3 DEF Next

\* Whatever the size of the buffer and the string, what is shown of it is the string, or
\* ends in the mark of a cut, or stops at a NUL of the string.
THEOREM CutsAlwaysMarked == Spec => []CutsAreMarked
<1>1. TextInv => CutsAreMarked
  <2> SUFFICES ASSUME TextInv, phase = "shown", item.kind \in {"String", "SizedString"}
               PROVE  CutsAreMarked
    BY DEF CutsAreMarked
  <2>1. item.value \in Seq(Byte) /\ TEXT_BUFFER_LENGTH \in Nat \ {0, 1}
    BY TextsAssumption DEF TextInv, TextsAssumption, TextKinds, Byte
  <2>2. text = Printed(item).text
    BY DEF TextInv
  <2>3. CASE item.kind = "String"
    <3>1. text = print_string(item.value, TEXT_BUFFER_LENGTH)
      BY <2>2, <2>3 DEF Printed, Shown
    <3> QED BY <2>1, <3>1, StringsShown DEF CutsAreMarked
  <2>4. CASE item.kind = "SizedString"
    <3>1. text = print_sized_string(item.value, TEXT_BUFFER_LENGTH)
      BY <2>2, <2>4 DEF Printed, Shown
    <3> QED BY <2>1, <3>1, SizedStringsShown DEF CutsAreMarked
  <2> QED BY <2>3, <2>4
<1> QED BY <1>1, TextInit, TextStep, PTL DEF Spec

-----------------------------------------------------------------------------
(* Keys. *)

\* What 0 has, and a number passes on to the next, every number has.
LEMMA SetInduction ==
  ASSUME NEW T, 0 \in T, \A n \in Nat : n \in T => n + 1 \in T
  PROVE  \A n \in Nat : n \in T
<1>1. SUFFICES ASSUME NEW bad \in Nat, bad \notin T PROVE FALSE
  OBVIOUS
<1> DEFINE others == {n \in Nat : n \notin T}
<1>2. PICK least \in others : \A n \in others : least <= n
  BY <1>1, LeastElement
<1>3. least # 0
  OBVIOUS
<1>4. least - 1 \in Nat /\ least - 1 \notin others
  BY <1>2, <1>3
<1>5. least - 1 \in T
  BY <1>4
<1>6. (least - 1) + 1 = least
  BY <1>2
<1> QED BY <1>4, <1>5, <1>6

\* A byte of a division fits in its word and leaves a byte and a digit.
LEMMA ByteDivided ==
  ASSUME NEW remainder \in 0..57, NEW digit256 \in Byte
  PROVE  LET byte == DivideByte(remainder, digit256)
         IN  /\ byte.quotient \in Byte /\ byte.remainder \in 0..57
             /\ byte.quotient * 58 + byte.remainder = remainder * 256 + digit256
<1> DEFINE n == remainder * 256 + digit256
<1>1. n \in Int /\ 0 <= n /\ n <= 14847
  BY DEF Byte
<1> HIDE DEF n
<1>2. n % 65536 = n
  BY <1>1, SMT
<1>3. ((n \div 58) * 58) + (n % 58) = n /\ n % 58 \in 0..57 /\ n \div 58 \in 0..255
  BY <1>1, SMT
<1>4. (n \div 58) % 256 = n \div 58
  BY <1>3, SMT
<1>5. DivideByte(remainder, digit256) = [quotient |-> n \div 58, remainder |-> n % 58]
  BY <1>2, <1>4 DEF DivideByte, n
<1> QED BY <1>3, <1>5 DEF Byte, n

\* The remainders of the division of the first m bytes.
AreRemainders(f, bytes, m) ==
  f = [n \in 0..m |-> IF n = 0 THEN 0 ELSE DivideByte(f[n - 1], bytes[n]).remainder]

\* They are defined for any number of bytes.
LEMMA RemaindersExist ==
  ASSUME NEW bytes
  PROVE  \A m \in Nat : \E f : AreRemainders(f, bytes, m)
<1> DEFINE T == {m \in Nat : \E f : AreRemainders(f, bytes, m)}
<1>1. 0 \in T
  <2>1. AreRemainders([n \in 0..0 |-> 0], bytes, 0)
    BY DEF AreRemainders
  <2> QED BY <2>1
<1>2. ASSUME NEW m \in Nat, m \in T PROVE m + 1 \in T
  <2>1. PICK f : AreRemainders(f, bytes, m)
    BY <1>2
  <2> DEFINE last == DivideByte(f[m], bytes[m + 1]).remainder
             g == [n \in 0..(m + 1) |-> IF n = m + 1 THEN last ELSE f[n]]
             Following(h, n) == IF n = 0 THEN 0 ELSE DivideByte(h[n - 1], bytes[n]).remainder
  <2>2. ASSUME NEW n \in 0..(m + 1) PROVE g[n] = Following(g, n)
    <3>1. CASE n \in 0..m
      <4>1. g[n] = f[n] /\ (n # 0 => g[n - 1] = f[n - 1])
        BY <3>1
      <4>2. f[n] = Following(f, n)
        BY <2>1, <3>1 DEF AreRemainders
      <4> HIDE DEF g
      <4> QED BY <4>1, <4>2
    <3>2. CASE n = m + 1
      <4>1. g[n] = last /\ g[n - 1] = f[n - 1] /\ n - 1 = m /\ n # 0
        BY <3>2
      <4> QED BY <4>1, <3>2
    <3> QED BY <3>1, <3>2
  <2>3. g = [n \in 0..(m + 1) |-> g[n]]
    OBVIOUS
  <2> HIDE DEF g
  <2>4. AreRemainders(g, bytes, m + 1)
    BY <2>2, <2>3 DEF AreRemainders
  <2> QED BY <2>4
<1> HIDE DEF T
<1>3. \A m \in Nat : m \in T
  BY <1>1, <1>2, SetInduction
<1> QED BY <1>3 DEF T

\* A division of a number of bytes: as many bytes and a digit, with a remainder after
\* each byte that goes in at the head of the next.
IsDivision(division, bytes, f) ==
  /\ f \in [0..Len(bytes) -> 0..57] /\ f[0] = 0
  /\ division.quotient \in Seq(Byte) /\ Len(division.quotient) = Len(bytes)
  /\ \A n \in 1..Len(bytes) :
       /\ division.quotient[n] \in Byte
       /\ division.quotient[n] * 58 + f[n] = f[n - 1] * 256 + bytes[n]
  /\ division.remainder = f[Len(bytes)]

\* The division of encode_base58 is one.
LEMMA Divided ==
  ASSUME NEW bytes \in Seq(Byte)
  PROVE  \E f : IsDivision(Divide(bytes), bytes, f)
<1> DEFINE f == CHOOSE g : AreRemainders(g, bytes, Len(bytes))
           quotient == [n \in 1..Len(bytes) |-> DivideByte(f[n - 1], bytes[n]).quotient]
<1>1. Len(bytes) \in Nat
  BY LenProperties
<1>2. \A n \in 1..Len(bytes) : bytes[n] \in Byte
  BY ElementOfSeq
<1>3. AreRemainders(f, bytes, Len(bytes))
  BY <1>1, RemaindersExist
<1>4. Divide(bytes) = [quotient |-> quotient, remainder |-> f[Len(bytes)]]
  BY DEF Divide, AreRemainders
<1> HIDE DEF f
<1>5. /\ f[0] = 0
      /\ \A n \in 1..Len(bytes) : f[n] = DivideByte(f[n - 1], bytes[n]).remainder
  <2>1. \A n \in 0..Len(bytes) :
          f[n] = IF n = 0 THEN 0 ELSE DivideByte(f[n - 1], bytes[n]).remainder
    BY <1>3 DEF AreRemainders
  <2> QED BY <1>1, <2>1
<1>6. \A n \in 0..Len(bytes) : f[n] \in 0..57
  <2> DEFINE T == {n \in Nat : n <= Len(bytes) => f[n] \in 0..57}
  <2>1. 0 \in T
    BY <1>5
  <2>2. ASSUME NEW n \in Nat, n \in T PROVE n + 1 \in T
    <3> SUFFICES ASSUME n + 1 <= Len(bytes) PROVE f[n + 1] \in 0..57
      OBVIOUS
    <3>1. n + 1 \in 1..Len(bytes) /\ (n + 1) - 1 = n /\ f[n] \in 0..57
      BY <1>1, <2>2
    <3>2. bytes[n + 1] \in Byte /\ f[n + 1] = DivideByte(f[n], bytes[n + 1]).remainder
      BY <1>2, <1>5, <3>1
    <3> QED BY <3>1, <3>2, ByteDivided
  <2> HIDE DEF T
  <2>3. \A n \in Nat : n \in T
    BY <2>1, <2>2, SetInduction
  <2> QED BY <1>1, <2>3 DEF T
<1>7. f \in [0..Len(bytes) -> 0..57]
  <2>1. f = [n \in 0..Len(bytes) |-> f[n]]
    BY <1>3 DEF AreRemainders
  <2> QED BY <1>6, <2>1
<1>8. ASSUME NEW n \in 1..Len(bytes)
      PROVE  /\ DivideByte(f[n - 1], bytes[n]).quotient \in Byte
             /\ DivideByte(f[n - 1], bytes[n]).quotient * 58 + f[n] = f[n - 1] * 256 + bytes[n]
  <2>1. n - 1 \in 0..Len(bytes)
    BY <1>1
  <2>2. f[n - 1] \in 0..57 /\ bytes[n] \in Byte
    BY <1>2, <1>6, <2>1
  <2>3. f[n] = DivideByte(f[n - 1], bytes[n]).remainder
    BY <1>5
  <2>4. PICK byte : byte = DivideByte(f[n - 1], bytes[n])
    OBVIOUS
  <2>5. byte.quotient \in Byte /\ byte.quotient * 58 + byte.remainder = f[n - 1] * 256 + bytes[n]
    <3>1. PICK a \in 0..57, b \in Byte : a = f[n - 1] /\ b = bytes[n]
      BY <2>2
    <3>2. byte = DivideByte(a, b)
      BY <2>4, <3>1
    <3>3. byte.quotient \in Byte /\ byte.quotient * 58 + byte.remainder = a * 256 + b
      BY <3>2, ByteDivided
    <3> QED BY <3>1, <3>3
  <2> QED BY <2>3, <2>4, <2>5, Zenon
<1>9. /\ quotient \in Seq(Byte) /\ Len(quotient) = Len(bytes)
      /\ \A n \in 1..Len(bytes) : quotient[n] = DivideByte(f[n - 1], bytes[n]).quotient
  <2>1. quotient \in [1..Len(bytes) -> Byte]
    BY <1>8
  <2>2. \A n \in 1..Len(bytes) : quotient[n] = DivideByte(f[n - 1], bytes[n]).quotient
    OBVIOUS
  <2> HIDE DEF quotient
  <2>3. quotient \in Seq(Byte) /\ Len(quotient) = Len(bytes)
    BY <1>1, <2>1
  <2> QED BY <2>2, <2>3
<1> HIDE DEF quotient
<1>a. Divide(bytes).quotient = quotient /\ Divide(bytes).remainder = f[Len(bytes)]
  BY <1>4
<1>0. IsDivision(Divide(bytes), bytes, f)
  BY <1>5, <1>7, <1>8, <1>9, <1>a, Zenon DEF IsDivision
<1> QED BY <1>0

\* What a byte of a product carries to the left, and what stays.
Carries(byte, right) == (byte * 58 + right) \div 256
Stays(byte, right) == (byte * 58 + right) % 256

SplitsInto(byte, right, left, stays) == byte * 58 + right = left * 256 + stays

\* A sum that splits into a byte and what is above it carries what is above it.
LEMMA ByteCarried ==
  ASSUME NEW byte \in Byte, NEW right \in Nat, NEW left \in Nat, NEW stays \in Byte,
         SplitsInto(byte, right, left, stays)
  PROVE  Carries(byte, right) = left /\ Stays(byte, right) = stays
<1>1. PICK n \in Nat : n = byte * 58 + right
  BY DEF Byte
<1>2. n = left * 256 + stays /\ 0 <= stays /\ stays <= 255 /\ stays \in Int
  BY <1>1 DEF Byte, SplitsInto
<1>3. n \div 256 = left /\ n % 256 = stays
  BY <1>2, SMT
<1> QED BY <1>1, <1>3 DEF Carries, Stays

\* The carries of a product, from the last byte to the first.
AreCarries(f, bytes, digit) ==
  f = [n \in 0..Len(bytes) |->
         IF n = Len(bytes) THEN digit ELSE Carries(bytes[n + 1], f[n + 1])]

\* There is one way to carry.
LEMMA OneWayToCarry ==
  ASSUME NEW bytes, Len(bytes) \in Nat, NEW digit, NEW f, NEW g,
         AreCarries(f, bytes, digit), AreCarries(g, bytes, digit)
  PROVE  f = g
<1> DEFINE T == {k \in Nat : k <= Len(bytes) => f[Len(bytes) - k] = g[Len(bytes) - k]}
<1>1. \A n \in 0..Len(bytes) :
        /\ f[n] = IF n = Len(bytes) THEN digit ELSE Carries(bytes[n + 1], f[n + 1])
        /\ g[n] = IF n = Len(bytes) THEN digit ELSE Carries(bytes[n + 1], g[n + 1])
  BY DEF AreCarries
<1>2. 0 \in T
  BY <1>1
<1>3. ASSUME NEW k \in Nat, k \in T PROVE k + 1 \in T
  <2> SUFFICES ASSUME k + 1 <= Len(bytes)
               PROVE  f[Len(bytes) - (k + 1)] = g[Len(bytes) - (k + 1)]
    OBVIOUS
  <2>0. Len(bytes) - (k + 1) \in Nat
    <3>1. PICK l \in Nat : l = Len(bytes)
      OBVIOUS
    <3>2. k + 1 <= l
      BY <3>1
    <3>3. l - (k + 1) \in Nat
      BY <3>2
    <3> QED BY <3>1, <3>3
  <2>1. PICK n \in Nat : n = Len(bytes) - (k + 1)
    BY <2>0
  <2>2. n \in 0..Len(bytes) /\ n # Len(bytes) /\ n + 1 = Len(bytes) - k
    BY <2>1
  <2>3. f[n + 1] = g[n + 1]
    BY <1>3, <2>2
  <2> QED BY <1>1, <2>1, <2>2, <2>3, Zenon
<1> HIDE DEF T
<1>4. \A k \in Nat : k \in T
  BY <1>2, <1>3, SetInduction
<1>5. ASSUME NEW n \in 0..Len(bytes) PROVE f[n] = g[n]
  <2>1. Len(bytes) - n \in Nat /\ Len(bytes) - n <= Len(bytes)
        /\ Len(bytes) - (Len(bytes) - n) = n
    OBVIOUS
  <2> QED BY <1>4, <2>1 DEF T
<1>6. f = [n \in 0..Len(bytes) |-> f[n]] /\ g = [n \in 0..Len(bytes) |-> g[n]]
  BY DEF AreCarries
<1> QED BY <1>5, <1>6

ProductOf(bytes, f) == [n \in 1..Len(bytes) |-> Stays(bytes[n], f[n])]

\* The product is read off any carries of its bytes.
LEMMA ProductByCarries ==
  ASSUME NEW bytes, Len(bytes) \in Nat, NEW digit, NEW f, AreCarries(f, bytes, digit)
  PROVE  TimesAndPlus(bytes, digit) =
           IF f[0] = 0 THEN ProductOf(bytes, f) ELSE <<f[0]>> \o ProductOf(bytes, f)
<1> DEFINE carry == CHOOSE g : AreCarries(g, bytes, digit)
<1>1. TimesAndPlus(bytes, digit) =
        IF carry[0] = 0 THEN ProductOf(bytes, carry) ELSE <<carry[0]>> \o ProductOf(bytes, carry)
  BY DEF TimesAndPlus, AreCarries, Carries, Stays, ProductOf
<1>2. carry = f
  BY OneWayToCarry
<1> QED BY <1>1, <1>2

\* A division is undone by the product, once the zero at the head of the quotient is gone:
\* there is at most one, where the number has none.
LEMMA DivisionUndone ==
  ASSUME NEW bytes \in Seq(Byte), bytes # <<>>, bytes[1] # 0,
         NEW division, NEW f, IsDivision(division, bytes, f)
  PROVE  TimesAndPlus(IF division.quotient[1] = 0 THEN Tail(division.quotient)
                      ELSE division.quotient, division.remainder) = bytes
<1> DEFINE quotient == division.quotient
<1>1. Len(bytes) \in Nat /\ Len(bytes) # 0
  BY EmptySeq
<1>2. \A n \in 1..Len(bytes) : bytes[n] \in Byte
  BY ElementOfSeq
<1>3. /\ f \in [0..Len(bytes) -> 0..57] /\ f[0] = 0
      /\ quotient \in Seq(Byte) /\ Len(quotient) = Len(bytes)
      /\ \A n \in 1..Len(bytes) :
           quotient[n] \in Byte /\ quotient[n] * 58 + f[n] = f[n - 1] * 256 + bytes[n]
      /\ division.remainder = f[Len(bytes)]
  BY DEF IsDivision
<1> HIDE DEF quotient
<1>4. ASSUME NEW n \in 1..Len(bytes)
      PROVE  Carries(quotient[n], f[n]) = f[n - 1] /\ Stays(quotient[n], f[n]) = bytes[n]
  <2>1. n \in 0..Len(bytes) /\ n - 1 \in 0..Len(bytes)
    BY <1>1
  <2>2. f[n] \in Nat /\ f[n - 1] \in Nat
    <3>1. f[n] \in 0..57 /\ f[n - 1] \in 0..57
      BY <1>3, <2>1
    <3>2. \A a \in 0..57 : a \in Nat
      OBVIOUS
    <3> QED BY <3>1, <3>2, Zenon
  <2>3. bytes[n] \in Byte /\ quotient[n] \in Byte
        /\ quotient[n] * 58 + f[n] = f[n - 1] * 256 + bytes[n]
    BY <1>2, <1>3
  <2>4. PICK byte, right, left, stays : /\ byte = quotient[n] /\ right = f[n]
                                        /\ left = f[n - 1] /\ stays = bytes[n]
    OBVIOUS
  <2>5. byte \in Byte /\ right \in Nat /\ left \in Nat /\ stays \in Byte
        /\ SplitsInto(byte, right, left, stays)
    BY <2>2, <2>3, <2>4 DEF SplitsInto
  <2>6. Carries(byte, right) = left /\ Stays(byte, right) = stays
    BY <2>5, ByteCarried
  <2> QED BY <2>4, <2>6
<1>5. CASE quotient[1] # 0
  <2>1. AreCarries(f, quotient, division.remainder)
    <3>1. f = [n \in 0..Len(bytes) |-> f[n]]
      BY <1>3
    <3>2. ASSUME NEW n \in 0..Len(bytes)
          PROVE  f[n] = IF n = Len(bytes) THEN division.remainder ELSE Carries(quotient[n + 1], f[n + 1])
      <4>1. CASE n = Len(bytes)
        BY <1>3, <4>1
      <4>2. CASE n # Len(bytes)
        <5>1. n + 1 \in 1..Len(bytes) /\ (n + 1) - 1 = n
          BY <1>1, <4>2
        <5>2. Carries(quotient[n + 1], f[n + 1]) = f[n]
          BY <1>4, <5>1
        <5> QED BY <4>2, <5>2
      <4> QED BY <4>1, <4>2
    <3> QED BY <1>3, <3>1, <3>2, Zenon DEF AreCarries
  <2>2. TimesAndPlus(quotient, division.remainder) = [n \in 1..Len(bytes) |-> Stays(quotient[n], f[n])]
    <3>1. Len(quotient) = Len(bytes) /\ Len(quotient) \in Nat /\ f[0] = 0
      BY <1>1, <1>3
    <3>2. TimesAndPlus(quotient, division.remainder) =
            IF f[0] = 0 THEN ProductOf(quotient, f) ELSE <<f[0]>> \o ProductOf(quotient, f)
      <4>1. Len(quotient) \in Nat
        BY <3>1
      <4> QED BY <2>1, <4>1, ProductByCarries
    <3> QED BY <3>1, <3>2 DEF ProductOf
  <2>3. bytes = [n \in 1..Len(bytes) |-> bytes[n]]
    BY LenProperties
  <2> QED BY <1>4, <1>5, <2>2, <2>3 DEF quotient
<1>6. CASE quotient[1] = 0
  <2> DEFINE left == Tail(quotient)
             g == [n \in 0..(Len(bytes) - 1) |-> f[n + 1]]
             product == ProductOf(left, g)
  <2>1. /\ left \in Seq(Byte) /\ Len(left) = Len(bytes) - 1
        /\ \A n \in 1..(Len(bytes) - 1) : left[n] = quotient[n + 1]
    <3>1. quotient # <<>>
      BY <1>1, <1>3, EmptySeq
    <3> QED BY <1>3, <3>1, HeadTailProperties
  <2> HIDE DEF left
  <2>2. AreCarries(g, left, division.remainder)
    <3>1. ASSUME NEW n \in 0..(Len(bytes) - 1)
          PROVE  g[n] = IF n = Len(bytes) - 1 THEN division.remainder ELSE Carries(left[n + 1], g[n + 1])
      <4>1. n + 1 \in 1..Len(bytes) /\ g[n] = f[n + 1]
        BY <1>1
      <4>2. CASE n = Len(bytes) - 1
        BY <1>1, <1>3, <4>1, <4>2
      <4>3. CASE n # Len(bytes) - 1
        <5>1. /\ n + 1 \in 1..(Len(bytes) - 1) /\ n + 1 \in 0..(Len(bytes) - 1)
              /\ n + 2 \in 1..Len(bytes) /\ (n + 1) + 1 = n + 2 /\ (n + 2) - 1 = n + 1
          BY <1>1, <4>3
        <5>2. left[n + 1] = quotient[n + 2] /\ g[n + 1] = f[n + 2]
          BY <2>1, <5>1
        <5>3. Carries(quotient[n + 2], f[n + 2]) = f[n + 1]
          BY <1>4, <5>1
        <5> QED BY <4>1, <4>3, <5>2, <5>3
      <4> QED BY <4>2, <4>3
    <3>2. g = [n \in 0..(Len(bytes) - 1) |-> g[n]]
      OBVIOUS
    <3> HIDE DEF g
    <3> QED BY <2>1, <3>1, <3>2, Zenon DEF AreCarries
  <2>3. g[0] = bytes[1] /\ g[0] # 0
    <3>1. g[0] = f[1] /\ 1 \in 1..Len(bytes) /\ 1 \in 0..Len(bytes)
      BY <1>1
    <3>2. quotient[1] * 58 + f[1] = f[1 - 1] * 256 + bytes[1] /\ bytes[1] \in Byte /\ f[1] \in 0..57
      BY <1>2, <1>3, <3>1
    <3>a. 0 * 58 + f[1] = 0 * 256 + bytes[1]
      <4>1. 1 - 1 = 0
        OBVIOUS
      <4> QED BY <1>3, <1>6, <3>2, <4>1
    <3>b. PICK a, c : a = f[1] /\ c = bytes[1]
      OBVIOUS
    <3>c. a \in Int /\ c \in Int
      <4>1. f[1] \in 0..57 /\ bytes[1] \in Byte
        BY <3>2, Zenon
      <4>2. (\A m \in 0..57 : m \in Int) /\ (\A m \in Byte : m \in Int)
        BY DEF Byte
      <4> QED BY <3>b, <4>1, <4>2, Zenon
    <3>d. 0 * 58 + a = 0 * 256 + c
      BY <3>a, <3>b, Zenon
    <3>3. f[1] = bytes[1]
      BY <3>b, <3>c, <3>d
    <3> QED BY <3>1, <3>3
  <2>4. Len(left) \in Nat
    BY <1>1, <2>1
  <2>5. TimesAndPlus(left, division.remainder) = IF g[0] = 0 THEN product ELSE <<g[0]>> \o product
    BY <2>2, <2>4, ProductByCarries
  <2>6. TimesAndPlus(left, division.remainder) = <<bytes[1]>> \o product
    BY <2>3, <2>5
  <2>7. ASSUME NEW n \in 1..(Len(bytes) - 1) PROVE product[n] = bytes[n + 1]
    <3>1. n + 1 \in 1..Len(bytes) /\ n \in 0..(Len(bytes) - 1) /\ n \in 1..Len(left)
      BY <1>1, <2>1
    <3>2. product[n] = Stays(left[n], g[n]) /\ g[n] = f[n + 1] /\ left[n] = quotient[n + 1]
      BY <2>1, <3>1 DEF ProductOf
    <3> QED BY <1>4, <3>1, <3>2
  <2>8. product = Tail(bytes)
    <3>1. /\ Tail(bytes) \in Seq(Byte) /\ Len(Tail(bytes)) = Len(bytes) - 1
          /\ \A n \in 1..(Len(bytes) - 1) : Tail(bytes)[n] = bytes[n + 1]
      BY HeadTailProperties
    <3>2. Tail(bytes) = [n \in 1..(Len(bytes) - 1) |-> Tail(bytes)[n]]
      BY <3>1, LenProperties
    <3>3. product = [n \in 1..(Len(bytes) - 1) |-> product[n]]
      BY <2>1 DEF ProductOf
    <3> HIDE DEF product
    <3> QED BY <2>7, <3>1, <3>2, <3>3
  <2>9. <<bytes[1]>> \o Tail(bytes) = bytes
    <3>1. 1 \in 1..Len(bytes) /\ Len(bytes) \in 1..Len(bytes)
      BY <1>1
    <3>2. SubSeq(bytes, 1, Len(bytes)) = <<bytes[1]>> \o SubSeq(bytes, 1 + 1, Len(bytes))
      BY <3>1, SubSeqRecursiveFirst
    <3>3. Tail(bytes) = SubSeq(bytes, 2, Len(bytes)) /\ SubSeq(bytes, 1, Len(bytes)) = bytes
      BY TailIsSubSeq, SubSeqFull
    <3> QED BY <3>2, <3>3
  <2> QED BY <1>6, <2>6, <2>8, <2>9 DEF quotient, left
<1> QED BY <1>5, <1>6

\* The digits of base 58 are told apart by their codes.
LEMMA DigitsOfCodes ==
  \A digit \in 0..57 : /\ BASE58_ALPHABET[digit] \in Int
                       /\ DigitOf(BASE58_ALPHABET[digit]) = digit
                       /\ BASE58_ALPHABET[digit] = BASE58_ALPHABET[0] => digit = 0
<1>1. DOMAIN BASE58_ALPHABET = 0..57
  BY DEF BASE58_ALPHABET
<1>2. \A digit \in 0..57 : BASE58_ALPHABET[digit] \in Int
  BY DEF BASE58_ALPHABET
<1>3. ASSUME NEW d \in 0..57, NEW e \in 0..57, d < e
      PROVE  BASE58_ALPHABET[d] < BASE58_ALPHABET[e]
  BY <1>3 DEF BASE58_ALPHABET
<1>4. ASSUME NEW d \in 0..57, NEW e \in 0..57, BASE58_ALPHABET[d] = BASE58_ALPHABET[e]
      PROVE  d = e
  <2>1. BASE58_ALPHABET[d] \in Int /\ BASE58_ALPHABET[e] \in Int
    BY <1>2
  <2>2. ~(d < e) /\ ~(e < d)
    <3>1. d < e => BASE58_ALPHABET[d] < BASE58_ALPHABET[e]
      BY <1>3
    <3>2. e < d => BASE58_ALPHABET[e] < BASE58_ALPHABET[d]
      BY <1>3
    <3> QED BY <1>4, <2>1, <3>1, <3>2
  <2> QED BY <2>2
<1>5. ASSUME NEW digit \in 0..57 PROVE DigitOf(BASE58_ALPHABET[digit]) = digit
  BY <1>1, <1>4 DEF DigitOf
<1>6. 0 \in 0..57
  OBVIOUS
<1> QED BY <1>2, <1>4, <1>5, <1>6

\* The powers of a base.
ArePowers(power, base, m) ==
  /\ power \in [0..m -> Nat] /\ power[0] = 1
  /\ \A n \in 1..m : power[n] = base * power[n - 1]

\* They are defined up to any one of them.
LEMMA PowersExist ==
  ASSUME NEW base \in Nat
  PROVE  \A m \in Nat : \E power : ArePowers(power, base, m)
<1> DEFINE T == {m \in Nat : \E power : ArePowers(power, base, m)}
<1>1. 0 \in T
  <2>1. ArePowers([n \in 0..0 |-> 1], base, 0)
    BY DEF ArePowers
  <2> QED BY <2>1
<1>2. ASSUME NEW m \in Nat, m \in T PROVE m + 1 \in T
  <2>1. PICK power : ArePowers(power, base, m)
    BY <1>2
  <2> DEFINE more == [n \in 0..(m + 1) |-> IF n = m + 1 THEN base * power[m] ELSE power[n]]
  <2>2. /\ power \in [0..m -> Nat] /\ power[0] = 1
        /\ \A n \in 1..m : power[n] = base * power[n - 1]
    BY <2>1 DEF ArePowers
  <2>3. power[m] \in Nat
    BY <2>2
  <2>4. base * power[m] \in Nat
    BY <2>3
  <2>5. more \in [0..(m + 1) -> Nat] /\ more[0] = 1
    BY <2>2, <2>4
  <2>6. ASSUME NEW n \in 1..(m + 1) PROVE more[n] = base * more[n - 1]
    <3>1. CASE n = m + 1
      <4>1. n - 1 = m /\ n \in 0..(m + 1) /\ m \in 0..(m + 1) /\ m # m + 1
        BY <3>1
      <4>2. more[n] = base * power[m] /\ more[n - 1] = power[m]
        BY <3>1, <4>1
      <4> QED BY <4>2
    <3>2. CASE n # m + 1
      <4>1. n \in 1..m /\ n \in 0..(m + 1) /\ n - 1 \in 0..(m + 1) /\ n - 1 # m + 1
        BY <3>2
      <4>2. more[n] = power[n] /\ more[n - 1] = power[n - 1]
        BY <3>2, <4>1
      <4> QED BY <2>2, <4>1, <4>2
    <3> QED BY <3>1, <3>2
  <2> HIDE DEF more
  <2>7. ArePowers(more, base, m + 1)
    BY <2>5, <2>6 DEF ArePowers
  <2> QED BY <2>7
<1> HIDE DEF T
<1>3. \A m \in Nat : m \in T
  BY <1>1, <1>2, SetInduction
<1> QED BY <1>3 DEF T

\* The numbers of the first bytes.
AreNumbers(f, bytes) ==
  /\ f \in [0..Len(bytes) -> Nat] /\ f[0] = 0
  /\ \A n \in 1..Len(bytes) : f[n] = f[n - 1] * 256 + bytes[n]

AreNumbersUpTo(f, bytes, power, m) ==
  /\ f \in [0..m -> Nat] /\ f[0] = 0
  /\ \A n \in 1..m : f[n] = f[n - 1] * 256 + bytes[n]
  /\ f[m] < power[m]

\* Every number of bytes is one, below the power of 256 that they reach.
LEMMA NumbersExist ==
  ASSUME NEW bytes \in Seq(Byte), NEW most \in Nat, Len(bytes) <= most,
         NEW power, ArePowers(power, 256, most)
  PROVE  \E f : AreNumbers(f, bytes) /\ f[Len(bytes)] < power[Len(bytes)]
<1> DEFINE Upto(f, m) == AreNumbersUpTo(f, bytes, power, m)
           T == {m \in Nat : m <= Len(bytes) => \E f : Upto(f, m)}
<1>1. Len(bytes) \in Nat /\ \A n \in 1..Len(bytes) : bytes[n] \in Byte
  BY LenProperties, ElementOfSeq
<1>2. /\ power[0] = 1
      /\ \A n \in 0..Len(bytes) : power[n] \in Nat
      /\ \A n \in 1..Len(bytes) : power[n] = 256 * power[n - 1]
  <2>1. /\ power \in [0..most -> Nat] /\ power[0] = 1
        /\ \A n \in 1..most : power[n] = 256 * power[n - 1]
    BY DEF ArePowers
  <2>2. 0..Len(bytes) \subseteq 0..most /\ 1..Len(bytes) \subseteq 1..most
    BY <1>1
  <2> QED BY <2>1, <2>2
<1>3. 0 \in T
  <2>1. Upto([n \in 0..0 |-> 0], 0)
    BY <1>2 DEF AreNumbersUpTo
  <2> QED BY <2>1
<1>4. ASSUME NEW m \in Nat, m \in T PROVE m + 1 \in T
  <2> SUFFICES ASSUME m + 1 <= Len(bytes) PROVE \E g : Upto(g, m + 1)
    OBVIOUS
  <2>1. PICK f : Upto(f, m)
    BY <1>1, <1>4
  <2> DEFINE last == f[m] * 256 + bytes[m + 1]
             g == [n \in 0..(m + 1) |-> IF n = m + 1 THEN last ELSE f[n]]
  <2>0. /\ f \in [0..m -> Nat] /\ f[0] = 0 /\ f[m] < power[m]
        /\ \A n \in 1..m : f[n] = f[n - 1] * 256 + bytes[n]
    BY <2>1 DEF AreNumbersUpTo
  <2>2. f[m] \in Nat /\ bytes[m + 1] \in Byte /\ power[m] \in Nat
    <3>1. m \in 0..m /\ m \in 0..Len(bytes) /\ m + 1 \in 1..Len(bytes)
      BY <1>1
    <3> QED BY <1>1, <1>2, <2>0, <3>1
  <2>3. last \in Nat
    <3>1. PICK a, b : a = f[m] /\ b = bytes[m + 1]
      OBVIOUS
    <3>2. a \in Nat /\ b \in Byte
      BY <2>2, <3>1
    <3>3. a * 256 + b \in Nat
      BY <3>2 DEF Byte
    <3> QED BY <3>1, <3>3
  <2>4. g \in [0..(m + 1) -> Nat] /\ g[0] = 0
    <3> HIDE DEF last
    <3> QED BY <2>0, <2>3
  <2>5. ASSUME NEW n \in 1..(m + 1) PROVE g[n] = g[n - 1] * 256 + bytes[n]
    <3>1. CASE n = m + 1
      <4>1. n - 1 = m /\ n \in 0..(m + 1) /\ m \in 0..(m + 1) /\ m # m + 1
        BY <3>1
      <4>2. g[n] = last /\ g[n - 1] = f[m]
        BY <3>1, <4>1
      <4> HIDE DEF g
      <4> QED BY <3>1, <4>2
    <3>2. CASE n # m + 1
      <4>1. n \in 1..m /\ n \in 0..(m + 1) /\ n - 1 \in 0..(m + 1) /\ n - 1 # m + 1
        BY <3>2
      <4>2. g[n] = f[n] /\ g[n - 1] = f[n - 1]
        BY <3>2, <4>1
      <4> HIDE DEF g
      <4> QED BY <2>0, <4>1, <4>2
    <3> QED BY <3>1, <3>2
  <2>6. g[m + 1] < power[m + 1]
    <3>1. g[m + 1] = last /\ m + 1 \in 1..Len(bytes) /\ (m + 1) - 1 = m
      BY <1>1
    <3>2. power[m + 1] = 256 * power[m]
      BY <1>2, <3>1
    <3>3. PICK a, b, c : a = f[m] /\ b = bytes[m + 1] /\ c = power[m]
      OBVIOUS
    <3>4. a \in Nat /\ b \in Byte /\ c \in Nat /\ a < c
      BY <2>0, <2>2, <3>3
    <3>5. a * 256 + b < 256 * c
      BY <3>4 DEF Byte
    <3> QED BY <3>1, <3>2, <3>3, <3>5
  <2> HIDE DEF g
  <2>7. Upto(g, m + 1)
    BY <2>4, <2>5, <2>6 DEF AreNumbersUpTo
  <2> QED BY <2>7
<1> HIDE DEF T, Upto
<1>5. \A m \in Nat : m \in T
  BY <1>3, <1>4, SetInduction
<1>6. PICK f : Upto(f, Len(bytes))
  BY <1>1, <1>5 DEF T
<1>7. AreNumbers(f, bytes) /\ f[Len(bytes)] < power[Len(bytes)]
  BY <1>6 DEF Upto, AreNumbersUpTo, AreNumbers
<1> QED BY <1>7

\* A number without a zero at its head is not zero.
LEMMA NumberIsPositive ==
  ASSUME NEW bytes \in Seq(Byte), bytes # <<>>, bytes[1] # 0, NEW f, AreNumbers(f, bytes)
  PROVE  f[Len(bytes)] >= 1
<1> DEFINE T == {n \in Nat : n + 1 <= Len(bytes) => f[n + 1] >= 1}
<1>1. Len(bytes) \in Nat /\ Len(bytes) # 0
  BY EmptySeq
<1>2. \A n \in 1..Len(bytes) : bytes[n] \in Byte
  BY ElementOfSeq
<1>3. /\ f \in [0..Len(bytes) -> Nat] /\ f[0] = 0
      /\ \A n \in 1..Len(bytes) : f[n] = f[n - 1] * 256 + bytes[n]
  BY DEF AreNumbers
<1>4. 0 \in T
  <2>1. 1 \in 1..Len(bytes)
    BY <1>1
  <2>2. f[1] = f[1 - 1] * 256 + bytes[1] /\ bytes[1] \in Byte
    BY <1>2, <1>3, <2>1
  <2>3. PICK b \in Byte : b = bytes[1]
    BY <1>2, <2>1
  <2>4. b \in Int /\ b >= 0 /\ b # 0
    <3>1. b # 0
      BY <2>3, Zenon
    <3>2. b \in Int /\ b >= 0
      BY DEF Byte
    <3> QED BY <3>1, <3>2
  <2>5. f[1] = 0 * 256 + b
    <3>1. 1 - 1 = 0
      OBVIOUS
    <3> QED BY <1>3, <2>2, <2>3, <3>1
  <2>6. f[0 + 1] >= 1
    BY <2>4, <2>5
  <2> QED BY <2>6
<1>5. ASSUME NEW n \in Nat, n \in T PROVE n + 1 \in T
  <2> SUFFICES ASSUME (n + 1) + 1 <= Len(bytes) PROVE f[(n + 1) + 1] >= 1
    OBVIOUS
  <2>1. /\ n + 1 \in 0..Len(bytes) /\ n + 1 <= Len(bytes)
        /\ (n + 1) + 1 \in 1..Len(bytes) /\ ((n + 1) + 1) - 1 = n + 1
    BY <1>1
  <2>2. f[n + 1] >= 1 /\ f[n + 1] \in Nat
    BY <1>3, <1>5, <2>1
  <2>3. f[(n + 1) + 1] = f[n + 1] * 256 + bytes[(n + 1) + 1] /\ bytes[(n + 1) + 1] \in Byte
    BY <1>2, <1>3, <2>1
  <2>4. PICK a, b : a = f[n + 1] /\ b = bytes[(n + 1) + 1]
    OBVIOUS
  <2>5. a \in Nat /\ a >= 1 /\ b \in Byte
    BY <2>2, <2>3, <2>4
  <2>6. a * 256 + b >= 1
    BY <2>5 DEF Byte
  <2> QED BY <2>3, <2>4, <2>6
<1> HIDE DEF T
<1>6. \A n \in Nat : n \in T
  BY <1>4, <1>5, SetInduction
<1>7. Len(bytes) - 1 \in Nat /\ (Len(bytes) - 1) + 1 = Len(bytes)
  BY <1>1
<1>8. f[(Len(bytes) - 1) + 1] >= 1
  <2>1. (Len(bytes) - 1) + 1 <= Len(bytes)
    BY <1>1
  <2> QED BY <1>6, <1>7, <2>1 DEF T
<1> QED BY <1>7, <1>8

\* A number is 58 times its quotient and the remainder.
Is58Times(number, quotient, remainder) == number = 58 * quotient + remainder

\* The bytes of the quotient are the number of the quotient.
LEMMA NumbersOfQuotient ==
  ASSUME NEW bytes \in Seq(Byte), NEW f, AreNumbers(f, bytes),
         NEW division, NEW r, IsDivision(division, bytes, r)
  PROVE  \E g : /\ AreNumbers(g, division.quotient)
                /\ Is58Times(f[Len(bytes)], g[Len(bytes)], division.remainder)
<1> DEFINE T == {n \in Nat : n <= Len(bytes) => \E q \in Nat : Is58Times(f[n], q, r[n])}
           g == [n \in 0..Len(bytes) |-> CHOOSE q \in Nat : Is58Times(f[n], q, r[n])]
           quotient == division.quotient
<1>1. Len(bytes) \in Nat
  BY LenProperties
<1>2. \A n \in 1..Len(bytes) : bytes[n] \in Byte
  BY ElementOfSeq
<1>3. /\ f \in [0..Len(bytes) -> Nat] /\ f[0] = 0
      /\ \A n \in 1..Len(bytes) : f[n] = f[n - 1] * 256 + bytes[n]
  BY DEF AreNumbers
<1>4. /\ r \in [0..Len(bytes) -> 0..57] /\ r[0] = 0
      /\ quotient \in Seq(Byte) /\ Len(quotient) = Len(bytes)
      /\ \A n \in 1..Len(bytes) :
           quotient[n] \in Byte /\ quotient[n] * 58 + r[n] = r[n - 1] * 256 + bytes[n]
      /\ division.remainder = r[Len(bytes)]
  BY DEF IsDivision
<1> HIDE DEF quotient
<1>5. 0 \in T
  <2>1. Is58Times(f[0], 0, r[0])
    BY <1>3, <1>4 DEF Is58Times
  <2> QED BY <2>1
<1>6. ASSUME NEW n \in 1..Len(bytes), NEW q \in Nat, Is58Times(f[n - 1], q, r[n - 1])
      PROVE  Is58Times(f[n], 256 * q + quotient[n], r[n])
  <2>1. f[n] = f[n - 1] * 256 + bytes[n] /\ quotient[n] * 58 + r[n] = r[n - 1] * 256 + bytes[n]
    BY <1>3, <1>4
  <2>2. n - 1 \in 0..Len(bytes) /\ n \in 0..Len(bytes)
    BY <1>1
  <2>3. /\ f[n - 1] \in Nat /\ bytes[n] \in Byte /\ quotient[n] \in Byte
        /\ r[n] \in 0..57 /\ r[n - 1] \in 0..57
    <3>1. f[n - 1] \in Nat
      BY <1>3, <2>2
    <3>2. r[n] \in 0..57 /\ r[n - 1] \in 0..57
      BY <1>4, <2>2
    <3>3. bytes[n] \in Byte /\ quotient[n] \in Byte
      BY <1>2, <1>4
    <3> QED BY <3>1, <3>2, <3>3
  <2>4. PICK a, b, c, d, e : /\ a = f[n - 1] /\ b = bytes[n] /\ c = quotient[n]
                             /\ d = r[n] /\ e = r[n - 1]
    OBVIOUS
  <2>5. (\A m \in 0..57 : m \in Int) /\ (\A m \in Byte : m \in Int) /\ (\A m \in Nat : m \in Int)
    BY DEF Byte
  <2>6. a \in Int /\ b \in Int /\ c \in Int /\ d \in Int /\ e \in Int
    BY <2>3, <2>4, <2>5, Zenon
  <2>7. a = 58 * q + e /\ c * 58 + d = e * 256 + b
    BY <1>6, <2>1, <2>4 DEF Is58Times
  <2>8. a * 256 + b = 58 * (256 * q + c) + d
    BY <2>6, <2>7
  <2> QED BY <2>1, <2>4, <2>8 DEF Is58Times
<1>7. ASSUME NEW n \in Nat, n \in T PROVE n + 1 \in T
  <2> SUFFICES ASSUME n + 1 <= Len(bytes)
               PROVE  \E q \in Nat : Is58Times(f[n + 1], q, r[n + 1])
    OBVIOUS
  <2>1. n + 1 \in 1..Len(bytes) /\ (n + 1) - 1 = n /\ n <= Len(bytes)
    BY <1>1
  <2>2. PICK q \in Nat : Is58Times(f[n], q, r[n])
    BY <1>7, <2>1
  <2>3. Is58Times(f[n + 1], 256 * q + quotient[n + 1], r[n + 1])
    BY <1>6, <2>1, <2>2
  <2>4. 256 * q + quotient[n + 1] \in Nat
    <3>1. PICK c \in Byte : c = quotient[n + 1]
      BY <1>4, <2>1
    <3>2. 256 * q + c \in Nat
      BY DEF Byte
    <3> QED BY <3>1, <3>2
  <2> QED BY <2>3, <2>4
<1> HIDE DEF T
<1>8. \A n \in Nat : n \in T
  BY <1>5, <1>7, SetInduction
<1>9. \A n \in 0..Len(bytes) : g[n] \in Nat /\ Is58Times(f[n], g[n], r[n])
  <2> SUFFICES ASSUME NEW n \in 0..Len(bytes)
               PROVE  g[n] \in Nat /\ Is58Times(f[n], g[n], r[n])
    OBVIOUS
  <2>1. \E q \in Nat : Is58Times(f[n], q, r[n])
    BY <1>1, <1>8 DEF T
  <2> QED BY <2>1
<1>a. g = [n \in 0..Len(bytes) |-> g[n]]
  OBVIOUS
<1> HIDE DEF g
<1>b. g \in [0..Len(bytes) -> Nat]
  BY <1>9, <1>a
<1>c. \A m, n \in Nat, k \in 0..57 : 58 * m + k = 58 * n + k => m = n
  OBVIOUS
<1>d. g[0] = 0
  <2>1. Is58Times(0, g[0], 0) /\ g[0] \in Nat
    BY <1>1, <1>3, <1>4, <1>9
  <2> QED BY <2>1 DEF Is58Times
<1>e. ASSUME NEW n \in 1..Len(bytes) PROVE g[n] = g[n - 1] * 256 + quotient[n]
  <2>1. n - 1 \in 0..Len(bytes) /\ n \in 0..Len(bytes)
    BY <1>1
  <2>2. Is58Times(f[n], 256 * g[n - 1] + quotient[n], r[n]) /\ Is58Times(f[n], g[n], r[n])
    BY <1>6, <1>9, <2>1
  <2>3. PICK a, b, c, d : a = g[n - 1] /\ b = g[n] /\ c = quotient[n] /\ d = r[n]
    OBVIOUS
  <2>4. a \in Nat /\ b \in Nat /\ c \in Byte /\ d \in 0..57
    BY <1>4, <1>9, <2>1, <2>3
  <2>5. 58 * (256 * a + c) + d = 58 * b + d
    BY <2>2, <2>3 DEF Is58Times
  <2>6. b = a * 256 + c
    BY <2>4, <2>5 DEF Byte
  <2> QED BY <2>3, <2>6
<1>f. AreNumbers(g, quotient)
  BY <1>4, <1>b, <1>d, <1>e DEF AreNumbers
<1>g. Is58Times(f[Len(bytes)], g[Len(bytes)], division.remainder)
  BY <1>1, <1>4, <1>9
<1> QED BY <1>f, <1>g DEF quotient

\* A zero at the head of a number does not count.
LEMMA NumbersOfTail ==
  ASSUME NEW bytes \in Seq(Byte), bytes # <<>>, bytes[1] = 0, NEW f, AreNumbers(f, bytes)
  PROVE  \E g : AreNumbers(g, Tail(bytes)) /\ g[Len(Tail(bytes))] = f[Len(bytes)]
<1> DEFINE g == [n \in 0..(Len(bytes) - 1) |-> f[n + 1]]
<1>1. Len(bytes) \in Nat /\ Len(bytes) # 0
  BY EmptySeq
<1>2. /\ f \in [0..Len(bytes) -> Nat] /\ f[0] = 0
      /\ \A n \in 1..Len(bytes) : f[n] = f[n - 1] * 256 + bytes[n]
  BY DEF AreNumbers
<1>3. /\ Len(Tail(bytes)) = Len(bytes) - 1
      /\ \A n \in 1..(Len(bytes) - 1) : Tail(bytes)[n] = bytes[n + 1]
  BY HeadTailProperties
<1>4. f[1] = 0
  <2>1. 1 \in 1..Len(bytes) /\ 1 - 1 = 0
    BY <1>1
  <2>2. f[1] = f[0] * 256 + bytes[1]
    BY <1>2, <2>1
  <2>3. f[1] = 0 * 256 + 0
    BY <1>2, <2>2
  <2> QED BY <2>3
<1>5. g \in [0..(Len(bytes) - 1) -> Nat] /\ g[0] = 0
  <2>1. \A n \in 0..(Len(bytes) - 1) : n + 1 \in 0..Len(bytes)
    BY <1>1
  <2>2. 0 \in 0..(Len(bytes) - 1) /\ 0 + 1 = 1
    BY <1>1
  <2> QED BY <1>2, <1>4, <2>1, <2>2
<1>6. ASSUME NEW n \in 1..(Len(bytes) - 1) PROVE g[n] = g[n - 1] * 256 + bytes[n + 1]
  <2>1. /\ n + 1 \in 1..Len(bytes) /\ n \in 0..(Len(bytes) - 1) /\ n - 1 \in 0..(Len(bytes) - 1)
        /\ (n + 1) - 1 = n /\ (n - 1) + 1 = n
    BY <1>1
  <2>2. g[n] = f[n + 1] /\ g[n - 1] = f[n]
    BY <2>1
  <2> HIDE DEF g
  <2> QED BY <1>2, <2>1, <2>2
<1>7. g[Len(bytes) - 1] = f[Len(bytes)]
  <2>1. Len(bytes) - 1 \in 0..(Len(bytes) - 1) /\ (Len(bytes) - 1) + 1 = Len(bytes)
    BY <1>1
  <2> QED BY <2>1
<1> HIDE DEF g
<1>8. AreNumbers(g, Tail(bytes))
  BY <1>3, <1>5, <1>6 DEF AreNumbers
<1> QED BY <1>3, <1>7, <1>8

\* Eight bytes make a number of 64 bits.
LEMMA EightPowersOf256 ==
  ASSUME NEW m \in Nat, NEW power, ArePowers(power, 256, m), NEW n \in Nat, n + 8 <= m
  PROVE  power[n] \in Nat /\ power[n + 8] = 18446744073709551616 * power[n]
<1>1. /\ power \in [0..m -> Nat]
      /\ \A i \in 1..m : power[i] = 256 * power[i - 1]
  BY DEF ArePowers
<1>2. ASSUME NEW i \in Nat, i < 8 PROVE power[n + (i + 1)] = 256 * power[n + i]
  <2>1. n + (i + 1) \in 1..m /\ (n + (i + 1)) - 1 = n + i
    BY <1>2
  <2> QED BY <1>1, <2>1
<1>3. power[n] \in Nat
  <2>1. n \in 0..m
    OBVIOUS
  <2> QED BY <1>1, <2>1
<1> DEFINE at(i) == power[n + i]
<1>4. /\ at(0) = power[n] /\ at(8) = power[n + 8]
      /\ at(1) = 256 * at(0)
      /\ at(2) = 256 * at(1)
      /\ at(3) = 256 * at(2)
      /\ at(4) = 256 * at(3)
      /\ at(5) = 256 * at(4)
      /\ at(6) = 256 * at(5)
      /\ at(7) = 256 * at(6)
      /\ at(8) = 256 * at(7)
  <2>0. n + 0 = n
    OBVIOUS
  <2>1. at(1) = 256 * at(0)
    <3>1. 0 + 1 = 1
      OBVIOUS
    <3> QED BY <1>2, <3>1
  <2>2. at(2) = 256 * at(1)
    <3>1. 1 + 1 = 2
      OBVIOUS
    <3> QED BY <1>2, <3>1
  <2>3. at(3) = 256 * at(2)
    <3>1. 2 + 1 = 3
      OBVIOUS
    <3> QED BY <1>2, <3>1
  <2>4. at(4) = 256 * at(3)
    <3>1. 3 + 1 = 4
      OBVIOUS
    <3> QED BY <1>2, <3>1
  <2>5. at(5) = 256 * at(4)
    <3>1. 4 + 1 = 5
      OBVIOUS
    <3> QED BY <1>2, <3>1
  <2>6. at(6) = 256 * at(5)
    <3>1. 5 + 1 = 6
      OBVIOUS
    <3> QED BY <1>2, <3>1
  <2>7. at(7) = 256 * at(6)
    <3>1. 6 + 1 = 7
      OBVIOUS
    <3> QED BY <1>2, <3>1
  <2>8. at(8) = 256 * at(7)
    <3>1. 7 + 1 = 8
      OBVIOUS
    <3> QED BY <1>2, <3>1
  <2> QED BY <2>0, <2>1, <2>2, <2>3, <2>4, <2>5, <2>6, <2>7, <2>8
<1> HIDE DEF at
<1>5. at(8) = 18446744073709551616 * at(0)
  BY <1>3, <1>4, SMT
<1> QED BY <1>3, <1>4, <1>5

\* Eleven digits of base 58 reach beyond 64 bits.
LEMMA ElevenPowersOf58 ==
  ASSUME NEW m \in Nat, NEW power, ArePowers(power, 58, m), NEW n \in Nat, n + 11 <= m
  PROVE  power[n] \in Nat /\ power[n + 11] = 24986644000165537792 * power[n]
<1>1. /\ power \in [0..m -> Nat]
      /\ \A i \in 1..m : power[i] = 58 * power[i - 1]
  BY DEF ArePowers
<1>2. ASSUME NEW i \in Nat, i < 11 PROVE power[n + (i + 1)] = 58 * power[n + i]
  <2>1. n + (i + 1) \in 1..m /\ (n + (i + 1)) - 1 = n + i
    BY <1>2
  <2> QED BY <1>1, <2>1
<1>3. power[n] \in Nat
  <2>1. n \in 0..m
    OBVIOUS
  <2> QED BY <1>1, <2>1
<1> DEFINE at(i) == power[n + i]
<1>4. /\ at(0) = power[n] /\ at(11) = power[n + 11]
      /\ at(1) = 58 * at(0)
      /\ at(2) = 58 * at(1)
      /\ at(3) = 58 * at(2)
      /\ at(4) = 58 * at(3)
      /\ at(5) = 58 * at(4)
      /\ at(6) = 58 * at(5)
      /\ at(7) = 58 * at(6)
      /\ at(8) = 58 * at(7)
      /\ at(9) = 58 * at(8)
      /\ at(10) = 58 * at(9)
      /\ at(11) = 58 * at(10)
  <2>0. n + 0 = n
    OBVIOUS
  <2>1. at(1) = 58 * at(0)
    <3>1. 0 + 1 = 1
      OBVIOUS
    <3> QED BY <1>2, <3>1
  <2>2. at(2) = 58 * at(1)
    <3>1. 1 + 1 = 2
      OBVIOUS
    <3> QED BY <1>2, <3>1
  <2>3. at(3) = 58 * at(2)
    <3>1. 2 + 1 = 3
      OBVIOUS
    <3> QED BY <1>2, <3>1
  <2>4. at(4) = 58 * at(3)
    <3>1. 3 + 1 = 4
      OBVIOUS
    <3> QED BY <1>2, <3>1
  <2>5. at(5) = 58 * at(4)
    <3>1. 4 + 1 = 5
      OBVIOUS
    <3> QED BY <1>2, <3>1
  <2>6. at(6) = 58 * at(5)
    <3>1. 5 + 1 = 6
      OBVIOUS
    <3> QED BY <1>2, <3>1
  <2>7. at(7) = 58 * at(6)
    <3>1. 6 + 1 = 7
      OBVIOUS
    <3> QED BY <1>2, <3>1
  <2>8. at(8) = 58 * at(7)
    <3>1. 7 + 1 = 8
      OBVIOUS
    <3> QED BY <1>2, <3>1
  <2>9. at(9) = 58 * at(8)
    <3>1. 8 + 1 = 9
      OBVIOUS
    <3> QED BY <1>2, <3>1
  <2>10. at(10) = 58 * at(9)
    <3>1. 9 + 1 = 10
      OBVIOUS
    <3> QED BY <1>2, <3>1
  <2>11. at(11) = 58 * at(10)
    <3>1. 10 + 1 = 11
      OBVIOUS
    <3> QED BY <1>2, <3>1
  <2> QED BY <2>0, <2>1, <2>2, <2>3, <2>4, <2>5, <2>6, <2>7, <2>8, <2>9, <2>10, <2>11
<1> HIDE DEF at
<1>5. at(11) = 24986644000165537792 * at(0)
  BY <1>3, <1>4, SMT
<1> QED BY <1>3, <1>4, <1>5

\* So 44 digits are enough for 32 bytes, and with a digit for each zero byte at their
\* head for fewer.
LEMMA DigitsAreEnough ==
  ASSUME NEW power, ArePowers(power, 58, 44), NEW bound, ArePowers(bound, 256, 32)
  PROVE  \A zeros \in 0..32 : bound[32 - zeros] <= power[44 - zeros]
<1> DEFINE T == {z \in Nat : z <= 32 => bound[32 - z] <= power[44 - z]}
<1>1. /\ power \in [0..44 -> Nat] /\ power[0] = 1
      /\ \A n \in 1..44 : power[n] = 58 * power[n - 1]
      /\ bound \in [0..32 -> Nat] /\ bound[0] = 1
      /\ \A n \in 1..32 : bound[n] = 256 * bound[n - 1]
  BY DEF ArePowers
<1>2. ASSUME NEW b \in Nat, NEW p \in Nat, b + 8 <= 32, p + 11 <= 44, bound[b] <= power[p]
      PROVE  bound[b + 8] <= power[p + 11]
  <2>1. bound[b] \in Nat /\ bound[b + 8] = 18446744073709551616 * bound[b]
    BY <1>2, EightPowersOf256
  <2>2. power[p] \in Nat /\ power[p + 11] = 24986644000165537792 * power[p]
    BY <1>2, ElevenPowersOf58
  <2>3. PICK x, y : x = bound[b] /\ y = power[p]
    OBVIOUS
  <2>4. x \in Nat /\ y \in Nat /\ x <= y
    BY <1>2, <2>1, <2>2, <2>3
  <2>5. 18446744073709551616 * x <= 24986644000165537792 * y
    BY <2>4, SMT
  <2> QED BY <2>1, <2>2, <2>3, <2>5, SMT
<1>3. bound[32] <= power[44]
  <2>1. bound[0] <= power[0]
    BY <1>1
  <2>2. bound[8] <= power[11]
    <3>1. bound[0 + 8] <= power[0 + 11]
      BY <1>2, <2>1
    <3> QED BY <3>1
  <2>3. bound[16] <= power[22]
    <3>1. bound[8 + 8] <= power[11 + 11]
      BY <1>2, <2>2
    <3> QED BY <3>1
  <2>4. bound[24] <= power[33]
    <3>1. bound[16 + 8] <= power[22 + 11]
      BY <1>2, <2>3
    <3> QED BY <3>1
  <2>5. bound[24 + 8] <= power[33 + 11]
    BY <1>2, <2>4
  <2> QED BY <2>5
<1>4. 0 \in T
  BY <1>3
<1>5. ASSUME NEW z \in Nat, z \in T PROVE z + 1 \in T
  <2> SUFFICES ASSUME z + 1 <= 32 PROVE bound[32 - (z + 1)] <= power[44 - (z + 1)]
    OBVIOUS
  <2>1. /\ 32 - z \in 1..32 /\ 32 - (z + 1) \in 0..32 /\ (32 - z) - 1 = 32 - (z + 1)
        /\ 44 - z \in 1..44 /\ 44 - (z + 1) \in 0..44 /\ (44 - z) - 1 = 44 - (z + 1)
    OBVIOUS
  <2>2. bound[32 - z] <= power[44 - z]
    BY <1>5
  <2>3. bound[32 - z] = 256 * bound[32 - (z + 1)] /\ power[44 - z] = 58 * power[44 - (z + 1)]
    BY <1>1, <2>1
  <2>4. PICK x \in Nat, y \in Nat : x = bound[32 - (z + 1)] /\ y = power[44 - (z + 1)]
    BY <1>1, <2>1
  <2>5. 256 * x <= 58 * y
    BY <2>2, <2>3, <2>4
  <2>6. x <= y
    BY <2>5
  <2> QED BY <2>4, <2>6
<1> HIDE DEF T
<1>6. \A z \in Nat : z \in T
  BY <1>4, <1>5, SetInduction
<1> QED BY <1>6 DEF T

\* The number left of a key is small enough for the digits that may follow those used.
Fits(used, bytes) ==
  /\ used \in 0..44
  /\ \E power, f : /\ ArePowers(power, 58, 44) /\ AreNumbers(f, bytes)
                   /\ f[Len(bytes)] < power[44 - used]

\* As long as it has a byte there is room for a digit.
LEMMA RoomIsLeft ==
  ASSUME NEW bytes \in Seq(Byte), bytes # <<>>, bytes[1] # 0, NEW used, Fits(used, bytes)
  PROVE  used + 1 \in 0..44
<1>1. PICK power, f : /\ ArePowers(power, 58, 44) /\ AreNumbers(f, bytes)
                      /\ f[Len(bytes)] < power[44 - used]
  BY DEF Fits
<1>2. used \in 0..44
  BY DEF Fits
<1>3. power[0] = 1
  BY <1>1 DEF ArePowers
<1>4. f[Len(bytes)] >= 1 /\ f[Len(bytes)] \in Nat
  <2>1. f[Len(bytes)] >= 1
    BY <1>1, NumberIsPositive
  <2>2. f \in [0..Len(bytes) -> Nat] /\ Len(bytes) \in Nat
    BY <1>1, LenProperties DEF AreNumbers
  <2> QED BY <2>1, <2>2
<1>5. used # 44
  <2> SUFFICES ASSUME used = 44 PROVE FALSE
    OBVIOUS
  <2>1. 44 - used = 0
    OBVIOUS
  <2>2. f[Len(bytes)] < 1
    BY <1>1, <1>3, <2>1
  <2> QED BY <1>4, <2>2
<1> QED BY <1>2, <1>5

\* A zero at the head of the quotient: the first byte is the first remainder.
LEMMA HeadDivided ==
  ASSUME NEW bytes \in Seq(Byte), bytes # <<>>, bytes[1] # 0,
         NEW division, NEW r, IsDivision(division, bytes, r), division.quotient[1] = 0
  PROVE  r[1] = bytes[1] /\ (Len(bytes) > 1 => division.quotient[2] # 0)
<1>1. Len(bytes) \in Nat /\ Len(bytes) # 0
  BY EmptySeq
<1>2. \A n \in 1..Len(bytes) : bytes[n] \in Byte
  BY ElementOfSeq
<1>3. /\ r \in [0..Len(bytes) -> 0..57] /\ r[0] = 0
      /\ \A n \in 1..Len(bytes) :
           /\ division.quotient[n] \in Byte
           /\ division.quotient[n] * 58 + r[n] = r[n - 1] * 256 + bytes[n]
  BY DEF IsDivision
<1>4. 1 \in 1..Len(bytes) /\ 1 \in 0..Len(bytes) /\ 1 - 1 = 0
  BY <1>1
<1>5. PICK b \in Byte, a \in 0..57 : b = bytes[1] /\ a = r[1]
  BY <1>2, <1>3, <1>4
<1>6. 0 * 58 + a = 0 * 256 + b
  BY <1>3, <1>4, <1>5
<1>7. a = b
  BY <1>6 DEF Byte
<1>8. ASSUME Len(bytes) > 1 PROVE division.quotient[2] # 0
  <2>1. 2 \in 1..Len(bytes) /\ 2 \in 0..Len(bytes) /\ 2 - 1 = 1
    BY <1>1, <1>8
  <2>2. PICK c \in Byte, d \in 0..57, q \in Byte :
          c = bytes[2] /\ d = r[2] /\ q = division.quotient[2]
    BY <1>2, <1>3, <2>1
  <2>3. q * 58 + d = a * 256 + c
    BY <1>3, <1>5, <2>1, <2>2
  <2>4. a # 0
    BY <1>5, <1>7, Zenon
  <2>5. q # 0
    <3> SUFFICES ASSUME q = 0 PROVE FALSE
      OBVIOUS
    <3>1. /\ c \in Int /\ c >= 0
          /\ d \in Int /\ d <= 57
          /\ a \in Int /\ a >= 0
      BY DEF Byte
    <3>2. 0 * 58 + d = a * 256 + c
      BY <2>3
    <3> QED BY <2>4, <3>1, <3>2
  <2> QED BY <2>2, <2>5
<1> QED BY <1>5, <1>7, <1>8

\* What a turn of encode_base58 does to the number that is left.
LEMMA DigitTaken ==
  ASSUME NEW bytes \in Seq(Byte), bytes # <<>>, bytes[1] # 0, NEW used, Fits(used, bytes)
  PROVE  LET division == Divide(bytes)
             left == IF division.quotient[1] = 0 THEN Tail(division.quotient) ELSE division.quotient
         IN  /\ left \in Seq(Byte) /\ Len(left) >= Len(bytes) - 1
             /\ left # <<>> => left[1] # 0
             /\ division.remainder \in 0..57
             /\ left = <<>> => division.remainder # 0
             /\ TimesAndPlus(left, division.remainder) = bytes
             /\ Fits(used + 1, left)
<1> DEFINE division == Divide(bytes)
           quotient == division.quotient
           left == IF quotient[1] = 0 THEN Tail(quotient) ELSE quotient
<1>1. PICK r : IsDivision(division, bytes, r)
  BY Divided
<1> HIDE DEF division
<1>2. Len(bytes) \in Nat /\ Len(bytes) # 0
  BY EmptySeq
<1>3. /\ r \in [0..Len(bytes) -> 0..57]
      /\ quotient \in Seq(Byte) /\ Len(quotient) = Len(bytes)
      /\ division.remainder = r[Len(bytes)]
  BY <1>1 DEF IsDivision
<1>4. quotient # <<>>
  BY <1>2, <1>3, EmptySeq
<1>5. division.remainder \in 0..57
  <2>1. Len(bytes) \in 0..Len(bytes)
    BY <1>2
  <2> QED BY <1>3, <2>1
<1>6. TimesAndPlus(left, division.remainder) = bytes
  BY <1>1, DivisionUndone
<1>7. quotient[1] = 0 =>
        /\ Tail(quotient) \in Seq(Byte) /\ Len(Tail(quotient)) = Len(bytes) - 1
        /\ \A n \in 1..(Len(bytes) - 1) : Tail(quotient)[n] = quotient[n + 1]
        /\ r[1] = bytes[1] /\ (Len(bytes) > 1 => quotient[2] # 0)
  <2>1. /\ Tail(quotient) \in Seq(Byte) /\ Len(Tail(quotient)) = Len(quotient) - 1
        /\ \A n \in 1..Len(Tail(quotient)) : Tail(quotient)[n] = quotient[n + 1]
    BY <1>3, <1>4, HeadTailProperties
  <2>2. quotient[1] = 0 => r[1] = bytes[1] /\ (Len(bytes) > 1 => quotient[2] # 0)
    BY <1>1, HeadDivided
  <2> QED BY <1>3, <2>1, <2>2
<1>8. left \in Seq(Byte) /\ Len(left) >= Len(bytes) - 1
  <2>1. CASE quotient[1] = 0
    BY <1>2, <1>7, <2>1
  <2>2. CASE quotient[1] # 0
    BY <1>2, <1>3, <2>2
  <2> QED BY <2>1, <2>2
<1>9. left # <<>> => left[1] # 0
  <2>1. CASE quotient[1] = 0
    <3> SUFFICES ASSUME Tail(quotient) # <<>> PROVE Tail(quotient)[1] # 0
      BY <2>1
    <3>1. Len(Tail(quotient)) # 0
      BY <1>7, <2>1, EmptySeq
    <3>2. Len(bytes) > 1 /\ 1 \in 1..(Len(bytes) - 1) /\ 1 + 1 = 2
      BY <1>2, <1>7, <2>1, <3>1
    <3>3. Tail(quotient)[1] = quotient[2]
      BY <1>7, <2>1, <3>2
    <3> QED BY <1>7, <2>1, <3>2, <3>3
  <2>2. CASE quotient[1] # 0
    BY <2>2
  <2> QED BY <2>1, <2>2
<1>a. left = <<>> => division.remainder # 0
  <2> SUFFICES ASSUME left = <<>> PROVE division.remainder # 0
    OBVIOUS
  <2>1. quotient[1] = 0 /\ Tail(quotient) = <<>>
    BY <1>4
  <2>2. Len(Tail(quotient)) = 0
    BY <2>1, EmptySeq
  <2>3. Len(bytes) = 1
    BY <1>2, <1>7, <2>1, <2>2
  <2>4. division.remainder = bytes[1]
    BY <1>3, <1>7, <2>1, <2>3
  <2> QED BY <2>4
<1>b. PICK power, f : /\ ArePowers(power, 58, 44) /\ AreNumbers(f, bytes)
                      /\ f[Len(bytes)] < power[44 - used]
  BY DEF Fits
<1>c. PICK g : /\ AreNumbers(g, quotient)
               /\ Is58Times(f[Len(bytes)], g[Len(bytes)], division.remainder)
  BY <1>1, <1>b, NumbersOfQuotient
<1>d. \E h : AreNumbers(h, left) /\ h[Len(left)] = g[Len(bytes)]
  <2>1. CASE quotient[1] = 0
    <3>1. \E h : AreNumbers(h, Tail(quotient)) /\ h[Len(Tail(quotient))] = g[Len(quotient)]
      BY <1>3, <1>4, <1>c, <2>1, NumbersOfTail
    <3> QED BY <1>3, <2>1, <3>1
  <2>2. CASE quotient[1] # 0
    BY <1>3, <1>c, <2>2
  <2> QED BY <2>1, <2>2
<1>e. PICK h : AreNumbers(h, left) /\ h[Len(left)] = g[Len(bytes)]
  BY <1>d
<1>f. used + 1 \in 0..44 /\ used \in 0..44
  BY RoomIsLeft DEF Fits
<1>g. g[Len(bytes)] < power[44 - (used + 1)]
  <2>1. 44 - used \in 1..44 /\ (44 - used) - 1 = 44 - (used + 1) /\ 44 - (used + 1) \in 0..44
    BY <1>f
  <2>2. power[44 - used] = 58 * power[44 - (used + 1)] /\ power[44 - (used + 1)] \in Nat
    BY <1>b, <2>1 DEF ArePowers
  <2>3. g[Len(bytes)] \in Nat
    <3>1. g \in [0..Len(quotient) -> Nat]
      BY <1>c DEF AreNumbers
    <3>2. Len(bytes) \in 0..Len(quotient)
      BY <1>2, <1>3
    <3> QED BY <3>1, <3>2
  <2>4. PICK x, y, k : x = g[Len(bytes)] /\ y = power[44 - (used + 1)] /\ k = division.remainder
    OBVIOUS
  <2>5. x \in Nat /\ y \in Nat /\ k \in 0..57
    BY <1>5, <2>2, <2>3, <2>4
  <2>6. 58 * x + k < 58 * y
    BY <1>b, <1>c, <2>2, <2>4 DEF Is58Times
  <2>7. x < y
    BY <2>5, <2>6
  <2> QED BY <2>4, <2>7
<1>h. Fits(used + 1, left)
  <2> HIDE DEF left
  <2>1. h[Len(left)] < power[44 - (used + 1)]
    BY <1>e, <1>g
  <2> QED BY <1>b, <1>e, <1>f, <2>1 DEF Fits
<1> QED BY <1>5, <1>6, <1>8, <1>9, <1>a, <1>h DEF division

\* How many elements lead, and that the one behind them is another.
LEMMA LeadingEnds ==
  ASSUME NEW S, NEW bytes \in Seq(S), NEW value
  PROVE  /\ Leading(value, bytes) \in 0..Len(bytes)
         /\ Leading(value, bytes) = Len(bytes) \/ bytes[Leading(value, bytes) + 1] # value
         /\ bytes # <<>> /\ bytes[1] # value => Leading(value, bytes) = 0
<1> DEFINE ends == {n \in 0..Len(bytes) : n = Len(bytes) \/ bytes[n + 1] # value}
<1>1. Len(bytes) \in Nat
  BY LenProperties
<1>2. ends \in SUBSET Nat /\ Len(bytes) \in ends
  BY <1>1
<1>3. Min(ends) \in ends /\ \A n \in ends : Min(ends) <= n
  BY <1>2, MinIsLeast
<1>4. Leading(value, bytes) = Min(ends)
  BY DEF Leading
<1>5. ASSUME bytes # <<>>, bytes[1] # value PROVE Min(ends) = 0
  <2>1. 0 \in ends
    BY <1>1, <1>5
  <2>2. Min(ends) <= 0 /\ Min(ends) \in Nat
    BY <1>2, <1>3, <2>1
  <2> QED BY <2>2
<1> QED BY <1>3, <1>4, <1>5

\* The digits of the zero bytes at the head of a key.
ZeroBytes == Leading(0, item.value)
ZeroDigits == [zero \in 1..Leading(0, item.value) |-> BASE58_ALPHABET[0]]

\* What is left of a key begins with a byte that is not zero, the digits and the zero
\* bytes together have room for what is left, and there are no fewer than the key has bytes.
KeyInv ==
  /\ item \in Items
  /\ phase = "key" => item.kind \in KeyKinds
  /\ item.kind \in KeyKinds =>
       /\ phase \in {"key", "shown", "failed"}
       /\ tmp \in Seq(Byte)
       /\ tmp # <<>> => tmp[1] # 0
       /\ out \in Seq(Int)
       /\ tmp = <<>> /\ out # <<>> => out[1] # BASE58_ALPHABET[0]
       /\ ZeroBytes + Len(out) + Len(tmp) >= 32
       /\ Fits(ZeroBytes + Len(out), tmp)

\* A key is 32 bytes, of which some lead and are zero.
LEMMA KeysAreBytes ==
  ASSUME NEW one \in Items, one.kind \in KeyKinds
  PROVE  /\ one.value \in Seq(Byte) /\ Len(one.value) = 32
         /\ Leading(0, one.value) \in 0..32
<1>1. one.value \in Seq(Byte)
  BY TextsAssumption DEF TextsAssumption, Byte
<1>2. Len(one.value) = 32
  BY KeysAssumption DEF KeysAssumption
<1>3. Leading(0, one.value) \in 0..Len(one.value)
  BY <1>1, LeadingEnds
<1> QED BY <1>1, <1>2, <1>3

\* The key without its zero bytes has room for its digits.
LEMMA KeyInit == Init => KeyInv
<1> SUFFICES ASSUME Init PROVE KeyInv
  OBVIOUS
<1>1. item \in Items /\ out = <<>>
  BY DEF Init
<1>2. phase = "key" => item.kind \in KeyKinds
  BY DEF Init
<1>3. CASE item.kind \in KeyKinds
  <2> DEFINE value == item.value
  <2>1. value \in Seq(Byte) /\ Len(value) = 32 /\ ZeroBytes \in 0..32
    BY <1>1, <1>3, KeysAreBytes DEF ZeroBytes
  <2>2. phase = "key" /\ tmp = Without(ZeroBytes, value)
    BY <1>3 DEF Init, KeyKinds, NumberKinds, AmountKinds, IntegerKinds, ZeroBytes
  <2>3. ZeroBytes = 32 \/ value[ZeroBytes + 1] # 0
    BY <2>1, LeadingEnds DEF ZeroBytes
  <2> HIDE DEF value
  <2>4. tmp \in Seq(Byte) /\ Len(tmp) = 32 - ZeroBytes /\ (tmp = <<>> <=> ZeroBytes = 32)
    <3>1. ZeroBytes \in 0..Len(value)
      BY <2>1
    <3>2. /\ Without(ZeroBytes, value) \in Seq(Byte)
          /\ Len(Without(ZeroBytes, value)) = Len(value) - ZeroBytes
          /\ Without(ZeroBytes, value) = <<>> <=> ZeroBytes = Len(value)
      BY <2>1, <3>1, WholeValue
    <3> QED BY <2>1, <2>2, <3>2
  <2>5. tmp # <<>> => tmp[1] # 0
    <3> SUFFICES ASSUME tmp # <<>> PROVE tmp[1] # 0
      OBVIOUS
    <3>1. ZeroBytes \in Int /\ ZeroBytes < 32 /\ ZeroBytes >= 0
      BY <2>1, <2>4
    <3>2. \A i \in 1..32 : value[i] \in Byte
      BY <2>1, ElementOfSeq
    <3>3. \A i \in (ZeroBytes + 1)..32 : value[i] \in Byte
      <4>1. \A i \in (ZeroBytes + 1)..32 : i \in 1..32
        BY <3>1
      <4> QED BY <3>2, <4>1, Zenon
    <3>4. \A i \in 1..(32 - (ZeroBytes + 1) + 1) :
            SubSeq(value, ZeroBytes + 1, 32)[i] = value[(ZeroBytes + 1) + i - 1]
      BY <3>1, <3>3, SubSeqProperties
    <3>5. 1 \in 1..(32 - (ZeroBytes + 1) + 1) /\ (ZeroBytes + 1) + 1 - 1 = ZeroBytes + 1
      BY <3>1
    <3>6. tmp[1] = value[ZeroBytes + 1]
      BY <2>1, <2>2, <3>4, <3>5 DEF Without
    <3> QED BY <2>3, <3>1, <3>6
  <2>6. Fits(ZeroBytes, tmp)
    <3>1. PICK power : ArePowers(power, 58, 44)
      BY PowersExist
    <3>2. PICK bound : ArePowers(bound, 256, 32)
      BY PowersExist
    <3>3. Len(tmp) <= 32
      BY <2>1, <2>4
    <3>4. PICK f : AreNumbers(f, tmp) /\ f[Len(tmp)] < bound[Len(tmp)]
      BY <2>4, <3>2, <3>3, NumbersExist
    <3>5. bound[32 - ZeroBytes] <= power[44 - ZeroBytes]
      BY <2>1, <3>1, <3>2, DigitsAreEnough
    <3>6. f[Len(tmp)] \in Int /\ bound[Len(tmp)] \in Int /\ power[44 - ZeroBytes] \in Int
      <4>1. Len(tmp) \in 0..Len(tmp) /\ Len(tmp) \in 0..32 /\ 44 - ZeroBytes \in 0..44
        BY <2>1, <2>4, <3>3
      <4>2. /\ f \in [0..Len(tmp) -> Nat] /\ bound \in [0..32 -> Nat]
            /\ power \in [0..44 -> Nat]
        BY <3>1, <3>2, <3>4 DEF AreNumbers, ArePowers
      <4>3. f[Len(tmp)] \in Nat
        BY <4>1, <4>2
      <4>4. bound[Len(tmp)] \in Nat
        BY <4>1, <4>2
      <4>5. power[44 - ZeroBytes] \in Nat
        BY <4>1, <4>2
      <4> QED BY <4>3, <4>4, <4>5
    <3>7. f[Len(tmp)] < power[44 - ZeroBytes]
      BY <2>4, <3>4, <3>5, <3>6
    <3>8. ZeroBytes \in 0..44
      BY <2>1
    <3> QED BY <3>1, <3>4, <3>7, <3>8 DEF Fits
  <2>7. out \in Seq(Int) /\ Len(out) = 0
    BY <1>1, EmptySeq
  <2>8. ZeroBytes + Len(out) = ZeroBytes /\ ZeroBytes + Len(out) + Len(tmp) >= 32
    BY <2>1, <2>4, <2>7
  <2> QED BY <1>1, <1>3, <2>2, <2>4, <2>5, <2>6, <2>7, <2>8 DEF KeyInv
<1>4. CASE item.kind \notin KeyKinds
  BY <1>1, <1>2, <1>4 DEF KeyInv
<1> QED BY <1>3, <1>4

\* A turn of encode_base58 keeps it, its digit is the remainder that the product needs,
\* and there is room for it.
LEMMA DigitEncoded ==
  ASSUME KeyInv, EncodeDigit
  PROVE  /\ KeyInv'
         /\ TimesAndPlus(tmp', DigitOf(out'[1])) = tmp
         /\ Len(out') <= 2 * Len(item.value) - Leading(0, item.value)
<1> DEFINE division == Divide(tmp)
           quotient == division.quotient
           left == IF quotient[1] = 0 THEN Tail(quotient) ELSE quotient
           used == ZeroBytes + Len(out)
<1>1. /\ phase = "key" /\ tmp # <<>> /\ item' = item /\ phase' = phase
      /\ tmp' = left
      /\ out' = <<BASE58_ALPHABET[division.remainder]>> \o out
  BY DEF EncodeDigit
<1>2. /\ item \in Items /\ item.kind \in KeyKinds
      /\ tmp \in Seq(Byte) /\ tmp[1] # 0 /\ out \in Seq(Int)
      /\ ZeroBytes + Len(out) + Len(tmp) >= 32
      /\ Fits(used, tmp)
  BY <1>1 DEF KeyInv
<1>3. /\ left \in Seq(Byte) /\ Len(left) >= Len(tmp) - 1
      /\ left # <<>> => left[1] # 0
      /\ division.remainder \in 0..57
      /\ left = <<>> => division.remainder # 0
      /\ TimesAndPlus(left, division.remainder) = tmp
      /\ Fits(used + 1, left)
  BY <1>1, <1>2, DigitTaken
<1> HIDE DEF left, division
<1> DEFINE code == BASE58_ALPHABET[division.remainder]
<1>4. code \in Int /\ DigitOf(code) = division.remainder
      /\ (code = BASE58_ALPHABET[0] => division.remainder = 0)
  BY <1>3, DigitsOfCodes
<1> HIDE DEF code
<1>5. out' \in Seq(Int) /\ Len(out') = Len(out) + 1 /\ out'[1] = code /\ out' # <<>>
      /\ Len(out) \in Nat
  <2>1. <<code>> \in Seq(Int) /\ Len(<<code>>) = 1 /\ <<code>>[1] = code
    BY <1>4
  <2>2. Len(out) \in Nat
    BY <1>2, LenProperties
  <2>3. /\ <<code>> \o out \in Seq(Int) /\ Len(<<code>> \o out) = Len(<<code>>) + Len(out)
        /\ \A i \in 1..(Len(<<code>>) + Len(out)) :
             (<<code>> \o out)[i] = IF i <= Len(<<code>>) THEN <<code>>[i] ELSE out[i - Len(<<code>>)]
    BY <1>2, <2>1, ConcatProperties
  <2>4. 1 \in 1..(Len(<<code>>) + Len(out)) /\ 1 <= Len(<<code>>)
    BY <2>1, <2>2
  <2>5. out' = <<code>> \o out
    BY <1>1 DEF code
  <2>6. (<<code>> \o out)[1] = code
    BY <2>1, <2>3, <2>4
  <2>7. Len(out') = 1 + Len(out)
    BY <2>1, <2>3, <2>5
  <2>8. out' # <<>>
    BY <2>2, <2>7, EmptySeq
  <2> QED BY <2>2, <2>3, <2>5, <2>6, <2>7, <2>8
<1>6. TimesAndPlus(tmp', DigitOf(out'[1])) = tmp
  BY <1>1, <1>3, <1>4, <1>5
<1>7. /\ Len(item.value) = 32 /\ ZeroBytes \in 0..32
  BY <1>2, KeysAreBytes DEF ZeroBytes
<1>8. used + 1 \in 0..44
  BY <1>3 DEF Fits
<1>9. Len(out') <= 2 * Len(item.value) - Leading(0, item.value)
  <2>1. Len(out') <= 2 * 32 - ZeroBytes
    <3>1. PICK zeros \in 0..32, n \in Nat : zeros = ZeroBytes /\ n = Len(out)
      BY <1>5, <1>7
    <3>2. zeros + n + 1 <= 44
      <4>1. (zeros + n) + 1 \in 0..44
        BY <1>8, <3>1
      <4> QED BY <4>1
    <3>3. n + 1 <= 2 * 32 - zeros
      BY <3>2
    <3> QED BY <1>5, <3>1, <3>3
  <2> QED BY <1>7, <2>1 DEF ZeroBytes
<1>a. Fits(ZeroBytes + Len(out'), tmp')
  <2>1. ZeroBytes + Len(out') = used + 1
    BY <1>5, <1>7
  <2> QED BY <1>1, <1>3, <2>1
<1>b. ZeroBytes + Len(out') + Len(tmp') >= 32
  <2>1. Len(tmp) \in Nat /\ Len(left) \in Nat
    BY <1>2, <1>3, LenProperties
  <2> QED BY <1>1, <1>2, <1>3, <1>5, <1>7, <2>1
<1>c. tmp' = <<>> => out'[1] # BASE58_ALPHABET[0]
  BY <1>1, <1>3, <1>4, <1>5
<1>d. ZeroBytes' = ZeroBytes
  BY <1>1 DEF ZeroBytes
<1>e. KeyInv'
  BY <1>1, <1>2, <1>3, <1>5, <1>a, <1>b, <1>c, <1>d DEF KeyInv
<1> QED BY <1>6, <1>9, <1>e

\* The end of a key shows all its digits, or the first and the last of them.
LEMMA KeyFinished ==
  ASSUME KeyInv, FinishKey
  PROVE  LET whole == ZeroDigits \o out
         IN  /\ phase' = "shown" /\ tmp = <<>>
             /\ whole \in Seq(Int)
             /\ out # <<>> => out[1] # BASE58_ALPHABET[0]
             /\ text' = IF item.kind = "Hash" \/ long_pubkeys THEN whole
                        ELSE SubSeq(whole, 1, SUMMARY_LENGTH) \o <<DOT, DOT>> \o
                             SubSeq(whole, Len(whole) - SUMMARY_LENGTH + 1, Len(whole))
<1> DEFINE whole == ZeroDigits \o out
<1>1. phase = "key" /\ tmp = <<>>
  BY DEF FinishKey
<1>2. /\ item \in Items /\ item.kind \in KeyKinds /\ out \in Seq(Int)
      /\ out # <<>> => out[1] # BASE58_ALPHABET[0]
      /\ ZeroBytes + Len(out) + Len(tmp) >= 32
      /\ Fits(ZeroBytes + Len(out), tmp)
  BY <1>1 DEF KeyInv
<1>3. Leading(BASE58_ALPHABET[0], out) = 0
  <2>1. CASE out = <<>>
    <3>1. Leading(BASE58_ALPHABET[0], out) \in 0..Len(out) /\ Len(out) = 0
      BY <1>2, <2>1, LeadingEnds, EmptySeq
    <3> QED BY <3>1
  <2>2. CASE out # <<>>
    BY <1>2, <2>2, LeadingEnds
  <2> QED BY <2>1, <2>2
<1>4. Without(0, out) = out
  BY <1>2, SubSeqFull DEF Without
<1>5. Encoded = whole
  BY <1>3, <1>4 DEF Encoded, ZeroDigits
<1>6. whole \in Seq(Int) /\ Len(whole) >= 32 /\ Len(whole) <= 44 /\ Len(whole) \in Nat
  <2>1. ZeroBytes \in 0..32
    BY <1>2, KeysAreBytes DEF ZeroBytes
  <2>2. ZeroDigits \in Seq(Int) /\ Len(ZeroDigits) = ZeroBytes
    <3>1. BASE58_ALPHABET[0] \in Int
      BY DigitsOfCodes
    <3>2. ZeroDigits \in [1..ZeroBytes -> Int] /\ ZeroBytes \in Nat
      BY <2>1, <3>1 DEF ZeroDigits, ZeroBytes
    <3> HIDE DEF ZeroDigits
    <3> QED BY <3>2
  <2>3. whole \in Seq(Int) /\ Len(whole) = Len(ZeroDigits) + Len(out)
    BY <1>2, <2>2, ConcatProperties
  <2>4. Len(out) \in Nat /\ Len(tmp) = 0
    BY <1>1, <1>2, LenProperties, EmptySeq
  <2>5. ZeroBytes + Len(out) \in 0..44
    BY <1>2 DEF Fits
  <2> HIDE DEF whole
  <2>6. PICK zeros \in 0..32, n \in Nat : zeros = ZeroBytes /\ n = Len(out)
    BY <2>1, <2>4
  <2>7. Len(whole) = zeros + n
    BY <2>2, <2>3, <2>6
  <2>8. zeros + n + 0 >= 32 /\ zeros + n \in 0..44
    BY <1>2, <2>4, <2>5, <2>6
  <2> QED BY <2>3, <2>7, <2>8
<1> HIDE DEF whole
<1>7. ~(BASE58_PUBKEY_LENGTH < Len(whole) + 1)
  BY <1>6 DEF BASE58_PUBKEY_LENGTH
<1>8. print_string(whole, TEXT_BUFFER_LENGTH) = whole
  <2>1. TEXT_BUFFER_LENGTH \in Nat /\ TEXT_BUFFER_LENGTH >= 45
    BY TextsAssumption, KeysAssumption DEF TextsAssumption, KeysAssumption, BASE58_PUBKEY_LENGTH
  <2>2. Len(whole) < TEXT_BUFFER_LENGTH
    BY <1>6, <2>1
  <2> QED BY <2>2 DEF print_string
<1>9. print_summary(whole, BASE58_PUBKEY_SHORT, SUMMARY_LENGTH, SUMMARY_LENGTH) =
        SubSeq(whole, 1, SUMMARY_LENGTH) \o <<DOT, DOT>> \o
        SubSeq(whole, Len(whole) - SUMMARY_LENGTH + 1, Len(whole))
  <2>1. ~(Len(whole) < BASE58_PUBKEY_SHORT) /\ ~(Len(whole) < SUMMARY_LENGTH)
    BY <1>6 DEF BASE58_PUBKEY_SHORT, SUMMARY_LENGTH
  <2>2. Cut(whole, SUMMARY_LENGTH) = SubSeq(whole, 1, SUMMARY_LENGTH)
    BY <2>1 DEF Cut
  <2> QED BY <2>1, <2>2 DEF print_summary
<1>a. /\ phase' = "shown"
      /\ text' = IF item.kind = "Hash" THEN whole
                 ELSE IF long_pubkeys THEN print_string(whole, TEXT_BUFFER_LENGTH)
                 ELSE print_summary(whole, BASE58_PUBKEY_SHORT, SUMMARY_LENGTH, SUMMARY_LENGTH)
  BY <1>5, <1>7 DEF FinishKey
<1>b. text' = IF item.kind = "Hash" \/ long_pubkeys THEN whole
              ELSE SubSeq(whole, 1, SUMMARY_LENGTH) \o <<DOT, DOT>> \o
                   SubSeq(whole, Len(whole) - SUMMARY_LENGTH + 1, Len(whole))
  BY <1>8, <1>9, <1>a
<1> QED BY <1>1, <1>2, <1>6, <1>a, <1>b DEF whole

\* Every step keeps the invariant of the keys.
LEMMA KeyStep == KeyInv /\ [Next]_vars => KeyInv'
<1> SUFFICES ASSUME KeyInv, [Next]_vars PROVE KeyInv'
  OBVIOUS
<1>1. CASE EncodeDigit
  BY <1>1, DigitEncoded
<1>2. CASE FinishKey
  <2>1. UNCHANGED <<item, tmp, out>> /\ phase' = "shown"
    BY <1>2, KeyFinished DEF FinishKey
  <2>2. ZeroBytes' = ZeroBytes
    BY <2>1 DEF ZeroBytes
  <2> QED BY <2>1, <2>2 DEF KeyInv, Fits
<1>3. CASE WriteDigit \/ FinishNumber \/ PrintText \/ ScanSequence \/ FinishScan
  <2>1. item' = item /\ phase \notin {"key", "shown", "failed"} /\ phase' # "key"
    BY <1>3 DEF WriteDigit, FinishNumber, PrintText, ScanSequence, FinishScan
  <2>2. item.kind \notin KeyKinds
    BY <2>1 DEF KeyInv
  <2> QED BY <2>1, <2>2 DEF KeyInv
<1>4. CASE UNCHANGED vars
  <2>1. UNCHANGED <<item, tmp, out, phase>> /\ ZeroBytes' = ZeroBytes
    BY <1>4 DEF vars, ZeroBytes
  <2> QED BY <2>1 DEF KeyInv, Fits
<1> QED BY <1>1, <1>2, <1>3, <1>4 DEF Next

\* Every key and hash of 32 bytes is shown in base 58: each digit is the remainder that
\* gives the number before it back, encode_base58 always has room for it, 45 bytes always
\* hold the text, and what is shown is all the digits or seven at each end.
THEOREM KeysAlwaysDecode == Spec => KeysDecode
<1> DEFINE Decodes ==
      /\ phase = "key" /\ phase' = "key" =>
           /\ TimesAndPlus(tmp', DigitOf(out'[1])) = tmp
           /\ Len(out') <= 2 * Len(item.value) - Leading(0, item.value)
      /\ phase = "key" /\ phase' # "key" =>
           LET zeros == [zero \in 1..Leading(0, item.value) |-> BASE58_ALPHABET[0]]
               whole == zeros \o out
           IN  /\ phase' = "shown" /\ tmp = <<>>
               /\ out # <<>> => out[1] # BASE58_ALPHABET[0]
               /\ text' = IF item.kind = "Hash" \/ long_pubkeys THEN whole
                          ELSE SubSeq(whole, 1, SUMMARY_LENGTH) \o <<DOT, DOT>> \o
                               SubSeq(whole, Len(whole) - SUMMARY_LENGTH + 1, Len(whole))
<1>1. KeyInv /\ [Next]_vars => [Decodes]_vars
  <2> SUFFICES ASSUME KeyInv, Next, phase = "key" PROVE Decodes
    OBVIOUS
  <2>1. CASE EncodeDigit
    <3>1. phase' = "key"
      BY <2>1 DEF EncodeDigit
    <3> QED BY <2>1, <3>1, DigitEncoded
  <2>2. CASE FinishKey
    <3>1. phase' # "key"
      BY <2>2, KeyFinished
    <3> QED BY <2>2, <3>1, KeyFinished DEF ZeroDigits
  <2>3. CASE WriteDigit \/ FinishNumber \/ PrintText \/ ScanSequence \/ FinishScan
    BY <2>3 DEF WriteDigit, FinishNumber, PrintText, ScanSequence, FinishScan
  <2> QED BY <2>1, <2>2, <2>3 DEF Next
<1> QED BY <1>1, KeyInit, KeyStep, PTL DEF Spec, KeysDecode

-----------------------------------------------------------------------------
(* What is read off the screen: numbers. *)

DigitCode == ZERO..(ZERO + 9)

\* The values of the first m digits, from the first on.
AreValues(f, digits, m) ==
  f = [n \in 0..m |-> IF n = 0 THEN 0 ELSE f[n - 1] * 10 + (digits[n] - ZERO)]

\* They are defined for any number of digits.
LEMMA ValuesExist ==
  ASSUME NEW digits
  PROVE  \A m \in Nat : \E f : AreValues(f, digits, m)
<1> DEFINE T == {m \in Nat : \E f : AreValues(f, digits, m)}
<1>1. 0 \in T
  <2>1. AreValues([n \in 0..0 |-> 0], digits, 0)
    BY DEF AreValues
  <2> QED BY <2>1
<1>2. ASSUME NEW m \in Nat, m \in T PROVE m + 1 \in T
  <2>1. PICK f : AreValues(f, digits, m)
    BY <1>2
  <2> DEFINE last == f[m] * 10 + (digits[m + 1] - ZERO)
             g == [n \in 0..(m + 1) |-> IF n = m + 1 THEN last ELSE f[n]]
             Following(h, n) == IF n = 0 THEN 0 ELSE h[n - 1] * 10 + (digits[n] - ZERO)
  <2>2. ASSUME NEW n \in 0..(m + 1) PROVE g[n] = Following(g, n)
    <3>1. CASE n \in 0..m
      <4>1. g[n] = f[n] /\ (n # 0 => g[n - 1] = f[n - 1])
        BY <3>1
      <4>2. f[n] = Following(f, n)
        BY <2>1, <3>1 DEF AreValues
      <4> HIDE DEF g
      <4> QED BY <4>1, <4>2
    <3>2. CASE n = m + 1
      <4>1. g[n] = last /\ g[n - 1] = f[n - 1] /\ n - 1 = m /\ n # 0
        BY <3>2
      <4> QED BY <4>1, <3>2
    <3> QED BY <3>1, <3>2
  <2>3. g = [n \in 0..(m + 1) |-> g[n]]
    OBVIOUS
  <2> HIDE DEF g
  <2>4. AreValues(g, digits, m + 1)
    BY <2>2, <2>3 DEF AreValues
  <2> QED BY <2>4
<1> HIDE DEF T
<1>3. \A m \in Nat : m \in T
  BY <1>1, <1>2, SetInduction
<1> QED BY <1>3 DEF T

\* What is left of a number after each of its digits, the last of the number first.
AreQuotients(left, digits) ==
  /\ left \in [0..Len(digits) -> Nat]
  /\ \A n \in 1..Len(digits) : left[n - 1] = left[n] * 10 + (digits[n] - ZERO)

\* A number is what its digits read as once nothing is left of it.
LEMMA DigitsReadBack ==
  ASSUME NEW digits \in Seq(DigitCode), NEW left, AreQuotients(left, digits),
         left[Len(digits)] = 0,
         NEW number, Len(number) = Len(digits),
         \A k \in 1..Len(digits) : number[k] = digits[Len(digits) - k + 1]
  PROVE  Value(number) = left[0]
<1>1. PICK length \in Nat : length = Len(digits)
  BY LenProperties
<1> DEFINE F == CHOOSE f : AreValues(f, number, length)
<1>2. AreValues(F, number, length)
  BY <1>1, ValuesExist
<1>3. Value(number) = F[length]
  BY <1>1 DEF Value, AreValues
<1> HIDE DEF F
<1>4. /\ F[0] = 0
      /\ \A n \in 1..length : F[n] = F[n - 1] * 10 + (number[n] - ZERO)
  BY <1>2 DEF AreValues
<1> DEFINE T == {n \in Nat : n <= length => F[n] = left[length - n]}
<1>5. 0 \in T
  BY <1>1, <1>4
<1>6. ASSUME NEW n \in Nat, n \in T PROVE n + 1 \in T
  <2> SUFFICES ASSUME n + 1 <= length PROVE F[n + 1] = left[length - (n + 1)]
    OBVIOUS
  <2>1. PICK k \in 1..length : k = length - n
    BY <1>1
  <2>2. F[n] = left[k]
    BY <1>6, <2>1
  <2>3. n + 1 \in 1..length /\ (n + 1) - 1 = n /\ length - (n + 1) + 1 = k
        /\ length - (n + 1) = k - 1
    BY <1>1, <2>1
  <2>4. F[n + 1] = F[n] * 10 + (number[n + 1] - ZERO)
    BY <1>4, <2>3
  <2>5. number[n + 1] = digits[k]
    BY <1>1, <2>3
  <2>6. left[k - 1] = left[k] * 10 + (digits[k] - ZERO)
    BY <1>1, <2>1 DEF AreQuotients
  <2> QED BY <2>2, <2>3, <2>4, <2>5, <2>6
<1> HIDE DEF T
<1>7. \A n \in Nat : n \in T
  BY <1>5, <1>6, SetInduction
<1>8. F[length] = left[length - length]
  BY <1>1, <1>7 DEF T
<1> QED BY <1>1, <1>3, <1>8

\* Where the digit n, counted from the last of the number, is written: behind the point
\* when it is one of the whole ones.
Place(n) == IF Decimals(item) >= 0 /\ n > Decimals(item) THEN n + 1 ELSE n

\* What has been written are digits of the number, and the point among them.
Written(digits, left) ==
  /\ digits \in Seq(DigitCode)
  /\ AreQuotients(left, digits)
  /\ left[0] = Magnitude(item)
  /\ left[Len(digits)] = dVal
  /\ Len(out) = Place(Len(digits))
  /\ \A n \in 1..Len(digits) : out[Place(n)] = digits[n]
  /\ Place(Len(digits)) # Len(digits) => out[Decimals(item) + 1] = DOT

\* How many digits there are at least.
LeastDigits == IF Decimals(item) >= 0 THEN Decimals(item) + 1 ELSE 1

\* A turn of the loop divides the number and writes its last digit.
LEMMA TurnWritten ==
  ASSUME NEW digits, NEW left, Written(digits, left), WriteDigit,
         Decimals(item) \in Int, out \in Seq(Int), dVal \in Nat,
         NEW digit, digit = ZERO + (dVal % 10), NEW rest, rest = dVal'
  PROVE  /\ digit \in DigitCode
         /\ Written(Append(digits, digit),
                    [n \in 0..(Len(digits) + 1) |->
                       IF n = Len(digits) + 1 THEN rest ELSE left[n]])'
<1> DEFINE more == Append(digits, digit)
           pointed == IF Len(out) = Decimals(item) THEN Append(out, DOT) ELSE out
<1>1. PICK length \in Nat : length = Len(digits)
  BY LenProperties DEF Written
<1> DEFINE onward == [n \in 0..(length + 1) |-> IF n = length + 1 THEN rest ELSE left[n]]
<1>2. rest \in Nat /\ dVal = rest * 10 + (digit - ZERO) /\ digit \in DigitCode
      /\ digit \in Int /\ ZERO \in Int
  BY SMT DEF WriteDigit, DigitCode, ZERO
<1>3. item' = item /\ out' = Append(pointed, digit)
  BY DEF WriteDigit, PointAndDigit
<1>4. /\ more \in Seq(DigitCode) /\ Len(more) = length + 1
      /\ \A i \in 1..length : more[i] = digits[i]
      /\ more[length + 1] = digit
  BY <1>1, <1>2, AppendProperties DEF Written
<1> HIDE DEF more
<1>5. AreQuotients(onward, more)
  <2>1. left \in [0..length -> Nat]
        /\ \A n \in 1..length : left[n - 1] = left[n] * 10 + (digits[n] - ZERO)
    BY <1>1 DEF Written, AreQuotients
  <2>2. onward \in [0..(length + 1) -> Nat]
    <3>1. ASSUME NEW n \in 0..(length + 1), n # length + 1 PROVE left[n] \in Nat
      <4>1. n \in 0..length
        BY <3>1
      <4> QED BY <2>1, <4>1
    <3> QED BY <1>2, <3>1
  <2>3. ASSUME NEW n \in 1..(length + 1)
        PROVE  onward[n - 1] = onward[n] * 10 + (more[n] - ZERO)
    <3>1. CASE n \in 1..length
      <4>1. onward[n - 1] = left[n - 1] /\ onward[n] = left[n]
        BY <3>1
      <4> QED BY <1>4, <2>1, <3>1, <4>1
    <3>2. CASE n = length + 1
      <4>1. onward[n - 1] = left[length] /\ onward[n] = rest
        BY <3>2
      <4>2. left[length] = dVal
        BY <1>1 DEF Written
      <4> QED BY <1>2, <1>4, <3>2, <4>1, <4>2
    <3> QED BY <3>1, <3>2
  <2> HIDE DEF onward
  <2> QED BY <1>4, <2>2, <2>3 DEF AreQuotients
<1>6. onward[0] = Magnitude(item) /\ onward[length + 1] = rest
  BY <1>1 DEF Written
<1>7. PICK places \in Nat : places = Len(out)
  BY LenProperties
<1>8. /\ pointed \in Seq(Int)
      /\ Len(pointed) = IF places = Decimals(item) THEN places + 1 ELSE places
      /\ \A i \in 1..places : pointed[i] = out[i]
      /\ places = Decimals(item) => pointed[places + 1] = DOT
  BY <1>7, AppendProperties DEF DOT
<1> HIDE DEF pointed
<1>9. /\ Len(out') = Len(pointed) + 1
      /\ \A i \in 1..Len(pointed) : out'[i] = pointed[i]
      /\ out'[Len(pointed) + 1] = digit
  <2>1. PICK shorter : shorter = pointed
    OBVIOUS
  <2>2. shorter \in Seq(Int) /\ digit \in Int /\ out' = Append(shorter, digit)
    BY <1>2, <1>3, <1>8, <2>1
  <2> QED BY <2>1, <2>2, AppendProperties
<1>10. places = Place(length)
  BY <1>1, <1>7 DEF Written
<1>11. Len(out') = Place(length + 1) /\ Len(pointed) + 1 = Place(length + 1)
  BY <1>8, <1>9, <1>10 DEF Place
<1>12. ASSUME NEW n \in 1..(length + 1) PROVE out'[Place(n)] = more[n]
  <2>1. CASE n \in 1..length
    <3>1. Place(n) \in 1..places
      BY <1>10, <2>1 DEF Place
    <3>2. out[Place(n)] = digits[n]
      BY <1>1, <2>1 DEF Written
    <3>3. Place(n) \in 1..Len(pointed)
      BY <1>8, <3>1
    <3> QED BY <1>4, <1>8, <1>9, <2>1, <3>1, <3>2, <3>3
  <2>2. CASE n = length + 1
    BY <1>4, <1>9, <1>11, <2>2
  <2> QED BY <2>1, <2>2
<1>13. Place(length + 1) # length + 1 => out'[Decimals(item) + 1] = DOT
  <2> SUFFICES ASSUME Place(length + 1) # length + 1 PROVE out'[Decimals(item) + 1] = DOT
    OBVIOUS
  <2>1. Decimals(item) >= 0 /\ length + 1 > Decimals(item)
    BY DEF Place
  <2>2. CASE length = Decimals(item)
    <3>1. places = Decimals(item)
      BY <1>10, <2>2 DEF Place
    <3>2. places + 1 \in 1..Len(pointed) /\ pointed[places + 1] = DOT
      BY <1>8, <3>1
    <3> QED BY <1>9, <3>1, <3>2
  <2>3. CASE length > Decimals(item)
    <3>1. Decimals(item) + 1 \in 1..places /\ Place(length) # length
      BY <1>10, <2>1, <2>3 DEF Place
    <3>2. out[Decimals(item) + 1] = DOT
      BY <1>1, <3>1 DEF Written
    <3>3. Decimals(item) + 1 \in 1..Len(pointed)
      BY <1>8, <3>1
    <3> QED BY <1>8, <1>9, <3>1, <3>2, <3>3
  <2> QED BY <2>1, <2>2, <2>3
<1> HIDE DEF onward
<1>14. Written(more, onward)'
  <2>1. Place(length + 1)' = Place(length + 1) /\ \A n : Place(n)' = Place(n)
    BY <1>3 DEF Place, Decimals
  <2>2. Magnitude(item)' = Magnitude(item) /\ Decimals(item)' = Decimals(item)
    BY <1>3 DEF Decimals, Magnitude
  <2> QED BY <1>3, <1>4, <1>5, <1>6, <1>11, <1>12, <1>13, <2>1, <2>2 DEF Written, Place
<1> QED BY <1>1, <1>2, <1>14 DEF onward, more

\* What Max chooses of the places up to some length.
LEMMA MaxIsGreatest ==
  ASSUME NEW length \in Nat, NEW S \in SUBSET (1..length), S # {}
  PROVE  Max(S) \in S /\ \A n \in S : n <= Max(S)
<1> DEFINE distances == {length - n : n \in S}
<1>1. distances \in SUBSET Nat /\ distances # {}
  <2>1. \A n \in S : length - n \in Nat
    OBVIOUS
  <2> QED BY <2>1
<1>2. PICK least \in distances : \A distance \in distances : least <= distance
  BY <1>1, LeastElement
<1>3. PICK greatest \in S : least = length - greatest
  BY <1>2
<1>4. \A n \in S : greatest >= n
  <2> TAKE n \in S
  <2>1. length - n \in distances
    OBVIOUS
  <2> HIDE DEF distances
  <2>2. least <= length - n
    BY <1>2, <2>1
  <2> QED BY <1>3, <2>2
<1>5. Max(S) \in S /\ \A n \in S : Max(S) >= n
  BY <1>4 DEF Max
<1> QED BY <1>5

\* The codes of an amount before its zeros are stripped: the whole digits, the point and
\* the decimals.
Amount(codes, digits, whole, places) ==
  /\ codes \in Seq(Int) /\ Len(codes) = whole + places + 1
  /\ \A m \in 1..whole : codes[m] = digits[whole + places - m + 1]
  /\ codes[whole + 1] = DOT
  /\ \A m \in (whole + 2)..(whole + places + 1) : codes[m] = digits[whole + places - m + 2]

\* The place where the strip ends.
Stripped(codes, whole, last) ==
  /\ last \in (whole + 1)..Len(codes)
  /\ last > whole + 1 => codes[last] # ZERO
  /\ \A n \in (last + 1)..Len(codes) : codes[n] = ZERO
  /\ Strip(codes) = SubSeq(codes, 1, IF last = whole + 1 THEN whole ELSE last)

\* The strip ends at the point or behind it, and takes zeros only.
LEMMA StripEnds ==
  ASSUME NEW whole \in Nat \ {0}, NEW places \in Nat, NEW digits \in Seq(DigitCode),
         Len(digits) = whole + places, NEW codes, Amount(codes, digits, whole, places)
  PROVE  /\ \A n \in 1..Len(codes) : n # whole + 1 => codes[n] \in DigitCode
         /\ \E last : Stripped(codes, whole, last)
<1> DEFINE ends == {n \in DOMAIN codes : n = 1 \/ codes[n] # ZERO}
           last == Max(ends)
<1>1. PICK length \in Nat : length = Len(codes) /\ length = whole + places + 1
  BY DEF Amount
<1>2. DOMAIN codes = 1..length
  BY <1>1 DEF Amount
<1>3. DOT # ZERO /\ DOT \notin DigitCode
  BY DEF DOT, ZERO, DigitCode
<1>4. whole + 1 \in ends
  BY <1>1, <1>2, <1>3 DEF Amount
<1>5. ends \in SUBSET (1..length)
  BY <1>2
<1>6. last \in ends /\ \A n \in ends : n <= last
  BY <1>4, <1>5, MaxIsGreatest
<1>7. Strip(codes) = SubSeq(codes, 1, IF codes[last] = DOT THEN last - 1 ELSE last)
  BY DEF Strip
<1> HIDE DEF last
<1>8. last \in (whole + 1)..length
  BY <1>1, <1>4, <1>5, <1>6
<1>9. \A n \in 1..length : n # whole + 1 => codes[n] \in DigitCode
  <2> SUFFICES ASSUME NEW n \in 1..length, n # whole + 1 PROVE codes[n] \in DigitCode
    OBVIOUS
  <2>1. CASE n <= whole
    <3>1. whole + places - n + 1 \in 1..Len(digits)
      BY <2>1
    <3>2. codes[n] = digits[whole + places - n + 1]
      BY <2>1 DEF Amount
    <3>3. digits[whole + places - n + 1] \in DigitCode
      BY <3>1, ElementOfSeq, Zenon
    <3> QED BY <3>2, <3>3
  <2>2. CASE n > whole + 1
    <3>1. whole + places - n + 2 \in 1..Len(digits)
      BY <1>1, <2>2
    <3>2. codes[n] = digits[whole + places - n + 2]
      <4>1. n \in (whole + 2)..(whole + places + 1)
        BY <1>1, <2>2
      <4> QED BY <4>1, Zenon DEF Amount
    <3>3. digits[whole + places - n + 2] \in DigitCode
      BY <3>1, ElementOfSeq, Zenon
    <3> QED BY <3>2, <3>3
  <2> QED BY <2>1, <2>2
<1>10. codes[last] = DOT <=> last = whole + 1
  <2>1. codes[whole + 1] = DOT
    BY DEF Amount
  <2>2. last \in 1..length
    BY <1>8
  <2> QED BY <1>3, <1>9, <2>1, <2>2
<1>11. last > whole + 1 => codes[last] # ZERO
  <2>1. last = 1 \/ codes[last] # ZERO
    BY <1>6
  <2> QED BY <1>8, <2>1
<1>12. \A n \in (last + 1)..length : codes[n] = ZERO
  <2> SUFFICES ASSUME NEW n \in (last + 1)..length, codes[n] # ZERO PROVE FALSE
    OBVIOUS
  <2>1. n \in 1..length /\ ~(n <= last)
    BY <1>8
  <2>2. n \in ends
    BY <1>2, <2>1
  <2> QED BY <1>6, <2>1, <2>2
<1>13. Strip(codes) = SubSeq(codes, 1, IF last = whole + 1 THEN whole ELSE last)
  <2>1. last = whole + 1 => last - 1 = whole
    BY <1>8
  <2> QED BY <1>7, <1>10, <2>1
<1>14. Stripped(codes, whole, last)
  BY <1>1, <1>8, <1>11, <1>12, <1>13 DEF Stripped
<1> QED BY <1>1, <1>9, <1>14

IntegerOf(number) == SubSeq(number, 1, PointOf(number) - 1)
FractionOf(number) == SubSeq(number, PointOf(number) + 1, Len(number))

\* The parts of a stripped amount: the whole digits, and the decimals up to the place
\* where the strip ends.
Parts(number, codes, whole, last) ==
  /\ number \in Seq(Int)
  /\ PointOf(number) <= Len(number) <=> last > whole + 1
  /\ IntegerOf(number) \in Seq(DigitCode) /\ Len(IntegerOf(number)) = whole
  /\ \A m \in 1..whole : IntegerOf(number)[m] = codes[m]
  /\ FractionOf(number) \in Seq(DigitCode) /\ Len(FractionOf(number)) = last - whole - 1
  /\ \A m \in 1..(last - whole - 1) : FractionOf(number)[m] = codes[whole + 1 + m]

\* A stripped amount has these parts.
LEMMA PartsOfAmount ==
  ASSUME NEW whole \in Nat \ {0}, NEW places \in Nat, NEW digits \in Seq(DigitCode),
         Len(digits) = whole + places, NEW codes, Amount(codes, digits, whole, places),
         NEW last, Stripped(codes, whole, last)
  PROVE  Parts(Strip(codes), codes, whole, last)
<1> DEFINE number   == Strip(codes)
           integer  == IntegerOf(number)
           fraction == FractionOf(number)
<1>1. PICK length \in Nat : length = Len(codes) /\ length = whole + places + 1
  BY DEF Amount
<1>2. PICK end \in Nat : end = IF last = whole + 1 THEN whole ELSE last
  BY <1>1 DEF Stripped
<1>3. last \in (whole + 1)..length /\ number = SubSeq(codes, 1, end)
  BY <1>1, <1>2 DEF Stripped
<1>4. \A n \in 1..length : codes[n] \in Int
  BY <1>1, ElementOfSeq DEF Amount
<1>5. /\ number \in Seq(Int) /\ Len(number) = end
      /\ \A n \in 1..end : number[n] = codes[n]
  <2>1. 1 \in Int /\ end \in Int /\ \A n \in 1..end : codes[n] \in Int
    BY <1>1, <1>2, <1>3, <1>4
  <2>2. /\ SubSeq(codes, 1, end) \in Seq(Int)
        /\ Len(SubSeq(codes, 1, end)) = IF 1 <= end THEN end - 1 + 1 ELSE 0
        /\ \A n \in 1..(end - 1 + 1) : SubSeq(codes, 1, end)[n] = codes[1 + n - 1]
    BY <2>1, SubSeqProperties
  <2>3. (IF 1 <= end THEN end - 1 + 1 ELSE 0) = end /\ end - 1 + 1 = end
    BY <1>2
  <2>4. \A n \in 1..end : 1 + n - 1 = n
    BY <1>2
  <2> QED BY <1>3, <2>2, <2>3, <2>4
<1>6. DOMAIN number = 1..end
  BY <1>5, LenProperties
<1>7. /\ DOT \notin DigitCode
      /\ \A n \in 1..length : n # whole + 1 => codes[n] \in DigitCode
  <2>1. \A n \in 1..Len(codes) : n # whole + 1 => codes[n] \in DigitCode
    BY StripEnds, Zenon
  <2>2. DOT \notin DigitCode
    BY DEF DOT, ZERO, DigitCode
  <2> QED BY <1>1, <2>1, <2>2
<1> HIDE DEF number
<1>8. PointOf(number) = whole + 1
  <2>1. CASE last = whole + 1
    <3>1. end = whole /\ \A n \in 1..end : number[n] # DOT
      BY <1>1, <1>2, <1>5, <1>7, <2>1
    <3> QED BY <1>5, <1>6, <3>1 DEF PointOf
  <2>2. CASE last # whole + 1
    <3>1. end = last /\ whole + 1 \in 1..end
      BY <1>1, <1>2, <1>3, <2>2
    <3>2. number[whole + 1] = DOT
      BY <1>5, <3>1 DEF Amount
    <3>3. \A n \in 1..end : number[n] = DOT => n = whole + 1
      <4> SUFFICES ASSUME NEW n \in 1..end, n # whole + 1 PROVE number[n] # DOT
        OBVIOUS
      <4>1. n \in 1..length
        BY <1>1, <1>3, <3>1
      <4> QED BY <1>5, <1>7, <4>1
    <3>4. (CHOOSE n \in DOMAIN number : number[n] = DOT) = whole + 1
      BY <1>6, <3>1, <3>2, <3>3
    <3> QED BY <1>6, <3>1, <3>2, <3>4 DEF PointOf
  <2> QED BY <2>1, <2>2
<1>9. PointOf(number) <= Len(number) <=> last > whole + 1
  BY <1>1, <1>2, <1>3, <1>5, <1>8
<1>10. /\ integer \in Seq(DigitCode) /\ Len(integer) = whole
       /\ \A m \in 1..whole : integer[m] = codes[m]
  <2>1. integer = SubSeq(number, 1, whole)
    BY <1>8 DEF IntegerOf
  <2>2. \A m \in 1..whole : number[m] = codes[m] /\ number[m] \in DigitCode
    <3> TAKE m \in 1..whole
    <3>1. m \in 1..end /\ m \in 1..length /\ m # whole + 1
      BY <1>1, <1>2, <1>3
    <3> QED BY <1>5, <1>7, <3>1
  <2>3. /\ SubSeq(number, 1, whole) \in Seq(DigitCode)
        /\ Len(SubSeq(number, 1, whole)) = IF 1 <= whole THEN whole - 1 + 1 ELSE 0
        /\ \A m \in 1..(whole - 1 + 1) : SubSeq(number, 1, whole)[m] = number[1 + m - 1]
    BY <2>2, SubSeqProperties
  <2>4. (IF 1 <= whole THEN whole - 1 + 1 ELSE 0) = whole /\ whole - 1 + 1 = whole
    OBVIOUS
  <2>5. \A m \in 1..whole : 1 + m - 1 = m
    OBVIOUS
  <2> HIDE DEF integer
  <2> QED BY <2>1, <2>2, <2>3, <2>4, <2>5
<1>11. /\ fraction \in Seq(DigitCode) /\ Len(fraction) = last - whole - 1
       /\ \A m \in 1..(last - whole - 1) : fraction[m] = codes[whole + 1 + m]
  <2>1. fraction = SubSeq(number, whole + 2, end)
    <3>1. whole + 1 + 1 = whole + 2
      OBVIOUS
    <3> QED BY <1>5, <1>8, <3>1 DEF FractionOf
  <2> HIDE DEF fraction
  <2>2. ASSUME NEW m \in (whole + 2)..end PROVE number[m] = codes[m] /\ number[m] \in DigitCode
    <3>1. m \in 1..end /\ m \in 1..length /\ m # whole + 1
      BY <1>1, <1>2, <1>3
    <3> QED BY <1>5, <1>7, <3>1
  <2>3. PICK m \in Int : m = whole + 2
    OBVIOUS
  <2>4. /\ SubSeq(number, m, end) \in Seq(DigitCode)
        /\ Len(SubSeq(number, m, end)) = IF m <= end THEN end - m + 1 ELSE 0
        /\ \A i \in 1..(end - m + 1) : SubSeq(number, m, end)[i] = number[m + i - 1]
    <3>1. \A i \in m..end : number[i] \in DigitCode
      BY <2>2, <2>3
    <3> QED BY <1>2, <3>1, SubSeqProperties
  <2>5. (IF m <= end THEN end - m + 1 ELSE 0) = last - whole - 1
    BY <1>1, <1>2, <1>3, <2>3
  <2>6. ASSUME NEW i \in 1..(last - whole - 1)
        PROVE  SubSeq(number, m, end)[i] = codes[whole + 1 + i]
    <3>1. i \in 1..(end - m + 1) /\ m + i - 1 = whole + 1 + i /\ m + i - 1 \in (whole + 2)..end
      BY <1>1, <1>2, <1>3, <2>3
    <3> QED BY <2>2, <2>4, <3>1
  <2> QED BY <2>1, <2>3, <2>4, <2>5, <2>6
<1> QED BY <1>5, <1>9, <1>10, <1>11 DEF number, Parts

\* What AmountIsExact asks of a text before its asset, of a number with decimals.
ReadsAs(number, places, value) ==
  LET integer  == IntegerOf(number)
      fraction == FractionOf(number)
      padding  == places - Len(fraction)
  IN  /\ IsDigits(integer \o fraction) /\ integer # <<>> /\ padding >= 0
      /\ Value(integer \o fraction \o Zeros(padding)) = value
      /\ Len(integer) > 1 => integer[1] # ZERO
      /\ PointOf(number) <= Len(number) =>
           fraction # <<>> /\ fraction[Len(fraction)] # ZERO

\* An amount reads as the number whose digits have been written, all of them.
LEMMA AmountReadBack ==
  ASSUME NEW whole \in Nat \ {0}, NEW places \in Nat, NEW digits \in Seq(DigitCode),
         Len(digits) = whole + places, NEW codes, Amount(codes, digits, whole, places),
         NEW left, AreQuotients(left, digits), left[Len(digits)] = 0,
         whole > 1 => digits[whole + places] # ZERO
  PROVE  Strip(codes) \in Seq(Int) /\ ReadsAs(Strip(codes), places, left[0])
<1> DEFINE number   == Strip(codes)
           integer  == IntegerOf(number)
           fraction == FractionOf(number)
           padding  == places - Len(fraction)
           read     == integer \o fraction
           padded   == read \o Zeros(padding)
<1>1. PICK last : Stripped(codes, whole, last)
  BY StripEnds, Zenon
<1>2. PICK length \in Nat : length = Len(codes) /\ length = whole + places + 1
  BY DEF Amount
<1>3. /\ last \in (whole + 1)..length
      /\ last > whole + 1 => codes[last] # ZERO
      /\ \A n \in (last + 1)..length : codes[n] = ZERO
  BY <1>1, <1>2 DEF Stripped
<1>4. /\ number \in Seq(Int)
      /\ PointOf(number) <= Len(number) <=> last > whole + 1
      /\ integer \in Seq(DigitCode) /\ Len(integer) = whole
      /\ \A m \in 1..whole : integer[m] = codes[m]
      /\ fraction \in Seq(DigitCode) /\ Len(fraction) = last - whole - 1
      /\ \A m \in 1..(last - whole - 1) : fraction[m] = codes[whole + 1 + m]
  <2>1. Parts(number, codes, whole, last)
    BY <1>1, PartsOfAmount, Zenon
  <2> HIDE DEF number
  <2> QED BY <2>1 DEF Parts
<1> HIDE DEF number, integer, fraction
<1>a. last \in Int
  BY <1>2, <1>3
<1>5. PICK decimals \in 0..places : decimals = last - whole - 1
  BY <1>2, <1>3, <1>a
<1>b. last = whole + decimals + 1
  BY <1>5, <1>a
<1>6. /\ read \in Seq(DigitCode) /\ Len(read) = whole + decimals
      /\ \A i \in 1..(whole + decimals) :
           read[i] = IF i <= whole THEN integer[i] ELSE fraction[i - whole]
  <2>1. /\ integer \o fraction \in Seq(DigitCode)
        /\ Len(integer \o fraction) = Len(integer) + Len(fraction)
        /\ \A i \in 1..(Len(integer) + Len(fraction)) :
             (integer \o fraction)[i] =
                IF i <= Len(integer) THEN integer[i] ELSE fraction[i - Len(integer)]
    <3>1. integer \in Seq(DigitCode) /\ fraction \in Seq(DigitCode)
      BY <1>4
    <3> QED BY <3>1, ConcatProperties
  <2>2. Len(integer) = whole /\ Len(fraction) = decimals
    BY <1>4, <1>5
  <2> QED BY <2>1, <2>2, Zenon
<1>7. padding = places - decimals /\ padding \in Nat
  <2>1. Len(fraction) = decimals
    BY <1>4, <1>5
  <2> QED BY <1>5, <2>1
<1>8. /\ Zeros(padding) \in Seq(DigitCode) /\ Len(Zeros(padding)) = padding
      /\ \A i \in 1..padding : Zeros(padding)[i] = ZERO
  <2>1. ZERO \in DigitCode
    BY DEF DigitCode, ZERO
  <2>2. PICK n \in Nat : n = padding
    BY <1>7
  <2>3. Zeros(n) \in [1..n -> DigitCode] /\ \A i \in 1..n : Zeros(n)[i] = ZERO
    BY <2>1 DEF Zeros
  <2>4. Zeros(n) \in Seq(DigitCode) /\ Len(Zeros(n)) = n
    <3>1. n \in Nat
      BY <2>2
    <3>2. PICK zeros \in [1..n -> DigitCode] : zeros = Zeros(n)
      BY <2>3
    <3>3. zeros \in Seq(DigitCode) /\ Len(zeros) = n
      BY <3>1
    <3> QED BY <3>2, <3>3
  <2> HIDE DEF padding
  <2> QED BY <2>2, <2>3, <2>4
<1> HIDE DEF read, padding
<1>9. /\ Len(padded) = whole + places
      /\ \A i \in 1..(whole + places) :
           padded[i] = IF i <= whole + decimals THEN read[i] ELSE ZERO
  <2>1. /\ Len(read \o Zeros(padding)) = Len(read) + Len(Zeros(padding))
        /\ \A i \in 1..(Len(read) + Len(Zeros(padding))) :
             (read \o Zeros(padding))[i] =
                IF i <= Len(read) THEN read[i] ELSE Zeros(padding)[i - Len(read)]
    <3>1. read \in Seq(DigitCode) /\ Zeros(padding) \in Seq(DigitCode)
      BY <1>6, <1>8
    <3> QED BY <3>1, ConcatProperties
  <2>2. Len(read) = whole + decimals /\ Len(read) + Len(Zeros(padding)) = whole + places
    BY <1>5, <1>6, <1>7, <1>8
  <2>3. ASSUME NEW i \in 1..(whole + places)
        PROVE  padded[i] = IF i <= whole + decimals THEN read[i] ELSE ZERO
    <3>1. CASE i <= whole + decimals
      BY <2>1, <2>2, <3>1
    <3>2. CASE ~(i <= whole + decimals)
      <4>1. i - (whole + decimals) \in 1..padding
        BY <1>5, <1>7, <3>2
      <4> QED BY <1>8, <2>1, <2>2, <3>2, <4>1
    <3> QED BY <3>1, <3>2
  <2> QED BY <2>1, <2>2, <2>3
<1> HIDE DEF padded
<1>10. ASSUME NEW k \in 1..(whole + places)
       PROVE  padded[k] = digits[whole + places - k + 1]
  <2>1. CASE k <= whole
    <3>1. k \in 1..whole /\ k \in 1..(whole + decimals) /\ k <= whole + decimals
      BY <1>5, <2>1
    <3>2. padded[k] = integer[k] /\ integer[k] = codes[k]
      BY <1>4, <1>6, <1>9, <2>1, <3>1
    <3>3. codes[k] = digits[whole + places - k + 1]
      BY <3>1, Zenon DEF Amount
    <3> QED BY <3>2, <3>3
  <2>2. CASE k > whole
    <3>1. k + 1 \in (whole + 2)..(whole + places + 1)
      BY <2>2
    <3>2. codes[k + 1] = digits[whole + places - (k + 1) + 2]
      BY <3>1, Zenon DEF Amount
    <3>3. whole + places - (k + 1) + 2 = whole + places - k + 1
      OBVIOUS
    <3>4. padded[k] = codes[k + 1]
      <4>1. CASE k <= whole + decimals
        <5>1. k - whole \in 1..(last - whole - 1) /\ whole + 1 + (k - whole) = k + 1
              /\ k \in 1..(whole + decimals) /\ ~(k <= whole)
          BY <1>5, <2>2, <4>1
        <5>2. padded[k] = fraction[k - whole]
          BY <1>6, <1>9, <4>1, <5>1
        <5> QED BY <1>4, <5>1, <5>2
      <4>2. CASE ~(k <= whole + decimals)
        <5>1. k + 1 \in (last + 1)..length
          BY <1>2, <1>a, <1>b, <4>2
        <5> QED BY <1>3, <1>9, <4>2, <5>1
      <4> QED BY <4>1, <4>2
    <3> QED BY <3>2, <3>3, <3>4
  <2> QED BY <2>1, <2>2
<1>11. Value(padded) = left[0]
  <2>1. Len(padded) = Len(digits)
        /\ \A k \in 1..Len(digits) : padded[k] = digits[Len(digits) - k + 1]
    BY <1>9, <1>10
  <2> QED BY <2>1, DigitsReadBack
<1>12. IsDigits(read)
  <2>1. DOMAIN read = 1..Len(read)
    BY <1>6, LenProperties
  <2> QED BY <1>6, <2>1, ElementOfSeq DEF IsDigits, DigitCode
<1>13. integer # <<>>
  BY <1>4
<1>14. Len(integer) > 1 => integer[1] # ZERO
  <2> SUFFICES ASSUME Len(integer) > 1 PROVE integer[1] # ZERO
    OBVIOUS
  <2>1. whole > 1 /\ 1 \in 1..whole /\ whole + places - 1 + 1 = whole + places
    BY <1>4
  <2>2. codes[1] = digits[whole + places - 1 + 1]
    BY <2>1, Zenon DEF Amount
  <2> QED BY <1>4, <2>1, <2>2
<1>15. PointOf(number) <= Len(number) => fraction # <<>> /\ fraction[Len(fraction)] # ZERO
  <2> SUFFICES ASSUME PointOf(number) <= Len(number)
               PROVE  fraction # <<>> /\ fraction[Len(fraction)] # ZERO
    OBVIOUS
  <2>1. last > whole + 1
    BY <1>4
  <2>2. Len(fraction) = decimals /\ decimals \in 1..(last - whole - 1) /\ whole + 1 + decimals = last
    BY <1>3, <1>4, <1>5, <2>1
  <2>3. fraction[decimals] = codes[last]
    BY <1>4, <2>2
  <2>4. Len(fraction) # 0
    BY <2>2
  <2> QED BY <1>3, <2>1, <2>2, <2>3, <2>4
<1>16. padding >= 0
  BY <1>7
<1>17. number \in Seq(Int)
  BY <1>4
<1> QED BY <1>11, <1>12, <1>13, <1>14, <1>15, <1>16, <1>17, Zenon
    DEF ReadsAs, number, integer, fraction, padding, read, padded

\* The digits turned round are the codes of the amount.
LEMMA WrittenAmount ==
  ASSUME NEW digits, NEW left, Written(digits, left), out \in Seq(Int),
         Decimals(item) \in Nat, NEW whole \in Nat \ {0}, NEW places, places = Decimals(item),
         Len(digits) = whole + places
  PROVE  Amount(Reverse(out), digits, whole, places)
<1>1. PICK length \in Nat : length = whole + places + 1
  OBVIOUS
<1>2. Len(out) = length
  BY <1>1 DEF Written, Place
<1>3. Reverse(out) = [i \in 1..length |-> out[length - i + 1]]
  BY <1>2 DEF Reverse
<1>4. ASSUME NEW i \in 1..length PROVE length - i + 1 \in 1..length /\ out[length - i + 1] \in Int
  <2>1. length - i + 1 \in 1..length
    OBVIOUS
  <2> QED BY <1>2, <2>1, ElementOfSeq
<1>5. Reverse(out) \in [1..length -> Int]
  BY <1>3, <1>4
<1>6. Reverse(out) \in Seq(Int) /\ Len(Reverse(out)) = length
  BY <1>5
<1>7. ASSUME NEW m \in 1..whole PROVE Reverse(out)[m] = digits[whole + places - m + 1]
  <2>1. PICK n \in 1..(whole + places) : n = whole + places - m + 1
    OBVIOUS
  <2>2. Place(n) = length - m + 1 /\ m \in 1..length
    BY <1>1, <2>1 DEF Place
  <2>3. out[Place(n)] = digits[n]
    BY <2>1 DEF Written
  <2> QED BY <1>3, <2>1, <2>2, <2>3
<1>8. Reverse(out)[whole + 1] = DOT
  <2>1. whole + 1 \in 1..length /\ length - (whole + 1) + 1 = places + 1
    BY <1>1
  <2>2. out[places + 1] = DOT
    BY DEF Written, Place
  <2> QED BY <1>3, <2>1, <2>2
<1>9. ASSUME NEW m \in (whole + 2)..(whole + places + 1)
      PROVE  Reverse(out)[m] = digits[whole + places - m + 2]
  <2>1. PICK n \in 1..places : n = whole + places - m + 2
    <3>1. whole + places - m + 2 \in 1..places
      OBVIOUS
    <3> QED BY <3>1
  <2>2. Place(n) = length - m + 1 /\ m \in 1..length /\ n \in 1..(whole + places)
    BY <1>1, <2>1 DEF Place
  <2>3. out[Place(n)] = digits[n]
    BY <2>2 DEF Written
  <2> QED BY <1>3, <2>1, <2>2, <2>3
<1> QED BY <1>1, <1>6, <1>7, <1>8, <1>9 DEF Amount

\* Two texts one behind the other can be taken apart again.
LEMMA TakenApart ==
  ASSUME NEW s \in Seq(Int), NEW t \in Seq(Int)
  PROVE  SubSeq(s \o t, 1, Len(s)) = s /\ Without(Len(s), s \o t) = t
<1>1. PICK m \in Nat : m = Len(s)
  BY LenProperties
<1>2. PICK n \in Nat : n = Len(t)
  BY LenProperties
<1>3. PICK both : both = s \o t
  OBVIOUS
<1>4. /\ both \in Seq(Int) /\ Len(both) = m + n
      /\ \A i \in 1..(m + n) : both[i] = IF i <= m THEN s[i] ELSE t[i - m]
  BY <1>1, <1>2, <1>3, ConcatProperties
<1>5. \A i \in 1..(m + n) : both[i] \in Int
  BY <1>4, ElementOfSeq
<1>6. SubSeq(both, 1, m) = s
  <2>1. /\ SubSeq(both, 1, m) \in Seq(Int)
        /\ Len(SubSeq(both, 1, m)) = IF 1 <= m THEN m - 1 + 1 ELSE 0
        /\ \A i \in 1..(m - 1 + 1) : SubSeq(both, 1, m)[i] = both[1 + i - 1]
    <3>1. \A i \in 1..m : both[i] \in Int
      BY <1>5
    <3> QED BY <3>1, SubSeqProperties
  <2>2. (IF 1 <= m THEN m - 1 + 1 ELSE 0) = m
    OBVIOUS
  <2>3. ASSUME NEW i \in 1..m PROVE SubSeq(both, 1, m)[i] = s[i]
    <3>1. i \in 1..(m - 1 + 1) /\ 1 + i - 1 = i /\ i \in 1..(m + n) /\ i <= m
      OBVIOUS
    <3> QED BY <1>4, <2>1, <3>1
  <2> QED BY <1>1, <2>1, <2>2, <2>3
<1>7. Without(m, both) = t
  <2>0. PICK first \in Nat : first = m + 1
    OBVIOUS
  <2>1. /\ SubSeq(both, first, m + n) \in Seq(Int)
        /\ Len(SubSeq(both, first, m + n)) = IF first <= m + n THEN m + n - first + 1 ELSE 0
        /\ \A i \in 1..(m + n - first + 1) : SubSeq(both, first, m + n)[i] = both[first + i - 1]
    <3>1. \A i \in first..(m + n) : both[i] \in Int
      BY <1>5, <2>0
    <3>2. first \in Int /\ m + n \in Int
      OBVIOUS
    <3> QED BY <3>1, <3>2, SubSeqProperties
  <2>2. (IF first <= m + n THEN m + n - first + 1 ELSE 0) = n
    BY <2>0
  <2>3. ASSUME NEW i \in 1..n PROVE SubSeq(both, first, m + n)[i] = t[i]
    <3>1. PICK k \in 1..(m + n) : k = first + i - 1 /\ ~(k <= m) /\ k - m = i
      BY <2>0
    <3>2. i \in 1..(m + n - first + 1)
      BY <2>0
    <3>3. SubSeq(both, first, m + n)[i] = both[k]
      BY <2>1, <3>1, <3>2, Zenon
    <3>4. both[k] = t[k - m]
      BY <1>4, <3>1
    <3> QED BY <3>1, <3>3, <3>4, Zenon
  <2>4. PICK rest \in Seq(Int) : rest = SubSeq(both, first, m + n)
    BY <2>1
  <2>5. rest = t
    <3>1. Len(rest) = n /\ \A i \in 1..n : rest[i] = t[i]
      BY <2>1, <2>2, <2>3, <2>4
    <3>2. rest = [i \in 1..n |-> rest[i]] /\ t = [i \in 1..n |-> t[i]]
      BY <1>2, <2>4, <3>1, LenProperties
    <3> QED BY <3>1, <3>2
  <2> QED BY <1>4, <2>0, <2>4, <2>5 DEF Without
<1> QED BY <1>1, <1>3, <1>6, <1>7

\* An integer turned round reads as the number.
LEMMA IntegerReadBack ==
  ASSUME NEW digits, NEW left, Written(digits, left), out \in Seq(Int), Decimals(item) = -1,
         dVal = 0, Len(digits) >= 1, Len(digits) > 1 => digits[Len(digits)] # ZERO
  PROVE  /\ Reverse(out) \in Seq(Int)
         /\ IsDigits(Reverse(out)) /\ Value(Reverse(out)) = Magnitude(item)
         /\ Len(Reverse(out)) > 1 => Reverse(out)[1] # ZERO
<1>1. PICK length \in Nat : length = Len(digits)
  BY LenProperties DEF Written
<1>2. digits \in Seq(DigitCode) /\ AreQuotients(left, digits)
      /\ left[length] = 0 /\ left[0] = Magnitude(item)
  BY <1>1 DEF Written
<1>3. Len(out) = length /\ \A n \in 1..length : out[n] = digits[n]
  BY <1>1 DEF Written, Place
<1>4. PICK codes : codes = Reverse(out)
  OBVIOUS
<1>5. codes = [i \in 1..length |-> out[length - i + 1]]
  BY <1>3, <1>4 DEF Reverse
<1>6. ASSUME NEW i \in 1..length PROVE codes[i] = digits[length - i + 1] /\ codes[i] \in DigitCode
  <2>1. length - i + 1 \in 1..length
    OBVIOUS
  <2> QED BY <1>1, <1>2, <1>3, <1>5, <2>1, ElementOfSeq
<1>7. codes \in [1..length -> Int]
  <2>1. \A code \in DigitCode : code \in Int
    BY DEF DigitCode, ZERO
  <2> QED BY <1>5, <1>6, <2>1
<1>8. codes \in Seq(Int) /\ Len(codes) = length /\ DOMAIN codes = 1..length
  BY <1>7
<1>9. IsDigits(codes)
  BY <1>6, <1>8 DEF IsDigits, DigitCode
<1>10. Value(codes) = Magnitude(item)
  <2>1. Len(codes) = Len(digits) /\ left[Len(digits)] = 0
    BY <1>1, <1>2, <1>8
  <2>2. \A k \in 1..Len(digits) : codes[k] = digits[Len(digits) - k + 1]
    BY <1>1, <1>6
  <2>3. Value(codes) = left[0]
    BY <1>2, <2>1, <2>2, DigitsReadBack
  <2> QED BY <1>2, <2>3
<1>11. Len(codes) > 1 => codes[1] # ZERO
  <2> SUFFICES ASSUME length > 1 PROVE codes[1] # ZERO
    BY <1>8
  <2>1. 1 \in 1..length /\ length - 1 + 1 = length
    OBVIOUS
  <2> QED BY <1>1, <1>6, <2>1
<1> QED BY <1>4, <1>8, <1>9, <1>10, <1>11

\* What the digits written so far are good for: more are to come while something is left of
\* the number; those of a number that did not run out of room are all of them, without a
\* zero that says nothing.
Complete(digits) ==
  /\ phase = "digits" => (Len(digits) >= LeastDigits => dVal > 0)
  /\ phase = "number" /\ Len(out) < Room(item) =>
       /\ dVal = 0 /\ Len(digits) >= LeastDigits
       /\ Len(digits) > LeastDigits => digits[Len(digits)] # ZERO

ShownExactly == IF item.kind \in AmountKinds THEN AmountIsExact ELSE IntegerIsExact

ValueInv ==
  IsNumber =>
    /\ phase \in {"digits", "number"} =>
         \E digits, left : Written(digits, left) /\ Complete(digits)
    /\ phase = "shown" => ShownExactly

\* Decimals are at least none, or there is no point.
LEMMA DecimalsOfKinds ==
  ASSUME NEW one \in Items, one.kind \in NumberKinds
  PROVE  Decimals(one) \in Int /\ IF one.kind \in AmountKinds THEN Decimals(one) \in Nat
                                                               ELSE Decimals(one) = -1
<1>1. CASE one.kind \in IntegerKinds
  BY <1>1 DEF Decimals, IntegerKinds, AmountKinds
<1>2. CASE one.kind = "TokenAmount"
  <2>1. one.decimals \in 0..255
    BY <1>2, TextsAssumption DEF TextsAssumption
  <2> QED BY <1>2, <2>1 DEF Decimals, IntegerKinds, AmountKinds
<1>3. CASE one.kind \in {"Amount", "PrintableAmount"}
  BY <1>3 DEF Decimals, IntegerKinds, AmountKinds, RENEC_DECIMALS
<1> QED BY <1>1, <1>2, <1>3 DEF NumberKinds, AmountKinds

\* Before the first digit the whole number is left.
LEMMA ValueInit == Init => ValueInv
<1> SUFFICES ASSUME Init, IsNumber PROVE ValueInv
  BY DEF ValueInv
<1>1. item \in Items /\ out = <<>> /\ phase = "digits" /\ dVal = Magnitude(item)
  BY DEF Init, IsNumber, NumberKinds, AmountKinds, IntegerKinds, KeyKinds
<1>2. Decimals(item) \in Int /\ Magnitude(item) \in Nat
  BY <1>1, RoomForDigits DEF IsNumber
<1>3. Len(<<>>) = 0 /\ <<>> \in Seq(DigitCode)
  BY EmptySeq
<1>4. PICK left \in [0..0 -> Nat] : left[0] = Magnitude(item)
  <2>1. [n \in 0..0 |-> Magnitude(item)] \in [0..0 -> Nat]
    BY <1>2
  <2>2. [n \in 0..0 |-> Magnitude(item)][0] = Magnitude(item)
    OBVIOUS
  <2> QED BY <2>1, <2>2
<1>5. AreQuotients(left, <<>>)
  BY <1>3, <1>4 DEF AreQuotients
<1>6. Place(0) = 0
  BY <1>2 DEF Place
<1>7. Written(<<>>, left)
  BY <1>1, <1>3, <1>4, <1>5, <1>6 DEF Written
<1>8. Complete(<<>>)
  BY <1>1, <1>2, <1>3 DEF Complete, LeastDigits
<1> QED BY <1>1, <1>7, <1>8 DEF ValueInv

\* A turn of the loop.
LEMMA ValueTurn ==
  ASSUME NumberInv, ValueInv, WriteDigit, IsNumber
  PROVE  \E digits, left : (Written(digits, left) /\ Complete(digits))'
<1>1. PICK digits, left : Written(digits, left) /\ Complete(digits)
  BY DEF ValueInv, WriteDigit
<1>2. /\ item \in Items /\ out \in Seq(Int) /\ dVal \in Nat /\ item' = item /\ phase = "digits"
      /\ dVal' \in Nat
  BY DEF NumberInv, WriteDigit
<1>3. Decimals(item) \in Int /\ Room(item) \in Int
      /\ (Decimals(item) \in Nat \/ Decimals(item) = -1)
  BY <1>2, RoomForDigits, DecimalsOfKinds DEF IsNumber
<1>4. PICK digit : digit = ZERO + (dVal % 10)
  OBVIOUS
<1>5. PICK rest : rest = dVal'
  OBVIOUS
<1>6. PICK more : more = Append(digits, digit)
  OBVIOUS
<1>7. PICK onward : onward = [n \in 0..(Len(digits) + 1) |->
                                IF n = Len(digits) + 1 THEN rest ELSE left[n]]
  OBVIOUS
<1>8. digit \in DigitCode /\ Written(more, onward)'
  BY <1>1, <1>2, <1>3, <1>4, <1>5, <1>6, <1>7, TurnWritten
<1>9. PICK length \in Nat : length = Len(digits)
  BY <1>1, LenProperties DEF Written
<1>10. Len(more) = length + 1 /\ more[length + 1] = digit
  BY <1>1, <1>6, <1>8, <1>9, AppendProperties DEF Written
<1>11. PICK places : places = Decimals(item) /\ places = Decimals(item)' /\ places \in Int
                     /\ (places >= 0 \/ places = -1)
  BY <1>2, <1>3 DEF Decimals
<1>12. Len(out') = IF places >= 0 /\ length + 1 > places THEN length + 2 ELSE length + 1
  <2>1. Len(out') = Place(length + 1)'
    BY <1>8, <1>10 DEF Written
  <2> QED BY <2>1, <1>11 DEF Place
<1>13. PICK least : least = LeastDigits /\ least = LeastDigits'
                    /\ least = IF places >= 0 THEN places + 1 ELSE 1
  BY <1>11 DEF LeastDigits
<1>14. PICK room \in Int : room = Room(item) /\ room = Room(item)'
  BY <1>2, <1>3 DEF Room, Sign
<1>15. PICK size : size = Len(out')
  OBVIOUS
<1>16. phase' = IF (rest > 0 \/ size < places + 1) /\ size < room THEN "digits" ELSE "number"
  BY <1>5, <1>11, <1>14, <1>15 DEF WriteDigit
<1>17. phase' = "digits" => (length + 1 >= least => dVal' > 0)
  BY <1>5, <1>9, <1>11, <1>12, <1>13, <1>15, <1>16
<1>18. ASSUME phase' = "number", size < room
       PROVE  /\ rest = 0 /\ length + 1 >= least
              /\ length + 1 > least => digit # ZERO
  <2>1. ~(rest > 0) /\ ~(size < places + 1)
    BY <1>16, <1>18
  <2>2. rest = 0
    BY <1>2, <1>5, <2>1
  <2>3. length + 1 >= least
    BY <1>9, <1>11, <1>12, <1>13, <1>15, <2>1
  <2>4. ASSUME length + 1 > least PROVE digit # ZERO
    <3>1. length >= least
      BY <1>9, <1>11, <1>13, <2>4
    <3>2. dVal > 0
      BY <1>1, <1>2, <1>9, <1>13, <3>1 DEF Complete
    <3>3. dVal \div 10 = 0
      BY <1>5, <2>2 DEF WriteDigit
    <3>4. dVal % 10 # 0
      BY <1>2, <3>2, <3>3, SMT
    <3>5. dVal % 10 \in Int /\ ZERO \in Int
      BY <1>2, SMT DEF ZERO
    <3> QED BY <1>4, <3>4, <3>5
  <2> QED BY <2>2, <2>3, <2>4
<1>19. Complete(more)'
  BY <1>5, <1>9, <1>10, <1>13, <1>14, <1>15, <1>17, <1>18 DEF Complete
<1> QED BY <1>8, <1>19

\* An asset is a text, and so is a sign.
LEMMA AssetsAreTexts ==
  ASSUME NEW one \in Items, one.kind \in NumberKinds
  PROVE  Asset(one) \in Seq(Int) /\ Sign(one) \in Seq(Int) /\ <<SPACE>> \in Seq(Int)
<1>1. RENEC \in Seq(Int)
  BY DEF RENEC
<1>2. one.kind = "TokenAmount" => one.symbol \in Seq(Int)
  <2> SUFFICES ASSUME one.kind = "TokenAmount" PROVE one.symbol \in Seq(Int)
    OBVIOUS
  <2>1. one.symbol \in Seq(0..255)
    BY TextsAssumption DEF TextsAssumption
  <2>2. 0..255 \subseteq Int
    OBVIOUS
  <2>3. Seq(0..255) \subseteq Seq(Int)
    BY <2>2, SeqMonotonic, Zenon
  <2> QED BY <2>1, <2>3, Zenon
<1>3. Sign(one) \in Seq(Int) /\ <<SPACE>> \in Seq(Int)
  BY DEF Sign, DASH, SPACE
<1> QED BY <1>1, <1>2, <1>3 DEF Asset

\* An amount is shown exactly.
LEMMA AmountFinished ==
  ASSUME NumberInv, ValueInv, FinishNumber, IsNumber, item.kind \in AmountKinds,
         phase' = "shown"
  PROVE  AmountIsExact'
<1>1. PICK digits, left : Written(digits, left) /\ Complete(digits)
  BY DEF ValueInv, FinishNumber
<1>2. /\ item \in Items /\ out \in Seq(Int) /\ item' = item /\ out' = out /\ phase = "number"
  BY DEF NumberInv, FinishNumber
<1>3. Decimals(item) \in Nat
  BY <1>2, DecimalsOfKinds DEF IsNumber
<1>4. Len(out) < Room(item)
  <2>1. ~(Len(out) >= Room(item))
    BY DEF FinishNumber
  <2>2. Len(out) \in Int /\ Room(item) \in Int
    BY <1>2, LenProperties, RoomForDigits DEF IsNumber
  <2> QED BY <2>1, <2>2
<1>5. PICK places \in Nat : places = Decimals(item) /\ places = Decimals(item)'
  BY <1>2, <1>3 DEF Decimals
<1>6. PICK length \in Nat : length = Len(digits)
  BY <1>1, LenProperties DEF Written
<1>7. /\ dVal = 0 /\ length >= places + 1
      /\ length > places + 1 => digits[length] # ZERO
  BY <1>1, <1>2, <1>4, <1>5, <1>6 DEF Complete, LeastDigits
<1>8. PICK whole \in Nat \ {0} : length = whole + places
  <2>1. length - places \in Nat \ {0} /\ length = (length - places) + places
    BY <1>7
  <2> QED BY <2>1
<1>9. PICK codes : codes = Reverse(out)
  OBVIOUS
<1>10. Amount(codes, digits, whole, places)
  BY <1>1, <1>2, <1>3, <1>5, <1>6, <1>8, <1>9, WrittenAmount
<1>11. PICK number : number = Strip(codes)
  OBVIOUS
<1>12. /\ digits \in Seq(DigitCode) /\ Len(digits) = whole + places /\ AreQuotients(left, digits)
       /\ left[Len(digits)] = 0 /\ left[0] = Magnitude(item)
       /\ whole > 1 => digits[whole + places] # ZERO
  BY <1>1, <1>6, <1>7, <1>8 DEF Written
<1>13. number \in Seq(Int) /\ ReadsAs(number, places, left[0])
  BY <1>10, <1>11, <1>12, AmountReadBack
<1>14. PICK asset \in Seq(Int) : asset = Asset(item) /\ asset = Asset(item)'
  BY <1>2, AssetsAreTexts DEF IsNumber, Asset
<1>15. text' = number \o <<SPACE>> \o asset
  BY <1>9, <1>11, <1>14 DEF FinishNumber
<1>16. Number(item)' = number
  <2>1. <<SPACE>> \in Seq(Int) /\ Len(<<SPACE>>) = 1
    BY DEF SPACE
  <2>2. text' = number \o (<<SPACE>> \o asset)
    BY <1>13, <1>15, <2>1, ConcatAssociative
  <2>3. <<SPACE>> \o asset \in Seq(Int) /\ Len(<<SPACE>> \o asset) = 1 + Len(asset)
    BY <2>1, ConcatProperties
  <2>4. PICK tail \in Seq(Int) : tail = <<SPACE>> \o asset
    BY <2>3
  <2>5. Len(number \o tail) = Len(number) + Len(tail)
    BY <1>13, ConcatProperties
  <2>6. Len(number) \in Nat /\ Len(asset) \in Nat
    BY <1>13, LenProperties
  <2>7. Len(text') - Len(asset) - 1 = Len(number)
    BY <2>2, <2>3, <2>4, <2>5, <2>6
  <2>8. SubSeq(number \o tail, 1, Len(number)) = number
    BY <1>13, TakenApart
  <2> QED BY <1>14, <2>2, <2>4, <2>7, <2>8 DEF Number
<1>17. left[0] = item.value /\ item'.value = item.value
  <2>1. item.kind # "I64"
    BY DEF AmountKinds
  <2>2. item.value \in Nat
    BY <1>2, <2>1, TextsAssumption DEF TextsAssumption, IsNumber
  <2>3. Magnitude(item) = item.value
    BY <2>2 DEF Magnitude
  <2> QED BY <1>2, <1>12, <2>3
<1> QED BY <1>5, <1>13, <1>14, <1>15, <1>16, <1>17 DEF AmountIsExact, ReadsAs, IntegerOf,
                                                       FractionOf

\* An integer is shown exactly.
LEMMA IntegerFinished ==
  ASSUME NumberInv, ValueInv, FinishNumber, IsNumber, item.kind \notin AmountKinds,
         phase' = "shown"
  PROVE  IntegerIsExact'
<1>1. PICK digits, left : Written(digits, left) /\ Complete(digits)
  BY DEF ValueInv, FinishNumber
<1>2. /\ item \in Items /\ out \in Seq(Int) /\ item' = item /\ out' = out /\ phase = "number"
  BY DEF NumberInv, FinishNumber
<1>3. Decimals(item) = -1
  BY <1>2, DecimalsOfKinds DEF IsNumber
<1>4. Len(out) < Room(item)
  <2>1. ~(Len(out) >= Room(item))
    BY DEF FinishNumber
  <2>2. Len(out) \in Int /\ Room(item) \in Int
    BY <1>2, LenProperties, RoomForDigits DEF IsNumber
  <2> QED BY <2>1, <2>2
<1>5. dVal = 0 /\ Len(digits) >= 1 /\ (Len(digits) > 1 => digits[Len(digits)] # ZERO)
  BY <1>1, <1>2, <1>3, <1>4 DEF Complete, LeastDigits
<1>6. PICK codes : codes = Reverse(out)
  OBVIOUS
<1>7. /\ codes \in Seq(Int) /\ IsDigits(codes) /\ Value(codes) = Magnitude(item)
      /\ Len(codes) > 1 => codes[1] # ZERO
  BY <1>1, <1>2, <1>3, <1>5, <1>6, IntegerReadBack
<1>8. PICK sign \in Seq(Int) : sign = Sign(item) /\ sign = Sign(item)'
  BY <1>2, AssetsAreTexts DEF IsNumber, Sign
<1>9. text' = sign \o codes
  BY <1>6, <1>8 DEF FinishNumber
<1>10. SubSeq(sign \o codes, 1, Len(sign)) = sign /\ Without(Len(sign), sign \o codes) = codes
  BY <1>7, TakenApart
<1>11. Magnitude(item)' = Magnitude(item)
  BY <1>2 DEF Magnitude
<1> QED BY <1>7, <1>8, <1>9, <1>10, <1>11 DEF IntegerIsExact

\* Every step keeps it: after the last digit only the whole text is shown.
LEMMA ValueStep == NumberInv /\ ValueInv /\ [Next]_vars => ValueInv'
<1> SUFFICES ASSUME NumberInv, ValueInv, [Next]_vars, IsNumber' PROVE ValueInv'
  BY DEF ValueInv
<1>1. item' = item /\ IsNumber
  BY DEF Next, WriteDigit, FinishNumber, EncodeDigit, FinishKey, PrintText, ScanSequence,
         FinishScan, vars, IsNumber
<1>2. CASE WriteDigit
  <2>1. \E digits, left : (Written(digits, left) /\ Complete(digits))'
    BY <1>1, <1>2, ValueTurn
  <2>2. phase' # "shown"
    BY <1>2 DEF WriteDigit
  <2> QED BY <2>1, <2>2 DEF ValueInv
<1>3. CASE FinishNumber
  <2>1. phase' \in {"shown", "failed"}
    BY <1>3 DEF FinishNumber
  <2>2. phase' = "shown" => ShownExactly'
    BY <1>1, <1>3, AmountFinished, IntegerFinished DEF ShownExactly
  <2> QED BY <2>1, <2>2 DEF ValueInv
<1>4. CASE EncodeDigit \/ FinishKey \/ PrintText \/ ScanSequence \/ FinishScan
  <2>1. phase \notin {"digits", "number", "shown", "failed"}
    BY <1>4 DEF EncodeDigit, FinishKey, PrintText, ScanSequence, FinishScan
  <2> QED BY <1>1, <2>1 DEF NumberInv
<1>5. CASE UNCHANGED vars
  <2>1. \A digits, left : (Written(digits, left) /\ Complete(digits))'
                            = (Written(digits, left) /\ Complete(digits))
    BY <1>5 DEF vars, Written, Complete, Place, Decimals, Magnitude, Room, Sign, LeastDigits
  <2>2. ShownExactly' = ShownExactly /\ phase' = phase
    BY <1>5 DEF vars, ShownExactly, AmountIsExact, IntegerIsExact, Number, Asset, Decimals,
                Magnitude, Sign
  <2> QED BY <1>1, <2>1, <2>2 DEF ValueInv
<1> QED BY <1>2, <1>3, <1>4, <1>5 DEF Next

\* Whatever the sizes of the buffers, the number and its decimals, what is shown of a number
\* reads as that number, and there is one way to write it.
THEOREM NumbersAlwaysExact == Spec => []NumbersAreExact
<1>1. ValueInv => NumbersAreExact
  BY DEF ValueInv, NumbersAreExact, ShownExactly, IsNumber
<1>2. Init => NumberInv /\ ValueInv
  BY NumberInit, ValueInit
<1>3. NumberInv /\ ValueInv /\ [Next]_vars => (NumberInv /\ ValueInv)'
  BY NumberStep, ValueStep
<1> QED BY <1>1, <1>2, <1>3, PTL DEF Spec

-----------------------------------------------------------------------------
(* The text of a key, compared with those of the Exchange application. *)

\* The text of a whole key is one.
AddressInv ==
  phase = "shown" /\ item.kind = "Pubkey" /\ long_pubkeys => text \in Seq(Int)

\* Only FinishKey shows a key.
LEMMA AddressStep == KeyInv /\ AddressInv /\ [Next]_vars => AddressInv'
<1> SUFFICES ASSUME KeyInv, AddressInv, [Next]_vars,
                    phase' = "shown", item'.kind = "Pubkey", long_pubkeys'
             PROVE  text' \in Seq(Int)
  BY DEF AddressInv
<1>1. CASE FinishKey
  <2>1. item' = item /\ long_pubkeys' = long_pubkeys
    BY <1>1 DEF FinishKey
  <2>2. (ZeroDigits \o out) \in Seq(Int) /\ text' = ZeroDigits \o out
    BY <1>1, <2>1, KeyFinished
  <2> QED BY <2>2
<1>2. CASE EncodeDigit \/ WriteDigit \/ FinishNumber \/ PrintText \/ ScanSequence \/ FinishScan
  <2>1. item' = item
    BY <1>2 DEF EncodeDigit, WriteDigit, FinishNumber, PrintText, ScanSequence, FinishScan
  <2>2. phase \in {"key", "shown", "failed"}
    BY <2>1 DEF KeyInv, KeyKinds
  <2> QED BY <1>2, <2>2 DEF EncodeDigit, WriteDigit, FinishNumber, PrintText, ScanSequence,
                            FinishScan
<1>3. CASE UNCHANGED vars
  BY <1>3 DEF vars, AddressInv
<1> QED BY <1>1, <1>2, <1>3 DEF Next

\* A text is cut to itself, or to as many characters as there is room for.
LEMMA CutOrWhole ==
  ASSUME NEW address \in Seq(Int), NEW room \in Nat
  PROVE  Cut(address, room) = address \/ Len(Cut(address, room)) = room
<1>1. Len(address) \in Nat /\ \A i \in 1..Len(address) : address[i] \in Int
  BY LenProperties, ElementOfSeq
<1>2. CASE Len(address) < room
  BY <1>2, SubSeqFull DEF Cut
<1>3. CASE ~(Len(address) < room)
  <2>1. \A i \in 1..room : address[i] \in Int
    BY <1>1, <1>3
  <2>2. Len(SubSeq(address, 1, room)) = IF 1 <= room THEN room - 1 + 1 ELSE 0
    BY <2>1, SubSeqProperties
  <2> QED BY <1>3, <2>2 DEF Cut
<1> QED BY <1>2, <1>3

\* The addresses that the text of a key is compared with are texts.
LEMMA VariationsAreTexts ==
  ASSUME NEW address \in Variations, text \in Seq(Int)
  PROVE  address \in Seq(Int)
<1>1. Len(text) \in Nat /\ \A i \in 1..Len(text) : text[i] \in Int
  BY LenProperties, ElementOfSeq
<1>2. ASSUME NEW n \in 0..Len(text) PROVE Cut(text, n) \in Seq(Int)
  <2>1. PICK m \in 0..Len(text) : Cut(text, n) = SubSeq(text, 1, m)
    BY <1>1 DEF Cut
  <2>2. \A i \in 1..m : text[i] \in Int
    BY <1>1, <2>1
  <2> QED BY <1>1, <2>1, <2>2, SubSeqProperties
<1>3. ASSUME NEW code \in {49, DOT} PROVE Append(text, code) \in Seq(Int)
  BY <1>3, AppendProperties DEF DOT
<1> QED BY <1>2, <1>3 DEF Variations

\* Whatever else a call of the Exchange application brings: an address check succeeds for
\* the text of the key alone, and a recipient that agrees with it after it was copied is that
\* text, or begins with it where it fills the buffer.
THEOREM AddressesAlwaysExact == Spec => []AddressesAreExact
<1>1. AddressInv => AddressesAreExact
  <2> SUFFICES ASSUME AddressInv, phase = "shown", item.kind = "Pubkey", long_pubkeys,
                      NEW request \in Requests, NEW address \in Variations
               PROVE  LET offer == With(request, "destination_address", address)
                          check == With(request, "address_to_check", <<address>>)
                      IN  /\ \A saved \in copy_transaction_parameters(offer) :
                               saved.recipient = text =>
                                 address = text \/ Len(text) = BASE58_PUBKEY_LENGTH - 1
                          /\ handle_check_address(check, text) => address = text
    BY DEF AddressesAreExact
  <2> DEFINE offer == With(request, "destination_address", address)
             check == With(request, "address_to_check", <<address>>)
  <2>1. text \in Seq(Int) /\ address \in Seq(Int)
    BY VariationsAreTexts DEF AddressInv
  <2>2. offer.destination_address = address /\ check.address_to_check = <<address>>
    BY DEF With
  <2> HIDE DEF offer, check
  <2>4. ASSUME NEW saved \in copy_transaction_parameters(offer), saved.recipient = text
        PROVE  address = text \/ Len(text) = BASE58_PUBKEY_LENGTH - 1
    <3>1. text = Cut(address, BASE58_PUBKEY_LENGTH - 1)
      <4>1. PICK amount \in swap_str_to_u64(offer.amount) :
              saved = [amount    |-> amount,
                       recipient |-> Cut(offer.destination_address, BASE58_PUBKEY_LENGTH - 1)]
        BY <2>4, Zenon DEF copy_transaction_parameters
      <4> QED BY <2>2, <2>4, <4>1
    <3>2. PICK room \in Nat : room = BASE58_PUBKEY_LENGTH - 1
      BY DEF BASE58_PUBKEY_LENGTH
    <3>3. Cut(address, room) = address \/ Len(Cut(address, room)) = room
      BY <2>1, <3>2, CutOrWhole
    <3> QED BY <3>1, <3>2, <3>3
  <2>5. handle_check_address(check, text) => address = text
    BY <2>2 DEF handle_check_address
  <2> QED BY <2>4, <2>5 DEF offer, check
<1>2. Init => KeyInv /\ AddressInv
  BY KeyInit DEF Init, AddressInv, NumberKinds, AmountKinds, IntegerKinds, KeyKinds
<1>3. KeyInv /\ AddressInv /\ [Next]_vars => (KeyInv /\ AddressInv)'
  BY KeyStep, AddressStep
<1> QED BY <1>1, <1>2, <1>3, PTL DEF Spec

-----------------------------------------------------------------------------
(* Every item. *)

\* The first values have their types.
LEMMA TypesInit == Init => TypeOK
<1> SUFFICES ASSUME Init PROVE TypeOK
  OBVIOUS
<1>1. item \in Items /\ out = <<>>
  BY DEF Init
<1>2. out \in Seq(Int)
  BY <1>1, EmptySeq
<1>3. dVal \in Nat
  <2>1. item.kind \in NumberKinds => Magnitude(item) \in Nat
    BY <1>1, RoomForDigits
  <2>2. dVal = IF item.kind \in NumberKinds THEN Magnitude(item) ELSE 0
    BY DEF Init
  <2> QED BY <2>1, <2>2
<1>4. tmp \in Seq(0..255)
  <2>1. CASE item.kind \in KeyKinds
    <3>1. item.value \in Seq(Byte) /\ Leading(0, item.value) \in 0..Len(item.value)
      BY <1>1, <2>1, KeysAreBytes
    <3>2. tmp = Without(Leading(0, item.value), item.value)
      BY <2>1 DEF Init, KeyKinds
    <3> QED BY <3>1, <3>2, WholeValue DEF Byte
  <2>2. CASE item.kind = "Message"
    <3>1. tmp = item.value
      BY <2>2 DEF Init, KeyKinds
    <3> QED BY <1>1, <2>2, <3>1, MessagesAreBytes DEF Byte
  <2>3. CASE item.kind \notin KeyKinds /\ item.kind # "Message"
    <3>1. tmp = <<>>
      BY <2>3 DEF Init
    <3> QED BY <3>1, EmptySeq
  <2> QED BY <2>1, <2>2, <2>3
<1>5. phase \in {"digits", "number", "key", "text", "shown", "failed",
                 "utf8", "is_utf8", "is_ascii", "binary"}
  BY DEF Init
<1> QED BY <1>1, <1>2, <1>3, <1>4, <1>5 DEF TypeOK

\* Every step keeps the types.
LEMMA TypesStep == TypeOK /\ [Next]_vars => TypeOK'
<1> SUFFICES ASSUME TypeOK, [Next]_vars PROVE TypeOK'
  OBVIOUS
<1>1. CASE WriteDigit
  <2>1. out' \in Seq(Int)
    BY <1>1, TurnLength DEF WriteDigit, TypeOK
  <2>2. dVal' \in Nat
    BY <1>1 DEF WriteDigit, TypeOK
  <2> QED BY <1>1, <2>1, <2>2 DEF WriteDigit, TypeOK
<1>2. CASE EncodeDigit
  <2>1. tmp \in Seq(Byte) /\ tmp # <<>> /\ out \in Seq(Int)
    BY <1>2 DEF EncodeDigit, TypeOK, Byte
  <2>2. PICK f : IsDivision(Divide(tmp), tmp, f)
    BY <2>1, Divided
  <2> DEFINE quotient == Divide(tmp).quotient
             remainder == Divide(tmp).remainder
  <2>3. Len(tmp) \in Nat /\ Len(tmp) # 0
    BY <2>1, EmptySeq
  <2>4. /\ quotient \in Seq(Byte) /\ Len(quotient) = Len(tmp)
        /\ f \in [0..Len(tmp) -> 0..57] /\ remainder = f[Len(tmp)]
    BY <2>2 DEF IsDivision
  <2>5. /\ tmp' = IF quotient[1] = 0 THEN Tail(quotient) ELSE quotient
        /\ out' = <<BASE58_ALPHABET[remainder]>> \o out
        /\ UNCHANGED <<item, dVal, phase>>
    BY <1>2 DEF EncodeDigit
  <2> HIDE DEF quotient, remainder
  <2>6. remainder \in 0..57
    <3>1. Len(tmp) \in 0..Len(tmp)
      BY <2>3
    <3> QED BY <2>4, <3>1
  <2>7. quotient # <<>>
    BY <2>3, <2>4, EmptySeq
  <2>8. Tail(quotient) \in Seq(Byte)
    BY <2>4, <2>7, HeadTailProperties
  <2>9. tmp' \in Seq(0..255)
    BY <2>4, <2>5, <2>8 DEF Byte
  <2>a. out' \in Seq(Int)
    <3>1. <<BASE58_ALPHABET[remainder]>> \in Seq(Int)
      BY <2>6, DigitsOfCodes
    <3> QED BY <2>1, <2>5, <3>1, ConcatProperties
  <2> QED BY <2>5, <2>9, <2>a DEF TypeOK
<1>3. CASE ScanSequence
  <2>1. tmp \in Seq(Byte)
    BY DEF TypeOK, Byte
  <2>2. ASSUME NEW n \in SequenceLengths(tmp) PROVE Without(n, tmp) \in Seq(0..255)
    <3>1. Len(tmp) \in Nat
      BY <2>1, LenProperties
    <3>2. n \in 1..4 /\ Len(tmp) >= n
      BY DEF SequenceLengths, Continued
    <3>3. n \in 0..Len(tmp)
      BY <3>1, <3>2
    <3> QED BY <2>1, <3>3, WholeValue DEF Byte
  <2> QED BY <1>3, <2>2 DEF ScanSequence, TypeOK
<1>4. CASE FinishNumber \/ FinishKey \/ PrintText \/ FinishScan
  BY <1>4 DEF FinishNumber, FinishKey, PrintText, FinishScan, TypeOK
<1>5. CASE UNCHANGED vars
  BY <1>5 DEF vars, TypeOK
<1> QED BY <1>1, <1>2, <1>3, <1>4, <1>5 DEF Next

\* Numbers stay natural, the bytes that are left stay bytes and the digits codes, for
\* items of every kind, through every division and every sequence of a message.
THEOREM TextsTypeOK == Spec => []TypeOK
BY TypesInit, TypesStep, PTL DEF Spec

-----------------------------------------------------------------------------
(* The calendar in words. *)

Word == MinWord..MaxWord
TwoTo32 == 4294967296

\* The numbers the source has for its bounds.
LEMMA WordBounds ==
  MaxWord = 2147483647 /\ MinWord = -2147483648 /\ TwoTo32 = 4294967296
BY SMT DEF MaxWord, MinWord, TwoTo32

\* Words by their bounds.
LEMMA Words == \A a : a \in Word <=> a \in Int /\ a >= -2147483648 /\ a <= 2147483647
<1> TAKE a
<1>1. PICK least \in Int, most \in Int : least = MinWord /\ most = MaxWord
  BY WordBounds, SMT
<1>2. Word = least..most
  BY <1>1 DEF Word
<1>3. a \in least..most <=> a \in Int /\ a >= least /\ a <= most
  BY SMT
<1>4. least = -2147483648 /\ most = 2147483647
  BY <1>1, WordBounds, SMT
<1>5. a \in Int => (a >= least <=> a >= -2147483648) /\ (a <= most <=> a <= 2147483647)
  BY <1>4, SMT
<1> QED BY <1>2, <1>3, <1>5

\* A sum of words is a word, and the sum but for a multiple of 2^32.
LEMMA WordSum ==
  ASSUME NEW a \in Word, NEW b \in Word
  PROVE  /\ WordPlus(a, b) \in Word
         /\ WordPlus(a, b) \in {a + b, a + b - TwoTo32, a + b + TwoTo32}
         /\ a + b \in Word => WordPlus(a, b) = a + b
<1>1. /\ a \in Int /\ a >= -2147483648 /\ a <= 2147483647
      /\ b \in Int /\ b >= -2147483648 /\ b <= 2147483647
  BY Words
<1>2. MaxWord \in Int /\ MinWord \in Int
  BY WordBounds, SMT
<1> DEFINE sum == WordPlus(a, b)
<1>3. /\ a >= 0 /\ b > MaxWord - a => sum = (a + MinWord) + (b + MinWord)
      /\ a < 0 /\ b < MinWord - a => sum = (a - MinWord) + (b - MinWord)
      /\ a >= 0 /\ b <= MaxWord - a => sum = a + b
      /\ a < 0 /\ b >= MinWord - a => sum = a + b
  BY <1>1, <1>2, SMT DEF WordPlus
<1> HIDE DEF sum
<1>4. /\ sum \in Int /\ sum >= -2147483648 /\ sum <= 2147483647
      /\ sum = a + b \/ sum = a + b - 4294967296 \/ sum = a + b + 4294967296
      /\ a + b >= -2147483648 /\ a + b <= 2147483647 => sum = a + b
  BY <1>1, <1>3, WordBounds, SMT
<1>5. sum \in Word
  BY <1>4, Words
<1>6. a + b \in Word => sum = a + b
  BY <1>4, Words
<1>7. sum \in {a + b, a + b - TwoTo32, a + b + TwoTo32}
  BY <1>4, WordBounds, SMT
<1> QED BY <1>5, <1>6, <1>7 DEF sum

\* A product is a word, and the product of factors that are small enough.
LEMMA WordProduct ==
  ASSUME NEW factor \in {100, 535}, NEW a \in Word
  PROVE  /\ WordTimes(factor, a) \in Word
         /\ a >= -65536 /\ a < 3932160 => WordTimes(factor, a) = factor * a
<1> DEFINE quotient == a \div 65536
           rest == a % 65536
           high == ((factor * quotient + 32768) % 65536) - 32768
<1>0. factor = 100 \/ factor = 535
  OBVIOUS
<1>1. /\ a \in Int /\ quotient \in Int /\ rest \in Int
      /\ rest >= 0 /\ rest < 65536 /\ a = quotient * 65536 + rest
  BY Words, SMT
<1>2. WordTimes(factor, a) = WordPlus(high * 65536, factor * rest)
  BY DEF WordTimes
<1> HIDE DEF rest, quotient
<1>3. PICK shifted \in Int : shifted = factor * quotient
  BY <1>0, <1>1, SMT
<1>4. high \in Int /\ high >= -32768 /\ high < 32768
  BY <1>3, SMT
<1>5. shifted >= -32768 /\ shifted < 32768 => high = shifted
  BY <1>3, SMT
<1>6. a >= -65536 /\ a < 3932160 => shifted >= -32768 /\ shifted < 32768
  BY <1>0, <1>1, <1>3, SMT
<1> HIDE DEF high
<1>7. high * 65536 \in Word /\ factor * rest \in Word
  BY <1>0, <1>1, <1>4, Words, SMT
<1>8. WordTimes(factor, a) \in Word
  BY <1>2, <1>7, WordSum
<1>9. ASSUME a >= -65536, a < 3932160 PROVE WordTimes(factor, a) = factor * a
  <2>1. high * 65536 + factor * rest = factor * a
    BY <1>0, <1>1, <1>3, <1>5, <1>6, <1>9, SMT
  <2>2. factor * a \in Word
    BY <1>0, <1>1, <1>9, Words, SMT
  <2> QED BY <1>2, <1>7, <2>1, <2>2, WordSum
<1> QED BY <1>8, <1>9

\* A quotient of words is that of the numbers between 0 and 2^32 they stand for.
LEMMA WordQuotient ==
  ASSUME NEW a \in Word, NEW divisor \in {3652425, 36525, 16384}
  PROVE  /\ a >= 0 => WordOver(a, divisor) = a \div divisor
         /\ a < 0 => WordOver(a, divisor) = (a + TwoTo32) \div divisor
<1>1. a >= 0 => WordOver(a, divisor) = a \div divisor
  BY DEF WordOver
<1>2. ASSUME a < 0 PROVE WordOver(a, divisor) = (a + TwoTo32) \div divisor
  <2> DEFINE rest == a - MinWord
  <2>0. a \in Int /\ rest = a + 2147483648 /\ MaxWord = 2147483647 /\ TwoTo32 = 4294967296
    BY Words, WordBounds, SMT
  <2>1. WordOver(a, divisor) =
          (MaxWord \div divisor) + (rest \div divisor) +
          (((MaxWord % divisor) + 1 + (rest % divisor)) \div divisor)
    BY <1>2, <2>0, SMT DEF WordOver
  <2> HIDE DEF rest
  <2>2. CASE divisor = 3652425
    BY <2>0, <2>1, <2>2, SMT
  <2>3. CASE divisor = 36525
    BY <2>0, <2>1, <2>3, SMT
  <2>4. CASE divisor = 16384
    BY <2>0, <2>1, <2>4, SMT
  <2> QED BY <2>2, <2>3, <2>4
<1> QED BY <1>1, <1>2

-----------------------------------------------------------------------------
(* The calendar without words. *)

\* The years that begin in March: their day numbers, and the day a leap year has more.
MarchDay(year, d) == d + 365 * year + (year \div 4) - (year \div 100) + (year \div 400)
LeapsInMarch(year) == IsLeap(year + 1)

\* The century of a day of the years 0 to 9999, and its year, by the calendar that has
\* every leap day; then what these are.
IsYearOf(Z, A, W, year) ==
  /\ Z \in Int /\ Z >= 1 /\ Z <= 3652365
  /\ A \in Int /\ A = (100 * Z - 25) \div 3652425
  /\ W \in Int /\ W = Z + A - (A \div 4)
  /\ year \in Int /\ year = (100 * W - 25) \div 36525
YearFacts(year, A, d) ==
  /\ year >= 0 /\ year <= 9999
  /\ year \div 100 = A /\ year \div 400 = A \div 4
  /\ d >= 1 /\ d <= 366
  /\ year = 9999 => d <= 306
  /\ d = 366 => LeapsInMarch(year)

\* The year is that of the century the day is in.
LEMMA YearAndCentury ==
  ASSUME NEW Z, NEW A, NEW W, NEW year, IsYearOf(Z, A, W, year),
         NEW k, k = (1461 * year) \div 4
  PROVE  YearFacts(year, A, W - k)
<1>0. /\ Z \in Int /\ Z >= 1 /\ Z <= 3652365
      /\ A \in Int /\ A = (100 * Z - 25) \div 3652425
      /\ W \in Int /\ W = Z + A - (A \div 4)
      /\ year \in Int /\ year = (100 * W - 25) \div 36525
      /\ k \in Int /\ k = (1461 * year) \div 4
  BY SMT DEF IsYearOf
<1>1. PICK q \in Int, r \in Int : A = 4 * q + r /\ r >= 0 /\ r <= 3 /\ A \div 4 = q
  BY <1>0, SMT
<1>2. PICK p \in Int, s \in Int : year = 4 * p + s /\ s >= 0 /\ s <= 3 /\ year \div 4 = p
  BY <1>0, SMT
<1>3. 3652425 * A <= 100 * Z - 25 /\ 100 * Z - 25 < 3652425 * A + 3652425
  BY <1>0, SMT
<1>4. 36525 * year <= 100 * W - 25 /\ 100 * W - 25 < 36525 * year + 36525
  BY <1>0, SMT
<1>5. A >= 0 /\ A <= 99 /\ W = Z + A - q
  BY <1>0, <1>1, <1>3, SMT
<1>6. year >= 100 * A
  BY <1>0, <1>1, <1>3, <1>4, <1>5, SMT
<1>7. year < 100 * A + 100
  BY <1>0, <1>1, <1>3, <1>4, <1>5, SMT
<1>8. year \div 100 = A /\ year \div 400 = q
  BY <1>0, <1>1, <1>6, <1>7, SMT
<1>9. year >= 0 /\ year <= 9999
  BY <1>0, <1>5, <1>6, <1>7, SMT
<1>10. k = 365 * year + p
  BY <1>0, <1>2, SMT
<1>11. PICK d \in Int : d = W - k /\ d = W - 365 * year - p
  BY <1>0, <1>10, SMT
<1>12. d \in Int /\ d >= 1 /\ d <= 366
  BY <1>0, <1>2, <1>4, <1>11, SMT
<1>13. year = 9999 => d <= 306
  BY <1>0, <1>1, <1>2, <1>5, <1>8, <1>11, SMT
<1>14. ASSUME d = 366 PROVE LeapsInMarch(year)
  <2>1. s = 3
    BY <1>0, <1>2, <1>4, <1>11, <1>14, SMT
  <2>2. (year + 1) % 4 = 0
    BY <1>0, <1>2, <2>1, SMT
  <2>3. year = 100 * A + 99 => r = 3
    BY <1>0, <1>1, <1>2, <1>3, <1>5, <1>11, <1>14, SMT
  <2>4. (year + 1) % 100 = 0 => year = 100 * A + 99
    BY <1>0, <1>5, <1>6, <1>7, SMT
  <2>5. year = 100 * A + 99 /\ r = 3 => (year + 1) % 400 = 0
    BY <1>0, <1>1, SMT
  <2> QED BY <2>2, <2>3, <2>4, <2>5 DEF LeapsInMarch, IsLeap
<1>15. A \div 4 = q
  BY <1>1
<1>16. year \div 400 = A \div 4
  BY <1>8, <1>15
<1> QED BY <1>8, <1>9, <1>11, <1>12, <1>13, <1>14, <1>16, SMT DEF YearFacts

\* The years up to a year that have a leap day.
Leaps(y) == (y \div 4) - (y \div 100) + (y \div 400)

\* There is one more just in a leap year.
LEMMA LeapYears ==
  ASSUME NEW y \in Int, y >= 0
  PROVE  Leaps(y) = Leaps(y - 1) + (IF IsLeap(y) THEN 1 ELSE 0)
<1>1. (y \div 4) - ((y - 1) \div 4) = IF y % 4 = 0 THEN 1 ELSE 0
  BY SMT
<1>2. (y \div 100) - ((y - 1) \div 100) = IF y % 100 = 0 THEN 1 ELSE 0
  BY SMT
<1>3. (y \div 400) - ((y - 1) \div 400) = IF y % 400 = 0 THEN 1 ELSE 0
  BY SMT
<1>4. (y % 400 = 0 => y % 100 = 0) /\ (y % 100 = 0 => y % 4 = 0)
  BY SMT
<1> QED BY <1>1, <1>2, <1>3, <1>4, SMT DEF Leaps, IsLeap

\* The months of a year that begins in March, by its days.
LEMMA MonthsOfDays ==
  ASSUME NEW d \in Int, d >= 1, d <= 366, NEW month, month = MonthOf(d)
  PROVE
         \/ month = 3 /\ d > 0 /\ d <= 31
         \/ month = 4 /\ d > 31 /\ d <= 61
         \/ month = 5 /\ d > 61 /\ d <= 92
         \/ month = 6 /\ d > 92 /\ d <= 122
         \/ month = 7 /\ d > 122 /\ d <= 153
         \/ month = 8 /\ d > 153 /\ d <= 184
         \/ month = 9 /\ d > 184 /\ d <= 214
         \/ month = 10 /\ d > 214 /\ d <= 245
         \/ month = 11 /\ d > 245 /\ d <= 275
         \/ month = 12 /\ d > 275 /\ d <= 306
         \/ month = 13 /\ d > 306 /\ d <= 337
         \/ month = 14 /\ d > 337 /\ d <= 366
<1>1. d \in Word /\ 535 * d \in Word /\ 48950 \in Word /\ 535 * d + 48950 \in Word
  BY Words, SMT
<1>2. month = (535 * d + 48950) \div 16384
  <2>1. WordTimes(535, d) = 535 * d
    BY <1>1, WordProduct, SMT
  <2>2. WordPlus(535 * d, 48950) = 535 * d + 48950
    BY <1>1, WordSum
  <2> QED BY <1>1, <2>1, <2>2, WordQuotient, SMT DEF MonthOf
<1>3. month \in Int /\ 16384 * month <= 535 * d + 48950 /\ 535 * d + 48950 < 16384 * month + 16384
  BY <1>2, SMT
<1> QED BY <1>3, SMT

\* What rdn_to_ymd finds is a date of the calendar, that of the day.
RightDate(dates, rdn) ==
  \E y, m, d \in Nat :
    /\ y <= 9999 /\ m >= 1 /\ m <= 12 /\ d >= 1 /\ d <= MonthLength(y, m)
    /\ dates = {[y |-> y, m |-> m, d |-> d]}
    /\ DayNumber(y, m, d) = rdn

\* A date is found when the day stands in its month, counted from March, and the days
\* before the month are those since January.
LEMMA DateFound ==
  ASSUME NEW y \in Nat, y <= 9999, NEW m \in Nat, m >= 1, m <= 12,
         NEW d \in Nat, NEW offset \in Nat, DayOffset[m] = offset, NEW before \in Nat,
         DaysBefore[m] = before,
         d > offset, d - offset <= MonthLength(y, m), MonthLength(y, m) <= 31,
         NEW rdn, rdn = 365 * (y - 1) + Leaps(y - 1) + before + LeapDay(y, m) + (d - offset)
  PROVE  RightDate(CheckedDate(y, m, d), rdn)
<1>1. d - offset \in Nat /\ d - offset >= 1 /\ ~(d > 31 + offset)
  BY SMT DEF MonthLength, IsLeap
<1>2. CheckedDate(y, m, d) = {[y |-> y, m |-> m, d |-> d - offset]}
  BY <1>1, SMT DEF CheckedDate
<1>3. LeapDay(y, m) \in Int /\ (y - 1) \div 4 \in Int /\ (y - 1) \div 100 \in Int
      /\ (y - 1) \div 400 \in Int
  BY SMT DEF LeapDay
<1>4. DayNumber(y, m, d - offset) = rdn
  BY <1>1, <1>3, SMT DEF DayNumber, Leaps
<1> QED BY <1>1, <1>2, <1>4 DEF RightDate

\* Of March to December.
LEMMA DateOfYear ==
  ASSUME NEW year \in Nat, year <= 9999, NEW d \in Nat, d >= 1, d <= 306,
         NEW m, m = MonthOf(d)
  PROVE  m \in Nat /\ m <= 12 /\ RightDate(CheckedDate(year, m, d), MarchDay(year, d) - 306)
<1>1. Leaps(year - 1) \in Int /\ Leaps(year) \in Int
  BY SMT DEF Leaps
<1>2. ASSUME m \in Nat, m >= 3, m <= 12, NEW offset \in Nat, DayOffset[m] = offset,
             DaysBefore[m] = offset + 59, d > offset, d - offset <= MonthLength(year, m),
             MonthLength(year, m) <= 31
      PROVE  RightDate(CheckedDate(year, m, d), MarchDay(year, d) - 306)
  <2>1. LeapDay(year, m) = IF IsLeap(year) THEN 1 ELSE 0
    BY <1>2, SMT DEF LeapDay
  <2>2. MarchDay(year, d) - 306 =
          365 * (year - 1) + Leaps(year - 1) + (offset + 59) + LeapDay(year, m) + (d - offset)
    <3>1. PICK one \in Int : one = LeapDay(year, m)
      BY <2>1, SMT
    <3>2. Leaps(year) = Leaps(year - 1) + one
      BY <2>1, <3>1, LeapYears, SMT
    <3>3. MarchDay(year, d) = d + 365 * year + Leaps(year)
      BY SMT DEF MarchDay, Leaps
    <3> QED BY <1>1, <1>2, <3>1, <3>2, <3>3, SMT
  <2>3. offset + 59 \in Nat /\ m >= 1
    BY <1>2, SMT
  <2> QED BY <1>2, <2>2, <2>3, DateFound
<1>3. CASE m = 3 /\ d > 0 /\ d <= 31
  <2>1. DayOffset[m] = 0 /\ DaysBefore[m] = 59 /\ MonthLength(year, m) = 31
    BY <1>3, SMT DEF DayOffset, DaysBefore, MonthLength
  <2> QED BY <1>2, <1>3, <2>1, SMT
<1>4. CASE m = 4 /\ d > 31 /\ d <= 61
  <2>1. DayOffset[m] = 31 /\ DaysBefore[m] = 90 /\ MonthLength(year, m) = 30
    BY <1>4, SMT DEF DayOffset, DaysBefore, MonthLength
  <2> QED BY <1>2, <1>4, <2>1, SMT
<1>5. CASE m = 5 /\ d > 61 /\ d <= 92
  <2>1. DayOffset[m] = 61 /\ DaysBefore[m] = 120 /\ MonthLength(year, m) = 31
    BY <1>5, SMT DEF DayOffset, DaysBefore, MonthLength
  <2> QED BY <1>2, <1>5, <2>1, SMT
<1>6. CASE m = 6 /\ d > 92 /\ d <= 122
  <2>1. DayOffset[m] = 92 /\ DaysBefore[m] = 151 /\ MonthLength(year, m) = 30
    BY <1>6, SMT DEF DayOffset, DaysBefore, MonthLength
  <2> QED BY <1>2, <1>6, <2>1, SMT
<1>7. CASE m = 7 /\ d > 122 /\ d <= 153
  <2>1. DayOffset[m] = 122 /\ DaysBefore[m] = 181 /\ MonthLength(year, m) = 31
    BY <1>7, SMT DEF DayOffset, DaysBefore, MonthLength
  <2> QED BY <1>2, <1>7, <2>1, SMT
<1>8. CASE m = 8 /\ d > 153 /\ d <= 184
  <2>1. DayOffset[m] = 153 /\ DaysBefore[m] = 212 /\ MonthLength(year, m) = 31
    BY <1>8, SMT DEF DayOffset, DaysBefore, MonthLength
  <2> QED BY <1>2, <1>8, <2>1, SMT
<1>9. CASE m = 9 /\ d > 184 /\ d <= 214
  <2>1. DayOffset[m] = 184 /\ DaysBefore[m] = 243 /\ MonthLength(year, m) = 30
    BY <1>9, SMT DEF DayOffset, DaysBefore, MonthLength
  <2> QED BY <1>2, <1>9, <2>1, SMT
<1>10. CASE m = 10 /\ d > 214 /\ d <= 245
  <2>1. DayOffset[m] = 214 /\ DaysBefore[m] = 273 /\ MonthLength(year, m) = 31
    BY <1>10, SMT DEF DayOffset, DaysBefore, MonthLength
  <2> QED BY <1>2, <1>10, <2>1, SMT
<1>11. CASE m = 11 /\ d > 245 /\ d <= 275
  <2>1. DayOffset[m] = 245 /\ DaysBefore[m] = 304 /\ MonthLength(year, m) = 30
    BY <1>11, SMT DEF DayOffset, DaysBefore, MonthLength
  <2> QED BY <1>2, <1>11, <2>1, SMT
<1>12. CASE m = 12 /\ d > 275 /\ d <= 306
  <2>1. DayOffset[m] = 275 /\ DaysBefore[m] = 334 /\ MonthLength(year, m) = 31
    BY <1>12, SMT DEF DayOffset, DaysBefore, MonthLength
  <2> QED BY <1>2, <1>12, <2>1, SMT
<1>13. \/ m = 3 /\ d > 0 /\ d <= 31
       \/ m = 4 /\ d > 31 /\ d <= 61
       \/ m = 5 /\ d > 61 /\ d <= 92
       \/ m = 6 /\ d > 92 /\ d <= 122
       \/ m = 7 /\ d > 122 /\ d <= 153
       \/ m = 8 /\ d > 153 /\ d <= 184
       \/ m = 9 /\ d > 184 /\ d <= 214
       \/ m = 10 /\ d > 214 /\ d <= 245
       \/ m = 11 /\ d > 245 /\ d <= 275
       \/ m = 12 /\ d > 275 /\ d <= 306
  BY MonthsOfDays, SMT
<1> QED BY <1>3, <1>4, <1>5, <1>6, <1>7, <1>8, <1>9, <1>10, <1>11, <1>12, <1>13, SMT

\* Of January and February.
LEMMA DateOfNextYear ==
  ASSUME NEW year \in Nat, year < 9999, NEW d \in Nat, d > 306, d <= 366,
         d = 366 => LeapsInMarch(year), NEW m, m = MonthOf(d)
  PROVE  m \in Nat /\ m > 12 /\ RightDate(CheckedDate(year + 1, m - 12, d), MarchDay(year, d) - 306)
<1>1. Leaps(year) \in Int /\ MarchDay(year, d) = d + 365 * year + Leaps(year)
  BY SMT DEF Leaps, MarchDay
<1>2. year + 1 \in Nat /\ year + 1 <= 9999 /\ (year + 1) - 1 = year
  BY SMT
<1>3. \/ m = 13 /\ d > 306 /\ d <= 337
      \/ m = 14 /\ d > 337 /\ d <= 366
  BY MonthsOfDays, SMT
<1>4. CASE m = 13 /\ d > 306 /\ d <= 337
  <2>1. m - 12 = 1
    BY <1>4, SMT
  <2>2. DayOffset[1] = 306 /\ DaysBefore[1] = 0 /\ MonthLength(year + 1, 1) = 31
        /\ LeapDay(year + 1, 1) = 0
    BY SMT DEF DayOffset, DaysBefore, MonthLength, LeapDay
  <2>3. RightDate(CheckedDate(year + 1, 1, d),
                  365 * ((year + 1) - 1) + Leaps((year + 1) - 1) + 0 + LeapDay(year + 1, 1) + (d - 306))
    BY <1>2, <1>4, <2>2, DateFound, SMT
  <2>4. 365 * ((year + 1) - 1) + Leaps((year + 1) - 1) + 0 + LeapDay(year + 1, 1) + (d - 306)
          = MarchDay(year, d) - 306
    BY <1>1, <1>2, <2>2, SMT
  <2> QED BY <1>4, <2>1, <2>3, <2>4, SMT
<1>5. CASE m = 14 /\ d > 337 /\ d <= 366
  <2>1. m - 12 = 2
    BY <1>5, SMT
  <2>2. DayOffset[2] = 337 /\ DaysBefore[2] = 31 /\ LeapDay(year + 1, 2) = 0
    BY SMT DEF DayOffset, DaysBefore, LeapDay
  <2>3. MonthLength(year + 1, 2) = IF LeapsInMarch(year) THEN 29 ELSE 28
    BY SMT DEF MonthLength, LeapsInMarch
  <2>4. d - 337 <= MonthLength(year + 1, 2) /\ MonthLength(year + 1, 2) <= 31
    BY <1>5, <2>3, SMT
  <2>5. RightDate(CheckedDate(year + 1, 2, d),
                  365 * ((year + 1) - 1) + Leaps((year + 1) - 1) + 31 + LeapDay(year + 1, 2) + (d - 337))
    BY <1>2, <1>5, <2>2, <2>4, DateFound, SMT
  <2>6. 365 * ((year + 1) - 1) + Leaps((year + 1) - 1) + 31 + LeapDay(year + 1, 2) + (d - 337)
          = MarchDay(year, d) - 306
    BY <1>1, <1>2, <2>2, SMT
  <2> QED BY <1>5, <2>1, <2>5, <2>6, SMT
<1> QED BY <1>3, <1>4, <1>5

\* Days with a date have one.
LEMMA RightDates == ASSUME NEW dates, NEW rdn, RightDate(dates, rdn) PROVE dates # {}
<1>1. PICK y \in Nat, m \in Nat, d \in Nat : dates = {[y |-> y, m |-> m, d |-> d]}
  BY SMT DEF RightDate
<1> QED BY <1>1

\* From the last of February of the year 0 on, rdn_to_ymd finds the date of the day.
LEMMA DaysFromMarch ==
  ASSUME NEW rdn \in Int, rdn >= -305, rdn <= 3652059
  PROVE  RightDate(rdn_to_ymd(rdn), rdn)
<1>1. PICK Z \in Int : Z = rdn + 306
  BY SMT
<1>2. Z >= 1 /\ Z <= 3652365
  BY <1>1, SMT
<1>3. WordPlus(rdn, 306) = Z
  <2>1. rdn \in Word /\ 306 \in Word /\ rdn + 306 \in Word
    BY Words, SMT
  <2> QED BY <2>1, <1>1, WordSum, SMT
<1>4. Hundredths(Z) = 100 * Z - 25
  <2>1. Z \in Word /\ 100 * Z \in Word /\ -25 \in Word /\ 100 * Z + (-25) \in Word
    BY <1>2, Words, SMT
  <2>2. WordTimes(100, Z) = 100 * Z
    BY <1>2, <2>1, WordProduct, SMT
  <2>3. WordPlus(100 * Z, -25) = 100 * Z + (-25)
    BY <2>1, WordSum, SMT
  <2> QED BY <2>2, <2>3, SMT DEF Hundredths
<1>5. PICK H \in Int : H = 100 * Z - 25
  BY SMT
<1>6. H \in Word /\ H >= 0
  BY <1>2, <1>5, Words, SMT
<1>7. PICK A \in Int : A = H \div 3652425
  BY SMT
<1>8. A >= 0 /\ A <= 99
  BY <1>2, <1>5, <1>7, SMT
<1>9. PICK B \in Int : B = A - (A \div 4)
  BY SMT
<1>10. B >= 0 /\ B <= 99
  BY <1>8, <1>9, SMT
<1>11. CenturyDays(Z) = B
  <2>1. WordOver(H, 3652425) = A
    BY <1>6, <1>7, WordQuotient, SMT
  <2> QED BY <1>4, <1>5, <1>9, <2>1, SMT DEF CenturyDays, Centuries
<1>12. PICK W \in Int : W = Z + B
  BY SMT
<1>13. PICK year \in Int : year = (100 * W - 25) \div 36525
  BY SMT
<1>14. MarchYear(Z) = year
  <2>1. PICK days \in Int : days = 100 * B
    BY SMT
  <2>2. days \in Word /\ days + H \in Word /\ days + H >= 0 /\ days + H = 100 * W - 25
    BY <1>2, <1>5, <1>10, <1>12, <2>1, Words, SMT
  <2>3. WordPlus(days, H) = days + H
    BY <1>6, <2>2, WordSum, SMT
  <2>4. WordOver(days + H, 36525) = (days + H) \div 36525
    BY <2>2, WordQuotient, SMT
  <2> QED BY <1>4, <1>5, <1>11, <1>13, <2>1, <2>2, <2>3, <2>4, SMT DEF MarchYear
<1>15. PICK k \in Int : k = (1461 * year) \div 4
  BY SMT
<1>16. /\ year >= 0 /\ year <= 9999
       /\ year \div 100 = A /\ year \div 400 = A \div 4
       /\ W - k >= 1
       /\ W - k <= 366
       /\ year = 9999 => W - k <= 306
       /\ W - k = 366 => LeapsInMarch(year)
  <2>1. W = Z + A - (A \div 4)
    BY <1>9, <1>12, SMT
  <2>2. IsYearOf(Z, A, W, year)
    BY <1>2, <1>5, <1>7, <1>13, <2>1, SMT DEF IsYearOf
  <2>3. YearFacts(year, A, W - k)
    BY <1>15, <2>2, YearAndCentury
  <2> QED BY <2>3, SMT DEF YearFacts
<1>17. PICK d \in Int : d = W - k
  BY SMT
<1>18. DayOfYear(Z) = d
  <2>1. Z \in Word /\ B \in Word /\ W \in Word /\ -k \in Word /\ d \in Word
    BY <1>2, <1>10, <1>12, <1>15, <1>16, <1>17, Words, SMT
  <2>2. WordPlus(B, Z) = W
    BY <1>12, <2>1, WordSum, SMT
  <2>3. WordPlus(W, -k) = d
    BY <1>17, <2>1, WordSum, SMT
  <2> QED BY <1>11, <1>14, <1>15, <2>2, <2>3, SMT DEF DayOfYear
<1>19. MarchDay(year, d) - 306 = rdn
  <2>1. k = 365 * year + (year \div 4)
    BY <1>15, SMT
  <2> QED BY <1>1, <1>9, <1>12, <1>16, <1>17, <2>1, SMT DEF MarchDay
<1>20. year \in Nat /\ d \in Nat /\ year <= 9999 /\ d >= 1 /\ d <= 366
       /\ (d = 366 => LeapsInMarch(year)) /\ (year = 9999 => d <= 306)
  BY <1>16, <1>17, SMT
<1>21. PICK month : month = MonthOf(d)
  OBVIOUS
<1>22. rdn_to_ymd(rdn) = IF month > 12 THEN CheckedDate(year + 1, month - 12, d)
                         ELSE CheckedDate(year, month, d)
  BY <1>3, <1>14, <1>18, <1>21, SMT DEF rdn_to_ymd
<1>23. CASE d <= 306
  <2>1. month \in Nat /\ month <= 12 /\ RightDate(CheckedDate(year, month, d), MarchDay(year, d) - 306)
    BY <1>20, <1>21, <1>23, DateOfYear, SMT
  <2>2. ~(month > 12)
    BY <2>1, SMT
  <2> QED BY <1>19, <1>22, <2>1, <2>2, SMT
<1>24. CASE d > 306
  <2>1. year < 9999
    BY <1>20, <1>24, SMT
  <2>2. month > 12 /\ RightDate(CheckedDate(year + 1, month - 12, d), MarchDay(year, d) - 306)
    BY <1>20, <1>21, <1>24, <2>1, DateOfNextYear, SMT
  <2> QED BY <1>19, <1>22, <2>2, SMT
<1> QED BY <1>20, <1>23, <1>24, SMT

\* In the 882 days before, 100 * Z wraps around and a date is found, if a wrong one.
LEMMA DaysBeforeMarch ==
  ASSUME NEW rdn \in Int, rdn >= -1187, rdn <= -306
  PROVE  rdn_to_ymd(rdn) # {}
<1>1. PICK Z \in Int : Z = rdn + 306
  BY SMT
<1>2. Z >= -881 /\ Z <= 0
  BY <1>1, SMT
<1>3. WordPlus(rdn, 306) = Z
  <2>1. rdn \in Word /\ 306 \in Word /\ rdn + 306 \in Word
    BY Words, SMT
  <2> QED BY <2>1, <1>1, WordSum, SMT
<1>5. PICK H \in Int : H = 100 * Z - 25
  BY SMT
<1>4. Hundredths(Z) = H
  <2>1. Z \in Word /\ 100 * Z \in Word /\ -25 \in Word /\ 100 * Z + (-25) \in Word
    BY <1>2, Words, SMT
  <2>2. WordTimes(100, Z) = 100 * Z
    BY <1>2, <2>1, WordProduct, SMT
  <2>3. WordPlus(100 * Z, -25) = 100 * Z + (-25)
    BY <2>1, WordSum, SMT
  <2> QED BY <1>5, <2>2, <2>3, SMT DEF Hundredths
<1>6. H \in Word /\ H < 0
  BY <1>2, <1>5, Words, SMT
<1>7. CenturyDays(Z) = 882
  <2>1. WordOver(H, 3652425) = (H + TwoTo32) \div 3652425
    BY <1>6, WordQuotient, SMT
  <2>2. (H + TwoTo32) \div 3652425 = 1175
    BY <1>2, <1>5, WordBounds, SMT
  <2>3. 1175 - (1175 \div 4) = 882
    BY SMT
  <2> QED BY <1>4, <2>1, <2>2, <2>3, SMT DEF CenturyDays, Centuries
<1>8. PICK W \in Int : W = Z + 882
  BY SMT
<1>9. PICK year \in Int : year = (100 * W - 25) \div 36525
  BY SMT
<1>10. MarchYear(Z) = year
  <2>1. 100 * 882 = 88200
    BY SMT
  <2>2. 88200 \in Word /\ 88200 + H \in Word /\ 88200 + H >= 0 /\ 88200 + H = 100 * W - 25
    BY <1>2, <1>5, <1>8, Words, SMT
  <2>3. WordPlus(88200, H) = 88200 + H
    BY <1>6, <2>2, WordSum, SMT
  <2>4. WordOver(88200 + H, 36525) = (88200 + H) \div 36525
    BY <2>2, WordQuotient, SMT
  <2> QED BY <1>4, <1>7, <1>9, <2>1, <2>2, <2>3, <2>4, SMT DEF MarchYear
<1>11. PICK k \in Int : k = (1461 * year) \div 4
  BY SMT
<1>12. PICK d \in Int : d = W - k
  BY SMT
<1>13. year \in Nat /\ year <= 2 /\ d \in Nat /\ d >= 1 /\ d <= 365
  <2>1. W >= 1 /\ W <= 882
    BY <1>2, <1>8, SMT
  <2>2. \/ year = 0 /\ W <= 365
        \/ year = 1 /\ W > 365 /\ W <= 730
        \/ year = 2 /\ W > 730
    BY <1>9, <2>1, SMT
  <2> QED BY <1>11, <1>12, <2>1, <2>2, SMT
<1>14. DayOfYear(Z) = d
  <2>1. Z \in Word /\ 882 \in Word /\ W \in Word /\ -k \in Word /\ d \in Word
    BY <1>2, <1>8, <1>11, <1>12, <1>13, Words, SMT
  <2>2. WordPlus(882, Z) = W
    BY <1>8, <2>1, WordSum, SMT
  <2>3. WordPlus(W, -k) = d
    BY <1>12, <2>1, WordSum, SMT
  <2> QED BY <1>7, <1>10, <1>11, <2>2, <2>3, SMT DEF DayOfYear
<1>15. PICK month : month = MonthOf(d)
  OBVIOUS
<1>16. rdn_to_ymd(rdn) = IF month > 12 THEN CheckedDate(year + 1, month - 12, d)
                         ELSE CheckedDate(year, month, d)
  BY <1>3, <1>10, <1>14, <1>15, SMT DEF rdn_to_ymd
<1>17. year < 9999 /\ year <= 9999 /\ d # 366 /\ d <= 366
  BY <1>13, SMT
<1>18. CASE d <= 306
  <2>1. month \in Nat /\ month <= 12 /\ RightDate(CheckedDate(year, month, d), MarchDay(year, d) - 306)
    BY <1>13, <1>15, <1>17, <1>18, DateOfYear, SMT
  <2>2. ~(month > 12)
    BY <2>1, SMT
  <2> QED BY <1>16, <2>1, <2>2, RightDates
<1>19. CASE d > 306
  <2>1. month > 12 /\ RightDate(CheckedDate(year + 1, month - 12, d), MarchDay(year, d) - 306)
    BY <1>13, <1>15, <1>17, <1>19, DateOfNextYear, SMT
  <2> QED BY <1>16, <2>1, RightDates
<1> QED BY <1>13, <1>18, <1>19, SMT

\* The date of a month counted from the March of a year.
MonthsDate(year, month, d) ==
  IF month > 12 THEN CheckedDate(year + 1, month - 12, d) ELSE CheckedDate(year, month, d)
DateFacts(year, month, d) == year <= 9999 /\ d >= 0 /\ d <= 368 /\ (month > 12 => year < 9999)

\* Where a date is found: the year, and the day in it.
LEMMA DateBounds ==
  ASSUME NEW year \in Int, NEW month \in Int, month >= 0, NEW d \in Int,
         MonthsDate(year, month, d) # {}
  PROVE  DateFacts(year, month, d)
<1>1. PICK y \in Int, m \in Int :
        /\ y = IF month > 12 THEN year + 1 ELSE year
        /\ m = IF month > 12 THEN month - 12 ELSE month
  BY SMT
<1>2. MonthsDate(year, month, d) = CheckedDate(y, m, d)
  BY <1>1, SMT DEF MonthsDate
<1>3. y <= 9999 /\ m <= 12 /\ d >= 0 /\ ~(d > 31 + DayOffset[m])
  BY <1>2, SMT DEF CheckedDate
<1>4. m \in 0..12
  BY <1>1, <1>3, SMT
<1>5. DayOffset[m] \in 0..337
  BY <1>4, SMT DEF DayOffset
<1>6. d <= 368
  BY <1>3, <1>5, SMT
<1> QED BY <1>1, <1>3, <1>6, SMT DEF DateFacts

\* A quotient of words is no word below zero, and small.
LEMMA QuotientBounds ==
  ASSUME NEW a \in Word, NEW divisor \in {3652425, 36525, 16384}
  PROVE  /\ WordOver(a, divisor) \in Int
         /\ WordOver(a, divisor) >= 0
         /\ WordOver(a, divisor) <= 4294967296 \div divisor
<1>1. PICK n \in Int : n = IF a >= 0 THEN a ELSE a + TwoTo32
  BY Words, WordBounds, SMT
<1>2. n >= 0 /\ n <= 4294967296
  BY <1>1, Words, WordBounds, SMT
<1>3. a \in Int
  BY Words, SMT
<1>4. WordOver(a, divisor) = n \div divisor
  <2>1. CASE a >= 0
    BY <1>1, <2>1, WordQuotient, SMT
  <2>2. CASE a < 0
    <3>1. ~(a >= 0)
      BY <1>3, <2>2, SMT
    <3> QED BY <1>1, <2>2, <3>1, WordQuotient, SMT
  <2> QED BY <1>3, <2>1, <2>2, SMT
<1>5. n \div divisor \in Int /\ n \div divisor >= 0 /\ n \div divisor <= 4294967296 \div divisor
  <2>1. CASE divisor = 3652425
    BY <1>2, <2>1, SMT
  <2>2. CASE divisor = 36525
    BY <1>2, <2>2, SMT
  <2>3. CASE divisor = 16384
    BY <1>2, <2>3, SMT
  <2> QED BY <2>1, <2>2, <2>3, SMT
<1> QED BY <1>4, <1>5, SMT

\* No other day has a date.
LEMMA DaysWithDates ==
  ASSUME NEW rdn \in Word, rdn_to_ymd(rdn) # {}
  PROVE  rdn >= -1187 /\ rdn <= 3652059
<1>1. PICK Z \in Word : Z = WordPlus(rdn, 306)
  <2>1. 306 \in Word
    BY Words, SMT
  <2> QED BY <2>1, WordSum, SMT
<1>2. PICK H \in Word : H = Hundredths(Z)
  <2>1. WordTimes(100, Z) \in Word
    BY WordProduct, SMT
  <2>2. -25 \in Word
    BY Words, SMT
  <2>3. WordPlus(WordTimes(100, Z), -25) \in Word
    BY <2>1, <2>2, WordSum, SMT
  <2> QED BY <2>3, SMT DEF Hundredths
<1>3. PICK A \in Int : A = WordOver(H, 3652425) /\ A >= 0 /\ A <= 1175
  <2>1. 4294967296 \div 3652425 = 1175
    BY SMT
  <2> QED BY <2>1, QuotientBounds, SMT
<1>4. PICK B \in Int : B = A - (A \div 4) /\ B >= 0 /\ B <= 882
  BY <1>3, SMT
<1>5. CenturyDays(Z) = B
  BY <1>2, <1>3, <1>4, SMT DEF CenturyDays, Centuries
<1>6. PICK hundreds \in Word : hundreds = WordPlus(100 * B, H)
  <2>1. 100 * B \in Word
    BY <1>4, Words, SMT
  <2> QED BY <2>1, WordSum, SMT
<1>7. PICK year \in Int : year = WordOver(hundreds, 36525) /\ year >= 0 /\ year <= 117589
  <2>1. 4294967296 \div 36525 = 117589
    BY SMT
  <2> QED BY <2>1, QuotientBounds, SMT
<1>8. MarchYear(Z) = year
  BY <1>2, <1>5, <1>6, <1>7, SMT DEF MarchYear
<1>9. PICK k \in Int : k = (1461 * year) \div 4
  BY SMT
<1>10. -k \in Word /\ B \in Word /\ Z \in Int /\ rdn \in Int
  BY <1>4, <1>7, <1>9, Words, SMT
<1>11. PICK W \in Word : W = WordPlus(B, Z)
  <2>1. WordPlus(B, Z) \in Word
    BY <1>1, <1>10, WordSum
  <2> QED BY <2>1
<1>12. PICK d \in Word : d = WordPlus(W, -k)
  <2>1. WordPlus(W, -k) \in Word
    BY <1>10, <1>11, WordSum
  <2> QED BY <2>1
<1>13. DayOfYear(Z) = d /\ d \in Int /\ W \in Int
  BY <1>5, <1>8, <1>9, <1>11, <1>12, Words, SMT DEF DayOfYear
<1>14. PICK month \in Int : month = MonthOf(d) /\ month >= 0
  <2>1. 48950 \in Word
    BY Words, SMT
  <2>2. WordTimes(535, d) \in Word
    BY WordProduct, SMT
  <2>3. WordPlus(WordTimes(535, d), 48950) \in Word
    BY <2>1, <2>2, WordSum, SMT
  <2> QED BY <2>3, QuotientBounds, SMT DEF MonthOf
<1>15. rdn_to_ymd(rdn) = MonthsDate(year, month, d)
  BY <1>1, <1>8, <1>13, <1>14 DEF rdn_to_ymd, MonthsDate
<1>16. year <= 9999 /\ d >= 0 /\ d <= 368 /\ (month > 12 => year < 9999)
  <2>1. DateFacts(year, month, d)
    BY <1>13, <1>14, <1>15, DateBounds
  <2> QED BY <2>1, SMT DEF DateFacts
<1>17. k >= 0 /\ k <= 3652134
  BY <1>7, <1>9, <1>16, SMT
<1>18. Z = d + k - B /\ W = Z + B
  <2>1. \/ W = Z + B
        \/ W = Z + B - 4294967296
        \/ W = Z + B + 4294967296
    <3>1. W \in {B + Z, B + Z - TwoTo32, B + Z + TwoTo32}
      BY <1>10, <1>11, WordSum, SMT
    <3> QED BY <1>10, <3>1, WordBounds, SMT
  <2>2. \/ d = W - k
        \/ d = W - k - 4294967296
        \/ d = W - k + 4294967296
    <3>1. d \in {W + (-k), W + (-k) - TwoTo32, W + (-k) + TwoTo32}
      BY <1>10, <1>12, WordSum, SMT
    <3> QED BY <1>13, <3>1, WordBounds, SMT
  <2>3. /\ Z >= -2147483648 /\ Z <= 2147483647
        /\ W >= -2147483648 /\ W <= 2147483647
    BY <1>11, Words, SMT
  <2> QED BY <1>4, <1>10, <1>13, <1>16, <1>17, <2>1, <2>2, <2>3, SMT
<1>19. Z >= -882 /\ Z <= 3652502
  BY <1>4, <1>10, <1>13, <1>16, <1>17, <1>18, SMT
<1>20. rdn = Z - 306
  <2>1. 306 \in Word
    BY Words, SMT
  <2>2. Z \in {rdn + 306, rdn + 306 - TwoTo32, rdn + 306 + TwoTo32}
    BY <1>1, <2>1, WordSum, SMT
  <2>3. rdn >= -2147483648 /\ rdn <= 2147483647
    BY Words, SMT
  <2> QED BY <1>10, <1>19, <2>2, <2>3, WordBounds, SMT
<1>21. H = 100 * Z - 25
  <2>1. 100 * Z \in Word /\ -25 \in Word /\ 100 * Z + (-25) \in Word
    BY <1>10, <1>19, Words, SMT
  <2>2. WordTimes(100, Z) = 100 * Z
    BY <1>1, <1>10, <1>19, WordProduct, SMT
  <2>3. WordPlus(100 * Z, -25) = 100 * Z + (-25)
    BY <2>1, WordSum, SMT
  <2> QED BY <1>2, <1>10, <2>2, <2>3, SMT DEF Hundredths
<1>22. hundreds = 100 * W - 25
  <2>1. PICK days \in Int : days = 100 * B
    BY SMT
  <2>2. days \in Word /\ days + H \in Word /\ days + H = 100 * W - 25
    BY <1>4, <1>10, <1>13, <1>18, <1>19, <1>21, <2>1, Words, SMT
  <2>3. WordPlus(days, H) = days + H
    BY <1>2, <2>2, WordSum
  <2> QED BY <1>6, <2>1, <2>2, <2>3
<1>23. Z # -882
  <2> SUFFICES ASSUME Z = -882 PROVE FALSE
    OBVIOUS
  <2>1. H = -88225 /\ H < 0
    BY <1>21, SMT
  <2>2. A = (H + TwoTo32) \div 3652425
    BY <1>3, <2>1, WordQuotient, SMT
  <2>3. A = 1175
    BY <2>1, <2>2, WordBounds, SMT
  <2>4. B = 882
    BY <1>4, <2>3, SMT
  <2>5. hundreds = -25 /\ hundreds < 0
    BY <1>18, <1>22, <2>4, SMT
  <2>6. year = (hundreds + TwoTo32) \div 36525
    BY <1>7, <2>5, WordQuotient, SMT
  <2> QED BY <1>16, <2>5, <2>6, WordBounds, SMT
<1>24. Z <= 3652365
  <2> SUFFICES ASSUME Z > 3652365 PROVE FALSE
    BY <1>10, SMT
  <2>1. H >= 0
    BY <1>10, <1>21, SMT
  <2>2. A = H \div 3652425
    BY <1>3, <2>1, WordQuotient, SMT
  <2>3. A = 99 \/ A = 100
    BY <1>10, <1>19, <1>21, <2>2, SMT
  <2>4. B = 75
    BY <1>4, <2>3, SMT
  <2>5. W >= 3652441 /\ W <= 3652577 /\ hundreds >= 0
    BY <1>10, <1>13, <1>18, <1>19, <1>22, <2>4, SMT
  <2>6. year = (100 * W - 25) \div 36525
    BY <1>7, <1>22, <2>5, WordQuotient, SMT
  <2>7. year = 9999 /\ W <= 3652500
    BY <1>13, <1>16, <2>5, <2>6, SMT
  <2>8. k = 3652134
    BY <1>9, <2>7, SMT
  <2>9. d >= 307 /\ d <= 366
    BY <1>10, <1>13, <1>18, <2>5, <2>7, <2>8, SMT
  <2>10. month > 12
    BY <1>13, <1>14, <2>9, MonthsOfDays, SMT
  <2> QED BY <1>16, <2>7, <2>10, SMT
<1> QED BY <1>10, <1>19, <1>20, <1>23, <1>24, SMT

\* The second of a day, and the days that have a date, a right one in the years 0 to
\* 9999.
IsSecond(v) == v \in Int /\ v >= 0 /\ v <= 86399
HasDate(rdn) == rdn \in Int /\ rdn >= -1187 /\ rdn <= 3652059
HasRightDate(rdn) == rdn \in Int /\ rdn >= -305 /\ rdn <= 3652059

\* The number of the day that rfc3339_format converts, and the second in it.
LEMMA DayAndSecond ==
  ASSUME NEW time, IsTime(time)
  PROVE  /\ Rdn(time) \in Word
         /\ IsSecond(SecondOfDay(time))
<1>1. /\ time.day \in Word /\ time.second \in Int
      /\ time.second >= 0 /\ time.second <= 86399
  <2>1. /\ time.day \in Int /\ time.day >= MinWord /\ time.day <= MaxWord
        /\ time.second \in Int /\ time.second >= 0 /\ time.second < 86400
    BY SMT DEF IsTime
  <2>2. time.day \in Word
    BY <2>1, WordBounds, Words, SMT
  <2> QED BY <2>1, <2>2, SMT
<1>2. EPOCH_DAYS \in Word
  BY Words, SMT DEF EPOCH_DAYS
<1>3. PICK days \in Word : days = WordPlus(time.day, EPOCH_DAYS)
  BY <1>1, <1>2, WordSum, SMT
<1>4. PICK carry \in Int : carry = (time.second + WrapSeconds) \div 86400
  BY <1>1, SMT DEF WrapSeconds
<1>5. carry >= 0 /\ carry <= 1
  BY <1>1, <1>4, SMT DEF WrapSeconds
<1>6. WrapDays + carry \in Word
  BY <1>5, Words, SMT DEF WrapDays
<1>7. WordPlus(days, WrapDays + carry) \in Word
  BY <1>6, WordSum, SMT
<1>8. Rdn(time) \in Word
  BY <1>3, <1>4, <1>7, SMT DEF Rdn
<1>9. PICK v : v = SecondOfDay(time)
  OBVIOUS
<1>10. v \in Int /\ v >= 0 /\ v <= 86399
  <2>1. v = (time.second + 25216) % 86400 \/ v = time.second
    BY <1>9, SMT DEF SecondOfDay, WrapSeconds
  <2> QED BY <1>1, <2>1, SMT
<1>11. IsSecond(v)
  BY <1>10 DEF IsSecond
<1> QED BY <1>8, <1>9, <1>11, Zenon

\* A date is found just on the days that have one.
LEMMA DatesOfDays == \A rdn \in Word : rdn_to_ymd(rdn) # {} <=> HasDate(rdn)
<1> SUFFICES ASSUME NEW rdn \in Word PROVE rdn_to_ymd(rdn) # {} <=> HasDate(rdn)
  OBVIOUS
<1>1. rdn \in Int
  BY Words
<1>2. rdn_to_ymd(rdn) # {} => HasDate(rdn)
  BY <1>1, DaysWithDates, SMT DEF HasDate
<1>3. ASSUME rdn >= -305, rdn <= 3652059 PROVE rdn_to_ymd(rdn) # {}
  <2>1. RightDate(rdn_to_ymd(rdn), rdn)
    BY <1>1, <1>3, DaysFromMarch, SMT
  <2> QED BY <2>1, RightDates
<1>4. ASSUME rdn >= -1187, rdn <= -306 PROVE rdn_to_ymd(rdn) # {}
  BY <1>1, <1>4, DaysBeforeMarch, SMT
<1> QED BY <1>1, <1>2, <1>3, <1>4, SMT DEF HasDate

-----------------------------------------------------------------------------
(* The text of a time. *)

\* Digits in a row.
LEMMA ValuesOfDigits ==
  ASSUME NEW codes \in Seq(Int), NEW from \in Nat \ {0}, NEW k \in {1, 3}, from + k <= Len(codes)
  PROVE  Value(SubSeq(codes, from, from + k)) =
           IF k = 1 THEN (codes[from] - ZERO) * 10 + (codes[from + 1] - ZERO)
           ELSE ((codes[from] - ZERO) * 10 + (codes[from + 1] - ZERO)) * 100 +
                ((codes[from + 2] - ZERO) * 10 + (codes[from + 3] - ZERO))
<1> DEFINE digits == SubSeq(codes, from, from + k)
           F == CHOOSE f : AreValues(f, digits, k + 1)
<1>0. k + 1 \in Nat
  OBVIOUS
<1>1. Len(digits) = k + 1 /\ \A i \in 1..(k + 1) : digits[i] = codes[from + i - 1]
  BY SubSeqProperties
<1>2. AreValues(F, digits, k + 1)
  BY <1>0, ValuesExist
<1>3. Value(digits) = F[k + 1]
  BY <1>1 DEF Value, AreValues
<1> HIDE DEF F
<1>4. /\ F[0] = 0
      /\ \A n \in 1..(k + 1) : F[n] = F[n - 1] * 10 + (digits[n] - ZERO)
  BY <1>2 DEF AreValues
<1>5. \A i \in 0..k : codes[from + i] \in Int /\ digits[i + 1] = codes[from + i]
  BY <1>1
<1> HIDE DEF digits
<1>6. \A i \in 0..k : F[i + 1] = F[i] * 10 + (codes[from + i] - ZERO)
  BY <1>4, <1>5
<1>7. /\ codes[from] \in Int /\ F[1] = F[0] * 10 + (codes[from] - ZERO)
      /\ codes[from + 1] \in Int /\ F[2] = F[1] * 10 + (codes[from + 1] - ZERO)
  <2>1. 0 \in 0..k /\ 1 \in 0..k /\ from + 0 = from /\ 0 + 1 = 1 /\ 1 + 1 = 2
    OBVIOUS
  <2>2. /\ codes[from + 0] \in Int /\ F[0 + 1] = F[0] * 10 + (codes[from + 0] - ZERO)
        /\ codes[from + 1] \in Int /\ F[1 + 1] = F[1] * 10 + (codes[from + 1] - ZERO)
    BY <1>5, <1>6, <2>1, Zenon
  <2> QED BY <2>1, <2>2, Zenon
<1>8. PICK first \in Int, second \in Int :
        /\ first = codes[from] - ZERO /\ second = codes[from + 1] - ZERO
        /\ F[2] = first * 10 + second
  <2>1. codes[from] - ZERO \in Int /\ codes[from + 1] - ZERO \in Int
    BY <1>7, SMT DEF ZERO
  <2>2. PICK first \in Int, second \in Int : first = codes[from] - ZERO /\ second = codes[from + 1] - ZERO
    BY <2>1, Zenon
  <2>3. F[1] = first
    BY <1>4, <1>7, <2>2, SMT
  <2>4. F[2] = first * 10 + second
    BY <1>7, <2>2, <2>3, Zenon
  <2> QED BY <2>2, <2>4, Zenon
<1>9. CASE k = 1
  BY <1>3, <1>8, <1>9 DEF digits
<1>10. CASE k = 3
  <2>1. 2 \in 0..k /\ 3 \in 0..k /\ 2 + 1 = 3 /\ 3 + 1 = 4
    BY <1>10
  <2>2. /\ codes[from + 2] \in Int /\ F[2 + 1] = F[2] * 10 + (codes[from + 2] - ZERO)
        /\ codes[from + 3] \in Int /\ F[3 + 1] = F[3] * 10 + (codes[from + 3] - ZERO)
    BY <1>5, <1>6, <2>1, Zenon
  <2>3. codes[from + 2] - ZERO \in Int /\ codes[from + 3] - ZERO \in Int
    <3>1. \A code \in Int : code - ZERO \in Int
      BY SMT DEF ZERO
    <3> QED BY <2>2, <3>1, Zenon
  <2>4. PICK third \in Int, fourth \in Int :
          third = codes[from + 2] - ZERO /\ fourth = codes[from + 3] - ZERO
    BY <2>3, Zenon
  <2>5. F[4] = ((first * 10 + second) * 10 + third) * 10 + fourth
    BY <1>8, <2>1, <2>2, <2>4, Zenon
  <2>6. F[4] = (first * 10 + second) * 100 + (third * 10 + fourth)
    BY <2>5, SMT
  <2> QED BY <1>3, <1>8, <1>10, <2>4, <2>6 DEF digits
<1> QED BY <1>9, <1>10

\* A text behind another.
IsJoined(t, s, a, p, b) ==
  /\ t \in Seq(Int) /\ Len(t) = a + b
  /\ \A i \in 1..a : t[i] = s[i]
  /\ \A i \in 1..b : t[a + i] = p[i]
LEMMA Joined ==
  ASSUME NEW s \in Seq(Int), NEW a \in Nat, Len(s) = a, NEW p \in Seq(Int), NEW b \in Nat, Len(p) = b
  PROVE  IsJoined(s \o p, s, a, p, b)
<1> DEFINE t == s \o p
<1>1. t \in Seq(Int) /\ Len(t) = a + b
  BY ConcatProperties
<1>2. ASSUME NEW i \in 1..a PROVE t[i] = s[i]
  BY ConcatProperties
<1>3. ASSUME NEW i \in 1..b PROVE t[a + i] = p[i]
  <2>1. PICK j \in Nat : j = a + i
    OBVIOUS
  <2>2. j \in 1..(Len(s) + Len(p)) /\ ~(j <= Len(s)) /\ j - Len(s) = i
    BY <2>1
  <2>3. t[j] = IF j <= Len(s) THEN s[j] ELSE p[j - Len(s)]
    BY <2>2, ConcatProperties
  <2> QED BY <2>1, <2>2, <2>3
<1> QED BY <1>1, <1>2, <1>3 DEF IsJoined

\* The text of a time, piece by piece.
ArePieces(codes, century, year, month, day, clock) ==
  /\ codes \in Seq(Int) /\ Len(codes) = 19
  /\ codes[1] = century[1] /\ codes[2] = century[2] /\ codes[3] = year[1] /\ codes[4] = year[2]
  /\ codes[6] = month[1] /\ codes[7] = month[2] /\ codes[9] = day[1] /\ codes[10] = day[2]
  /\ \A i \in 1..8 : codes[11 + i] = clock[i]
IsCodes(codes, length) == codes \in Seq(Int) /\ Len(codes) = length
LEMMA PiecesOfTime ==
  ASSUME NEW century, IsCodes(century, 2), NEW year, IsCodes(year, 2),
         NEW month, IsCodes(month, 2), NEW day, IsCodes(day, 2), NEW clock, IsCodes(clock, 8)
  PROVE  ArePieces(century \o year \o <<DASH>> \o month \o <<DASH>> \o day \o <<SPACE>> \o clock,
                   century, year, month, day, clock)
<1>0. /\ century \in Seq(Int) /\ Len(century) = 2 /\ year \in Seq(Int) /\ Len(year) = 2
      /\ month \in Seq(Int) /\ Len(month) = 2 /\ day \in Seq(Int) /\ Len(day) = 2
      /\ clock \in Seq(Int) /\ Len(clock) = 8
  BY DEF IsCodes
<1>1. /\ <<DASH>> \in Seq(Int) /\ Len(<<DASH>>) = 1
      /\ <<SPACE>> \in Seq(Int) /\ Len(<<SPACE>>) = 1
  <2>1. DASH \in Int /\ SPACE \in Int
    BY DEF DASH, SPACE
  <2> QED BY <2>1
<1>2. PICK s2 : s2 = century \o year
  OBVIOUS
<1>3. /\ s2 \in Seq(Int) /\ Len(s2) = 4
      /\ \A i \in 1..2 : s2[i] = century[i]
      /\ \A i \in 1..2 : s2[2 + i] = year[i]
  <2>1. IsJoined(s2, century, 2, year, 2)
    BY <1>2, <1>0, <1>1, Joined
  <2> QED BY <2>1 DEF IsJoined
<1>4. PICK s3 : s3 = s2 \o <<DASH>>
  OBVIOUS
<1>5. /\ s3 \in Seq(Int) /\ Len(s3) = 5
      /\ \A i \in 1..4 : s3[i] = s2[i]
      /\ \A i \in 1..1 : s3[4 + i] = <<DASH>>[i]
  <2>1. IsJoined(s3, s2, 4, <<DASH>>, 1)
    BY <1>4, <1>3, <1>0, <1>1, Joined
  <2> QED BY <2>1 DEF IsJoined
<1>6. PICK s4 : s4 = s3 \o month
  OBVIOUS
<1>7. /\ s4 \in Seq(Int) /\ Len(s4) = 7
      /\ \A i \in 1..5 : s4[i] = s3[i]
      /\ \A i \in 1..2 : s4[5 + i] = month[i]
  <2>1. IsJoined(s4, s3, 5, month, 2)
    BY <1>6, <1>5, <1>0, <1>1, Joined
  <2> QED BY <2>1 DEF IsJoined
<1>8. PICK s5 : s5 = s4 \o <<DASH>>
  OBVIOUS
<1>9. /\ s5 \in Seq(Int) /\ Len(s5) = 8
      /\ \A i \in 1..7 : s5[i] = s4[i]
      /\ \A i \in 1..1 : s5[7 + i] = <<DASH>>[i]
  <2>1. IsJoined(s5, s4, 7, <<DASH>>, 1)
    BY <1>8, <1>7, <1>0, <1>1, Joined
  <2> QED BY <2>1 DEF IsJoined
<1>10. PICK s6 : s6 = s5 \o day
  OBVIOUS
<1>11. /\ s6 \in Seq(Int) /\ Len(s6) = 10
       /\ \A i \in 1..8 : s6[i] = s5[i]
       /\ \A i \in 1..2 : s6[8 + i] = day[i]
  <2>1. IsJoined(s6, s5, 8, day, 2)
    BY <1>10, <1>9, <1>0, <1>1, Joined
  <2> QED BY <2>1 DEF IsJoined
<1>12. PICK s7 : s7 = s6 \o <<SPACE>>
  OBVIOUS
<1>13. /\ s7 \in Seq(Int) /\ Len(s7) = 11
       /\ \A i \in 1..10 : s7[i] = s6[i]
       /\ \A i \in 1..1 : s7[10 + i] = <<SPACE>>[i]
  <2>1. IsJoined(s7, s6, 10, <<SPACE>>, 1)
    BY <1>12, <1>11, <1>0, <1>1, Joined
  <2> QED BY <2>1 DEF IsJoined
<1>14. PICK whole : whole = s7 \o clock
  OBVIOUS
<1>15. /\ whole \in Seq(Int) /\ Len(whole) = 19
       /\ \A i \in 1..11 : whole[i] = s7[i]
       /\ \A i \in 1..8 : whole[11 + i] = clock[i]
  <2>1. IsJoined(whole, s7, 11, clock, 8)
    BY <1>14, <1>13, <1>0, <1>1, Joined
  <2> QED BY <2>1 DEF IsJoined
<1>16. century \o year \o <<DASH>> \o month \o <<DASH>> \o day \o <<SPACE>> \o clock = whole
  BY <1>2, <1>4, <1>6, <1>8, <1>10, <1>12, <1>14
<1>17. s2[1] = century[1] /\ s2[2] = century[2] /\ s2[2 + 1] = year[1] /\ s2[2 + 2] = year[2]
  BY <1>3
<1>18. s4[5 + 1] = month[1] /\ s4[5 + 2] = month[2] /\ \A i \in 1..4 : s4[i] = s2[i]
  BY <1>5, <1>7
<1>19. s6[8 + 1] = day[1] /\ s6[8 + 2] = day[2] /\ \A i \in 1..7 : s6[i] = s4[i]
  BY <1>9, <1>11
<1>20. \A i \in 1..10 : whole[i] = s6[i]
  <2>1. \A i \in 1..10 : i \in 1..11
    OBVIOUS
  <2>2. (\A i \in 1..10 : s7[i] = s6[i]) /\ (\A i \in 1..11 : whole[i] = s7[i])
    BY <1>13, <1>15
  <2> QED BY <2>1, <2>2, Zenon
<1>21. /\ whole[1] = century[1] /\ whole[2] = century[2] /\ whole[3] = year[1] /\ whole[4] = year[2]
  BY <1>17, <1>18, <1>19, <1>20
<1>22. whole[6] = month[1] /\ whole[7] = month[2]
  BY <1>18, <1>19, <1>20
<1>23. whole[9] = day[1] /\ whole[10] = day[2]
  BY <1>19, <1>20
<1>24. whole \in Seq(Int) /\ Len(whole) = 19 /\ \A i \in 1..8 : whole[11 + i] = clock[i]
  BY <1>15
<1> QED BY <1>16, <1>21, <1>22, <1>23, <1>24, Zenon DEF ArePieces

\* Two digits are the number but for its hundreds.
LEMMA TwoDigitsRead ==
  ASSUME NEW n \in Nat
  PROVE  /\ TwoDigits(n) \in Seq(Int) /\ Len(TwoDigits(n)) = 2
         /\ (TwoDigits(n)[1] - ZERO) * 10 + (TwoDigits(n)[2] - ZERO) = n % 100
<1> DEFINE tens == ZERO + ((n \div 10) % 10)
           ones == ZERO + ((n \div 1) % 10)
<1>1. tens \in Int /\ ones \in Int /\ (tens - ZERO) * 10 + (ones - ZERO) = n % 100
  BY SMT DEF ZERO
<1>2. TwoDigits(n) = <<tens, ones>>
  BY DEF TwoDigits, Digit
<1> HIDE DEF tens, ones
<1> QED BY <1>1, <1>2

\* The clock reads as the second of the day.
Clock(v) == <<Digit(v, 36000, 10), Digit(v, 3600, 10), COLON, Digit(v, 600, 6), Digit(v, 60, 10),
              COLON, Digit(v, 10, 6), Digit(v, 1, 10)>>
LEMMA ClockRead ==
  ASSUME NEW v, IsSecond(v),
         NEW h, NEW m, NEW s,
         h = (Clock(v)[1] - ZERO) * 10 + (Clock(v)[2] - ZERO),
         m = (Clock(v)[4] - ZERO) * 10 + (Clock(v)[5] - ZERO),
         s = (Clock(v)[7] - ZERO) * 10 + (Clock(v)[8] - ZERO)
  PROVE  /\ Clock(v) \in Seq(Int) /\ Len(Clock(v)) = 8
         /\ h * 3600 + m * 60 + s = v /\ m < 60 /\ s < 60
<1> DEFINE h1 == (v \div 36000) % 10
           h2 == (v \div 3600) % 10
           m1 == (v \div 600) % 6
           m2 == (v \div 60) % 10
           s1 == (v \div 10) % 6
           s2 == (v \div 1) % 10
<1>0. v \in Int /\ v >= 0 /\ v <= 86399
  BY DEF IsSecond
<1>1. h1 \in Int /\ h2 \in Int /\ h1 * 10 + h2 = v \div 3600
  BY <1>0, SMT
<1>2. m1 \in Int /\ m2 \in Int /\ m1 * 10 + m2 = (v \div 60) % 60
  BY <1>0, SMT
<1>3. s1 \in Int /\ s2 \in Int /\ s1 * 10 + s2 = v % 60
  BY <1>0, SMT
<1>4. Clock(v) = <<ZERO + h1, ZERO + h2, COLON, ZERO + m1, ZERO + m2, COLON, ZERO + s1, ZERO + s2>>
  BY DEF Clock, Digit
<1> HIDE DEF h1, h2, m1, m2, s1, s2
<1>5. /\ Clock(v)[1] = ZERO + h1 /\ Clock(v)[2] = ZERO + h2
      /\ Clock(v)[4] = ZERO + m1 /\ Clock(v)[5] = ZERO + m2
      /\ Clock(v)[7] = ZERO + s1 /\ Clock(v)[8] = ZERO + s2
  BY <1>4
<1>6. h = v \div 3600 /\ m = (v \div 60) % 60 /\ s = v % 60
  BY <1>1, <1>2, <1>3, <1>5, SMT DEF ZERO
<1>7. h * 3600 + m * 60 + s = v /\ m < 60 /\ s < 60
  BY <1>0, <1>6, SMT
<1>8. /\ ZERO + h1 \in Int /\ ZERO + h2 \in Int /\ ZERO + m1 \in Int /\ ZERO + m2 \in Int
      /\ ZERO + s1 \in Int /\ ZERO + s2 \in Int /\ COLON \in Int
  BY <1>1, <1>2, <1>3, SMT DEF ZERO, COLON
<1>9. Clock(v) \in Seq(Int) /\ Len(Clock(v)) = 8
  BY <1>4, <1>8
<1> QED BY <1>7, <1>9

\* A text reads as a date and a second of the day.
Piece(codes, from, to) == Value(SubSeq(codes, from, to))
ReadsAsTime(codes, y, m, d, v) ==
  /\ Piece(codes, 1, 4) = y /\ Piece(codes, 6, 7) = m /\ Piece(codes, 9, 10) = d
  /\ Piece(codes, 12, 13) * 3600 + Piece(codes, 15, 16) * 60 + Piece(codes, 18, 19) = v
  /\ Piece(codes, 15, 16) < 60 /\ Piece(codes, 18, 19) < 60

\* The text that rfc3339_format writes of a date and a second.
DateText(y, m, d, v) ==
  TwoDigits(y \div 100) \o TwoDigits(y) \o <<DASH>> \o TwoDigits(m) \o <<DASH>> \o TwoDigits(d) \o
  <<SPACE>> \o Clock(v)

\* Four digits in a row.
LEMMA FourDigitsRead ==
  ASSUME NEW codes \in Seq(Int), 4 <= Len(codes)
  PROVE  Piece(codes, 1, 4) = ((codes[1] - ZERO) * 10 + (codes[2] - ZERO)) * 100 +
                              ((codes[3] - ZERO) * 10 + (codes[4] - ZERO))
<1>1. PICK from \in Nat \ {0} : from = 1 /\ from + 3 <= Len(codes)
  OBVIOUS
<1>2. 3 \in {1, 3} /\ 3 # 1
  OBVIOUS
<1>3. Value(SubSeq(codes, from, from + 3)) =
        ((codes[from] - ZERO) * 10 + (codes[from + 1] - ZERO)) * 100 +
        ((codes[from + 2] - ZERO) * 10 + (codes[from + 3] - ZERO))
  BY <1>1, <1>2, ValuesOfDigits
<1>4. from = 1 /\ from + 1 = 2 /\ from + 2 = 3 /\ from + 3 = 4
  BY <1>1
<1> QED BY <1>3, <1>4, Zenon DEF Piece

\* The text of a time reads as the date it is written from, and the second.
IsYear(y) == y \in Nat /\ y <= 9999
LEMMA TimeReadBack ==
  ASSUME NEW y \in Nat, IsYear(y), NEW m \in Nat, m <= 12, NEW d \in Nat, d <= 31,
         NEW v, IsSecond(v),
         NEW codes, codes = DateText(y, m, d, v)
  PROVE  ReadsAsTime(codes, y, m, d, v)
<1>1. PICK century \in Nat, years \in Nat :
        century = y \div 100 /\ century % 100 = century /\ century * 100 + years = y
        /\ years = y % 100
  BY SMT DEF IsYear
<1>2. m % 100 = m /\ d % 100 = d
  BY SMT
<1>3. /\ TwoDigits(century) \in Seq(Int) /\ Len(TwoDigits(century)) = 2
      /\ (TwoDigits(century)[1] - ZERO) * 10 + (TwoDigits(century)[2] - ZERO) = century
  BY <1>1, TwoDigitsRead
<1>4. /\ TwoDigits(y) \in Seq(Int) /\ Len(TwoDigits(y)) = 2
      /\ (TwoDigits(y)[1] - ZERO) * 10 + (TwoDigits(y)[2] - ZERO) = years
  BY <1>1, TwoDigitsRead
<1>5. /\ TwoDigits(m) \in Seq(Int) /\ Len(TwoDigits(m)) = 2
      /\ (TwoDigits(m)[1] - ZERO) * 10 + (TwoDigits(m)[2] - ZERO) = m
  BY <1>2, TwoDigitsRead
<1>6. /\ TwoDigits(d) \in Seq(Int) /\ Len(TwoDigits(d)) = 2
      /\ (TwoDigits(d)[1] - ZERO) * 10 + (TwoDigits(d)[2] - ZERO) = d
  BY <1>2, TwoDigitsRead
<1>7. PICK h, min, s :
        /\ h = (Clock(v)[1] - ZERO) * 10 + (Clock(v)[2] - ZERO)
        /\ min = (Clock(v)[4] - ZERO) * 10 + (Clock(v)[5] - ZERO)
        /\ s = (Clock(v)[7] - ZERO) * 10 + (Clock(v)[8] - ZERO)
  OBVIOUS
<1>8. /\ Clock(v) \in Seq(Int) /\ Len(Clock(v)) = 8
      /\ h * 3600 + min * 60 + s = v /\ min < 60 /\ s < 60
  BY <1>7, ClockRead
<1>9. /\ codes \in Seq(Int) /\ Len(codes) = 19
      /\ codes[1] = TwoDigits(century)[1] /\ codes[2] = TwoDigits(century)[2]
      /\ codes[3] = TwoDigits(y)[1] /\ codes[4] = TwoDigits(y)[2]
      /\ codes[6] = TwoDigits(m)[1] /\ codes[7] = TwoDigits(m)[2]
      /\ codes[9] = TwoDigits(d)[1] /\ codes[10] = TwoDigits(d)[2]
      /\ \A i \in 1..8 : codes[11 + i] = Clock(v)[i]
  <2>1. codes = TwoDigits(century) \o TwoDigits(y) \o <<DASH>> \o TwoDigits(m) \o <<DASH>> \o
                TwoDigits(d) \o <<SPACE>> \o Clock(v)
    BY <1>1, Zenon DEF DateText
  <2>2. PICK c2, y2, m2, d2, clock :
          /\ c2 = TwoDigits(century) /\ y2 = TwoDigits(y) /\ m2 = TwoDigits(m)
          /\ d2 = TwoDigits(d) /\ clock = Clock(v)
    OBVIOUS
  <2>3. codes = c2 \o y2 \o <<DASH>> \o m2 \o <<DASH>> \o d2 \o <<SPACE>> \o clock
    BY <2>1, <2>2, Zenon
  <2>4. IsCodes(c2, 2) /\ IsCodes(y2, 2) /\ IsCodes(m2, 2) /\ IsCodes(d2, 2) /\ IsCodes(clock, 8)
    BY <1>3, <1>4, <1>5, <1>6, <1>8, <2>2, Zenon DEF IsCodes
  <2>5. ArePieces(codes, c2, y2, m2, d2, clock)
    BY <2>3, <2>4, PiecesOfTime, Zenon
  <2> QED BY <2>2, <2>5, Zenon DEF ArePieces
<1>10. /\ codes[12] = Clock(v)[1] /\ codes[13] = Clock(v)[2]
       /\ codes[15] = Clock(v)[4] /\ codes[16] = Clock(v)[5]
       /\ codes[18] = Clock(v)[7] /\ codes[19] = Clock(v)[8]
  <2>1. \A i \in {1, 2, 4, 5, 7, 8} : i \in 1..8
    OBVIOUS
  <2>2. \A i \in {1, 2, 4, 5, 7, 8} : codes[11 + i] = Clock(v)[i]
    BY <1>9, <2>1, Zenon
  <2>3. 11 + 1 = 12 /\ 11 + 2 = 13 /\ 11 + 4 = 15 /\ 11 + 5 = 16 /\ 11 + 7 = 18 /\ 11 + 8 = 19
    OBVIOUS
  <2>4. /\ codes[11 + 1] = Clock(v)[1] /\ codes[11 + 2] = Clock(v)[2]
        /\ codes[11 + 4] = Clock(v)[4] /\ codes[11 + 5] = Clock(v)[5]
        /\ codes[11 + 7] = Clock(v)[7] /\ codes[11 + 8] = Clock(v)[8]
    BY <2>2, Zenon
  <2> QED BY <2>3, <2>4, Zenon
<1>11. \A from \in {6, 9, 12, 15, 18} :
         Piece(codes, from, from + 1) = (codes[from] - ZERO) * 10 + (codes[from + 1] - ZERO)
  <2>1. TAKE from \in {6, 9, 12, 15, 18}
  <2>2. 1 \in {1, 3} /\ from \in Nat \ {0} /\ from + 1 <= 19
    OBVIOUS
  <2>3. from + 1 <= Len(codes)
    BY <1>9, <2>2
  <2> QED BY <1>9, <2>2, <2>3, ValuesOfDigits DEF Piece
<1>12. 6 + 1 = 7 /\ 9 + 1 = 10 /\ 12 + 1 = 13 /\ 15 + 1 = 16 /\ 18 + 1 = 19
  OBVIOUS
<1>13. Piece(codes, 1, 4) = y
  <2>1. Piece(codes, 1, 4) = ((codes[1] - ZERO) * 10 + (codes[2] - ZERO)) * 100 +
                             ((codes[3] - ZERO) * 10 + (codes[4] - ZERO))
    <3>1. 4 <= Len(codes)
      BY <1>9
    <3> QED BY <1>9, <3>1, FourDigitsRead, Zenon
  <2>2. Piece(codes, 1, 4) = century * 100 + years
    BY <1>3, <1>4, <1>9, <2>1, Zenon
  <2> QED BY <1>1, <2>2
<1>14. Piece(codes, 6, 7) = m /\ Piece(codes, 9, 10) = d
  <2>1. /\ Piece(codes, 6, 6 + 1) = (codes[6] - ZERO) * 10 + (codes[6 + 1] - ZERO)
        /\ Piece(codes, 9, 9 + 1) = (codes[9] - ZERO) * 10 + (codes[9 + 1] - ZERO)
    BY <1>11, Zenon
  <2> QED BY <1>5, <1>6, <1>9, <1>12, <2>1, Zenon
<1>15. Piece(codes, 12, 13) = h /\ Piece(codes, 15, 16) = min /\ Piece(codes, 18, 19) = s
  <2>1. /\ Piece(codes, 12, 12 + 1) = (codes[12] - ZERO) * 10 + (codes[12 + 1] - ZERO)
        /\ Piece(codes, 15, 15 + 1) = (codes[15] - ZERO) * 10 + (codes[15 + 1] - ZERO)
        /\ Piece(codes, 18, 18 + 1) = (codes[18] - ZERO) * 10 + (codes[18 + 1] - ZERO)
    BY <1>11, Zenon
  <2> QED BY <1>7, <1>10, <1>12, <2>1, Zenon
<1> QED BY <1>8, <1>13, <1>14, <1>15 DEF ReadsAsTime

\* A time is shown just in the years 0 to 9999 and in the days before them.
LEMMA TimesWithDates ==
  ASSUME NEW time, IsTime(time), NEW len \in Nat, len > 19,
         NEW rdn, rdn = Rdn(time)
  PROVE  rfc3339_format(time, len).ok <=> HasDate(rdn)
<1>1. rdn \in Word
  BY DayAndSecond
<1>2. ~(19 >= len)
  BY SMT
<1>3. rfc3339_format(time, len).ok <=> rdn_to_ymd(rdn) # {}
  <2> DEFINE date == CHOOSE date \in rdn_to_ymd(Rdn(time)) : TRUE
             codes == DateText(date.y, date.m, date.d, SecondOfDay(time))
  <2>1. rfc3339_format(time, len) =
          IF 19 >= len \/ rdn_to_ymd(Rdn(time)) = {} THEN NotShown ELSE Shown(codes)
    BY DEF rfc3339_format, DateText, Clock
  <2> HIDE DEF codes
  <2>2. NotShown.ok = FALSE /\ Shown(codes).ok = TRUE
    BY DEF NotShown, Shown
  <2> QED BY <1>2, <2>1, <2>2
<1> QED BY <1>1, <1>3, DatesOfDays

\* One that is shown reads as its date and second, but for those days.
LEMMA TimesShown ==
  ASSUME NEW time, IsTime(time), NEW len \in Nat, len > 19,
         NEW rdn, rdn = Rdn(time), NEW v, v = SecondOfDay(time),
         HasRightDate(rdn)
  PROVE  \E y, m, d \in Nat :
           /\ m >= 1 /\ m <= 12 /\ d >= 1 /\ d <= MonthLength(y, m)
           /\ DayNumber(y, m, d) = rdn
           /\ ReadsAsTime(rfc3339_format(time, len).text, y, m, d, v)
<1>1. PICK y \in Nat, m \in Nat, d \in Nat :
        /\ IsYear(y) /\ m >= 1 /\ m <= 12 /\ d >= 1 /\ d <= MonthLength(y, m)
        /\ rdn_to_ymd(rdn) = {[y |-> y, m |-> m, d |-> d]}
        /\ DayNumber(y, m, d) = rdn
  <2>1. RightDate(rdn_to_ymd(rdn), rdn)
    BY DaysFromMarch, SMT DEF HasRightDate
  <2> QED BY <2>1, SMT DEF RightDate, IsYear
<1>2. PICK date : date = [y |-> y, m |-> m, d |-> d]
  OBVIOUS
<1>3. date.y = y /\ date.m = m /\ date.d = d
  BY <1>2
<1>4. rdn_to_ymd(Rdn(time)) = {date}
  BY <1>1, <1>2, SMT
<1>5. (CHOOSE one \in {date} : TRUE) = date
  OBVIOUS
<1>6. rfc3339_format(time, len) =
        Shown(DateText(date.y, date.m, date.d, v))
  <2>1. ~(19 >= len) /\ {date} # {}
    BY SMT
  <2> QED BY <1>4, <1>5, <2>1 DEF rfc3339_format, Clock, DateText
<1>7. rfc3339_format(time, len).text = DateText(y, m, d, v)
  BY <1>3, <1>6 DEF Shown
<1>8. IsSecond(v)
  BY DayAndSecond
<1>9. d <= 31
  BY <1>1, SMT DEF MonthLength, IsLeap
<1>10. ReadsAsTime(rfc3339_format(time, len).text, y, m, d, v)
  BY <1>1, <1>7, <1>8, <1>9, TimeReadBack
<1> QED BY <1>1, <1>10, SMT

\* What is shown of a time is what rfc3339_format writes of it.
DateInv ==
  /\ item \in Items
  /\ item.kind = "Timestamp" =>
       /\ phase \in {"text", "shown", "failed"}
       /\ phase # "text" => (phase = "shown" <=> Printed(item).ok) /\ text = Printed(item).text

\* Nothing is shown at first.
LEMMA DateInit == Init => DateInv
BY DEF Init, DateInv, NumberKinds, AmountKinds, IntegerKinds, KeyKinds

\* Only PrintText shows a time.
LEMMA DateStep == DateInv /\ [Next]_vars => DateInv'
<1> SUFFICES ASSUME DateInv, [Next]_vars PROVE DateInv'
  OBVIOUS
<1>1. CASE PrintText
  BY <1>1 DEF PrintText, DateInv
<1>2. CASE WriteDigit \/ FinishNumber \/ EncodeDigit \/ FinishKey \/ ScanSequence \/ FinishScan
  BY <1>2 DEF WriteDigit, FinishNumber, EncodeDigit, FinishKey, ScanSequence, FinishScan, DateInv
<1>3. CASE UNCHANGED vars
  BY <1>3 DEF vars, DateInv
<1> QED BY <1>1, <1>2, <1>3 DEF Next

\* Of a time of the calendar, no day is lost when it is cut to 32 bits.
LEMMA DaysOfCalendar == ASSUME NEW time, IsTime(time) PROVE DayOf(time) = Rdn(time)
<1>1. CASE IsInCalendar(time)
  <2>1. PICK day \in Int : day = time.day
    BY DEF IsTime
  <2>2. day >= -719163 /\ day <= 2932896
    BY <1>1, <2>1, SMT DEF IsInCalendar, IsBeforeEpoch, EPOCH_DAYS, LastDayOf9999
  <2>3. WordPlus(day, 719163) = day + 719163
    BY <2>1, <2>2, SMT DEF WordPlus, MaxWord, MinWord
  <2>4. ~IsBeforeEpoch(time)
    BY <1>1 DEF IsInCalendar
  <2> QED BY <1>1, <2>1, <2>3, <2>4 DEF DayOf, Rdn, EPOCH_DAYS
<1>2. CASE ~IsInCalendar(time)
  BY <1>2 DEF DayOf
<1> QED BY <1>1, <1>2

\* Whatever the time, its date and second are right or it is refused, but for the days
\* before the year 0.
THEOREM DatesAlwaysRight == Spec => []DatesAreRight
<1>1. DateInv => DatesAreRight
  <2> SUFFICES ASSUME DateInv, item.kind = "Timestamp" PROVE DatesAreRight
    BY DEF DatesAreRight
  <2>1. PICK len : len = TEXT_BUFFER_LENGTH
    OBVIOUS
  <2>2. len \in Nat /\ len > 19
    BY <2>1, TextsAssumption, KeysAssumption, SMT
      DEF TextsAssumption, KeysAssumption, BASE58_PUBKEY_LENGTH
  <2>3. PICK time : time = item.value
    OBVIOUS
  <2>4. IsTime(time)
    BY <2>3, TextsAssumption DEF TextsAssumption, DateInv
  <2>5. PICK rdn, v : rdn = Rdn(time) /\ v = SecondOfDay(time)
    OBVIOUS
  <2>6. rdn \in Int
    BY <2>4, <2>5, DayAndSecond, Words
  <2>7. PICK shown : shown = rfc3339_format(time, len)
    OBVIOUS
  <2>8. phase # "text" => (phase = "shown" <=> shown.ok) /\ text = shown.text
    BY <2>1, <2>3, <2>7 DEF DateInv, Printed
  <2>9. shown.ok <=> HasDate(rdn)
    BY <2>2, <2>4, <2>5, <2>6, <2>7, TimesWithDates
  <2>10. phase \in {"shown", "failed"} => (phase = "shown") = (rdn \in -1187..LastDayOf9999)
    <3>1. rdn \in -1187..LastDayOf9999 <=> HasDate(rdn)
      <4>1. PICK first \in Int, last \in Int : first = -1187 /\ last = LastDayOf9999
        BY SMT DEF LastDayOf9999
      <4>2. rdn \in first..last <=> rdn >= first /\ rdn <= last
        BY <2>6, SMT
      <4>3. rdn >= first /\ rdn <= last <=> HasDate(rdn)
        BY <2>6, <4>1, SMT DEF HasDate, LastDayOf9999
      <4> QED BY <4>1, <4>2, <4>3
    <3>2. phase \in {"shown", "failed"} => (phase = "shown" <=> rdn \in -1187..LastDayOf9999)
      BY <2>8, <2>9, <3>1, SMT
    <3> QED BY <3>2
  <2>11. ASSUME phase = "shown", rdn \notin -1187..-306
         PROVE  /\ Part(6, 7) \in 1..12
                /\ Part(9, 10) \in 1..MonthLength(Part(1, 4), Part(6, 7))
                /\ DayNumber(Part(1, 4), Part(6, 7), Part(9, 10)) = rdn
                /\ Part(12, 13) * 3600 + Part(15, 16) * 60 + Part(18, 19) = v
                /\ Part(15, 16) < 60 /\ Part(18, 19) < 60
    <3>1. HasRightDate(rdn) /\ text = shown.text
      BY <2>6, <2>8, <2>9, <2>11, SMT DEF HasDate, HasRightDate
    <3>2. PICK y \in Nat, m \in Nat, d \in Nat :
            /\ m >= 1 /\ m <= 12 /\ d >= 1 /\ d <= MonthLength(y, m)
            /\ DayNumber(y, m, d) = rdn
            /\ ReadsAsTime(shown.text, y, m, d, v)
      BY <2>2, <2>4, <2>5, <2>6, <2>7, <3>1, TimesShown
    <3>3. ReadsAsTime(text, y, m, d, v)
      BY <3>1, <3>2
    <3>4. /\ Part(1, 4) = y /\ Part(6, 7) = m /\ Part(9, 10) = d
          /\ Part(12, 13) * 3600 + Part(15, 16) * 60 + Part(18, 19) = v
          /\ Part(15, 16) < 60 /\ Part(18, 19) < 60
      BY <3>3, SMT DEF ReadsAsTime, Piece, Part
    <3>5. m \in 1..12 /\ d \in 1..MonthLength(y, m)
      <4>1. MonthLength(y, m) \in Nat
        BY SMT DEF MonthLength, IsLeap
      <4> QED BY <3>2, <4>1, SMT
    <3> QED BY <3>2, <3>4, <3>5
  <2>12. rdn = DayOf(time)
    BY <2>4, <2>5, DaysOfCalendar
  <2> QED BY <2>3, <2>5, <2>10, <2>11, <2>12 DEF DatesAreRight
<1> QED BY <1>1, DateInit, DateStep, PTL DEF Spec
=============================================================================
