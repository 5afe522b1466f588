---------------------------- MODULE SummaryTexts ----------------------------
(***************************************************************************)
(* How an item of the summary becomes the text of a step:                  *)
(* transaction_summary_update_display_for_item of                          *)
(* src/librenec/transaction_summary.c with the print functions of          *)
(* printer.c.  Numbers and keys are written digit by digit, the last one   *)
(* first; everything else is printed at once.  The amount that the         *)
(* Exchange application asks to have printed goes the same way in a buffer *)
(* of its own.  The bytes of an off-chain message are not an item: before  *)
(* there is a summary, src/src/handle_sign_offchain_message.c asks whether *)
(* they are a text at all.                                                 *)
(***************************************************************************)
EXTENDS TextPrinters

CONSTANTS
  Items,                      \* [kind, value], with the fields of its kind
  TEXT_BUFFER_LENGTH,
  MAX_PRINTABLE_AMOUNT_SIZE

VARIABLES
  item,
  long_pubkeys,   \* DisplayFlagLongPubkeys
  out,            \* the digits written, the last of the number first
  dVal,           \* what is left of the number
  tmp,            \* what is left of the key or of the message, its bytes
  phase,          \* "digits", "number", "key", "text", "shown", "failed"; of a message
                  \* "utf8", then "is_utf8" or "binary", or "is_ascii" at once
  text            \* G_transaction_summary_text

vars == <<item, long_pubkeys, out, dVal, tmp, phase, text>>

RENEC == <<82, 69, 78, 69, 67>>
RENEC_DECIMALS == 9
SUMMARY_LENGTH == 7
BASE58_PUBKEY_SHORT == SUMMARY_LENGTH + 2 + SUMMARY_LENGTH + 1
AmountKinds == {"Amount", "TokenAmount", "PrintableAmount"}
IntegerKinds == {"I64", "U64"}
KeyKinds == {"Pubkey", "Hash"}
TextKinds == {"String", "SizedString", "Message"}
NumberKinds == AmountKinds \cup IntegerKinds

\* There is room for a sign and a digit; numbers are integers and only those of print_i64
\* negative, the decimals of a token are a byte of its instruction, and what is no number
\* or time is bytes.
ASSUME TextsAssumption ==
  /\ TEXT_BUFFER_LENGTH \in Nat \ {0, 1}
  /\ MAX_PRINTABLE_AMOUNT_SIZE \in Nat \ {0}
  /\ \A one \in Items :
       one.kind \in NumberKinds =>
         /\ one.value \in Int
         /\ one.kind # "I64" => one.value \in Nat
         /\ one.kind = "TokenAmount" => one.decimals \in 0..255 /\ one.symbol \in Seq(0..255)
  /\ \A one \in Items : one.kind \in KeyKinds \cup TextKinds => one.value \in Seq(0..255)
  /\ \A one \in Items : one.kind = "Timestamp" => IsTime(one.value)

\* Keys and hashes have 32 bytes, and a screen has room for the longest text of one.
ASSUME KeysAssumption ==
  /\ TEXT_BUFFER_LENGTH >= BASE58_PUBKEY_LENGTH
  /\ \A one \in Items : one.kind \in KeyKinds => Len(one.value) = 32

\* print_i64: the sign is written first and the rest has one byte less.
Sign(one) == IF one.kind = "I64" /\ one.value < 0 THEN <<DASH>> ELSE <<>>

\* The number of print_i64 without its two's complement.
SignedMagnitude(one) == one.value

Magnitude(one) == IF one.value < 0 THEN -one.value ELSE one.value
Room(one) ==
  (IF one.kind = "PrintableAmount" THEN MAX_PRINTABLE_AMOUNT_SIZE ELSE TEXT_BUFFER_LENGTH)
  - Len(Sign(one))

\* An integer has no decimal point, as if it had fewer than no decimals.
Decimals(one) ==
  CASE one.kind \in IntegerKinds -> -1
    [] one.kind = "TokenAmount" -> one.decimals
    [] OTHER -> RENEC_DECIMALS
Asset(one) == IF one.kind = "TokenAmount" THEN one.symbol ELSE RENEC

Init ==
  /\ item \in Items
  /\ long_pubkeys \in BOOLEAN
  /\ out = <<>>
  /\ text = <<>>
  /\ phase = CASE item.kind \in NumberKinds -> "digits"
                [] item.kind \in KeyKinds -> "key"
                [] item.kind = "Message" -> IF is_data_ascii(item.value) THEN "is_ascii" ELSE "utf8"
                [] OTHER -> "text"
  /\ dVal = IF item.kind \in NumberKinds THEN Magnitude(item) ELSE 0
  /\ tmp = CASE item.kind \in KeyKinds -> Without(Leading(0, item.value), item.value)
              [] item.kind = "Message" -> item.value
              [] OTHER -> <<>>

\* One turn of the loop: a digit, and the point before it when it is due.
PointAndDigit ==
  Append(IF Len(out) = Decimals(item) THEN Append(out, DOT) ELSE out, ZERO + (dVal % 10))

\* The loop without the test of the room.
WriteDigitAnywhere ==
  /\ phase = "digits"
  /\ out' = PointAndDigit
  /\ dVal' = dVal \div 10
  /\ phase' = IF dVal' > 0 \/ Len(out') < Decimals(item) + 1 THEN "digits" ELSE "number"
  /\ UNCHANGED <<item, long_pubkeys, tmp, text>>

\* The test at the end of the loop: more digits of the number, or as many zeros as
\* it has decimals, as long as there is room.
WriteDigit ==
  /\ phase = "digits"
  /\ out' = PointAndDigit
  /\ dVal' = dVal \div 10
  /\ phase' = IF /\ dVal' > 0 \/ Len(out') < Decimals(item) + 1
                 /\ Len(out') < Room(item)
              THEN "digits" ELSE "number"
  /\ UNCHANGED <<item, long_pubkeys, tmp, text>>

\* Trailing zeros are stripped whether or not they are decimals.
StripAllZeros(digits) ==
  SubSeq(digits, 1, Max({n \in DOMAIN digits : n = 1 \/ digits[n] \notin {ZERO, DOT}}))

\* Trailing zeros are stripped, up to the point, and then the point.
Strip(digits) ==
  LET last == Max({n \in DOMAIN digits : n = 1 \/ digits[n] # ZERO})
  IN  SubSeq(digits, 1, IF digits[last] = DOT THEN last - 1 ELSE last)

\* The number is turned round, stripped and qualified; it fails when the digits
\* filled the buffer or the asset has no room.
FinishNumber ==
  /\ phase = "number"
  /\ LET digits == Reverse(out)
         amount == Strip(digits) \o <<SPACE>> \o Asset(item)
         number == IF item.kind \in AmountKinds THEN amount ELSE Sign(item) \o digits
     IN  IF Len(out) >= Room(item) \/ (item.kind \in AmountKinds /\ Len(amount) >= Room(item))
         THEN phase' = "failed" /\ UNCHANGED text
         ELSE phase' = "shown" /\ text' = number
  /\ UNCHANGED <<item, long_pubkeys, out, dVal, tmp>>

\* encode_base58: a digit goes before the others, and a byte that has become zero is
\* left behind.
EncodeDigit ==
  /\ phase = "key"
  /\ tmp # <<>>
  /\ LET division == Divide(tmp)
         quotient == division.quotient
     IN  /\ tmp' = IF quotient[1] = 0 THEN Tail(quotient) ELSE quotient
         /\ out' = <<BASE58_ALPHABET[division.remainder]>> \o out
  /\ UNCHANGED <<item, long_pubkeys, dVal, phase, text>>

\* encode_base58 without the digits of the zero bytes.
EncodedNumber == Without(Leading(BASE58_ALPHABET[0], out), out)

\* Zeros at the head of the number are skipped; each zero byte of the key has one.
Encoded ==
  [zero \in 1..Leading(0, item.value) |-> BASE58_ALPHABET[0]] \o
  Without(Leading(BASE58_ALPHABET[0], out), out)

\* A key is shown whole or by its ends, as the screen has room; a hash is encoded
\* into the buffer that is shown.
FinishKey ==
  /\ phase = "key"
  /\ tmp = <<>>
  /\ IF BASE58_PUBKEY_LENGTH < Len(Encoded) + 1
     THEN phase' = "failed" /\ UNCHANGED text
     ELSE /\ phase' = "shown"
          /\ text' = IF item.kind = "Hash" THEN Encoded
                     ELSE IF long_pubkeys THEN print_string(Encoded, TEXT_BUFFER_LENGTH)
                     ELSE print_summary(Encoded, BASE58_PUBKEY_SHORT, SUMMARY_LENGTH,
                                        SUMMARY_LENGTH)
  /\ UNCHANGED <<item, long_pubkeys, out, dVal, tmp>>

Printed(one) ==
  CASE one.kind = "String" -> Shown(print_string(one.value, TEXT_BUFFER_LENGTH))
    [] one.kind = "SizedString" -> Shown(print_sized_string(one.value, TEXT_BUFFER_LENGTH))
    [] one.kind = "Timestamp" -> rfc3339_format(one.value, TEXT_BUFFER_LENGTH)
    [] OTHER -> NotShown

PrintText ==
  /\ phase = "text"
  /\ phase' = IF Printed(item).ok THEN "shown" ELSE "failed"
  /\ text' = Printed(item).text
  /\ UNCHANGED <<item, long_pubkeys, out, dVal, tmp>>

\* is_data_utf8, one sequence at a time.
ScanSequence ==
  /\ phase = "utf8"
  /\ tmp # <<>>
  /\ \/ \E n \in SequenceLengths(tmp) : tmp' = Without(n, tmp) /\ UNCHANGED phase
     \/ SequenceLengths(tmp) = {} /\ phase' = "binary" /\ UNCHANGED tmp
  /\ UNCHANGED <<item, long_pubkeys, out, dVal, text>>

FinishScan ==
  /\ phase = "utf8"
  /\ tmp = <<>>
  /\ phase' = "is_utf8"
  /\ UNCHANGED <<item, long_pubkeys, out, dVal, tmp, text>>

Next ==
  \/ WriteDigit
  \/ FinishNumber
  \/ EncodeDigit
  \/ FinishKey
  \/ PrintText
  \/ ScanSequence
  \/ FinishScan

Spec == Init /\ [][Next]_vars

-----------------------------------------------------------------------------
(* Properties. *)

CONSTANT Requests    \* parameters of calls of the Exchange application without the address

\* Every variable that changes has its type.
TypeOK ==
  /\ out \in Seq(Int)
  /\ dVal \in Nat
  /\ tmp \in Seq(0..255)
  /\ phase \in {"digits", "number", "key", "text", "shown", "failed",
                "utf8", "is_utf8", "is_ascii", "binary"}
  /\ item \in Items

\* The digits of a number stay in the buffer they are written to, but for one amount
\* of tokens: with one decimal less than the buffer has bytes, the point takes the
\* last byte and the digit after it the byte behind, before print_token_amount sees
\* that there is no room and fails.
WritesStayInside ==
  item.kind \in NumberKinds /\ Len(out) > Room(item) =>
    /\ item.kind \in AmountKinds /\ Decimals(item) = Room(item) - 1
    /\ Len(out) = Room(item) + 1
    /\ phase # "shown"

\* Reading a number.
Value(digits) ==
  LET value[n \in 0..Len(digits)] ==
        IF n = 0 THEN 0 ELSE value[n - 1] * 10 + (digits[n] - ZERO)
  IN  value[Len(digits)]
Number(one) == LET end == Len(text) - Len(Asset(one)) - 1 IN SubSeq(text, 1, end)
PointOf(digits) ==
  IF \E n \in DOMAIN digits : digits[n] = DOT THEN CHOOSE n \in DOMAIN digits : digits[n] = DOT
  ELSE Len(digits) + 1
IsDigits(codes) == \A n \in DOMAIN codes : codes[n] \in ZERO..(ZERO + 9)
Zeros(n) == [k \in 1..n |-> ZERO]

AmountIsExact ==
  LET number   == Number(item)
      whole    == SubSeq(number, 1, PointOf(number) - 1)
      fraction == SubSeq(number, PointOf(number) + 1, Len(number))
      padding  == Decimals(item) - Len(fraction)
  IN  /\ text = number \o <<SPACE>> \o Asset(item)
      /\ IsDigits(whole \o fraction) /\ whole # <<>> /\ padding >= 0
      /\ Value(whole \o fraction \o Zeros(padding)) = item.value
      /\ Len(whole) > 1 => whole[1] # ZERO
      /\ PointOf(number) <= Len(number) =>
           fraction # <<>> /\ fraction[Len(fraction)] # ZERO

IntegerIsExact ==
  LET digits == Without(Len(Sign(item)), text)
  IN  /\ SubSeq(text, 1, Len(Sign(item))) = Sign(item)
      /\ IsDigits(digits) /\ Value(digits) = Magnitude(item)
      /\ Len(digits) > 1 => digits[1] # ZERO

\* The amount on the screen is the amount of the instruction: its digits, made up
\* to the decimals with zeros, are those of the number and nothing else, and there
\* is one way to write it.  Two amounts of one asset that the swap compares by their
\* texts are equal when the texts are.  An integer is shown with its sign.
NumbersAreExact ==
  phase = "shown" /\ item.kind \in NumberKinds =>
    IF item.kind \in AmountKinds THEN AmountIsExact ELSE IntegerIsExact

\* What is shown of a string is the string, unless it ends in the mark of a cut, or
\* the string has a NUL: a seed is then shown up to the NUL, and nothing tells.
CutsAreMarked ==
  phase = "shown" /\ item.kind \in {"String", "SizedString"} =>
    \/ text = item.value
    \/ Len(text) = TEXT_BUFFER_LENGTH - 1 /\ Last(text) = TILDE
    \/ \E n \in DOMAIN item.value : item.value[n] = NUL /\ text = SubSeq(item.value, 1, n - 1)

\* UTF-8, from the scalar values it encodes.  A first byte has the length of its
\* sequence in its high bits, and the others six bits each.
Heads == <<[from |-> 0, size |-> 128], [from |-> 192, size |-> 32],
           [from |-> 224, size |-> 16], [from |-> 240, size |-> 8]>>
SmallestOfLength == <<0, 128, 2048, 65536>>
CodePoint(bytes) ==
  LET head    == bytes[1] - Heads[Len(bytes)].from
      bits(i) == bytes[i] - 128
  IN  CASE Len(bytes) = 1 -> head
        [] Len(bytes) = 2 -> head * 64 + bits(2)
        [] Len(bytes) = 3 -> (head * 64 + bits(2)) * 64 + bits(3)
        [] Len(bytes) = 4 -> ((head * 64 + bits(2)) * 64 + bits(3)) * 64 + bits(4)
EncodesCharacter(bytes) ==
  LET head == Heads[Len(bytes)]
  IN  /\ bytes[1] \in head.from..(head.from + head.size - 1)
      /\ \A i \in 2..Len(bytes) : bytes[i] \div 64 = 2
      /\ CodePoint(bytes) \in SmallestOfLength[Len(bytes)]..1114111
      /\ CodePoint(bytes) \notin 55296..57343 \cup {65534, 65535}

\* Bytes are a text if they can be cut into characters.
EncodesText(bytes) ==
  \E inner \in SUBSET (1..(Len(bytes) - 1)) :
    LET cuts == inner \cup {0, Len(bytes)}
    IN  \A n \in cuts \ {Len(bytes)} :
          \E k \in 1..4 : n + k \in cuts /\ EncodesCharacter(SubSeq(bytes, n + 1, n + k))

\* A message is signed under its text, or under its hash once blind signing is on: its
\* class decides.  It is UTF-8 just if its bytes are the shortest encodings of characters
\* one after the other, none of them a surrogate or U+FFFE or U+FFFF, to its last byte;
\* what the scan has passed is text at every moment, and only printable ASCII is shown.
MessagesAreClassified ==
  item.kind = "Message" =>
    LET passed == SubSeq(item.value, 1, Len(item.value) - Len(tmp))
    IN  /\ item.value = passed \o tmp
        /\ phase = "is_ascii" <=> \A i \in DOMAIN item.value : item.value[i] \in 32..126
        /\ phase \in {"utf8", "is_utf8"} => EncodesText(passed)
        /\ phase = "is_utf8" => passed = item.value
        /\ phase = "binary" => ~EncodesText(item.value)

\* A number of bytes, times 58 and plus a digit: what each byte carries to the left.
DigitOf(code) == CHOOSE digit \in DOMAIN BASE58_ALPHABET : BASE58_ALPHABET[digit] = code
TimesAndPlus(bytes, digit) ==
  LET carry[n \in 0..Len(bytes)] ==
        IF n = Len(bytes) THEN digit ELSE (bytes[n + 1] * 58 + carry[n + 1]) \div 256
      product == [n \in 1..Len(bytes) |-> (bytes[n] * 58 + carry[n]) % 256]
  IN  IF carry[0] = 0 THEN product ELSE <<carry[0]>> \o product

\* A key or a hash is shown in base 58: what is left of its bytes and the digits
\* written are the same number before and after each digit, until nothing is left;
\* every zero byte at its head is one more digit, and there is room for all of them
\* and twice as many digits as bytes.  A short key has its ends, seven digits each.
KeysDecode ==
  [][/\ phase = "key" /\ phase' = "key" =>
          /\ TimesAndPlus(tmp', DigitOf(out'[1])) = tmp
          /\ Len(out') <= 2 * Len(item.value) - Leading(0, item.value)
     /\ phase = "key" /\ phase' # "key" =>
          LET zeros == [zero \in 1..Leading(0, item.value) |-> BASE58_ALPHABET[0]]
              whole == zeros \o out
          IN  /\ phase' = "shown" /\ tmp = <<>>
              /\ out # <<>> => out[1] # BASE58_ALPHABET[0]
              /\ text' = IF item.kind = "Hash" \/ long_pubkeys THEN whole
                         ELSE SubSeq(whole, 1, SUMMARY_LENGTH) \o <<DOT, DOT>> \o
                              SubSeq(whole, Len(whole) - SUMMARY_LENGTH + 1, Len(whole))]_vars

\* The calendar: days since the last of December of the year 0.
IsLeap(y) == y % 4 = 0 /\ (y % 100 # 0 \/ y % 400 = 0)
MonthLength(y, m) ==
  CASE m = 2 -> IF IsLeap(y) THEN 29 ELSE 28
    [] m \in {4, 6, 9, 11} -> 30
    [] OTHER -> 31
DaysBefore == <<0, 31, 59, 90, 120, 151, 181, 212, 243, 273, 304, 334>>
LeapDay(y, m) == IF m > 2 /\ IsLeap(y) THEN 1 ELSE 0
DayNumber(y, m, d) ==
  365 * (y - 1) + ((y - 1) \div 4) - ((y - 1) \div 100) + ((y - 1) \div 400) +
  DaysBefore[m] + LeapDay(y, m) + d
LastDayOf9999 == 3652059
Part(from, to) == Value(SubSeq(text, from, to))

\* The day of a time from the last of December of the year 0 to the end of 9999.  A time
\* before or after those has the day it is left with when its days are cut to 32 bits.
IsInCalendar(time) ==
  ~IsBeforeEpoch(time) /\ time.era = 0 /\ time.day <= LastDayOf9999 - EPOCH_DAYS
DayOf(time) == IF IsInCalendar(time) THEN time.day + EPOCH_DAYS ELSE Rdn(time)

\* A time of the calendar is shown as its date and its second of the day.  Any other is
\* counted modulo 2^32 days, shown as the date of that day, and refused if the day is not
\* in the years 0 to 9999 either; only the 882 days before the first of March of the year
\* 0 are shown as other dates, when 100 * Z has wrapped around.
DatesAreRight ==
  item.kind = "Timestamp" =>
    LET rdn == DayOf(item.value)
        second == SecondOfDay(item.value)
    IN  /\ phase = "shown" /\ rdn \notin -1187..-306 =>
             /\ Part(6, 7) \in 1..12
             /\ Part(9, 10) \in 1..MonthLength(Part(1, 4), Part(6, 7))
             /\ DayNumber(Part(1, 4), Part(6, 7), Part(9, 10)) = rdn
             /\ Part(12, 13) * 3600 + Part(15, 16) * 60 + Part(18, 19) = second
             /\ Part(15, 16) < 60 /\ Part(18, 19) < 60
        /\ phase \in {"shown", "failed"} =>
             (phase = "shown") = (rdn \in -1187..LastDayOf9999)

\* A request of Exchange with a field of its own, and texts that are nearly the key's.
With(request, field, value) ==
  [name \in DOMAIN request \cup {field} |-> IF name = field THEN value ELSE request[name]]
Variations == {Cut(text, n) : n \in 0..Len(text)} \cup {Append(text, code) : code \in {49, DOT}}

\* An accepted offer whose recipient agrees with the step of a key is an offer to
\* that key, unless the key's text fills the buffer: the recipient may then go on.
\* An address check succeeds for that text alone.
AddressesAreExact ==
  phase = "shown" /\ item.kind = "Pubkey" /\ long_pubkeys =>
    \A request \in Requests, address \in Variations :
      LET offer == With(request, "destination_address", address)
          check == With(request, "address_to_check", <<address>>)
      IN  /\ \A saved \in copy_transaction_parameters(offer) :
               saved.recipient = text => address = text \/ Len(text) = BASE58_PUBKEY_LENGTH - 1
          /\ handle_check_address(check, text) => address = text
=============================================================================
