---------------------------- MODULE TextPrinters ----------------------------
(***************************************************************************)
(* The conversions to text that take no loop over a buffer to understand:  *)
(* strings and keys of src/librenec/printer.c, the calendar of             *)
(* src/librenec/rfc3339.c, the classes of bytes of                         *)
(* src/src/handle_sign_offchain_message.c, and the calls of the Exchange   *)
(* application in src/src/swap.                                            *)
(*                                                                         *)
(* A text is the sequence of its character codes without the NUL.  A print *)
(* function is [ok, text]; the text of one that fails is empty.            *)
(***************************************************************************)
EXTENDS Integers, Sequences, SequencesExt

NUL == 0
DASH == 45
DOT == 46
SPACE == 32
ZERO == 48
TILDE == 126
COLON == 58

Shown(text) == [ok |-> TRUE, text |-> text]
NotShown == [ok |-> FALSE, text |-> <<>>]

\* The C string in a buffer that holds these bytes: those before the first NUL.
CString(bytes) ==
  SubSeq(bytes, 1, Min({n \in 0..Len(bytes) : n = Len(bytes) \/ bytes[n + 1] = NUL}))

-----------------------------------------------------------------------------
(* Strings. *)

\* strncpy and strlcpy into a cleared buffer: the end is cut off.
Cut(text, length) == SubSeq(text, 1, IF Len(text) < length THEN Len(text) ELSE length)

\* print_string; its result is ignored, and the mark is all that tells of a cut.
print_string(text, out_length) ==
  IF Len(text) < out_length THEN text
  ELSE Append(Cut(text, out_length - 2), TILDE)

\* print_sized_string without the mark.
PrintSizedUnmarked(bytes, out_length) == CString(Cut(bytes, out_length - 1))

\* print_sized_string: the bytes are copied as a string, up to a NUL among them.
print_sized_string(bytes, out_length) ==
  IF Len(bytes) < out_length THEN CString(bytes)
  ELSE CString(Append(Cut(bytes, out_length - 2), TILDE))

print_summary(text, out_length, left_length, right_length) ==
  IF Len(text) < out_length THEN text
  ELSE Cut(text, left_length) \o <<DOT, DOT>> \o
       SubSeq(text, Len(text) - right_length + 1, Len(text))

-----------------------------------------------------------------------------
(* The bytes of an off-chain message. *)

is_data_ascii(data) == \A i \in DOMAIN data : data[i] \in SPACE..TILDE

\* The bytes go on with what a sequence of n bytes has behind its first one.
Continued(data, n) == Len(data) >= n /\ \A i \in 2..n : data[i] \in 128..191

\* IsNoCharacter without surrogates.
IsLongOrNoncharacter(data) ==
  \/ data[1] = 224 /\ data[2] \in 128..159
  \/ data[1] = 239 /\ data[2] = 191 /\ data[3] \in {190, 191}

\* Three bytes that are overlong, a surrogate, U+FFFE or U+FFFF.
IsNoCharacter(data) ==
  \/ data[1] = 224 /\ data[2] \in 128..159
  \/ data[1] = 237 /\ data[2] \in 160..191
  \/ data[1] = 239 /\ data[2] = 191 /\ data[3] \in {190, 191}

\* One turn of is_data_utf8: the length of the sequence at the head of the bytes, or
\* none when it is cut short, overlong or above U+10FFFF.
SequenceLengths(data) ==
  {n \in 1..4 : Continued(data, n) /\
     \/ n = 1 /\ data[1] < 128
     \/ n = 2 /\ data[1] \in 194..223
     \/ n = 3 /\ data[1] \in 224..239 /\ ~IsNoCharacter(data)
     \/ n = 4 /\ data[1] \in 240..244 /\ ~(data[1] = 240 /\ data[2] \in 128..143)
              /\ ~(data[1] = 244 /\ data[2] > 143)}

-----------------------------------------------------------------------------
(* Keys and hashes. *)

\* BASE58_ALPHABET: no 0, O, I and l.
BASE58_ALPHABET ==
  [digit \in 0..57 |-> digit + (CASE digit < 9 -> 49 [] digit < 17 -> 56 [] digit < 22 -> 57
                                  [] digit < 33 -> 58 [] digit < 44 -> 64 [] OTHER -> 65)]

\* A byte of a division by 58, behind what the bytes before it have left.
DivideByte(remainder, digit256) ==
  LET tmp_div == (remainder * 256 + digit256) % 65536
  IN  [quotient |-> (tmp_div \div 58) % 256, remainder |-> tmp_div % 58]

\* One division of a number by 58, from its first byte to its last.
Divide(tmp) ==
  LET remainder[n \in 0..Len(tmp)] ==
        IF n = 0 THEN 0 ELSE DivideByte(remainder[n - 1], tmp[n]).remainder
  IN  [quotient  |-> [n \in 1..Len(tmp) |-> DivideByte(remainder[n - 1], tmp[n]).quotient],
       remainder |-> remainder[Len(tmp)]]

\* The number of elements at the head of a sequence that have a value.
Leading(value, bytes) ==
  Min({n \in 0..Len(bytes) : n = Len(bytes) \/ bytes[n + 1] # value})
Without(n, bytes) == SubSeq(bytes, n + 1, Len(bytes))

-----------------------------------------------------------------------------
(* Arithmetic of uint32_t.  A word is the integer between -2^31 and 2^31 - 1 *)
(* that is congruent to it.                                                  *)

MaxWord == 2147483647
MinWord == -MaxWord - 1
WordPlus(a, b) ==
  IF a >= 0 /\ b > MaxWord - a THEN (a + MinWord) + (b + MinWord)
  ELSE IF a < 0 /\ b < MinWord - a THEN (a - MinWord) + (b - MinWord)
  ELSE a + b
WordTimes(factor, a) ==
  LET high == (((factor * (a \div 65536)) + 32768) % 65536) - 32768
  IN  WordPlus(high * 65536, factor * (a % 65536))
WordOver(a, divisor) ==
  LET rest == a - MinWord
  IN  IF a >= 0 THEN a \div divisor
      ELSE (MaxWord \div divisor) + (rest \div divisor) +
           (((MaxWord % divisor) + 1 + (rest % divisor)) \div divisor)

-----------------------------------------------------------------------------
(* Dates. *)

DayOffset == [m \in 0..12 |-> <<0, 306, 337, 0, 31, 61, 92, 122, 153, 184, 214, 245, 275>>[m + 1]]

\* The days that the Gregorian calendar drops, without the one it keeps in every
\* fourth century.
EveryCentury(A) == A

Centuries(A) == A - (A \div 4)

\* H, B, y, d and m of rdn_to_ymd, of years that begin in March; every product is of
\* uint32_t.
Hundredths(Z) == WordPlus(WordTimes(100, Z), -25)
CenturyDays(Z) == Centuries(WordOver(Hundredths(Z), 3652425))
MarchYear(Z) == WordOver(WordPlus(100 * CenturyDays(Z), Hundredths(Z)), 36525)
DayOfYear(Z) == WordPlus(WordPlus(CenturyDays(Z), Z), -((1461 * MarchYear(Z)) \div 4))
MonthOf(d) == WordOver(WordPlus(WordTimes(535, d), 48950), 16384)

\* A negative d is a large one.
CheckedDate(y, m, d) ==
  IF y > 9999 \/ m > 12 \/ d < 0 \/ d > 31 + DayOffset[m] THEN {}
  ELSE {[y |-> y, m |-> m, d |-> d - DayOffset[m]]}

rdn_to_ymd(rdn) ==
  LET year  == MarchYear(WordPlus(rdn, 306))
      d     == DayOfYear(WordPlus(rdn, 306))
      month == MonthOf(d)
  IN  IF month > 12 THEN CheckedDate(year + 1, month - 12, d) ELSE CheckedDate(year, month, d)

\* A time is [era, day, second]: eras of 2^32 days, the first of them around 1970.
\* The 2^64 seconds of a negative sum that wraps around are that many days (modulo
\* 2^32) and seconds.
EPOCH_DAYS == 719163
WrapDays == 1158050441
WrapSeconds == 25216
IsTime(time) ==
  /\ time.era \in Int
  /\ time.day \in Int /\ MinWord <= time.day /\ time.day <= MaxWord
  /\ time.second \in Nat /\ time.second < 86400
IsBeforeEpoch(time) == time.era < 0 \/ (time.era = 0 /\ time.day < -EPOCH_DAYS)
SecondOfDay(time) ==
  IF IsBeforeEpoch(time) THEN (time.second + WrapSeconds) % 86400 ELSE time.second
Rdn(time) ==
  LET carry == (time.second + WrapSeconds) \div 86400
      days  == WordPlus(time.day, EPOCH_DAYS)
  IN  IF IsBeforeEpoch(time) THEN WordPlus(days, WrapDays + carry) ELSE days

Digit(n, unit, base) == ZERO + ((n \div unit) % base)
TwoDigits(n) == <<Digit(n, 10, 10), Digit(n, 1, 10)>>

\* rfc3339_format: the day is cut to 32 bits before it is converted.
rfc3339_format(time, len) ==
  LET dates == rdn_to_ymd(Rdn(time))
      date  == CHOOSE date \in dates : TRUE
      v     == SecondOfDay(time)
  IN  IF 19 >= len \/ dates = {} THEN NotShown
      ELSE Shown(TwoDigits(date.y \div 100) \o TwoDigits(date.y) \o <<DASH>> \o
                 TwoDigits(date.m) \o <<DASH>> \o TwoDigits(date.d) \o <<SPACE>> \o
                 <<Digit(v, 36000, 10), Digit(v, 3600, 10), COLON,
                   Digit(v, 600, 6), Digit(v, 60, 10), COLON,
                   Digit(v, 10, 6), Digit(v, 1, 10)>>)

-----------------------------------------------------------------------------
(* Calls of the Exchange application.  A pointer is the sequence of what it   *)
(* points to: of nothing when it is NULL.                                     *)

NULL == <<>>
EmptyString == <<<<>>>>
BASE58_PUBKEY_LENGTH == 45

\* swap_str_to_u64: up to eight bytes, the highest first.
swap_str_to_u64(bytes) ==
  IF Len(bytes) > 8 THEN {}
  ELSE {FoldLeft(LAMBDA value, byte : value * 256 + byte, 0, bytes)}

\* The address is compared as far as the key's text goes.
CheckAddressPrefix(params, public_key_str) ==
  /\ params.address_parameters # NULL /\ params.address_to_check # NULL
  /\ Cut(params.address_to_check[1], Len(public_key_str)) = public_key_str

\* The address is the text of the key derived from a path that can be read.
handle_check_address(params, public_key_str) ==
  /\ params.coin_configuration = NULL
  /\ params.address_parameters # NULL
  /\ params.extra_id_to_check = EmptyString
  /\ params.address_parameters[1].path_is_read
  /\ params.address_to_check = <<public_key_str>>

\* The offer saved by copy_transaction_parameters, or none.  The buffer was cleared
\* and strlcpy ends it with a NUL, so that the test for a copy error never fails.
copy_transaction_parameters(params) ==
  IF params.coin_configuration # NULL \/ params.destination_address_extra_id # EmptyString THEN {}
  ELSE {[amount    |-> amount,
         recipient |-> Cut(params.destination_address, BASE58_PUBKEY_LENGTH - 1)] :
          amount \in swap_str_to_u64(params.amount)}
=============================================================================
