--------------------------- MODULE MCSummaryTexts ---------------------------
(***************************************************************************)
(* SummaryTexts with the buffers of the source, on numbers at the edges of *)
(* their decimals, strings around the length of the buffer, keys of 32     *)
(* bytes, and the days around every irregularity of the calendar.          *)
(***************************************************************************)
EXTENDS SummaryTexts

Amounts == {0, 1, 9, 10, 99, 100, 101, 105, 1000, 123450, 999999999, 1000000000,
            1000000001, 1050000000, 2147483647}
WRENEC == <<87, 82, 69, 78, 69, 67>>
UnknownToken == <<63, 63, 63>>
Numbers ==
  [kind : {"Amount", "PrintableAmount", "U64"}, value : Amounts] \cup
  [kind : {"I64"}, value : Amounts \cup {-amount : amount \in Amounts}] \cup
  [kind : {"TokenAmount"}, value : Amounts, symbol : {WRENEC, UnknownToken},
   decimals : 0..12 \cup 34..47 \cup {128, 255}]

\* Letters, with a NUL in one place or nowhere.
Letters(n, nul) == [k \in 1..n |-> IF k = nul THEN NUL ELSE 97 + (k % 26)]
Strings ==
  {[kind |-> "String", value |-> Letters(n, 0)] : n \in {0, 1, 16, 43, 44, 45, 46, 60}} \cup
  {[kind |-> "SizedString", value |-> Letters(n, nul)] :
     n \in {0, 1, 32, 43, 44, 45, 46, 60}, nul \in {0, 1, 20, 43, 44, 45}}

\* Keys with zeros at the head, with the lowest and highest numbers, and mixed.
Key(zeros, byte, last) ==
  [k \in 1..32 |-> IF k <= zeros THEN 0 ELSE IF k = 32 THEN last ELSE byte]
KeyValues ==
  {Key(zeros, byte, last) : zeros \in {0, 1, 5, 29, 30, 31, 32}, byte \in {0, 1, 57, 58, 255},
                            last \in {0, 1, 58, 255}} \cup
  {[k \in 1..32 |-> (k * 37) % 256], [k \in 1..32 |-> (k * 91 + 200) % 256]}
KeyItems == [kind : {"Pubkey", "Hash"}, value : KeyValues]

\* Messages with every kind of byte at the head, and behind it what ends or breaks a
\* sequence; two and three sequences in a row.
EdgeBytes == {0, 31, 32, 65, 126, 127, 128, 143, 144, 159, 160, 189, 190, 191, 192, 193, 194, 223,
              224, 225, 236, 237, 238, 239, 240, 241, 243, 244, 245, 247, 248, 255}
TailBytes == {65, 127, 128, 143, 144, 159, 160, 189, 190, 191, 192}
Characters == {<<65>>, <<0>>, <<194, 128>>, <<226, 130, 172>>, <<237, 159, 191>>, <<237, 160, 128>>,
               <<239, 191, 189>>, <<239, 191, 190>>, <<240, 159, 152, 128>>, <<244, 143, 191, 191>>,
               <<244, 144, 128, 128>>, <<224, 159, 191>>, <<195>>}
Messages ==
  {<<>>} \cup {<<a>> : a \in EdgeBytes} \cup {<<a, b>> : a \in EdgeBytes, b \in EdgeBytes} \cup
  {<<a, b, c>> : a \in EdgeBytes, b \in TailBytes, c \in TailBytes} \cup
  {<<a, b, c, d>> : a \in EdgeBytes \cap 224..255, b \in TailBytes, c \in {127, 128, 191, 192},
                    d \in {65, 128, 191, 192}} \cup
  {a \o b \o c : a \in Characters, b \in Characters, c \in Characters \cup {<<>>}}

\* Days of the calendar as day numbers, then counted from 1970.
Around(days, distance) == UNION {(day - distance)..(day + distance) : day \in days}
DaysOfCalendar ==
  0..1500 \cup Around({DayNumber(y, m, 1) : y \in {4, 1600, 1700, 1900, 1970, 2000, 2024, 2100},
                                           m \in 1..12}, 1)
    \cup Around({LastDayOf9999}, 400) \cup Around({0, -306, -1187}, 3)
Times ==
  {[era |-> era, day |-> day - EPOCH_DAYS, second |-> second] :
     era \in {-1, 0, 1}, day \in DaysOfCalendar, second \in {0, 86399}} \cup
  {[era |-> era, day |-> day, second |-> second] :
     era \in {-24855, -2, 0, 1, 24854},
     day \in {MinWord, -1158050442, -1158050441, 0, 42949672, 42949673, 1000000000, MaxWord},
     second \in {0, 3661, 61183, 61184, 86399}} \cup
  {[era |-> -1, day |-> day - EPOCH_DAYS - WrapDays, second |-> second] :
     day \in DaysOfCalendar, second \in {0, 61183, 61184, 86399}}
MCItems ==
  Numbers \cup Strings \cup KeyItems \cup [kind : {"Timestamp"}, value : Times] \cup
  [kind : {"Message"}, value : Messages] \cup {[kind |-> "None", value |-> 0]}

\* What else a call of the Exchange application may bring.
Pointers == {NULL, EmptyString, <<<<97>>>>}
MCRequests ==
  [coin_configuration : {NULL, <<"subcoin">>}, destination_address_extra_id : Pointers,
   extra_id_to_check : Pointers, amount : {<<>>, <<1, 0>>, [n \in 1..9 |-> 0]},
   address_parameters : {NULL} \cup {<<[path_is_read |-> readable]>> : readable \in BOOLEAN}]
=============================================================================
