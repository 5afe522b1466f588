-------------------------- MODULE MessageEncoding --------------------------
(***************************************************************************)
(* What the bytes of a message mean.  The parser is compared with this     *)
(* encoding of messages; it is defined from the format, by the texts of    *)
(* each part, and takes nothing of the parser.                             *)
(*                                                                         *)
(* A part may have several texts.  That a part stands at a place of the    *)
(* bytes is said by the set of the places behind its texts.                *)
(***************************************************************************)
EXTENDS MessageParser

CONSTANT Meanings  \* what messages may be meant to say

String(length) == [1..length -> Byte]
Content == [program : Byte, accounts : Seq(Byte), data : Seq(Byte)]
AMeaning ==
  [versioned : BOOLEAN, required : Byte, readonly : String(2),
   keys : Seq(String(PUBKEY_SIZE)), blockhash : String(HASH_SIZE),
   instructions : Seq(Content)]

ASSUME MeaningsAssumption == Meanings \subseteq AMeaning

\* One, two or three groups of seven bits; the high bit of a third means nothing.
LengthEncodings(n) ==
  LET low  == n % 128
      mid  == (n \div 128) % 128
      high == n \div 16384
  IN  {text \in {<<low>>} : n < 128} \cup
      {text \in {<<low + 128, mid>>} : n < 16384} \cup
      {text \in {<<low + 128, mid + 128, high>>, <<low + 128, mid + 128, high + 128>>} :
         n < 2097152}

Occurs(bytes, place, text) ==
  /\ place + Len(text) <= Len(bytes)
  /\ \A i \in 1..Len(text) : bytes[place + i] = text[i]

After(bytes, place, text) ==
  {next \in {place + Len(text)} : Occurs(bytes, place, text)}
AfterLength(bytes, place, n) ==
  UNION {After(bytes, place, text) : text \in LengthEncodings(n)}
AfterData(bytes, place, data) ==
  UNION {After(bytes, first, data) : first \in AfterLength(bytes, place, Len(data))}
AfterInstruction(bytes, place, instruction) ==
  UNION {UNION {AfterData(bytes, data, instruction.data) :
                  data \in AfterData(bytes, accounts, instruction.accounts)} :
           accounts \in After(bytes, place, <<instruction.program>>)}

\* For every n, the places behind the first n instructions.
AfterInstructions(bytes, place, list) ==
  LET after[n \in 0..Len(list)] ==
        IF n = 0 THEN {place}
        ELSE UNION {AfterInstruction(bytes, next, list[n]) : next \in after[n - 1]}
  IN  after

\* The high bit of the first byte tells a versioned message, which has that byte more at
\* its head and an empty list of address tables at its end.
Encodes(bytes, m) ==
  LET head == IF m.versioned THEN 1 ELSE 0
  IN  /\ bytes # <<>> /\ m.versioned = (bytes[1] >= 128)
      /\ Occurs(bytes, head, <<m.required, m.readonly[1], m.readonly[2]>>)
      /\ \E keys \in AfterLength(bytes, head + 3, Len(m.keys)) :
           LET hash == keys + Len(m.keys) * PUBKEY_SIZE
           IN  /\ \A i \in 1..Len(m.keys) :
                    Occurs(bytes, keys + (i - 1) * PUBKEY_SIZE, m.keys[i])
               /\ Occurs(bytes, hash, m.blockhash)
               /\ \E body \in AfterLength(bytes, hash + HASH_SIZE, Len(m.instructions)) :
                    \E end \in AfterInstructions(bytes, body, m.instructions)
                                 [Len(m.instructions)] :
                      Len(bytes) \in IF m.versioned THEN AfterLength(bytes, end, 0)
                                     ELSE {end}

-----------------------------------------------------------------------------
(* Properties of the parser. *)

Bytes(pointer, n) == [k \in 1..n |-> message[pointer + k]]

\* What was parsed, of an instruction and of the message.
Meant(instruction) ==
  [program |-> instruction.program_id_index,
   accounts |-> Bytes(instruction.accounts, instruction.accounts_length),
   data |-> Bytes(instruction.data, instruction.data_length)]
Parsed ==
  [versioned |-> header.versioned, required |-> header.num_required_signatures,
   readonly |-> <<header.num_readonly_signed_accounts, header.num_readonly_unsigned_accounts>>,
   keys |-> [i \in 1..header.pubkeys_length |-> Key(i - 1)],
   blockhash |-> Bytes(header.blockhash, HASH_SIZE),
   instructions |-> [i \in 1..Len(instructions) |-> Meant(instructions[i])]]

IsWellFormed(m) ==
  /\ m.required <= Len(m.keys)
  /\ \E i \in 1..m.required : m.keys[i] = Signer
  /\ Len(m.instructions) \in 1..MAX_INSTRUCTIONS
  /\ \A i \in 1..Len(m.instructions) :
       LET instruction == m.instructions[i]
       IN  /\ instruction.program < Len(m.keys)
           /\ \A k \in 1..Len(instruction.accounts) : instruction.accounts[k] < Len(m.keys)

\* The bytes of a message that was accepted are, to the last one, an encoding of what the
\* parser made of it: nothing in what is signed has escaped it.
AcceptedIsUnderstood == step = "accepted" => Encodes(message, Parsed)

\* A well-formed message is accepted in all its encodings, and means what it was made from.
WellFormedIsAccepted ==
  step \in Final =>
    \A m \in Meanings : IsWellFormed(m) /\ Encodes(message, m) =>
      step = "accepted" /\ Parsed = m
=============================================================================
