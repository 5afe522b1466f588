--------------------------- MODULE MessageParser ---------------------------
(***************************************************************************)
(* A transaction message, byte by byte: parser.c, the look for the signer  *)
(* of handle_sign_message.c and the loop of process_message_body.          *)
(*                                                                         *)
(* A parser is what is left of a buffer; here it is the number `at' of     *)
(* bytes it has left behind.  A parse function is the set of its results:  *)
(* one record with the value and the place after it, or none if it fails.  *)
(* A pointer into the message is the number of bytes before what it points *)
(* to.                                                                     *)
(***************************************************************************)
EXTENDS Integers, Sequences

CONSTANTS
  Messages,            \* the messages the host may send
  Signer,              \* the bytes of the key that is to sign
  PUBKEY_SIZE, HASH_SIZE,
  MAX_MESSAGE_LENGTH,  \* the size of the buffer a message is received in
  MAX_INSTRUCTIONS

Byte == 0..255

ASSUME ParserAssumption ==
  /\ PUBKEY_SIZE \in Nat \ {0} /\ HASH_SIZE \in Nat \ {0}
  /\ MAX_MESSAGE_LENGTH \in Nat /\ MAX_INSTRUCTIONS \in Nat
  /\ Messages \subseteq {m \in Seq(Byte) : Len(m) <= MAX_MESSAGE_LENGTH}
  /\ Signer \in [1..PUBKEY_SIZE -> Byte]

VARIABLES
  message,       \* the bytes received
  at,            \* the parser: how many of them it has left behind
  header,        \* MessageHeader
  instructions,  \* the instructions parsed so far
  signer,        \* print_config.signer_pubkey, as a pointer
  step           \* what is parsed next, or how it ended

vars == <<message, at, header, instructions, signer, step>>

NoPointer == -1
Final == {"accepted", "InvalidMessage", "InvalidMessageHeader", "not processed"}
Parsing == {"version", "pubkeys_header", "pubkeys", "blockhash", "instructions_length",
            "scan", "body", "instructions"}

-----------------------------------------------------------------------------
(* Parse functions. *)

\* check_buffer_length: num bytes are left at a place.
Available(place, num) == place + num <= Len(message)

parse_u8(place) ==
  IF Available(place, 1)
  THEN {[value |-> message[place + 1], next |-> place + 1]}
  ELSE {}

Continues(byte) == byte >= 128
Group(byte) == byte % 128

\* A length without the test of the second byte's high bit.
TwoByteLengthSizes(place) ==
  {n \in 1..2 : /\ Available(place, n)
                /\ \A k \in 1..(n - 1) : Continues(message[place + k])
                /\ n = 2 \/ ~Continues(message[place + n])}

\* The number of bytes of the length at a place: three at most, whatever the third says.
LengthSizes(place) ==
  {n \in 1..3 : /\ Available(place, n)
                /\ \A k \in 1..(n - 1) : Continues(message[place + k])
                /\ n = 3 \/ ~Continues(message[place + n])}

\* Groups of seven bits, the lowest first.
parse_length(place) ==
  {[value |-> Group(message[place + 1])
              + (IF n >= 2 THEN Group(message[place + 2]) * 128 ELSE 0)
              + (IF n >= 3 THEN Group(message[place + 3]) * 16384 ELSE 0),
    next |-> place + n] : n \in LengthSizes(place)}

\* A length and as many bytes: the pointer to them and their number.
parse_data(place) ==
  {[first |-> length.next, length |-> length.value, next |-> length.next + length.value] :
     length \in {l \in parse_length(place) : Available(l.next, l.value)}}

parse_instruction(place) ==
  UNION {{[program_id_index |-> program.value,
           accounts |-> accounts.first, accounts_length |-> accounts.length,
           data |-> data.first, data_length |-> data.length, next |-> data.next] :
            data \in parse_data(accounts.next)} :
         program \in parse_u8(place), accounts \in parse_data(place + 1)}

-----------------------------------------------------------------------------
(* The header. *)

Init ==
  /\ message \in Messages
  /\ at = 0
  /\ header = [versioned |-> FALSE, num_required_signatures |-> 0,
               num_readonly_signed_accounts |-> 0, num_readonly_unsigned_accounts |-> 0,
               pubkeys_length |-> 0, pubkeys |-> NoPointer, blockhash |-> NoPointer,
               instructions_length |-> 0]
  /\ instructions = <<>>
  /\ signer = NoPointer
  /\ step = "version"

\* A versioned message says so in the high bit of its first byte; the first byte of
\* another one belongs to its keys.  No version is refused.
parse_version ==
  /\ step = "version"
  /\ Available(at, 1)
  /\ IF Continues(message[1])
     THEN header' = [header EXCEPT !.versioned = TRUE] /\ at' = at + 1
     ELSE UNCHANGED <<header, at>>
  /\ step' = "pubkeys_header"
  /\ UNCHANGED <<message, instructions, signer>>

parse_pubkeys_header ==
  /\ step = "pubkeys_header"
  /\ Available(at, 3)
  /\ \E length \in parse_length(at + 3) :
       /\ header' = [header EXCEPT
                       !.num_required_signatures = message[at + 1],
                       !.num_readonly_signed_accounts = message[at + 2],
                       !.num_readonly_unsigned_accounts = message[at + 3],
                       !.pubkeys_length = length.value]
       /\ at' = length.next
  /\ step' = "pubkeys"
  /\ UNCHANGED <<message, instructions, signer>>

\* pubkeys_size without the size of a key.
PubkeysCounted == header.pubkeys_length

pubkeys_size == header.pubkeys_length * PUBKEY_SIZE

parse_pubkeys ==
  /\ step = "pubkeys"
  /\ Available(at, pubkeys_size)
  /\ header' = [header EXCEPT !.pubkeys = at]
  /\ at' = at + pubkeys_size
  /\ step' = "blockhash"
  /\ UNCHANGED <<message, instructions, signer>>

\* The hash taken from whatever is left.
UncheckedBlockhash ==
  /\ step = "blockhash"
  /\ header' = [header EXCEPT !.blockhash = at]
  /\ at' = at + HASH_SIZE
  /\ step' = "instructions_length"
  /\ UNCHANGED <<message, instructions, signer>>

parse_blockhash ==
  /\ step = "blockhash"
  /\ Available(at, HASH_SIZE)
  /\ header' = [header EXCEPT !.blockhash = at]
  /\ at' = at + HASH_SIZE
  /\ step' = "instructions_length"
  /\ UNCHANGED <<message, instructions, signer>>

parse_instructions_length ==
  /\ step = "instructions_length"
  /\ \E length \in parse_length(at) :
       /\ header' = [header EXCEPT !.instructions_length = length.value]
       /\ at' = length.next
  /\ step' = "scan"
  /\ UNCHANGED <<message, instructions, signer>>

-----------------------------------------------------------------------------
(* The signer is looked for among as many keys as the message says sign.  *)
(* Behind the message the buffer is cleared, and behind the buffer there   *)
(* may be any bytes.                                                       *)

\* Place of the i-th key, from 0: pubkeys[i].
PubkeyAt(i) == header.pubkeys + i * PUBKEY_SIZE
InBuffer(place) == place < MAX_MESSAGE_LENGTH
Stored(place) == IF place < Len(message) THEN message[place + 1] ELSE 0

MayBeSigner(i) ==
  \A b \in 1..PUBKEY_SIZE :
    LET place == PubkeyAt(i) + b - 1
    IN  InBuffer(place) => Stored(place) = Signer[b]
IsSigner(i) == InBuffer(PubkeyAt(i) + PUBKEY_SIZE - 1) /\ MayBeSigner(i)

\* The signer is looked for from the second key on.
ScannedAfterPayer == 1..(header.num_required_signatures - 1)

Scanned == 0..(header.num_required_signatures - 1)

scan_header_for_signer ==
  /\ step = "scan"
  /\ \E i \in Scanned :
       /\ MayBeSigner(i)
       /\ \A j \in Scanned : j < i => ~IsSigner(j)
       /\ signer' = PubkeyAt(i)
  /\ step' = "body"
  /\ UNCHANGED <<message, at, header, instructions>>

-----------------------------------------------------------------------------
(* The body. *)

BeginBody ==
  /\ step = "body"
  /\ header.instructions_length \in 1..MAX_INSTRUCTIONS
  /\ step' = "instructions"
  /\ UNCHANGED <<message, at, header, instructions, signer>>

\* instruction_validate without the accounts.
ValidateProgram(instruction) == instruction.program_id_index < header.pubkeys_length

instruction_validate(instruction) ==
  /\ instruction.program_id_index < header.pubkeys_length
  /\ \A i \in 1..instruction.accounts_length :
       message[instruction.accounts + i] < header.pubkeys_length

AllParsed == Len(instructions) = header.instructions_length

ParseInstruction ==
  /\ step = "instructions" /\ ~AllParsed
  /\ \E instruction \in parse_instruction(at) :
       /\ instruction_validate(instruction)
       /\ instructions' = Append(instructions, instruction)
       /\ at' = instruction.next
  /\ UNCHANGED <<message, header, signer, step>>

\* The end of the body taken for granted.
FinishAnywhere ==
  /\ step = "instructions" /\ AllParsed
  /\ step' = "accepted"
  /\ UNCHANGED <<message, at, header, instructions, signer>>

\* A versioned message has a list of address tables, which must be empty.
TablesEnd ==
  IF header.versioned
  THEN {length.next : length \in {l \in parse_length(at) : l.value = 0}}
  ELSE {at}

Finish ==
  /\ step = "instructions" /\ AllParsed
  /\ \E end \in TablesEnd : Len(message) = end /\ at' = end
  /\ step' = "accepted"
  /\ UNCHANGED <<message, header, instructions, signer>>

-----------------------------------------------------------------------------
(* Every parse function that fails ends the parsing of the message. *)

HeaderFails ==
  \/ step = "version" /\ ~Available(at, 1)
  \/ step = "pubkeys_header" /\ (~Available(at, 3) \/ parse_length(at + 3) = {})
  \/ step = "pubkeys" /\ ~Available(at, pubkeys_size)
  \/ step = "blockhash" /\ ~Available(at, HASH_SIZE)
  \/ step = "instructions_length" /\ parse_length(at) = {}

SignerMissing == step = "scan" /\ ~\E i \in Scanned : IsSigner(i)

BodyFails ==
  \/ step = "body" /\ header.instructions_length \notin 1..MAX_INSTRUCTIONS
  \/ /\ step = "instructions" /\ ~AllParsed
     /\ ~\E instruction \in parse_instruction(at) : instruction_validate(instruction)
  \/ step = "instructions" /\ AllParsed /\ Len(message) \notin TablesEnd

Refuse ==
  /\ \/ HeaderFails /\ step' = "InvalidMessage"
     \/ SignerMissing /\ step' = "InvalidMessageHeader"
     \/ BodyFails /\ step' = "not processed"
  /\ UNCHANGED <<message, at, header, instructions, signer>>

Next ==
  \/ parse_version
  \/ parse_pubkeys_header
  \/ parse_pubkeys
  \/ parse_blockhash
  \/ parse_instructions_length
  \/ scan_header_for_signer
  \/ BeginBody
  \/ ParseInstruction
  \/ Finish
  \/ Refuse

Spec == Init /\ [][Next]_vars /\ WF_vars(Next)

-----------------------------------------------------------------------------
(* Properties. *)

KeysEnd == PubkeyAt(header.pubkeys_length)

Instruction ==
  [program_id_index : Byte, accounts : Nat, accounts_length : Nat,
   data : Nat, data_length : Nat, next : Nat]

\* The parser stays in the message, and every field has its type.
TypeOK ==
  /\ message \in Seq(Byte)
  /\ at \in 0..Len(message)
  /\ header \in [versioned : BOOLEAN, num_required_signatures : Byte,
                 num_readonly_signed_accounts : Byte,
                 num_readonly_unsigned_accounts : Byte,
                 pubkeys_length : Nat, pubkeys : Nat \cup {NoPointer},
                 blockhash : Nat \cup {NoPointer}, instructions_length : Nat]
  /\ instructions \in Seq(Instruction)
  /\ signer \in Nat \cup {NoPointer}
  /\ step \in Parsing \cup Final

\* Pointers are kept while the parser goes on and are read when the parsing is long
\* over: the keys, the hash, the accounts and the data of each instruction lie one
\* behind the other in the bytes the parser has left behind.
PointersStayInside ==
  /\ header.pubkeys # NoPointer => KeysEnd <= at
  /\ header.blockhash # NoPointer =>
       /\ header.pubkeys # NoPointer
       /\ header.blockhash >= KeysEnd
       /\ header.blockhash + HASH_SIZE <= at
  /\ instructions # <<>> => header.blockhash # NoPointer
  /\ \A i \in 1..Len(instructions) :
       LET instruction == instructions[i]
       IN  /\ instruction.accounts > header.blockhash
           /\ instruction.accounts + instruction.accounts_length < instruction.data
           /\ instruction.data + instruction.data_length <= at

\* The program and the accounts of an instruction are looked up in the list of keys by
\* indices the message chooses: whatever it says, the key lies before the hash.
InstructionsNameKeys ==
  \A i \in 1..Len(instructions) :
    LET instruction == instructions[i]
        named == {instruction.program_id_index} \cup
                 {message[instruction.accounts + k] : k \in 1..instruction.accounts_length}
    IN  \A index \in named : PubkeyAt(index) + PUBKEY_SIZE <= header.blockhash

Key(i) == [b \in 1..PUBKEY_SIZE |-> message[PubkeyAt(i) + b]]

\* When the message has the keys it says must sign, the signer is found exactly if it is
\* one of them: the look for it neither misses a key nor takes other bytes for one.
SignerIsRequired ==
  LET required == {i \in 0..(header.num_required_signatures - 1) : Key(i) = Signer}
  IN  /\ step \in {"scan", "body", "instructions", "accepted", "InvalidMessageHeader"}
      /\ header.num_required_signatures <= header.pubkeys_length
      => /\ signer # NoPointer => \E i \in required : signer = PubkeyAt(i)
         /\ step = "InvalidMessageHeader" => required = {}

\* handle_sign_message.c ensures "the requested signer is present in the header".
SignerIsInHeader ==
  signer # NoPointer => signer + PUBKEY_SIZE <= KeysEnd
=============================================================================
