------------------------ MODULE MessageParserProofs ------------------------
(***************************************************************************)
(* The parser stays in the message, and what it keeps of the message is    *)
(* where it says; what it accepts it has understood, and what is well      *)
(* formed it accepts: for messages, keys, hashes and limits of every size. *)
(***************************************************************************)
EXTENDS MessageEncoding, SequenceTheorems, WellFoundedInduction, TLAPS

\* Which pointers are set at which step.
Unread == header.pubkeys = NoPointer /\ header.blockhash = NoPointer /\ instructions = <<>>
PointersOfStep ==
  /\ step \in {"version", "pubkeys_header", "pubkeys"} => Unread
  /\ step = "blockhash" =>
       header.pubkeys # NoPointer /\ header.blockhash = NoPointer /\ instructions = <<>>
  /\ step \in {"instructions_length", "scan", "body"} =>
       header.blockhash # NoPointer /\ instructions = <<>>
  /\ step = "instructions" => header.blockhash # NoPointer

\* The indices of an instruction count keys of the header.
IndicesAreChecked ==
  \A i \in 1..Len(instructions) : instruction_validate(instructions[i])

\* Each part is kept by every step that the ones before it allow.
ParserInv ==
  /\ TypeOK
  /\ PointersOfStep
  /\ PointersStayInside
  /\ IndicesAreChecked

-----------------------------------------------------------------------------
(* Parse functions. *)

\* A length that is parsed is a number, and its bytes are in the message.
LEMMA LengthParsed ==
  ASSUME message \in Seq(Byte), NEW place \in Nat, NEW length \in parse_length(place)
  PROVE  /\ length.value \in Nat
         /\ length.next \in Nat
         /\ place < length.next /\ length.next <= Len(message)
<1>1. PICK n \in LengthSizes(place) :
        length = [value |-> Group(message[place + 1])
                            + (IF n >= 2 THEN Group(message[place + 2]) * 128 ELSE 0)
                            + (IF n >= 3 THEN Group(message[place + 3]) * 16384 ELSE 0),
                  next |-> place + n]
  BY DEF parse_length
<1>2. n \in 1..3 /\ place + n <= Len(message)
  BY <1>1 DEF LengthSizes, Available
<1>3. \A k \in 1..n : message[place + k] \in Byte
  BY <1>2, ElementOfSeq, LenProperties
<1>4. \A k \in 1..n : Group(message[place + k]) \in Nat
  <2>1. \A byte \in Byte : Group(byte) \in Nat
    BY SMT DEF Group, Byte
  <2> QED
    BY <1>3, <2>1
<1>5. length.value \in Nat
  BY <1>1, <1>2, <1>4
<1> QED
  BY <1>1, <1>2, <1>5

\* So are data: a pointer to as many bytes as the length says.
LEMMA DataParsed ==
  ASSUME message \in Seq(Byte), NEW place \in Nat, NEW data \in parse_data(place)
  PROVE  /\ data.first \in Nat /\ data.length \in Nat /\ data.next \in Nat
         /\ place < data.first
         /\ data.first + data.length = data.next
         /\ data.next <= Len(message)
<1>1. PICK length \in parse_length(place) :
        /\ Available(length.next, length.value)
        /\ data = [first |-> length.next, length |-> length.value,
                   next |-> length.next + length.value]
  BY DEF parse_data
<1> QED
  BY <1>1, LengthParsed DEF Available

\* And an instruction: its accounts, then its data.
LEMMA InstructionParsed ==
  ASSUME message \in Seq(Byte), NEW place \in Nat,
         NEW instruction \in parse_instruction(place)
  PROVE  /\ instruction \in Instruction
         /\ place < instruction.accounts
         /\ instruction.accounts + instruction.accounts_length < instruction.data
         /\ instruction.data + instruction.data_length = instruction.next
         /\ instruction.next <= Len(message)
<1>1. PICK program \in parse_u8(place), accounts \in parse_data(place + 1) :
        \E data \in parse_data(accounts.next) :
          instruction = [program_id_index |-> program.value,
                         accounts |-> accounts.first, accounts_length |-> accounts.length,
                         data |-> data.first, data_length |-> data.length,
                         next |-> data.next]
  BY DEF parse_instruction
<1>2. PICK data \in parse_data(accounts.next) :
        instruction = [program_id_index |-> program.value,
                       accounts |-> accounts.first, accounts_length |-> accounts.length,
                       data |-> data.first, data_length |-> data.length,
                       next |-> data.next]
  BY <1>1
<1>3. program.value \in Byte
  <2>1. place + 1 <= Len(message) /\ program.value = message[place + 1]
    BY <1>1 DEF parse_u8, Available
  <2> QED
    BY <2>1, ElementOfSeq, LenProperties
<1>4. /\ accounts.first \in Nat /\ accounts.length \in Nat /\ accounts.next \in Nat
      /\ place + 1 < accounts.first
      /\ accounts.first + accounts.length = accounts.next
  BY <1>1, DataParsed
<1>5. /\ data.first \in Nat /\ data.length \in Nat /\ data.next \in Nat
      /\ accounts.next < data.first
      /\ data.first + data.length = data.next
      /\ data.next <= Len(message)
  BY <1>2, <1>4, DataParsed
<1> QED
  BY <1>2, <1>3, <1>4, <1>5 DEF Instruction

\* A list of keys is as many bytes as its keys.
LEMMA KeysSize ==
  ASSUME NEW n \in Nat, NEW size \in Nat
  PROVE  n * size \in Nat
BY SMT

\* A key of the list ends before the list does.
LEMMA KeyInList ==
  ASSUME NEW i \in Nat, NEW n \in Nat, i < n, NEW size \in Nat
  PROVE  i * size + size <= n * size
BY SMT

-----------------------------------------------------------------------------
(* Steps. *)

\* Nothing is read and no pointer is set at the beginning.
LEMMA ParserInit == Init => ParserInv
<1> SUFFICES ASSUME Init PROVE ParserInv
  OBVIOUS
<1>1. message \in Seq(Byte) /\ Len(message) \in Nat
  BY ParserAssumption, LenProperties DEF Init, ParserAssumption
<1>2. instructions = <<>> /\ instructions \in Seq(Instruction) /\ Len(instructions) = 0
  BY EmptySeq DEF Init
<1> QED
  BY <1>1, <1>2 DEF Init, ParserInv, TypeOK, PointersOfStep, Unread, PointersStayInside,
                    IndicesAreChecked, Parsing, Byte, NoPointer

\* One step per action: its guards keep the parser inside, and it sets a pointer to
\* what it has just read or leaves the pointers alone.
LEMMA ParserStep == ParserInv /\ [Next]_vars => ParserInv'
<1> SUFFICES ASSUME ParserInv, [Next]_vars PROVE ParserInv'
  OBVIOUS
<1> USE DEF ParserInv
<1>a. /\ message \in Seq(Byte) /\ Len(message) \in Nat
      /\ at \in Nat /\ at <= Len(message)
      /\ PUBKEY_SIZE \in Nat /\ HASH_SIZE \in Nat /\ HASH_SIZE > 0
  BY LenProperties, ParserAssumption DEF TypeOK, ParserAssumption
<1>b. \A n \in Nat : Available(at, n) => at + n \in 0..Len(message)
  BY <1>a DEF Available
<1>c. ASSUME UNCHANGED <<instructions, message, header>> PROVE IndicesAreChecked'
  BY <1>c DEF IndicesAreChecked, instruction_validate
<1>d. ASSUME instructions' = <<>> PROVE IndicesAreChecked'
  BY <1>d DEF IndicesAreChecked
<1>1. CASE parse_version
  <2>1. TypeOK'
    BY <1>1, <1>a, <1>b DEF parse_version, TypeOK, Parsing
  <2>2. Unread /\ Unread'
    BY <1>1 DEF parse_version, PointersOfStep, Unread, TypeOK
  <2> QED
    BY <1>1, <1>d, <2>1, <2>2
    DEF parse_version, PointersOfStep, Unread, PointersStayInside, NoPointer
<1>2. CASE parse_pubkeys_header
  <2>1. PICK length \in parse_length(at + 3) :
          /\ header' = [header EXCEPT
                          !.num_required_signatures = message[at + 1],
                          !.num_readonly_signed_accounts = message[at + 2],
                          !.num_readonly_unsigned_accounts = message[at + 3],
                          !.pubkeys_length = length.value]
          /\ at' = length.next
    BY <1>2 DEF parse_pubkeys_header
  <2>2. length.value \in Nat /\ length.next \in 0..Len(message)
    BY <1>a, <2>1, LengthParsed
  <2>3. message[at + 1] \in Byte /\ message[at + 2] \in Byte /\ message[at + 3] \in Byte
    BY <1>2, <1>a, ElementOfSeq DEF parse_pubkeys_header, Available
  <2>4. TypeOK'
    BY <1>2, <2>1, <2>2, <2>3 DEF parse_pubkeys_header, TypeOK, Parsing
  <2>5. Unread /\ Unread'
    BY <1>2, <2>1 DEF parse_pubkeys_header, PointersOfStep, Unread, TypeOK
  <2> QED
    BY <1>2, <1>d, <2>4, <2>5
    DEF parse_pubkeys_header, PointersOfStep, Unread, PointersStayInside, NoPointer
<1>3. CASE parse_pubkeys
  <2>1. pubkeys_size \in Nat
    BY <1>a, KeysSize DEF pubkeys_size, TypeOK
  <2>2. /\ header' = [header EXCEPT !.pubkeys = at]
        /\ at' = at + pubkeys_size /\ at' \in 0..Len(message)
        /\ Unread
        /\ UNCHANGED <<message, instructions, signer>>
    BY <1>3, <1>b, <2>1 DEF parse_pubkeys, PointersOfStep
  <2>3. /\ header'.pubkeys = at /\ header'.blockhash = NoPointer
        /\ header'.pubkeys_length = header.pubkeys_length
    BY <2>2 DEF TypeOK, Unread
  <2>4. TypeOK'
    BY <1>3, <1>a, <2>2 DEF parse_pubkeys, TypeOK, Parsing
  <2>5. KeysEnd' = at'
    BY <2>2, <2>3 DEF KeysEnd, PubkeyAt, pubkeys_size
  <2>6. PointersStayInside'
    BY <1>a, <2>2, <2>3, <2>5 DEF PointersStayInside, Unread
  <2>7. PointersOfStep'
    BY <1>3, <1>a, <2>2, <2>3 DEF parse_pubkeys, PointersOfStep, Unread, NoPointer
  <2> QED
    BY <1>d, <2>2, <2>4, <2>6, <2>7 DEF Unread
<1>4. CASE parse_blockhash
  <2>1. /\ header' = [header EXCEPT !.blockhash = at]
        /\ at' = at + HASH_SIZE /\ at' \in 0..Len(message)
        /\ header.pubkeys # NoPointer /\ instructions = <<>>
        /\ UNCHANGED <<message, instructions, signer>>
    BY <1>4, <1>a, <1>b DEF parse_blockhash, PointersOfStep
  <2>2. /\ header'.pubkeys = header.pubkeys /\ header'.blockhash = at
        /\ header'.pubkeys_length = header.pubkeys_length
    BY <2>1 DEF TypeOK
  <2>3. TypeOK'
    BY <1>4, <1>a, <2>1 DEF parse_blockhash, TypeOK, Parsing
  <2>4. KeysEnd' = KeysEnd /\ KeysEnd <= at
    BY <2>1, <2>2 DEF KeysEnd, PubkeyAt, PointersStayInside
  <2>5. PointersStayInside'
    <3>1. KeysEnd \in Int
      BY <1>a, KeysSize DEF KeysEnd, PubkeyAt, TypeOK, NoPointer
    <3> QED
      BY <1>a, <2>1, <2>2, <2>4, <3>1 DEF PointersStayInside, NoPointer
  <2>6. PointersOfStep'
    BY <1>4, <1>a, <2>1, <2>2 DEF parse_blockhash, PointersOfStep, NoPointer
  <2> QED
    BY <1>d, <2>1, <2>3, <2>5, <2>6
<1>5. CASE parse_instructions_length
  <2>1. PICK length \in parse_length(at) :
          /\ header' = [header EXCEPT !.instructions_length = length.value]
          /\ at' = length.next
    BY <1>5 DEF parse_instructions_length
  <2>2. length.value \in Nat /\ length.next \in 0..Len(message) /\ at <= at'
    BY <1>a, <2>1, LengthParsed
  <2>3. header.blockhash # NoPointer /\ instructions = <<>> /\ instructions' = <<>>
    BY <1>5 DEF parse_instructions_length, PointersOfStep
  <2>4. /\ header'.pubkeys = header.pubkeys /\ header'.blockhash = header.blockhash
        /\ header'.pubkeys_length = header.pubkeys_length
    BY <2>1 DEF TypeOK
  <2>5. TypeOK'
    BY <1>5, <2>1, <2>2 DEF parse_instructions_length, TypeOK, Parsing
  <2>6. PointersStayInside'
    <3>1. KeysEnd' = KeysEnd /\ KeysEnd \in Int /\ header.blockhash \in Int
      BY <1>a, <2>4, KeysSize DEF KeysEnd, PubkeyAt, TypeOK, NoPointer
    <3> QED
      BY <1>a, <2>1, <2>2, <2>3, <2>4, <3>1 DEF PointersStayInside
  <2>7. PointersOfStep'
    BY <1>5, <2>3, <2>4 DEF parse_instructions_length, PointersOfStep
  <2> QED
    BY <1>d, <2>3, <2>5, <2>6, <2>7
<1>6. CASE scan_header_for_signer
  <2>1. PICK i \in Scanned : signer' = PubkeyAt(i)
    BY <1>6 DEF scan_header_for_signer
  <2>2. PubkeyAt(i) \in Nat
    <3>1. header.pubkeys \in Nat /\ i \in Nat
      BY <1>6, <2>1
      DEF scan_header_for_signer, PointersOfStep, PointersStayInside, TypeOK, Scanned
    <3> QED
      BY <1>a, <3>1, KeysSize DEF PubkeyAt
  <2>3. TypeOK'
    BY <1>6, <2>1, <2>2 DEF scan_header_for_signer, TypeOK, Parsing
  <2> QED
    BY <1>6, <1>c, <2>3
    DEF scan_header_for_signer, PointersOfStep, PointersStayInside, KeysEnd, PubkeyAt
<1>7. CASE BeginBody
  BY <1>7, <1>c DEF BeginBody, TypeOK, Parsing, PointersOfStep, PointersStayInside, KeysEnd,
                    PubkeyAt
<1>8. CASE ParseInstruction
  <2>1. PICK instruction \in parse_instruction(at) :
          /\ instruction_validate(instruction)
          /\ instructions' = Append(instructions, instruction)
          /\ at' = instruction.next
    BY <1>8 DEF ParseInstruction
  <2>2. /\ instruction \in Instruction
        /\ at < instruction.accounts
        /\ instruction.accounts + instruction.accounts_length < instruction.data
        /\ instruction.data + instruction.data_length = at'
        /\ at' <= Len(message)
    BY <1>a, <2>1, InstructionParsed
  <2>3. UNCHANGED <<message, header, signer, step>> /\ step = "instructions"
    BY <1>8 DEF ParseInstruction
  <2>4. at <= at' /\ at' \in 0..Len(message)
    BY <1>a, <2>2 DEF Instruction
  <2>5. /\ instructions' \in Seq(Instruction)
        /\ Len(instructions) \in Nat
        /\ Len(instructions') = Len(instructions) + 1
        /\ \A i \in 1..Len(instructions) : instructions'[i] = instructions[i]
        /\ instructions'[Len(instructions) + 1] = instruction
    BY <2>1, <2>2, AppendProperties, LenProperties DEF TypeOK
  <2>6. TypeOK'
    BY <2>3, <2>4, <2>5 DEF TypeOK
  <2>7. header.blockhash # NoPointer /\ header.blockhash \in Nat
    BY <2>3 DEF PointersOfStep, TypeOK
  <2>8. PointersStayInside'
    <3>1. KeysEnd' = KeysEnd /\ KeysEnd \in Int
      BY <1>a, <2>3, KeysSize DEF KeysEnd, PubkeyAt, TypeOK, NoPointer
    <3>2. header.blockhash + HASH_SIZE <= at
      BY <2>7 DEF PointersStayInside
    <3>3. ASSUME NEW i \in 1..Len(instructions')
          PROVE  /\ instructions'[i].accounts > header.blockhash
                 /\ instructions'[i].accounts + instructions'[i].accounts_length
                      < instructions'[i].data
                 /\ instructions'[i].data + instructions'[i].data_length <= at'
      <4>1. CASE i \in 1..Len(instructions)
        <5>1. instructions'[i] = instructions[i] /\ instructions[i] \in Instruction
          BY <2>5, <4>1, ElementOfSeq DEF TypeOK
        <5>2. /\ instructions[i].accounts > header.blockhash
              /\ instructions[i].accounts + instructions[i].accounts_length
                   < instructions[i].data
              /\ instructions[i].data + instructions[i].data_length <= at
          BY <4>1 DEF PointersStayInside
        <5> QED
          BY <1>a, <2>4, <5>1, <5>2 DEF Instruction
      <4>2. CASE i = Len(instructions) + 1
        <5>1. instructions'[i] = instruction
          BY <2>5, <4>2
        <5>2. instruction.accounts > header.blockhash
          BY <1>a, <2>2, <2>7, <3>2 DEF Instruction
        <5>3. instruction.data + instruction.data_length <= at'
          BY <1>a, <2>2, <2>4 DEF Instruction
        <5> QED
          BY <2>2, <5>1, <5>2, <5>3
      <4> QED
        BY <2>5, <3>3, <4>1, <4>2
    <3>4. header.pubkeys # NoPointer /\ header.blockhash >= KeysEnd /\ KeysEnd <= at
      BY <2>7 DEF PointersStayInside
    <3> QED
      BY <1>a, <2>3, <2>4, <2>7, <3>1, <3>2, <3>3, <3>4 DEF PointersStayInside
  <2>9. IndicesAreChecked'
    <3>1. ASSUME NEW i \in 1..Len(instructions')
          PROVE  instruction_validate(instructions'[i])
      <4>1. CASE i \in 1..Len(instructions)
        BY <2>5, <4>1 DEF IndicesAreChecked
      <4>2. CASE i = Len(instructions) + 1
        BY <2>1, <2>5, <4>2
      <4> QED
        BY <2>5, <3>1, <4>1, <4>2
    <3> QED
      BY <2>3, <3>1 DEF IndicesAreChecked, instruction_validate
  <2> QED
    BY <2>3, <2>6, <2>7, <2>8, <2>9 DEF PointersOfStep
<1>9. CASE Finish
  <2>1. UNCHANGED <<message, header, instructions, signer>> /\ step' = "accepted"
    BY <1>9 DEF Finish
  <2>2. at' = Len(message)
    BY <1>9 DEF Finish
  <2>3. TypeOK'
    <3>1. at' \in 0..Len(message')
      BY <1>a, <2>1, <2>2
    <3> QED
      BY <2>1, <3>1 DEF TypeOK, Final
  <2>4. PointersStayInside'
    <3>1. KeysEnd' = KeysEnd /\ KeysEnd \in Int /\ at <= at'
      BY <1>a, <2>1, <2>2, KeysSize DEF KeysEnd, PubkeyAt, TypeOK, NoPointer
    <3>2. ASSUME NEW i \in 1..Len(instructions)
          PROVE  instructions[i].data + instructions[i].data_length <= at'
      <4>1. instructions[i] \in Instruction
        BY ElementOfSeq DEF TypeOK
      <4>2. instructions[i].data + instructions[i].data_length <= at
        BY DEF PointersStayInside
      <4> QED
        BY <1>a, <2>2, <4>1, <4>2 DEF Instruction
    <3>3. header.blockhash \in Int
      BY DEF TypeOK, NoPointer
    <3> QED
      BY <1>a, <2>1, <2>2, <3>1, <3>2, <3>3 DEF PointersStayInside
  <2> QED
    BY <2>1, <2>3, <2>4, <1>c DEF PointersOfStep
<1>10. CASE Refuse
  <2>1. /\ UNCHANGED <<message, at, header, instructions, signer>>
        /\ step' \in {"InvalidMessage", "InvalidMessageHeader", "not processed"}
    BY <1>10 DEF Refuse
  <2> QED
    BY <2>1, <1>c DEF TypeOK, Final, PointersOfStep, PointersStayInside, KeysEnd, PubkeyAt
<1>11. CASE UNCHANGED vars
  BY <1>11, <1>c DEF vars, TypeOK, PointersOfStep, Unread, PointersStayInside, KeysEnd, PubkeyAt
<1> QED
  BY <1>1, <1>2, <1>3, <1>4, <1>5, <1>6, <1>7, <1>8, <1>9, <1>10, <1>11 DEF Next

-----------------------------------------------------------------------------
(* What follows from the invariant. *)

\* An index below the number of keys is that of a key that ends before the hash.
LEMMA IndicesNameKeys == ParserInv => InstructionsNameKeys
<1> SUFFICES ASSUME ParserInv, NEW i \in 1..Len(instructions),
                    NEW index \in {instructions[i].program_id_index} \cup
                                  {message[instructions[i].accounts + k] :
                                     k \in 1..instructions[i].accounts_length}
             PROVE  PubkeyAt(index) + PUBKEY_SIZE <= header.blockhash
  BY DEF InstructionsNameKeys
<1>1. instructions[i] \in Instruction
  BY ElementOfSeq DEF ParserInv, TypeOK
<1>2. /\ message \in Seq(Byte) /\ Len(message) \in Nat /\ at <= Len(message)
      /\ at \in Nat /\ header.pubkeys_length \in Nat
      /\ header.pubkeys \in Int /\ header.blockhash \in Int
  BY LenProperties DEF ParserInv, TypeOK, NoPointer
<1>3. instruction_validate(instructions[i])
  BY DEF ParserInv, IndicesAreChecked
<1>4. index < header.pubkeys_length
  BY <1>3 DEF instruction_validate
<1>5. /\ instructions[i].accounts + instructions[i].accounts_length < instructions[i].data
      /\ instructions[i].data + instructions[i].data_length <= at
      /\ header.blockhash # NoPointer /\ header.blockhash >= KeysEnd
  <2>1. instructions # <<>>
    BY LenProperties DEF ParserInv, TypeOK
  <2> QED
    BY <2>1 DEF ParserInv, PointersStayInside
<1>6. index \in Nat
  <2>0. Byte \subseteq Nat
    BY SMT DEF Byte
  <2>1. CASE index = instructions[i].program_id_index
    <3>1. instructions[i].program_id_index \in Byte
      BY <1>1 DEF Instruction
    <3> QED
      BY <2>0, <2>1, <3>1, Zenon
  <2>2. ASSUME NEW k \in 1..instructions[i].accounts_length,
               index = message[instructions[i].accounts + k]
        PROVE  index \in Nat
    <3>1. instructions[i].accounts + k \in 1..Len(message)
      <4> DEFINE accounts == instructions[i].accounts
                 length == instructions[i].accounts_length
                 data == instructions[i].data
      <4>1. accounts \in Nat /\ length \in Nat /\ data \in Nat
        BY <1>1 DEF Instruction
      <4>2. accounts + length < data /\ data <= Len(message)
        BY <1>1, <1>2, <1>5 DEF Instruction
      <4>3. k \in 1..length
        OBVIOUS
      <4> HIDE DEF accounts, length, data
      <4>4. accounts + k \in 1..Len(message)
        BY <1>2, <4>1, <4>2, <4>3
      <4> QED
        BY <4>4 DEF accounts
    <3>2. message[instructions[i].accounts + k] \in Byte
      BY <1>2, <3>1, ElementOfSeq
    <3> QED
      BY <2>0, <2>2, <3>2, Zenon
  <2> QED
    BY <2>1, <2>2
<1>7. PUBKEY_SIZE \in Nat
  BY ParserAssumption DEF ParserAssumption
<1>8. /\ index * PUBKEY_SIZE \in Nat /\ header.pubkeys_length * PUBKEY_SIZE \in Nat
      /\ index * PUBKEY_SIZE + PUBKEY_SIZE <= header.pubkeys_length * PUBKEY_SIZE
  BY <1>2, <1>4, <1>6, <1>7, KeysSize, KeyInList
<1> QED
  <2> DEFINE before == index * PUBKEY_SIZE
             all == header.pubkeys_length * PUBKEY_SIZE
  <2>1. PubkeyAt(index) = header.pubkeys + before /\ KeysEnd = header.pubkeys + all
    BY DEF KeysEnd, PubkeyAt
  <2>2. before \in Nat /\ all \in Nat /\ before + PUBKEY_SIZE <= all
    BY <1>8
  <2> HIDE DEF before, all
  <2> QED
    BY <1>2, <1>5, <1>7, <2>1, <2>2

\* The parser never leaves the message, and every field of the header and of an
\* instruction has its type, whatever the bytes.
THEOREM ParserTypeCorrect == Spec => []TypeOK
<1>1. ParserInv => TypeOK
  BY DEF ParserInv
<1> QED
  BY ParserInit, ParserStep, <1>1, PTL DEF Spec

\* What the header and the instructions point to lies, one thing behind the other, in
\* the bytes that were parsed.
THEOREM PointersAreInside == Spec => []PointersStayInside
<1>1. ParserInv => PointersStayInside
  BY DEF ParserInv
<1> QED
  BY ParserInit, ParserStep, <1>1, PTL DEF Spec

\* The indices of every instruction name keys that lie before the hash.
THEOREM IndicesAreOfKeys == Spec => []InstructionsNameKeys
BY ParserInit, ParserStep, IndicesNameKeys, PTL DEF Spec

-----------------------------------------------------------------------------
(* The signer. *)

Required == {i \in 0..(header.num_required_signatures - 1) : Key(i) = Signer}
HasRequiredKeys == header.num_required_signatures <= header.pubkeys_length
BeforeScan ==
  {"version", "pubkeys_header", "pubkeys", "blockhash", "instructions_length", "scan"}

\* The message fits in the buffer, and the look for the signer has not begun or has
\* ended as SignerIsRequired says.
SignerInv ==
  /\ Len(message) <= MAX_MESSAGE_LENGTH
  /\ step \in BeforeScan => signer = NoPointer
  /\ HasRequiredKeys /\ signer # NoPointer => \E i \in Required : signer = PubkeyAt(i)
  /\ HasRequiredKeys /\ step = "InvalidMessageHeader" => Required = {}

\* The numbers of keys and of signatures are numbers.
LEMMA KeyCounts ==
  ASSUME TypeOK
  PROVE  header.num_required_signatures \in Nat /\ header.pubkeys_length \in Nat
<1>1. header.num_required_signatures \in Byte /\ header.pubkeys_length \in Nat
  BY DEF TypeOK
<1> QED
  BY <1>1 DEF Byte

\* A key of the header is in the message, so that it is compared with no other bytes.
LEMMA KeyIsCompared ==
  ASSUME ParserInv, Len(message) <= MAX_MESSAGE_LENGTH, header.blockhash # NoPointer,
         NEW i \in Nat, i < header.pubkeys_length
  PROVE  /\ InBuffer(PubkeyAt(i) + PUBKEY_SIZE - 1)
         /\ MayBeSigner(i) <=> Key(i) = Signer
<1>1. /\ PUBKEY_SIZE \in Nat /\ PUBKEY_SIZE > 0 /\ MAX_MESSAGE_LENGTH \in Nat
      /\ Signer \in [1..PUBKEY_SIZE -> Byte]
  BY ParserAssumption DEF ParserAssumption
<1>2. /\ message \in Seq(Byte) /\ Len(message) \in Nat /\ at \in Nat /\ at <= Len(message)
      /\ header.pubkeys_length \in Nat /\ header.pubkeys \in Nat /\ KeysEnd <= at
  BY LenProperties DEF ParserInv, TypeOK, PointersStayInside
<1>3. PubkeyAt(i) \in Nat /\ PubkeyAt(i) + PUBKEY_SIZE <= Len(message)
  <2> DEFINE before == i * PUBKEY_SIZE
             all == header.pubkeys_length * PUBKEY_SIZE
  <2>1. PubkeyAt(i) = header.pubkeys + before /\ KeysEnd = header.pubkeys + all
    BY DEF KeysEnd, PubkeyAt
  <2>2. before \in Nat /\ all \in Nat /\ before + PUBKEY_SIZE <= all
    BY <1>1, <1>2, KeysSize, KeyInList
  <2> HIDE DEF before, all
  <2> QED
    BY <1>1, <1>2, <2>1, <2>2
<1>4. ASSUME NEW b \in 1..PUBKEY_SIZE
      PROVE  /\ InBuffer(PubkeyAt(i) + b - 1)
             /\ Stored(PubkeyAt(i) + b - 1) = message[PubkeyAt(i) + b]
  <2> DEFINE place == PubkeyAt(i) + b - 1
  <2>1. place < Len(message) /\ place < MAX_MESSAGE_LENGTH /\ place + 1 = PubkeyAt(i) + b
    BY <1>1, <1>2, <1>3
  <2> QED
    BY <2>1 DEF InBuffer, Stored
<1>5. InBuffer(PubkeyAt(i) + PUBKEY_SIZE - 1)
  BY <1>1, <1>4
<1>6. MayBeSigner(i) <=> \A b \in 1..PUBKEY_SIZE : message[PubkeyAt(i) + b] = Signer[b]
  BY <1>4, Zenon DEF MayBeSigner
<1>7. (\A b \in 1..PUBKEY_SIZE : message[PubkeyAt(i) + b] = Signer[b]) <=> Key(i) = Signer
  BY <1>1 DEF Key
<1> QED
  BY <1>5, <1>6, <1>7

\* Messages fit in the buffer, and no signer is known at the beginning.
LEMMA SignerInit == Init => SignerInv
BY ParserAssumption DEF Init, SignerInv, ParserAssumption, BeforeScan

\* The look for the signer finds what SignerIsRequired says, and no other step has to
\* do with it.
LEMMA SignerStep == ParserInv /\ SignerInv /\ [Next]_vars => SignerInv'
<1> SUFFICES ASSUME ParserInv, SignerInv, [Next]_vars PROVE SignerInv'
  OBVIOUS
<1>a. Len(message) <= MAX_MESSAGE_LENGTH
  BY DEF SignerInv
<1>b. ASSUME step \in BeforeScan, message' = message, signer' = signer, step' \in BeforeScan
      PROVE  SignerInv'
  BY <1>b DEF SignerInv, BeforeScan
<1>c. ASSUME UNCHANGED <<message, header>>
      PROVE  Required' = Required /\ HasRequiredKeys' = HasRequiredKeys /\
             \A i : PubkeyAt(i)' = PubkeyAt(i)
  BY <1>c DEF Required, HasRequiredKeys, Key, PubkeyAt
<1>d. ASSUME UNCHANGED <<message, header, signer>>, step' \notin BeforeScan,
             step' # "InvalidMessageHeader"
      PROVE  SignerInv'
  BY <1>d DEF SignerInv, Required, HasRequiredKeys, Key, PubkeyAt
<1>1. CASE parse_version
  BY <1>1, <1>b DEF parse_version, BeforeScan
<1>2. CASE parse_pubkeys_header
  BY <1>2, <1>b DEF parse_pubkeys_header, BeforeScan
<1>3. CASE parse_pubkeys
  BY <1>3, <1>b DEF parse_pubkeys, BeforeScan
<1>4. CASE parse_blockhash
  BY <1>4, <1>b DEF parse_blockhash, BeforeScan
<1>5. CASE parse_instructions_length
  BY <1>5, <1>b DEF parse_instructions_length, BeforeScan
<1>6. CASE scan_header_for_signer
  <2>1. PICK i \in Scanned : MayBeSigner(i) /\ signer' = PubkeyAt(i)
    BY <1>6 DEF scan_header_for_signer
  <2>2. UNCHANGED <<message, header>> /\ step = "scan" /\ step' = "body"
    BY <1>6 DEF scan_header_for_signer
  <2>3. i \in 0..(header.num_required_signatures - 1) /\ i \in Nat
    BY <2>1 DEF Scanned
  <2>4. HasRequiredKeys => i \in Required
    <3> SUFFICES ASSUME HasRequiredKeys PROVE Key(i) = Signer
      BY <2>3 DEF Required
    <3>1. header.num_required_signatures \in Nat /\ header.pubkeys_length \in Nat
      BY KeyCounts DEF ParserInv
    <3>2. i < header.pubkeys_length
      BY <2>3, <3>1 DEF HasRequiredKeys
    <3>3. header.blockhash # NoPointer
      BY <2>2 DEF ParserInv, PointersOfStep
    <3> QED
      BY <1>a, <2>1, <2>3, <3>2, <3>3, KeyIsCompared
  <2> QED
    BY <1>a, <1>c, <2>1, <2>2, <2>4 DEF SignerInv, BeforeScan
<1>7. CASE BeginBody
  BY <1>7, <1>d DEF BeginBody, BeforeScan
<1>8. CASE ParseInstruction
  BY <1>8, <1>d DEF ParseInstruction, BeforeScan
<1>9. CASE Finish
  BY <1>9, <1>d DEF Finish, BeforeScan
<1>10. CASE Refuse
  <2>1. UNCHANGED <<message, at, header, instructions, signer>>
    BY <1>10 DEF Refuse
  <2>2. CASE step' # "InvalidMessageHeader"
    BY <1>10, <1>d, <2>1, <2>2 DEF Refuse, BeforeScan
  <2>3. CASE step' = "InvalidMessageHeader"
    <3>1. step = "scan" /\ ~\E i \in Scanned : IsSigner(i)
      BY <1>10, <2>3 DEF Refuse, SignerMissing
    <3>2. HasRequiredKeys => Required = {}
      <4> SUFFICES ASSUME HasRequiredKeys, NEW i \in Required PROVE FALSE
        OBVIOUS
      <4>1. header.num_required_signatures \in Nat /\ header.pubkeys_length \in Nat
        BY KeyCounts DEF ParserInv
      <4>2. i \in Nat /\ i < header.pubkeys_length /\ i \in Scanned /\ Key(i) = Signer
        BY <4>1 DEF HasRequiredKeys, Required, Scanned
      <4>3. header.blockhash # NoPointer
        BY <3>1 DEF ParserInv, PointersOfStep
      <4>4. IsSigner(i)
        BY <1>a, <4>2, <4>3, KeyIsCompared DEF IsSigner
      <4> QED
        BY <3>1, <4>2, <4>4
    <3>3. signer = NoPointer
      BY <3>1 DEF SignerInv, BeforeScan
    <3> QED
      BY <1>a, <2>1, <2>3, <3>2, <3>3
      DEF SignerInv, BeforeScan, Required, HasRequiredKeys, Key, PubkeyAt
  <2> QED
    BY <2>2, <2>3
<1>11. CASE UNCHANGED vars
  BY <1>11 DEF vars, SignerInv, Required, HasRequiredKeys, Key, PubkeyAt
<1> QED
  BY <1>1, <1>2, <1>3, <1>4, <1>5, <1>6, <1>7, <1>8, <1>9, <1>10, <1>11 DEF Next

\* SignerInv says what the property says.
LEMMA SignerOfInv == SignerInv => SignerIsRequired
BY DEF SignerInv, SignerIsRequired, Required, HasRequiredKeys

\* When the message has as many keys as it says must sign, a signer that was found is one
\* of them, and one that was not found is none of them.
THEOREM RequiredSignerIsFound == Spec => []SignerIsRequired
BY ParserInit, ParserStep, SignerInit, SignerStep, SignerOfInv, PTL DEF Spec

-----------------------------------------------------------------------------
(* What is encoded at a place is what is parsed there. *)

\* The groups of seven bits of a number.
LEMMA GroupsOf ==
  ASSUME NEW n \in Nat
  PROVE  /\ n % 128 \in 0..127 /\ (n \div 128) % 128 \in 0..127 /\ n \div 16384 \in Nat
         /\ n < 128 => n % 128 = n
         /\ n < 16384 => n = (n % 128) + ((n \div 128) % 128) * 128
         /\ n < 2097152 => n \div 16384 \in 0..127
         /\ n = (n % 128) + ((n \div 128) % 128) * 128 + (n \div 16384) * 16384
<1> DEFINE q == n \div 128
           h == n \div 16384
<1>1. q \in Nat /\ n = (n % 128) + q * 128 /\ n % 128 \in 0..127
  BY SMT
<1>2. h \in Nat /\ n < h * 16384 + 16384 /\ h * 16384 <= n
  BY SMT
<1>3. q % 128 \in 0..127 /\ q \div 128 \in Nat /\ q = (q % 128) + (q \div 128) * 128
  BY <1>1, SMT
<1>4. q \div 128 = h
  <2> HIDE DEF q, h
  <2>1. q * 128 <= n /\ n < q * 128 + 128
    BY <1>1
  <2> QED BY <1>1, <1>2, <1>3, <2>1, SMT
<1>5. n = (n % 128) + (q % 128) * 128 + h * 16384
  BY <1>1, <1>3, <1>4
<1> HIDE DEF q, h
<1>6. n < 128 => n % 128 = n
  BY SMT
<1>7. n < 16384 => h = 0
  BY <1>2
<1>8. n < 2097152 => h \in 0..127
  BY <1>2
<1>9. n < 16384 => n = (n % 128) + (q % 128) * 128
  BY <1>1, <1>3, <1>5, <1>7
<1> QED BY <1>1, <1>2, <1>3, <1>5, <1>6, <1>8, <1>9 DEF q, h

\* At most one length is at a place.
LEMMA OneSize ==
  ASSUME NEW place, NEW m \in LengthSizes(place), NEW n \in LengthSizes(place)
  PROVE  m = n
<1>1. ASSUME NEW i \in LengthSizes(place), NEW j \in LengthSizes(place), i < j PROVE FALSE
  <2>1. i \in 1..3 /\ j \in 1..3 /\ i \in 1..(j - 1) /\ i # 3
    BY <1>1 DEF LengthSizes
  <2>2. Continues(message[place + i]) /\ ~Continues(message[place + i])
    BY <2>1 DEF LengthSizes
  <2> QED BY <2>2
<1>2. m \in 1..3 /\ n \in 1..3
  BY DEF LengthSizes
<1> QED BY <1>1, <1>2

\* There is one length at most at a place.
LEMMA OneLength ==
  ASSUME NEW place, NEW one \in parse_length(place), NEW other \in parse_length(place)
  PROVE  one = other
BY OneSize DEF parse_length

\* A text at a place, byte by byte.
LEMMA Texts ==
  ASSUME NEW place \in Nat, NEW next
  PROVE  /\ \A a : next \in After(message, place, <<a>>) <=>
                     next = place + 1 /\ Available(place, 1) /\ message[place + 1] = a
         /\ \A a, b : next \in After(message, place, <<a, b>>) <=>
                        /\ next = place + 2 /\ Available(place, 2)
                        /\ message[place + 1] = a /\ message[place + 2] = b
         /\ \A a, b, c : next \in After(message, place, <<a, b, c>>) <=>
                           /\ next = place + 3 /\ Available(place, 3)
                           /\ message[place + 1] = a /\ message[place + 2] = b
                           /\ message[place + 3] = c
<1>1. ASSUME NEW a
      PROVE  next \in After(message, place, <<a>>) <=>
               next = place + 1 /\ Available(place, 1) /\ message[place + 1] = a
  <2>1. Len(<<a>>) = 1 /\ <<a>>[1] = a
    OBVIOUS
  <2> QED BY <2>1 DEF After, Occurs, Available
<1>2. ASSUME NEW a, NEW b
      PROVE  next \in After(message, place, <<a, b>>) <=>
               /\ next = place + 2 /\ Available(place, 2)
               /\ message[place + 1] = a /\ message[place + 2] = b
  <2>1. Len(<<a, b>>) = 2 /\ <<a, b>>[1] = a /\ <<a, b>>[2] = b /\ 1..2 = {1, 2}
    OBVIOUS
  <2> QED BY <2>1 DEF After, Occurs, Available
<1>3. ASSUME NEW a, NEW b, NEW c
      PROVE  next \in After(message, place, <<a, b, c>>) <=>
               /\ next = place + 3 /\ Available(place, 3)
               /\ message[place + 1] = a /\ message[place + 2] = b /\ message[place + 3] = c
  <2>1. /\ Len(<<a, b, c>>) = 3 /\ <<a, b, c>>[1] = a /\ <<a, b, c>>[2] = b
        /\ <<a, b, c>>[3] = c /\ 1..3 = {1, 2, 3}
    OBVIOUS
  <2> QED BY <2>1 DEF After, Occurs, Available
<1> QED BY <1>1, <1>2, <1>3

\* A byte as the parser takes it.
LEMMA ByteGroups ==
  ASSUME NEW byte \in Byte
  PROVE  /\ Group(byte) \in 0..127
         /\ Continues(byte) => byte = Group(byte) + 128
         /\ ~Continues(byte) => byte = Group(byte)
BY SMT DEF Byte, Group, Continues

\* A group and the bytes that hold it.
LEMMA GroupBytes ==
  ASSUME NEW g \in 0..127
  PROVE  /\ ~Continues(g) /\ Group(g) = g
         /\ Continues(g + 128) /\ Group(g + 128) = g
BY SMT DEF Group, Continues

\* One group, from the number and from the bytes.
LEMMA OneGroup ==
  ASSUME NEW n \in Nat, NEW first \in Byte
  PROVE  n < 128 /\ first = n % 128 <=> ~Continues(first) /\ n = Group(first)
BY SMT DEF Byte, Continues, Group

\* Two groups.
LEMMA TwoGroups ==
  ASSUME NEW n \in Nat, NEW first \in Byte, NEW second \in Byte
  PROVE  n < 16384 /\ first = (n % 128) + 128 /\ second = (n \div 128) % 128 <=>
           /\ Continues(first) /\ ~Continues(second)
           /\ n = Group(first) + Group(second) * 128
<1>1. ASSUME n < 16384, first = (n % 128) + 128, second = (n \div 128) % 128
      PROVE  /\ Continues(first) /\ ~Continues(second)
             /\ n = Group(first) + Group(second) * 128
  <2>1. n % 128 \in 0..127 /\ second \in 0..127 /\ n = (n % 128) + second * 128
    BY <1>1, GroupsOf
  <2>2. Continues(first) /\ Group(first) = n % 128
    BY <1>1, <2>1, GroupBytes
  <2>3. ~Continues(second) /\ Group(second) = second
    BY <2>1, GroupBytes
  <2> QED BY <2>1, <2>2, <2>3
<1>2. ASSUME Continues(first), ~Continues(second), n = Group(first) + Group(second) * 128
      PROVE  n < 16384 /\ first = (n % 128) + 128 /\ second = (n \div 128) % 128
  <2>1. /\ Group(first) \in 0..127 /\ first = Group(first) + 128
        /\ Group(second) \in 0..127 /\ second = Group(second)
    BY <1>2, ByteGroups
  <2>2. n = Group(first) + Group(second) * 128 + 0 * 16384
    BY <1>2, <2>1
  <2>3. n % 128 = Group(first) /\ (n \div 128) % 128 = Group(second)
    <3> DEFINE low == Group(first)
               mid == Group(second)
    <3>1. low \in 0..127 /\ mid \in 0..127 /\ 0 \in 0..127 /\ n = low + mid * 128 + 0 * 16384
      BY <2>1, <2>2
    <3> HIDE DEF low, mid
    <3>2. n % 128 = low /\ n \div 128 = mid
      BY <3>1, SMT
    <3>3. mid % 128 = mid
      BY <3>1, SMT
    <3> QED BY <3>2, <3>3 DEF low, mid
  <2>4. n < 16384
    BY <1>2, <2>1
  <2> QED BY <2>1, <2>3, <2>4
<1> QED BY <1>1, <1>2

\* Three groups, whatever the high bit of the third byte.
LEMMA ThreeGroups ==
  ASSUME NEW n \in Nat, NEW first \in Byte, NEW second \in Byte, NEW third \in Byte
  PROVE  (/\ n < 2097152 /\ first = (n % 128) + 128 /\ second = ((n \div 128) % 128) + 128
          /\ third = n \div 16384 \/ third = n \div 16384 + 128) <=>
           /\ Continues(first) /\ Continues(second)
           /\ n = Group(first) + Group(second) * 128 + Group(third) * 16384
<1>1. ASSUME n < 2097152, first = (n % 128) + 128, second = ((n \div 128) % 128) + 128,
             third = n \div 16384 \/ third = n \div 16384 + 128
      PROVE  /\ Continues(first) /\ Continues(second)
             /\ n = Group(first) + Group(second) * 128 + Group(third) * 16384
  <2>1. /\ n % 128 \in 0..127 /\ (n \div 128) % 128 \in 0..127
        /\ n \div 16384 \in 0..127
        /\ n = (n % 128) + ((n \div 128) % 128) * 128 + (n \div 16384) * 16384
    BY <1>1, GroupsOf
  <2>2. Continues(first) /\ Group(first) = n % 128
    BY <1>1, <2>1, GroupBytes
  <2>3. Continues(second) /\ Group(second) = (n \div 128) % 128
    BY <1>1, <2>1, GroupBytes
  <2>4. Group(third) = n \div 16384
    BY <1>1, <2>1, GroupBytes
  <2> QED BY <2>1, <2>2, <2>3, <2>4
<1>2. ASSUME Continues(first), Continues(second),
             n = Group(first) + Group(second) * 128 + Group(third) * 16384
      PROVE  /\ n < 2097152 /\ first = (n % 128) + 128 /\ second = ((n \div 128) % 128) + 128
             /\ third = n \div 16384 \/ third = n \div 16384 + 128
  <2>1. /\ Group(first) \in 0..127 /\ first = Group(first) + 128
        /\ Group(second) \in 0..127 /\ second = Group(second) + 128
        /\ Group(third) \in 0..127
        /\ third = Group(third) \/ third = Group(third) + 128
    BY <1>2, ByteGroups
  <2>2. /\ n % 128 = Group(first) /\ (n \div 128) % 128 = Group(second)
        /\ n \div 16384 = Group(third) /\ n < 2097152
    <3> DEFINE low == Group(first)
               mid == Group(second)
               high == Group(third)
    <3>1. /\ low \in 0..127 /\ mid \in 0..127 /\ high \in 0..127
          /\ n = low + mid * 128 + high * 16384
      BY <1>2, <2>1
    <3> HIDE DEF low, mid, high
    <3>2. n % 128 = low /\ n \div 128 = mid + high * 128 /\ n \div 16384 = high
      BY <3>1, SMT
    <3>3. (mid + high * 128) % 128 = mid
      BY <3>1, SMT
    <3>4. n < 2097152
      BY <3>1
    <3> QED BY <3>2, <3>3, <3>4 DEF low, mid, high
  <2> QED BY <2>1, <2>2
<1> QED BY <1>1, <1>2

\* The lengths that are encoded at a place are those that parse_length finds there.
LEMMA LengthsAgree ==
  ASSUME message \in Seq(Byte), NEW place \in Nat, NEW n \in Nat, NEW next
  PROVE  next \in AfterLength(message, place, n) <=>
           \E length \in parse_length(place) : length.value = n /\ length.next = next
<1> DEFINE first == message[place + 1]
           second == message[place + 2]
           third == message[place + 3]
<1>a. PICK low, mid, high :
        low = n % 128 /\ mid = (n \div 128) % 128 /\ high = n \div 16384
  OBVIOUS
<1>1. next \in AfterLength(message, place, n) <=>
        \/ next = place + 1 /\ Available(place, 1) /\ n < 128 /\ first = low
        \/ /\ next = place + 2 /\ Available(place, 2) /\ n < 16384
           /\ first = low + 128 /\ second = mid
        \/ /\ next = place + 3 /\ Available(place, 3) /\ n < 2097152
           /\ first = low + 128 /\ second = mid + 128
           /\ third = high \/ third = high + 128
  <2>1. LengthEncodings(n) =
          {text \in {<<low>>} : n < 128} \cup
          {text \in {<<low + 128, mid>>} : n < 16384} \cup
          {text \in {<<low + 128, mid + 128, high>>, <<low + 128, mid + 128, high + 128>>} :
             n < 2097152}
    BY <1>a DEF LengthEncodings
  <2>2. next \in AfterLength(message, place, n) <=>
          \E text \in LengthEncodings(n) : next \in After(message, place, text)
    BY DEF AfterLength
  <2>3. next \in AfterLength(message, place, n) <=>
          \/ n < 128 /\ next \in After(message, place, <<low>>)
          \/ n < 16384 /\ next \in After(message, place, <<low + 128, mid>>)
          \/ n < 2097152 /\ next \in After(message, place, <<low + 128, mid + 128, high>>)
          \/ n < 2097152 /\ next \in After(message, place, <<low + 128, mid + 128, high + 128>>)
    BY <2>1, <2>2
  <2> QED BY <2>3, Texts
<1>2. ASSUME NEW k \in 1..3, Available(place, k)
      PROVE  message[place + k] \in Byte
  <2>1. place + k \in 1..Len(message)
    BY <1>2, LenProperties DEF Available
  <2> QED BY <2>1, ElementOfSeq
<1>3. /\ Available(place, 1) => first \in Byte
      /\ Available(place, 2) => first \in Byte /\ second \in Byte
      /\ Available(place, 3) => first \in Byte /\ second \in Byte /\ third \in Byte
  <2>1. /\ Available(place, 3) => Available(place, 2)
        /\ Available(place, 2) => Available(place, 1)
    BY LenProperties DEF Available
  <2> QED BY <1>2, <2>1
<1>4. /\ 1 \in LengthSizes(place) <=> Available(place, 1) /\ ~Continues(first)
      /\ 2 \in LengthSizes(place) <=>
           Available(place, 2) /\ Continues(first) /\ ~Continues(second)
      /\ 3 \in LengthSizes(place) <=>
           Available(place, 3) /\ Continues(first) /\ Continues(second)
      /\ LengthSizes(place) \subseteq {1, 2, 3}
  <2>1. ASSUME NEW k \in 1..3
        PROVE  k \in LengthSizes(place) <=>
                 /\ Available(place, k)
                 /\ \A b \in 1..(k - 1) : Continues(message[place + b])
                 /\ k = 3 \/ ~Continues(message[place + k])
    BY DEF LengthSizes
  <2>2. 1..(1 - 1) = {} /\ 1..(2 - 1) = {1} /\ 1..(3 - 1) = {1, 2}
    OBVIOUS
  <2>3. LengthSizes(place) \subseteq 1..3
    BY DEF LengthSizes
  <2>4. 1 \in LengthSizes(place) <=> Available(place, 1) /\ ~Continues(first)
    BY <2>1, <2>2
  <2>5. 2 \in LengthSizes(place) <=>
           Available(place, 2) /\ Continues(first) /\ ~Continues(second)
    BY <2>1, <2>2
  <2>6. 3 \in LengthSizes(place) <=>
           Available(place, 3) /\ Continues(first) /\ Continues(second)
    BY <2>1, <2>2
  <2> QED BY <2>3, <2>4, <2>5, <2>6
<1>5. (\E length \in parse_length(place) : length.value = n /\ length.next = next) <=>
        \/ 1 \in LengthSizes(place) /\ next = place + 1 /\ n = Group(first)
        \/ /\ 2 \in LengthSizes(place) /\ next = place + 2
           /\ n = Group(first) + Group(second) * 128
        \/ /\ 3 \in LengthSizes(place) /\ next = place + 3
           /\ n = Group(first) + Group(second) * 128 + Group(third) * 16384
  <2> DEFINE Value(k) == Group(first) + (IF k >= 2 THEN Group(second) * 128 ELSE 0)
                         + (IF k >= 3 THEN Group(third) * 16384 ELSE 0)
  <2>1. (\E length \in parse_length(place) : length.value = n /\ length.next = next) <=>
          \E k \in LengthSizes(place) : n = Value(k) /\ next = place + k
    <3> DEFINE Size(k) == [value |-> Value(k), next |-> place + k]
    <3>1. parse_length(place) = {Size(k) : k \in LengthSizes(place)}
      BY DEF parse_length
    <3>2. \A k : Size(k).value = Value(k) /\ Size(k).next = place + k
      OBVIOUS
    <3> HIDE DEF Value, Size
    <3> QED BY <3>1, <3>2
  <2>a. /\ 1 \in LengthSizes(place) => Group(first) \in Nat
        /\ 2 \in LengthSizes(place) => Group(first) \in Nat /\ Group(second) \in Nat
    <3>1. \A byte \in Byte : Group(byte) \in Nat
      BY SMT DEF Byte, Group
    <3> HIDE DEF first, second
    <3> QED BY <1>3, <1>4, <3>1, Zenon
  <2>2. ASSUME 1 \in LengthSizes(place) PROVE Value(1) = Group(first)
    BY <2>a, <2>2
  <2>3. ASSUME 2 \in LengthSizes(place) PROVE Value(2) = Group(first) + Group(second) * 128
    BY <2>a, <2>3
  <2>4. Value(3) = Group(first) + Group(second) * 128 + Group(third) * 16384
    OBVIOUS
  <2> HIDE DEF Value
  <2> QED BY <1>4, <2>1, <2>2, <2>3, <2>4
<1>6. next \in AfterLength(message, place, n) <=>
        \/ next = place + 1 /\ Available(place, 1) /\ n < 128 /\ first = n % 128
        \/ /\ next = place + 2 /\ Available(place, 2) /\ n < 16384
           /\ first = (n % 128) + 128 /\ second = (n \div 128) % 128
        \/ /\ next = place + 3 /\ Available(place, 3) /\ n < 2097152
           /\ first = (n % 128) + 128 /\ second = ((n \div 128) % 128) + 128
           /\ third = n \div 16384 \/ third = n \div 16384 + 128
  <2> HIDE DEF first, second, third
  <2> QED BY <1>1, <1>a
<1> HIDE DEF first, second, third
<1> QED BY <1>3, <1>4, <1>5, <1>6, OneGroup, TwoGroups, ThreeGroups

\* The bytes from a place on are a text just if it stands there.
LEMMA BytesOccur ==
  ASSUME message \in Seq(Byte), NEW place \in Nat, NEW text \in Seq(Byte)
  PROVE  Occurs(message, place, text) <=>
           Available(place, Len(text)) /\ Bytes(place, Len(text)) = text
<1>1. Len(text) \in Nat /\ text = [k \in 1..Len(text) |-> text[k]]
  BY LenProperties
<1>2. Bytes(place, Len(text)) = text <=> \A k \in 1..Len(text) : message[place + k] = text[k]
  BY <1>1 DEF Bytes
<1> QED BY <1>2 DEF Occurs, Available

\* As many bytes as there are.
LEMMA BytesAre ==
  ASSUME message \in Seq(Byte), NEW place \in Nat, NEW n \in Nat, Available(place, n)
  PROVE  Bytes(place, n) \in Seq(Byte) /\ Len(Bytes(place, n)) = n
<1>1. Bytes(place, n) \in [1..n -> Byte]
  <2> SUFFICES ASSUME NEW k \in 1..n PROVE message[place + k] \in Byte
    BY DEF Bytes
  <2>1. place + k \in 1..Len(message)
    BY LenProperties DEF Available
  <2> QED BY <2>1, ElementOfSeq
<1>2. Bytes(place, n) \in Seq(Byte)
  BY <1>1, SeqDef
<1>3. DOMAIN Bytes(place, n) = 1..n /\ DOMAIN Bytes(place, n) = 1..Len(Bytes(place, n))
      /\ Len(Bytes(place, n)) \in Nat
  BY <1>1, <1>2, LenProperties
<1> QED BY <1>2, <1>3

\* The data that are encoded at a place are those that parse_data finds there.
LEMMA DataAgree ==
  ASSUME message \in Seq(Byte), NEW place \in Nat, NEW text \in Seq(Byte), NEW next
  PROVE  next \in AfterData(message, place, text) <=>
           \E data \in parse_data(place) :
             data.next = next /\ Bytes(data.first, data.length) = text
<1>1. Len(text) \in Nat
  BY LenProperties
<1>2. ASSUME next \in AfterData(message, place, text)
      PROVE  \E data \in parse_data(place) :
               data.next = next /\ Bytes(data.first, data.length) = text
  <2>1. PICK first \in AfterLength(message, place, Len(text)) : next \in After(message, first, text)
    BY <1>2 DEF AfterData
  <2>2. PICK length \in parse_length(place) : length.value = Len(text) /\ length.next = first
    BY <1>1, <2>1, LengthsAgree
  <2>3. first \in Nat
    BY <2>2, LengthParsed
  <2>4. next = first + Len(text) /\ Occurs(message, first, text)
    BY <2>1 DEF After
  <2>5. Available(first, Len(text)) /\ Bytes(first, Len(text)) = text
    BY <2>3, <2>4, BytesOccur
  <2> DEFINE data == [first |-> length.next, length |-> length.value,
                      next |-> length.next + length.value]
  <2>6. data \in parse_data(place)
    BY <2>2, <2>5 DEF parse_data
  <2>7. data.next = next /\ Bytes(data.first, data.length) = text
    BY <2>2, <2>4, <2>5
  <2> QED BY <2>6, <2>7
<1>3. ASSUME NEW data \in parse_data(place), data.next = next,
             Bytes(data.first, data.length) = text
      PROVE  next \in AfterData(message, place, text)
  <2>1. PICK length \in parse_length(place) :
          /\ Available(length.next, length.value)
          /\ data.first = length.next /\ data.length = length.value
          /\ data.next = length.next + length.value
    BY DEF parse_data
  <2>2. length.value \in Nat /\ length.next \in Nat
    BY LengthParsed
  <2>3. Len(text) = length.value
    BY <1>3, <2>1, <2>2, BytesAre
  <2>4. length.next \in AfterLength(message, place, Len(text))
    BY <1>1, <2>3, LengthsAgree
  <2>5. Occurs(message, length.next, text)
    BY <1>3, <2>1, <2>2, <2>3, BytesOccur
  <2>6. next \in After(message, length.next, text)
    BY <1>3, <2>1, <2>3, <2>5 DEF After
  <2> QED BY <2>4, <2>6 DEF AfterData
<1> QED BY <1>2, <1>3

\* There is one at most.
LEMMA OneData ==
  ASSUME NEW place, NEW one \in parse_data(place), NEW other \in parse_data(place)
  PROVE  one = other
BY OneLength DEF parse_data

\* The instructions that are encoded at a place are those that parse_instruction finds.
LEMMA InstructionsAgree ==
  ASSUME message \in Seq(Byte), NEW place \in Nat, NEW content \in Content, NEW next
  PROVE  next \in AfterInstruction(message, place, content) <=>
           \E instruction \in parse_instruction(place) :
             instruction.next = next /\ Meant(instruction) = content
<1>0. /\ content.accounts \in Seq(Byte) /\ content.data \in Seq(Byte)
      /\ content = [program |-> content.program, accounts |-> content.accounts,
                    data |-> content.data]
  BY DEF Content
<1>1. ASSUME next \in AfterInstruction(message, place, content)
      PROVE  \E instruction \in parse_instruction(place) :
               instruction.next = next /\ Meant(instruction) = content
  <2>1. PICK first \in After(message, place, <<content.program>>) :
          \E second \in AfterData(message, first, content.accounts) :
            next \in AfterData(message, second, content.data)
    BY <1>1 DEF AfterInstruction
  <2>2. PICK second \in AfterData(message, first, content.accounts) :
          next \in AfterData(message, second, content.data)
    BY <2>1
  <2>3. first = place + 1 /\ Available(place, 1) /\ message[place + 1] = content.program
    BY <2>1, Texts
  <2>4. PICK accounts \in parse_data(place + 1) :
          /\ accounts.next = second
          /\ Bytes(accounts.first, accounts.length) = content.accounts
    <3>1. place + 1 \in Nat /\ second \in AfterData(message, place + 1, content.accounts)
      BY <2>2, <2>3
    <3> QED BY <1>0, <3>1, DataAgree
  <2>5. second \in Nat
    BY <2>4, DataParsed
  <2>6. PICK data \in parse_data(accounts.next) :
          data.next = next /\ Bytes(data.first, data.length) = content.data
    BY <1>0, <2>2, <2>4, <2>5, DataAgree
  <2> DEFINE instruction ==
               [program_id_index |-> content.program,
                accounts |-> accounts.first, accounts_length |-> accounts.length,
                data |-> data.first, data_length |-> data.length, next |-> data.next]
  <2>7. [value |-> content.program, next |-> place + 1] \in parse_u8(place)
    BY <2>3 DEF parse_u8
  <2>8. instruction \in parse_instruction(place)
    <3>1. PICK program \in parse_u8(place) : program.value = content.program
      BY <2>7
    <3>2. instruction = [program_id_index |-> program.value,
                         accounts |-> accounts.first, accounts_length |-> accounts.length,
                         data |-> data.first, data_length |-> data.length,
                         next |-> data.next]
      BY <3>1
    <3> DEFINE Found(p, a) ==
                 {[program_id_index |-> p.value, accounts |-> a.first,
                   accounts_length |-> a.length, data |-> d.first, data_length |-> d.length,
                   next |-> d.next] : d \in parse_data(a.next)}
    <3>3. instruction \in Found(program, accounts)
      BY <3>2
    <3>4. parse_instruction(place) =
            UNION {Found(p, a) : p \in parse_u8(place), a \in parse_data(place + 1)}
      BY DEF parse_instruction
    <3> HIDE DEF instruction, Found
    <3> QED BY <3>3, <3>4
  <2>9. instruction.next = next /\ Meant(instruction) = content
    BY <1>0, <2>4, <2>6 DEF Meant
  <2> QED BY <2>8, <2>9
<1>2. ASSUME NEW instruction \in parse_instruction(place), instruction.next = next,
             Meant(instruction) = content
      PROVE  next \in AfterInstruction(message, place, content)
  <2>1. PICK program \in parse_u8(place), accounts \in parse_data(place + 1) :
          \E data \in parse_data(accounts.next) :
            instruction = [program_id_index |-> program.value,
                           accounts |-> accounts.first, accounts_length |-> accounts.length,
                           data |-> data.first, data_length |-> data.length,
                           next |-> data.next]
    BY DEF parse_instruction
  <2>2. PICK data \in parse_data(accounts.next) :
          instruction = [program_id_index |-> program.value,
                         accounts |-> accounts.first, accounts_length |-> accounts.length,
                         data |-> data.first, data_length |-> data.length,
                         next |-> data.next]
    BY <2>1
  <2>3. /\ program.value = content.program
        /\ Bytes(accounts.first, accounts.length) = content.accounts
        /\ Bytes(data.first, data.length) = content.data
        /\ data.next = next
    BY <1>2, <2>2 DEF Meant
  <2>4. place + 1 \in After(message, place, <<content.program>>)
    <3>1. Available(place, 1) /\ message[place + 1] = content.program
      BY <2>3 DEF parse_u8
    <3> QED BY <3>1, Texts
  <2>5. accounts.next \in Nat
    BY DataParsed
  <2>6. accounts.next \in AfterData(message, place + 1, content.accounts)
    BY <1>0, <2>3, DataAgree
  <2>7. next \in AfterData(message, accounts.next, content.data)
    BY <1>0, <2>3, <2>5, DataAgree
  <2> QED BY <2>4, <2>6, <2>7 DEF AfterInstruction
<1> QED BY <1>1, <1>2

\* There is one at most.
LEMMA OneInstruction ==
  ASSUME NEW place, NEW one \in parse_instruction(place),
         NEW other \in parse_instruction(place)
  PROVE  one = other
<1>1. \A a, b \in parse_u8(place) : a = b
  BY DEF parse_u8
<1> QED BY <1>1, OneData DEF parse_instruction

-----------------------------------------------------------------------------
(* Induction. *)

\* The least of a set of natural numbers.
LEMMA LeastElement ==
  ASSUME NEW S \in SUBSET Nat, S # {}
  PROVE  \E least \in S : \A n \in S : least <= n
<1> DEFINE R == {pair \in Nat \X Nat : pair[1] < pair[2]}
<1>1. IsWellFoundedOn(R, Nat)
  BY NatLessThanWellFounded DEF OpToRel
<1>2. \E least \in S : \A n \in S : <<n, least>> \notin R
  BY <1>1, WFMin
<1>3. \A least \in S, n \in S : <<n, least>> \notin R => least <= n
  OBVIOUS
<1> QED BY <1>2, <1>3

\* A set of natural numbers that holds 0 and the successor of each of its numbers holds
\* all of them.
LEMMA SetInduction ==
  ASSUME NEW T, 0 \in T, \A n \in Nat : n \in T => n + 1 \in T
  PROVE  \A n \in Nat : n \in T
<1>1. SUFFICES ASSUME NEW bad \in Nat, bad \notin T PROVE FALSE
  OBVIOUS
<1> DEFINE others == {n \in Nat : n \notin T}
<1>2. PICK least \in others : \A n \in others : least <= n
  BY <1>1, LeastElement
<1>3. least # 0
  OBVIOUS
<1>4. least - 1 \in Nat /\ least - 1 \notin others
  BY <1>2, <1>3
<1>5. least - 1 \in T
  BY <1>4
<1>6. (least - 1) + 1 = least
  BY <1>2
<1> QED BY <1>4, <1>5, <1>6

-----------------------------------------------------------------------------
(* Lists of instructions. *)

Behind(place, list, after, k) ==
  IF k = 0 THEN {place}
  ELSE UNION {AfterInstruction(message, next, list[k]) : next \in after[k - 1]}
AreBehind(after, place, list, n) == after = [k \in 0..n |-> Behind(place, list, after, k)]

\* AfterInstructions is such a function.
LEMMA BehindExists ==
  ASSUME NEW place, NEW list
  PROVE  \A n \in Nat : \E after : AreBehind(after, place, list, n)
<1> DEFINE T == {n \in Nat : \E after : AreBehind(after, place, list, n)}
<1>1. 0 \in T
  <2>1. AreBehind([k \in 0..0 |-> {place}], place, list, 0)
    BY DEF AreBehind, Behind
  <2> QED BY <2>1
<1>2. ASSUME NEW n \in Nat, n \in T PROVE n + 1 \in T
  <2>1. PICK f : AreBehind(f, place, list, n)
    BY <1>2
  <2> DEFINE last == UNION {AfterInstruction(message, next, list[n + 1]) : next \in f[n]}
             g == [k \in 0..(n + 1) |-> IF k = n + 1 THEN last ELSE f[k]]
  <2>2. ASSUME NEW k \in 0..(n + 1) PROVE g[k] = Behind(place, list, g, k)
    <3>1. CASE k \in 0..n
      <4>1. g[k] = f[k] /\ (k # 0 => g[k - 1] = f[k - 1])
        BY <3>1
      <4>2. f[k] = Behind(place, list, f, k)
        BY <2>1, <3>1 DEF AreBehind
      <4> HIDE DEF g
      <4> QED BY <4>1, <4>2 DEF Behind
    <3>2. CASE k = n + 1
      <4>1. g[k] = last /\ g[k - 1] = f[n] /\ k # 0
        BY <3>2
      <4> HIDE DEF g
      <4> QED BY <4>1, <3>2 DEF Behind
    <3> QED BY <3>1, <3>2
  <2>3. g = [k \in 0..(n + 1) |-> g[k]]
    OBVIOUS
  <2> HIDE DEF g
  <2>4. AreBehind(g, place, list, n + 1)
    BY <2>2, <2>3 DEF AreBehind
  <2> QED BY <2>4
<1> HIDE DEF T
<1>3. \A n \in Nat : n \in T
  BY <1>1, <1>2, SetInduction
<1> QED BY <1>3 DEF T

\* So AfterInstructions counts as its definition says.
LEMMA BehindDef ==
  ASSUME NEW place, NEW list, Len(list) \in Nat
  PROVE  LET after == AfterInstructions(message, place, list)
         IN  /\ after[0] = {place}
             /\ \A k \in 1..Len(list) :
                  after[k] = UNION {AfterInstruction(message, next, list[k]) :
                                      next \in after[k - 1]}
<1> DEFINE after == AfterInstructions(message, place, list)
<1>1. after = CHOOSE f : AreBehind(f, place, list, Len(list))
  BY DEF AfterInstructions, AreBehind, Behind
<1>2. AreBehind(after, place, list, Len(list))
  BY <1>1, BehindExists
<1> HIDE DEF after
<1>3. \A k \in 0..Len(list) : after[k] = Behind(place, list, after, k)
  BY <1>2 DEF AreBehind
<1>4. after[0] = {place}
  <2>1. after[0] = Behind(place, list, after, 0)
    BY <1>3
  <2> QED BY <2>1 DEF Behind
<1>5. ASSUME NEW k \in 1..Len(list)
      PROVE  after[k] = UNION {AfterInstruction(message, next, list[k]) : next \in after[k - 1]}
  <2>1. after[k] = Behind(place, list, after, k) /\ k # 0
    BY <1>3
  <2> QED BY <2>1 DEF Behind
<1> QED BY <1>4, <1>5 DEF after

\* The places behind one instruction more.
LEMMA BehindNext ==
  ASSUME NEW place, NEW list, Len(list) \in Nat, NEW n \in Nat, n + 1 <= Len(list)
  PROVE  AfterInstructions(message, place, list)[n + 1] =
           UNION {AfterInstruction(message, next, list[n + 1]) :
                    next \in AfterInstructions(message, place, list)[n]}
<1> DEFINE after == AfterInstructions(message, place, list)
<1>1. \A k \in 1..Len(list) :
        after[k] = UNION {AfterInstruction(message, next, list[k]) : next \in after[k - 1]}
  BY BehindDef
<1> HIDE DEF after
<1>2. n + 1 \in 1..Len(list) /\ (n + 1) - 1 = n
  OBVIOUS
<1> QED BY <1>1, <1>2 DEF after

\* Lists that begin alike are alike at their beginnings.
LEMMA SameBeginnings ==
  ASSUME NEW place, NEW list, NEW other, Len(list) \in Nat, Len(other) \in Nat,
         NEW n \in Nat, n <= Len(list), n <= Len(other),
         \A k \in 1..n : list[k] = other[k]
  PROVE  AfterInstructions(message, place, list)[n] = AfterInstructions(message, place, other)[n]
<1> DEFINE f == AfterInstructions(message, place, list)
           g == AfterInstructions(message, place, other)
           T == {k \in Nat : k <= n => f[k] = g[k]}
<1>1. /\ f[0] = {place}
      /\ \A k \in 1..Len(list) :
           f[k] = UNION {AfterInstruction(message, next, list[k]) : next \in f[k - 1]}
  BY BehindDef
<1>2. /\ g[0] = {place}
      /\ \A k \in 1..Len(other) :
           g[k] = UNION {AfterInstruction(message, next, other[k]) : next \in g[k - 1]}
  BY BehindDef
<1> HIDE DEF f, g
<1>3. 0 \in T
  BY <1>1, <1>2
<1>4. ASSUME NEW k \in Nat, k \in T PROVE k + 1 \in T
  <2> SUFFICES ASSUME k + 1 <= n PROVE f[k + 1] = g[k + 1]
    OBVIOUS
  <2>1. f[k] = g[k] /\ k + 1 \in 1..Len(list) /\ k + 1 \in 1..Len(other)
        /\ (k + 1) - 1 = k /\ list[k + 1] = other[k + 1]
    BY <1>4
  <2>2. f[k + 1] = UNION {AfterInstruction(message, next, list[k + 1]) : next \in f[k]}
    BY <1>1, <2>1
  <2>3. g[k + 1] = UNION {AfterInstruction(message, next, other[k + 1]) : next \in g[k]}
    BY <1>2, <2>1
  <2> QED BY <2>1, <2>2, <2>3
<1> HIDE DEF T
<1>5. n \in T
  BY <1>3, <1>4, SetInduction
<1> QED BY <1>5 DEF T, f, g

\* There is one place at most behind an instruction, and so behind each of a list.
LEMMA OnePlace ==
  ASSUME message \in Seq(Byte), NEW place \in Nat, NEW list, Len(list) \in Nat,
         \A k \in 1..Len(list) : list[k] \in Content,
         NEW n \in 0..Len(list)
  PROVE  \A one, other \in AfterInstructions(message, place, list)[n] :
           one = other /\ one \in Nat
<1> DEFINE f == AfterInstructions(message, place, list)
<1>1. /\ f[0] = {place}
      /\ \A k \in 1..Len(list) :
           f[k] = UNION {AfterInstruction(message, next, list[k]) : next \in f[k - 1]}
  BY BehindDef
<1>2. ASSUME NEW next \in Nat, NEW content \in Content,
             NEW behind \in AfterInstruction(message, next, content)
      PROVE  \E first \in parse_instruction(next) : first.next = behind
  BY InstructionsAgree
<1> DEFINE T == {k \in Nat : k <= Len(list) =>
                    \A one, other \in f[k] : one = other /\ one \in Nat}
<1> HIDE DEF f
<1>3. 0 \in T
  BY <1>1
<1>4. ASSUME NEW k \in Nat, k \in T PROVE k + 1 \in T
  <2> SUFFICES ASSUME k + 1 <= Len(list), NEW one \in f[k + 1], NEW other \in f[k + 1]
               PROVE  one = other /\ one \in Nat
    OBVIOUS
  <2>1. k + 1 \in 1..Len(list) /\ (k + 1) - 1 = k /\ list[k + 1] \in Content
    OBVIOUS
  <2>2. PICK next \in f[k] : one \in AfterInstruction(message, next, list[k + 1])
    BY <1>1, <2>1
  <2>3. PICK next2 \in f[k] : other \in AfterInstruction(message, next2, list[k + 1])
    BY <1>1, <2>1
  <2>4. next = next2 /\ next \in Nat
    BY <1>4
  <2>5. PICK first \in parse_instruction(next) : first.next = one
    BY <1>2, <2>1, <2>2, <2>4
  <2>6. PICK second \in parse_instruction(next) : second.next = other
    BY <1>2, <2>1, <2>3, <2>4
  <2>7. first = second
    BY OneInstruction
  <2>8. first.next \in Nat
    BY <2>4, InstructionParsed DEF Instruction
  <2> QED BY <2>5, <2>6, <2>7, <2>8
<1> HIDE DEF T
<1>5. n \in T
  BY <1>3, <1>4, SetInduction
<1> QED BY <1>5 DEF T, f

\* A list that ends somewhere has every one of its instructions somewhere.
LEMMA EachSomewhere ==
  ASSUME NEW place, NEW list, Len(list) \in Nat,
         AfterInstructions(message, place, list)[Len(list)] # {},
         NEW n \in 0..Len(list)
  PROVE  AfterInstructions(message, place, list)[n] # {}
<1> DEFINE f == AfterInstructions(message, place, list)
           T == {k \in Nat : k <= Len(list) => f[Len(list) - k] # {}}
<1>1. \A k \in 1..Len(list) :
        f[k] = UNION {AfterInstruction(message, next, list[k]) : next \in f[k - 1]}
  BY BehindDef
<1>2. f[Len(list)] # {}
  OBVIOUS
<1> HIDE DEF f
<1>3. 0 \in T
  BY <1>2
<1>4. ASSUME NEW k \in Nat, k \in T PROVE k + 1 \in T
  <2> SUFFICES ASSUME k + 1 <= Len(list), f[Len(list) - (k + 1)] = {} PROVE FALSE
    OBVIOUS
  <2> DEFINE j == Len(list) - k
  <2>1. j \in 1..Len(list) /\ j - 1 = Len(list) - (k + 1) /\ f[j] # {}
    BY <1>4
  <2> QED BY <1>1, <2>1
<1> HIDE DEF T
<1>5. Len(list) - n \in T
  BY <1>3, <1>4, SetInduction
<1>6. Len(list) - n <= Len(list) /\ Len(list) - (Len(list) - n) = n
  OBVIOUS
<1> QED BY <1>5, <1>6 DEF T, f

-----------------------------------------------------------------------------
(* What has been parsed stands in the message. *)

\* Which parts lie behind each step.
PastVersion == {"pubkeys_header", "pubkeys", "blockhash", "instructions_length", "scan", "body",
                "instructions", "accepted"}
PastHeader == PastVersion \ {"pubkeys_header"}
PastKeys == PastHeader \ {"pubkeys"}
PastHash == PastKeys \ {"blockhash"}

\* Where the parts begin: the counts, the keys, the instructions, and what is behind the
\* instructions that were parsed.
HeadOf(head) == IF head.versioned THEN 1 ELSE 0
KeysBegin(head, place) == place \in AfterLength(message, HeadOf(head) + 3, head.pubkeys_length)
BodyBegins(head, place) ==
  place \in AfterLength(message, head.blockhash + HASH_SIZE, head.instructions_length)
Contents(list) == [i \in 1..Len(list) |-> Meant(list[i])]
Reached(head, list, place) ==
  \E body \in Nat :
    /\ BodyBegins(head, body)
    /\ place \in AfterInstructions(message, body, Contents(list))[Len(list)]

\* What was parsed stands in the message where the encoding has it.
HeaderUnderstood ==
  /\ step = "version" => at = 0 /\ ~header.versioned
  /\ step \in PastVersion => message # <<>> /\ (header.versioned <=> message[1] >= 128)
  /\ step = "pubkeys_header" => at = HeadOf(header)
  /\ step \in PastHeader =>
       Occurs(message, HeadOf(header),
              <<header.num_required_signatures, header.num_readonly_signed_accounts,
                header.num_readonly_unsigned_accounts>>)
KeysUnderstood ==
  /\ step = "pubkeys" => KeysBegin(header, at)
  /\ step \in PastKeys => KeysBegin(header, header.pubkeys)
  /\ step = "blockhash" => at = KeysEnd
  /\ step \in PastHash => header.blockhash = KeysEnd /\ Available(header.blockhash, HASH_SIZE)
BodyUnderstood ==
  /\ step = "instructions_length" => at = header.blockhash + HASH_SIZE
  /\ step \in {"scan", "body"} => BodyBegins(header, at)
  /\ step \in {"instructions", "accepted"} =>
       /\ header.instructions_length \in 1..MAX_INSTRUCTIONS
       /\ Len(instructions) <= header.instructions_length
  /\ step = "instructions" => Reached(header, instructions, at)
  /\ step = "accepted" =>
       /\ AllParsed
       /\ \E end \in Nat :
            /\ Reached(header, instructions, end)
            /\ Len(message) \in IF header.versioned THEN AfterLength(message, end, 0) ELSE {end}
Understood == HeaderUnderstood /\ KeysUnderstood /\ BodyUnderstood

\* A well-formed message has not been refused, and its instructions were parsed as meant.
WellFormedInv ==
  \A m \in Meanings : IsWellFormed(m) /\ Encodes(message, m) =>
    /\ step \notin Final \ {"accepted"}
    /\ Len(instructions) <= Len(m.instructions)
    /\ \A i \in 1..Len(instructions) : Meant(instructions[i]) = m.instructions[i]

\* A length that was parsed stands where it was found.
LEMMA LengthFound ==
  ASSUME message \in Seq(Byte), NEW place \in Nat, NEW length \in parse_length(place)
  PROVE  length.next \in AfterLength(message, place, length.value)
BY LengthParsed, LengthsAgree

\* Nothing is understood, and nothing has to be, at the beginning.
LEMMA UnderstoodInit == Init => Understood
BY DEF Init, Understood, HeaderUnderstood, KeysUnderstood, BodyUnderstood, PastVersion,
       PastHeader, PastKeys, PastHash

\* The steps before a step, and those behind it.
LEMMA Steps ==
  /\ PastVersion = {"pubkeys_header", "pubkeys", "blockhash", "instructions_length", "scan",
                    "body", "instructions", "accepted"}
  /\ PastHeader = {"pubkeys", "blockhash", "instructions_length", "scan", "body",
                   "instructions", "accepted"}
  /\ PastKeys = {"blockhash", "instructions_length", "scan", "body", "instructions",
                 "accepted"}
  /\ PastHash = {"instructions_length", "scan", "body", "instructions", "accepted"}
BY DEF PastVersion, PastHeader, PastKeys, PastHash

\* Nothing but what it is said of changes what is understood.
LEMMA HeaderKept ==
  ASSUME HeaderUnderstood, message' = message, step \in PastHeader,
         header'.versioned = header.versioned,
         header'.num_required_signatures = header.num_required_signatures,
         header'.num_readonly_signed_accounts = header.num_readonly_signed_accounts,
         header'.num_readonly_unsigned_accounts = header.num_readonly_unsigned_accounts,
         step' \in PastHeader \/ step' \in Final \ {"accepted"}
  PROVE  HeaderUnderstood'
BY Steps DEF HeaderUnderstood, Final, HeadOf

\* And what is understood of the keys.
LEMMA KeysKept ==
  ASSUME KeysUnderstood, message' = message, step \in PastHash,
         header'.versioned = header.versioned,
         header'.pubkeys_length = header.pubkeys_length, header'.pubkeys = header.pubkeys,
         header'.blockhash = header.blockhash,
         step' \in PastHash \/ step' \in Final \ {"accepted"}
  PROVE  KeysUnderstood'
BY Steps DEF KeysUnderstood, Final, HeadOf, KeysBegin, KeysEnd, PubkeyAt, Available

\* The length of a function that is a list.
LEMMA Listed ==
  ASSUME NEW n \in Nat, NEW f, f = [i \in 1..n |-> f[i]]
  PROVE  f \in Seq({f[i] : i \in 1..n}) /\ Len(f) = n
<1>1. f \in [1..n -> {f[i] : i \in 1..n}]
  OBVIOUS
<1>2. f \in Seq({f[i] : i \in 1..n})
  BY <1>1, SeqDef
<1>3. DOMAIN f = 1..n /\ DOMAIN f = 1..Len(f) /\ Len(f) \in Nat
  BY <1>1, <1>2, LenProperties
<1> QED BY <1>2, <1>3

\* An instruction that was parsed means something.
LEMMA InstructionMeans ==
  ASSUME message \in Seq(Byte), NEW instruction \in Instruction,
         instruction.accounts + instruction.accounts_length < instruction.data,
         instruction.data + instruction.data_length <= Len(message)
  PROVE  /\ Meant(instruction) \in Content
         /\ Len(Meant(instruction).accounts) = instruction.accounts_length
<1>1. /\ instruction.accounts \in Nat /\ instruction.accounts_length \in Nat
      /\ instruction.data \in Nat /\ instruction.data_length \in Nat
      /\ instruction.program_id_index \in Byte
  BY DEF Instruction
<1>2. Available(instruction.accounts, instruction.accounts_length)
      /\ Available(instruction.data, instruction.data_length)
  BY <1>1, LenProperties DEF Available
<1>3. /\ Bytes(instruction.accounts, instruction.accounts_length) \in Seq(Byte)
      /\ Bytes(instruction.data, instruction.data_length) \in Seq(Byte)
      /\ Len(Bytes(instruction.accounts, instruction.accounts_length)) =
           instruction.accounts_length
  BY <1>1, <1>2, BytesAre
<1> QED BY <1>1, <1>3 DEF Meant, Content

\* A list of instructions that goes on begins as before.
LEMMA ReachedNext ==
  ASSUME message \in Seq(Byte), message' = message, header' = header,
         instructions \in Seq(Instruction), NEW place \in Nat,
         Reached(header, instructions, place),
         NEW instruction \in parse_instruction(place),
         instructions' = Append(instructions, instruction)
  PROVE  Reached(header, instructions, instruction.next)'
<1> DEFINE before == Contents(instructions)
           after == [i \in 1..Len(instructions') |-> Meant(instructions'[i])]
           n == Len(instructions)
<1>1. PICK body \in Nat :
        BodyBegins(header, body) /\ place \in AfterInstructions(message, body, before)[n]
  BY DEF Reached
<1>2. /\ n \in Nat /\ Len(instructions') = n + 1
      /\ \A i \in 1..n : instructions'[i] = instructions[i]
      /\ instructions'[n + 1] = instruction
  <2>1. instruction \in Instruction
    BY InstructionParsed
  <2> QED BY <2>1, AppendProperties, LenProperties
<1>3. Len(before) = n /\ Len(after) = n + 1
  <2>1. before = [i \in 1..n |-> before[i]] /\ after = [i \in 1..(n + 1) |-> after[i]]
    BY <1>2 DEF Contents
  <2> HIDE DEF before, after
  <2> QED BY <1>2, <2>1, Listed
<1>4. Contents(instructions)' = after
  BY DEF Contents, Meant, Bytes
<1>5. (\A i \in 1..n : before[i] = after[i]) /\ after[n + 1] = Meant(instruction)
  BY <1>2 DEF Contents
<1>6. instruction.next \in AfterInstruction(message, place, after[n + 1])
  <2>1. instruction.next = instruction.next /\ Meant(instruction) \in Content
    BY InstructionParsed, InstructionMeans
  <2>2. instruction.next \in AfterInstruction(message, place, Meant(instruction))
    BY <2>1, InstructionsAgree
  <2> HIDE DEF after
  <2> QED BY <1>5, <2>2
<1> HIDE DEF before, after
<1>7. place \in AfterInstructions(message, body, after)[n]
  <2>1. /\ Len(before) \in Nat /\ Len(after) \in Nat /\ n \in Nat
        /\ n <= Len(before) /\ n <= Len(after)
    BY <1>2, <1>3
  <2>2. \A i \in 1..n : before[i] = after[i]
    BY <1>5
  <2>3. AfterInstructions(message, body, before)[n] = AfterInstructions(message, body, after)[n]
    BY <2>1, <2>2, SameBeginnings
  <2> QED BY <1>1, <2>3
<1>8. AfterInstructions(message, body, after)[n + 1] =
        UNION {AfterInstruction(message, next, after[n + 1]) :
                 next \in AfterInstructions(message, body, after)[n]}
  <2>1. Len(after) \in Nat /\ n \in Nat /\ n + 1 <= Len(after)
    BY <1>2, <1>3
  <2> QED BY <2>1, BehindNext
<1>9. instruction.next \in AfterInstructions(message, body, after)[n + 1]
  BY <1>6, <1>7, <1>8
<1>10. BodyBegins(header, body)'
  BY <1>1 DEF BodyBegins
<1>11. (Len(instructions))' = n + 1
  BY <1>2
<1> QED BY <1>4, <1>9, <1>10, <1>11 DEF Reached

\* A list that stays reaches what it reached.
LEMMA ReachedKept ==
  ASSUME message' = message, header' = header, instructions' = instructions,
         NEW place, Reached(header, instructions, place)
  PROVE  Reached(header, instructions, place)'
BY DEF Reached, BodyBegins, Contents, Meant, Bytes

\* Before the first instruction its beginning is reached.
LEMMA ReachedFirst ==
  ASSUME message' = message, header' = header, instructions' = <<>>,
         NEW place \in Nat, BodyBegins(header, place)
  PROVE  Reached(header, instructions, place)'
<1> DEFINE none == [i \in 1..0 |-> Meant(<<>>[i])]
<1>1. Len(<<>>) = 0 /\ Contents(instructions)' = none
  BY DEF Contents, Meant, Bytes
<1>2. Len(none) = 0
  <2>1. none = [i \in 1..0 |-> none[i]]
    OBVIOUS
  <2> HIDE DEF none
  <2> QED BY <2>1, Listed
<1> HIDE DEF none
<1>3. place \in AfterInstructions(message, place, none)[0]
  BY <1>2, BehindDef
<1> QED BY <1>1, <1>3 DEF Reached, BodyBegins

\* Each part that is parsed stands where the one before it ends.
LEMMA UnderstoodStep == ParserInv /\ Understood /\ [Next]_vars => Understood'
<1> SUFFICES ASSUME ParserInv, Understood, [Next]_vars PROVE Understood'
  OBVIOUS
<1> USE DEF Understood
<1>a. /\ message \in Seq(Byte) /\ Len(message) \in Nat /\ at \in Nat
      /\ header \in [versioned : BOOLEAN, num_required_signatures : Byte,
                      num_readonly_signed_accounts : Byte,
                      num_readonly_unsigned_accounts : Byte,
                      pubkeys_length : Nat, pubkeys : Nat \cup {NoPointer},
                      blockhash : Nat \cup {NoPointer}, instructions_length : Nat]
      /\ instructions \in Seq(Instruction)
  BY LenProperties DEF ParserInv, TypeOK
<1>b. HeadOf(header) \in 0..1
  BY DEF HeadOf
<1>1. CASE parse_version
  <2>1. /\ at = 0 /\ ~header.versioned /\ Available(0, 1) /\ message' = message
        /\ step = "version" /\ step' = "pubkeys_header"
    BY <1>1 DEF parse_version, HeaderUnderstood
  <2>2. message # <<>>
    BY <1>a, <2>1 DEF Available
  <2>3. CASE Continues(message[1])
    <3>1. header' = [header EXCEPT !.versioned = TRUE] /\ at' = 1
      BY <1>1, <2>1, <2>3 DEF parse_version
    <3>2. header'.versioned
      BY <1>a, <3>1
    <3> QED BY <2>1, <2>2, <2>3, <3>1, <3>2, Steps
            DEF HeaderUnderstood, KeysUnderstood, BodyUnderstood, Continues, HeadOf
  <2>4. CASE ~Continues(message[1])
    <3>1. header' = header /\ at' = 0
      BY <1>1, <2>1, <2>4 DEF parse_version
    <3> QED BY <2>1, <2>2, <2>4, <3>1, Steps
            DEF HeaderUnderstood, KeysUnderstood, BodyUnderstood, Continues, HeadOf
  <2> QED BY <2>3, <2>4
<1>2. CASE parse_pubkeys_header
  <2>1. /\ step = "pubkeys_header" /\ step' = "pubkeys" /\ Available(at, 3)
        /\ message' = message
    BY <1>2 DEF parse_pubkeys_header
  <2>2. PICK length \in parse_length(at + 3) :
          /\ header' = [header EXCEPT
                          !.num_required_signatures = message[at + 1],
                          !.num_readonly_signed_accounts = message[at + 2],
                          !.num_readonly_unsigned_accounts = message[at + 3],
                          !.pubkeys_length = length.value]
          /\ at' = length.next
    BY <1>2 DEF parse_pubkeys_header
  <2>3. /\ header'.versioned = header.versioned
        /\ header'.num_required_signatures = message[at + 1]
        /\ header'.num_readonly_signed_accounts = message[at + 2]
        /\ header'.num_readonly_unsigned_accounts = message[at + 3]
        /\ header'.pubkeys_length = length.value
    BY <1>a, <2>2
  <2>4. at = HeadOf(header) /\ HeadOf(header') = HeadOf(header)
    BY <2>1, <2>3 DEF HeaderUnderstood, HeadOf
  <2>5. Occurs(message, at, <<message[at + 1], message[at + 2], message[at + 3]>>)
    <3>1. at + 3 \in After(message, at, <<message[at + 1], message[at + 2], message[at + 3]>>)
      BY <1>a, <2>1, Texts
    <3> QED BY <3>1 DEF After
  <2>6. HeaderUnderstood'
    BY <2>1, <2>3, <2>4, <2>5, Steps DEF HeaderUnderstood, HeadOf
  <2>7. at' \in AfterLength(message, at + 3, length.value)
    BY <1>a, <2>2, LengthFound
  <2>8. KeysUnderstood'
    BY <2>1, <2>3, <2>4, <2>7, Steps DEF KeysUnderstood, KeysBegin, HeadOf
  <2> QED BY <2>1, <2>6, <2>8 DEF BodyUnderstood
<1>3. CASE parse_pubkeys
  <2>1. /\ step = "pubkeys" /\ step' = "blockhash" /\ message' = message
        /\ header' = [header EXCEPT !.pubkeys = at] /\ at' = at + pubkeys_size
    BY <1>3 DEF parse_pubkeys
  <2>2. /\ header'.versioned = header.versioned
        /\ header'.num_required_signatures = header.num_required_signatures
        /\ header'.num_readonly_signed_accounts = header.num_readonly_signed_accounts
        /\ header'.num_readonly_unsigned_accounts = header.num_readonly_unsigned_accounts
        /\ header'.pubkeys_length = header.pubkeys_length /\ header'.pubkeys = at
    BY <1>a, <2>1
  <2>3. HeaderUnderstood'
    BY <2>1, <2>2, HeaderKept, Steps
  <2>4. KeysUnderstood'
    BY <2>1, <2>2, Steps
    DEF KeysUnderstood, KeysBegin, HeadOf, KeysEnd, PubkeyAt, pubkeys_size
  <2> QED BY <2>1, <2>3, <2>4 DEF BodyUnderstood
<1>4. CASE parse_blockhash
  <2>1. /\ step = "blockhash" /\ step' = "instructions_length" /\ message' = message
        /\ header' = [header EXCEPT !.blockhash = at] /\ at' = at + HASH_SIZE
        /\ Available(at, HASH_SIZE)
    BY <1>4 DEF parse_blockhash
  <2>2. /\ header'.versioned = header.versioned
        /\ header'.num_required_signatures = header.num_required_signatures
        /\ header'.num_readonly_signed_accounts = header.num_readonly_signed_accounts
        /\ header'.num_readonly_unsigned_accounts = header.num_readonly_unsigned_accounts
        /\ header'.pubkeys_length = header.pubkeys_length
        /\ header'.pubkeys = header.pubkeys /\ header'.blockhash = at
    BY <1>a, <2>1
  <2>3. HeaderUnderstood'
    BY <2>1, <2>2, HeaderKept, Steps
  <2>4. KeysUnderstood'
    BY <2>1, <2>2, Steps
    DEF KeysUnderstood, KeysBegin, HeadOf, KeysEnd, PubkeyAt, Available
  <2> QED BY <2>1, <2>2, <2>3, <2>4 DEF BodyUnderstood
<1>5. CASE parse_instructions_length
  <2>1. /\ step = "instructions_length" /\ step' = "scan" /\ message' = message
        /\ at = header.blockhash + HASH_SIZE
    BY <1>5 DEF parse_instructions_length, BodyUnderstood
  <2>2. PICK length \in parse_length(at) :
          header' = [header EXCEPT !.instructions_length = length.value] /\ at' = length.next
    BY <1>5 DEF parse_instructions_length
  <2>3. /\ header'.versioned = header.versioned
        /\ header'.num_required_signatures = header.num_required_signatures
        /\ header'.num_readonly_signed_accounts = header.num_readonly_signed_accounts
        /\ header'.num_readonly_unsigned_accounts = header.num_readonly_unsigned_accounts
        /\ header'.pubkeys_length = header.pubkeys_length
        /\ header'.pubkeys = header.pubkeys /\ header'.blockhash = header.blockhash
        /\ header'.instructions_length = length.value
    BY <1>a, <2>2
  <2>4. HeaderUnderstood'
    BY <2>1, <2>3, HeaderKept, Steps
  <2>5. KeysUnderstood'
    BY <2>1, <2>3, KeysKept, Steps
  <2>6. at' \in AfterLength(message, at, length.value)
    BY <1>a, <2>2, LengthFound
  <2>7. BodyUnderstood'
    BY <2>1, <2>2, <2>3, <2>6 DEF BodyUnderstood, BodyBegins
  <2> QED BY <2>4, <2>5, <2>7
<1>c. ASSUME message' = message, header' = header, step \in PastHash,
             step' \in PastHash \/ step' \in Final \ {"accepted"}
      PROVE  HeaderUnderstood' /\ KeysUnderstood'
  BY <1>c, HeaderKept, KeysKept, Steps
<1>6. CASE scan_header_for_signer
  <2>1. UNCHANGED <<message, at, header, instructions>> /\ step = "scan" /\ step' = "body"
    BY <1>6 DEF scan_header_for_signer
  <2> QED BY <1>c, <2>1, Steps DEF BodyUnderstood, BodyBegins
<1>7. CASE BeginBody
  <2>1. /\ UNCHANGED <<message, at, header, instructions>> /\ step = "body"
        /\ step' = "instructions" /\ header.instructions_length \in 1..MAX_INSTRUCTIONS
        /\ instructions = <<>>
    BY <1>7 DEF BeginBody, ParserInv, PointersOfStep
  <2>2. PICK place \in Nat : place = at /\ place = at'
    BY <1>a, <2>1
  <2>3. Reached(header, instructions, place)'
    <3>1. BodyBegins(header, place)
      BY <2>1, <2>2 DEF BodyUnderstood
    <3> QED BY <2>1, <3>1, ReachedFirst
  <2>4. Len(instructions') = 0
    BY <2>1
  <2>5. BodyUnderstood'
    BY <1>a, <2>1, <2>2, <2>3, <2>4 DEF BodyUnderstood, Reached
  <2> QED BY <1>c, <2>1, <2>5, Steps
<1>8. CASE ParseInstruction
  <2>1. /\ UNCHANGED <<message, header, step>> /\ step = "instructions"
        /\ Len(instructions) # header.instructions_length
    BY <1>8 DEF ParseInstruction, AllParsed
  <2>2. PICK instruction \in parse_instruction(at) :
          instructions' = Append(instructions, instruction) /\ at' = instruction.next
    BY <1>8 DEF ParseInstruction
  <2>3. PICK place \in Nat : place = at
    BY <1>a
  <2>4. Reached(header, instructions, place)
    BY <2>1, <2>3 DEF BodyUnderstood
  <2>5. Reached(header, instructions, instruction.next)'
    BY <1>a, <2>1, <2>2, <2>3, <2>4, ReachedNext
  <2>6. Len(instructions') = Len(instructions) + 1 /\ Len(instructions) \in Nat
    <3>1. instruction \in Instruction
      BY <1>a, <2>2, InstructionParsed
    <3> QED BY <1>a, <2>2, <3>1, AppendProperties, LenProperties
  <2>7. Len(instructions') <= header.instructions_length
    BY <1>a, <2>1, <2>6 DEF BodyUnderstood
  <2>8. BodyUnderstood'
    <3>1. PICK next : next = instruction.next
      OBVIOUS
    <3>2. Reached(header, instructions, next)' /\ at' = next
      BY <2>2, <2>5, <3>1 DEF Reached
    <3> QED BY <2>1, <2>7, <3>2 DEF BodyUnderstood, Reached
  <2> QED BY <1>c, <2>1, <2>8, Steps
<1>9. CASE Finish
  <2>1. /\ UNCHANGED <<message, header, instructions>> /\ step = "instructions"
        /\ AllParsed /\ step' = "accepted" /\ Len(message) \in TablesEnd
    BY <1>9 DEF Finish
  <2>2. PICK place \in Nat : place = at
    BY <1>a
  <2>3. Reached(header, instructions, place)
    BY <2>1, <2>2 DEF BodyUnderstood
  <2>4. Reached(header, instructions, place)'
    BY <2>1, <2>3, ReachedKept
  <2>5. Len(message) \in IF header.versioned THEN AfterLength(message, place, 0) ELSE {place}
    <3>1. CASE header.versioned
      <4>1. PICK length \in parse_length(place) : length.value = 0 /\ length.next = Len(message)
        BY <2>1, <2>2, <3>1 DEF TablesEnd
      <4> QED BY <1>a, <3>1, <4>1, LengthFound
    <3>2. CASE ~header.versioned
      BY <2>1, <2>2, <3>2 DEF TablesEnd
    <3> QED BY <3>1, <3>2
  <2>6. BodyUnderstood'
    BY <2>1, <2>4, <2>5 DEF BodyUnderstood, AllParsed, Reached
  <2> QED BY <1>c, <2>1, <2>6, Steps
<1>10. CASE Refuse
  <2>1. UNCHANGED <<message, at, header, instructions>> /\ step' \in Final \ {"accepted"}
    BY <1>10 DEF Refuse, Final
  <2> QED BY <2>1, Steps DEF Final, HeaderUnderstood, KeysUnderstood, BodyUnderstood
<1>11. CASE UNCHANGED vars
  <2>1. UNCHANGED <<message, at, header, instructions, step>>
    BY <1>11 DEF vars
  <2>2. HeaderUnderstood'
    BY <2>1 DEF HeaderUnderstood, HeadOf
  <2>3. KeysUnderstood'
    BY <2>1 DEF KeysUnderstood, KeysBegin, HeadOf, KeysEnd, PubkeyAt, Available
  <2>4. BodyUnderstood'
    BY <2>1 DEF BodyUnderstood, BodyBegins, AllParsed, Reached, Contents, Meant, Bytes
  <2> QED BY <2>2, <2>3, <2>4
<1> QED
  BY <1>1, <1>2, <1>3, <1>4, <1>5, <1>6, <1>7, <1>8, <1>9, <1>10, <1>11 DEF Next

\* A key of the header lies in the message, and is what stands there.
LEMMA KeyStands ==
  ASSUME ParserInv, header.blockhash # NoPointer, NEW i \in 1..header.pubkeys_length
  PROVE  /\ PubkeyAt(i - 1) = header.pubkeys + (i - 1) * PUBKEY_SIZE
         /\ PubkeyAt(i - 1) \in Nat
         /\ Available(PubkeyAt(i - 1), PUBKEY_SIZE)
         /\ Key(i - 1) = Bytes(PubkeyAt(i - 1), PUBKEY_SIZE)
<1>1. PUBKEY_SIZE \in Nat /\ PUBKEY_SIZE > 0
  BY ParserAssumption DEF ParserAssumption
<1>2. /\ Len(message) \in Nat /\ at \in Nat /\ at <= Len(message)
      /\ header.pubkeys_length \in Nat /\ header.pubkeys \in Nat /\ KeysEnd <= at
  BY LenProperties DEF ParserInv, TypeOK, PointersStayInside
<1> DEFINE before == (i - 1) * PUBKEY_SIZE
           all == header.pubkeys_length * PUBKEY_SIZE
<1>3. PubkeyAt(i - 1) = header.pubkeys + before /\ KeysEnd = header.pubkeys + all
  BY DEF KeysEnd, PubkeyAt
<1>4. before \in Nat /\ all \in Nat /\ before + PUBKEY_SIZE <= all
  <2>1. i - 1 \in Nat /\ i - 1 < header.pubkeys_length
    BY <1>2
  <2> QED BY <1>1, <1>2, <2>1, KeysSize, KeyInList
<1>5. Key(i - 1) = Bytes(PubkeyAt(i - 1), PUBKEY_SIZE)
  BY DEF Key, Bytes
<1> QED
  <2> HIDE DEF before, all
  <2>1. PubkeyAt(i - 1) \in Nat /\ PubkeyAt(i - 1) + PUBKEY_SIZE <= Len(message)
    BY <1>1, <1>2, <1>3, <1>4
  <2> QED BY <1>3, <1>5, <2>1 DEF Available, before

\* What was understood to the end is encoded by the message.
LEMMA UnderstoodEncodes == ParserInv /\ Understood => AcceptedIsUnderstood
<1> SUFFICES ASSUME ParserInv, Understood, step = "accepted" PROVE Encodes(message, Parsed)
  BY DEF AcceptedIsUnderstood
<1> USE DEF Understood
<1> DEFINE m == Parsed
           head == HeadOf(header)
           n == header.pubkeys_length
           hash == header.pubkeys + n * PUBKEY_SIZE
<1>1. /\ message \in Seq(Byte) /\ n \in Nat /\ header.versioned \in BOOLEAN
      /\ header.pubkeys \in Nat /\ header.blockhash # NoPointer /\ header.blockhash \in Nat
      /\ PUBKEY_SIZE \in Nat /\ HASH_SIZE \in Nat /\ Len(instructions) \in Nat
  <2>1. step \in PastHash
    BY Steps
  <2>2. header.blockhash = KeysEnd /\ KeysBegin(header, header.pubkeys)
    BY <2>1, Steps DEF KeysUnderstood
  <2>3. /\ n \in Nat /\ header.versioned \in BOOLEAN /\ message \in Seq(Byte)
        /\ PUBKEY_SIZE \in Nat /\ HASH_SIZE \in Nat
        /\ header.pubkeys \in Nat \cup {NoPointer} /\ header.blockhash \in Nat \cup {NoPointer}
    BY ParserAssumption DEF ParserAssumption, ParserInv, TypeOK
  <2>4. header.pubkeys \in Nat
    <3>1. HeadOf(header) + 3 \in Nat
      BY DEF HeadOf
    <3>2. PICK length \in parse_length(HeadOf(header) + 3) : length.next = header.pubkeys
      BY <2>2, <2>3, <3>1, LengthsAgree DEF KeysBegin
    <3> QED BY <2>3, <3>1, <3>2, LengthParsed
  <2>5. header.blockhash \in Nat
    <3>1. n * PUBKEY_SIZE \in Nat
      BY <2>3, KeysSize
    <3> QED BY <2>2, <2>4, <3>1 DEF KeysEnd, PubkeyAt
  <2>6. Len(instructions) \in Nat
    BY LenProperties DEF ParserInv, TypeOK
  <2> QED BY <2>3, <2>4, <2>5, <2>6 DEF NoPointer
<1>2. /\ message # <<>> /\ (header.versioned <=> message[1] >= 128)
      /\ Occurs(message, head, <<header.num_required_signatures,
                                 header.num_readonly_signed_accounts,
                                 header.num_readonly_unsigned_accounts>>)
  BY Steps DEF HeaderUnderstood
<1>3. /\ header.pubkeys \in AfterLength(message, head + 3, n)
      /\ header.blockhash = hash /\ Available(hash, HASH_SIZE)
  BY Steps DEF KeysUnderstood, KeysBegin, KeysEnd, PubkeyAt
<1>4. PICK body \in Nat, end \in Nat :
        /\ body \in AfterLength(message, hash + HASH_SIZE, header.instructions_length)
        /\ end \in AfterInstructions(message, body, Contents(instructions))[Len(instructions)]
        /\ Len(message) \in IF header.versioned THEN AfterLength(message, end, 0) ELSE {end}
        /\ Len(instructions) = header.instructions_length
  BY <1>3 DEF BodyUnderstood, Reached, BodyBegins, AllParsed
<1>5. /\ m.versioned = header.versioned /\ m.required = header.num_required_signatures
      /\ m.readonly[1] = header.num_readonly_signed_accounts
      /\ m.readonly[2] = header.num_readonly_unsigned_accounts
      /\ m.keys = [i \in 1..n |-> Key(i - 1)]
      /\ m.blockhash = Bytes(hash, HASH_SIZE)
      /\ m.instructions = Contents(instructions)
  BY <1>3 DEF Parsed, Contents
<1>6. Len(m.keys) = n /\ \A i \in 1..n : m.keys[i] = Key(i - 1)
  <2> DEFINE keys == [i \in 1..n |-> Key(i - 1)]
  <2>1. keys = [i \in 1..n |-> keys[i]]
    OBVIOUS
  <2>2. \A i \in 1..n : keys[i] = Key(i - 1)
    OBVIOUS
  <2> HIDE DEF keys
  <2>3. Len(keys) = n
    BY <1>1, <2>1, Listed
  <2> QED BY <1>5, <2>2, <2>3 DEF keys
<1>7. Len(m.instructions) = Len(instructions)
  <2> DEFINE list == Contents(instructions)
  <2>1. list = [i \in 1..Len(instructions) |-> list[i]]
    BY DEF Contents
  <2> HIDE DEF list
  <2>2. Len(list) = Len(instructions)
    BY <1>1, <2>1, Listed
  <2> QED BY <1>5, <2>2 DEF list
<1>8. ASSUME NEW i \in 1..n
      PROVE  Occurs(message, header.pubkeys + (i - 1) * PUBKEY_SIZE, m.keys[i])
  <2> DEFINE place == PubkeyAt(i - 1)
  <2>1. /\ place = header.pubkeys + (i - 1) * PUBKEY_SIZE
        /\ place \in Nat /\ Available(place, PUBKEY_SIZE)
        /\ Key(i - 1) = Bytes(place, PUBKEY_SIZE)
    BY <1>1, KeyStands
  <2> HIDE DEF place
  <2>2. Bytes(place, PUBKEY_SIZE) \in Seq(Byte) /\ Len(Bytes(place, PUBKEY_SIZE)) = PUBKEY_SIZE
    BY <1>1, <2>1, BytesAre
  <2>3. Occurs(message, place, Bytes(place, PUBKEY_SIZE))
    BY <1>1, <2>1, <2>2, BytesOccur
  <2>4. m.keys[i] = Bytes(place, PUBKEY_SIZE)
    BY <1>6, <2>1
  <2> HIDE DEF m
  <2> QED BY <2>1, <2>3, <2>4
<1>9. Occurs(message, hash, m.blockhash)
  <2>1. hash \in Nat
    BY <1>1, <1>3
  <2> HIDE DEF hash
  <2>2. Bytes(hash, HASH_SIZE) \in Seq(Byte) /\ Len(Bytes(hash, HASH_SIZE)) = HASH_SIZE
    BY <1>1, <1>3, <2>1, BytesAre
  <2>3. Occurs(message, hash, Bytes(hash, HASH_SIZE))
    BY <1>1, <1>3, <2>1, <2>2, BytesOccur
  <2> HIDE DEF m
  <2> QED BY <1>5, <2>3
<1> HIDE DEF m
<1>10. head = IF m.versioned THEN 1 ELSE 0
  BY <1>5 DEF HeadOf
<1>11. Occurs(message, head, <<m.required, m.readonly[1], m.readonly[2]>>)
  BY <1>2, <1>5
<1>12. m.versioned = (message[1] >= 128)
  BY <1>1, <1>2, <1>5
<1>13. /\ header.pubkeys \in AfterLength(message, head + 3, Len(m.keys))
       /\ hash = header.pubkeys + Len(m.keys) * PUBKEY_SIZE
  BY <1>3, <1>6
<1>14. /\ body \in AfterLength(message, hash + HASH_SIZE, Len(m.instructions))
       /\ end \in AfterInstructions(message, body, m.instructions)[Len(m.instructions)]
       /\ Len(message) \in IF m.versioned THEN AfterLength(message, end, 0) ELSE {end}
  BY <1>4, <1>5, <1>7
<1>15. \A i \in 1..Len(m.keys) :
         Occurs(message, header.pubkeys + (i - 1) * PUBKEY_SIZE, m.keys[i])
  BY <1>6, <1>8
<1>16. Encodes(message, m)
  <2> HIDE DEF head, hash
  <2> QED BY <1>2, <1>9, <1>10, <1>11, <1>12, <1>13, <1>14, <1>15, Zenon DEF Encodes
<1> QED BY <1>16 DEF m

-----------------------------------------------------------------------------
(* A message that encodes a well-formed meaning. *)

\* The parts of a meaning stand in the message: its keys, its instructions and the end of
\* its instructions are at these places.
MeantHead(m) == IF m.versioned THEN 1 ELSE 0
MeantHash(m, keys) == keys + Len(m.keys) * PUBKEY_SIZE
Stands(m, keys, body, end) ==
  /\ message # <<>> /\ m.versioned = (message[1] >= 128)
  /\ Occurs(message, MeantHead(m), <<m.required, m.readonly[1], m.readonly[2]>>)
  /\ keys \in AfterLength(message, MeantHead(m) + 3, Len(m.keys))
  /\ \A i \in 1..Len(m.keys) : Occurs(message, keys + (i - 1) * PUBKEY_SIZE, m.keys[i])
  /\ Occurs(message, MeantHash(m, keys), m.blockhash)
  /\ body \in AfterLength(message, MeantHash(m, keys) + HASH_SIZE, Len(m.instructions))
  /\ end \in AfterInstructions(message, body, m.instructions)[Len(m.instructions)]
  /\ Len(message) \in IF m.versioned THEN AfterLength(message, end, 0) ELSE {end}

\* So they do in a message that encodes it.
LEMMA EncodedStands ==
  ASSUME NEW m, Encodes(message, m)
  PROVE  \E keys, body, end : Stands(m, keys, body, end)
BY Zenon DEF Encodes, Stands, MeantHead, MeantHash

\* A string of bytes is a sequence of as many.
LEMMA StringIs ==
  ASSUME NEW n \in Nat, NEW text \in String(n)
  PROVE  text \in Seq(Byte) /\ Len(text) = n
<1>1. text \in [1..n -> Byte] /\ text \in Seq(Byte)
  BY SeqDef DEF String
<1>2. DOMAIN text = 1..n /\ DOMAIN text = 1..Len(text) /\ Len(text) \in Nat
  BY <1>1, LenProperties
<1> QED BY <1>1, <1>2

\* What messages may be meant to say has its type.
LEMMA MeaningIs ==
  ASSUME NEW m \in Meanings
  PROVE  /\ m = [versioned |-> m.versioned, required |-> m.required, readonly |-> m.readonly,
                 keys |-> m.keys, blockhash |-> m.blockhash,
                 instructions |-> m.instructions]
         /\ m.versioned \in BOOLEAN /\ m.required \in Nat
         /\ m.readonly = <<m.readonly[1], m.readonly[2]>>
         /\ Len(m.keys) \in Nat /\ m.keys = [i \in 1..Len(m.keys) |-> m.keys[i]]
         /\ \A i \in 1..Len(m.keys) :
              m.keys[i] \in Seq(Byte) /\ Len(m.keys[i]) = PUBKEY_SIZE
         /\ m.blockhash \in Seq(Byte) /\ Len(m.blockhash) = HASH_SIZE
         /\ Len(m.instructions) \in Nat
         /\ m.instructions = [i \in 1..Len(m.instructions) |-> m.instructions[i]]
         /\ \A i \in 1..Len(m.instructions) : m.instructions[i] \in Content
<1>1. m \in AMeaning
  BY MeaningsAssumption DEF MeaningsAssumption
<1>2. /\ m.versioned \in BOOLEAN /\ m.required \in Byte /\ m.readonly \in String(2)
      /\ m.keys \in Seq(String(PUBKEY_SIZE)) /\ m.blockhash \in String(HASH_SIZE)
      /\ m.instructions \in Seq(Content)
      /\ m = [versioned |-> m.versioned, required |-> m.required, readonly |-> m.readonly,
              keys |-> m.keys, blockhash |-> m.blockhash, instructions |-> m.instructions]
  BY <1>1 DEF AMeaning
<1>3. m.required \in Nat
  <2>1. Byte \subseteq Nat
    BY SMT DEF Byte
  <2> QED BY <1>2, <2>1, Zenon
<1>4. m.readonly = <<m.readonly[1], m.readonly[2]>>
  <2>1. m.readonly \in [1..2 -> Byte] /\ 1..2 = {1, 2}
    BY <1>2 DEF String
  <2> QED BY <2>1
<1>5. PUBKEY_SIZE \in Nat /\ HASH_SIZE \in Nat
  BY ParserAssumption DEF ParserAssumption
<1>6. /\ Len(m.keys) \in Nat /\ m.keys = [i \in 1..Len(m.keys) |-> m.keys[i]]
      /\ \A i \in 1..Len(m.keys) : m.keys[i] \in String(PUBKEY_SIZE)
  BY <1>2, LenProperties, ElementOfSeq
<1>7. /\ Len(m.instructions) \in Nat
      /\ m.instructions = [i \in 1..Len(m.instructions) |-> m.instructions[i]]
      /\ \A i \in 1..Len(m.instructions) : m.instructions[i] \in Content
  BY <1>2, LenProperties, ElementOfSeq
<1>8. \A i \in 1..Len(m.keys) : m.keys[i] \in Seq(Byte) /\ Len(m.keys[i]) = PUBKEY_SIZE
  BY <1>5, <1>6, StringIs
<1>9. m.blockhash \in Seq(Byte) /\ Len(m.blockhash) = HASH_SIZE
  BY <1>2, <1>5, StringIs
<1> QED BY <1>2, <1>3, <1>4, <1>6, <1>7, <1>8, <1>9

\* One length at most stands at a place.
LEMMA OneEncoded ==
  ASSUME message \in Seq(Byte), NEW place \in Nat, NEW n \in Nat, NEW k \in Nat,
         NEW one \in AfterLength(message, place, n),
         NEW other \in AfterLength(message, place, k)
  PROVE  one = other /\ n = k /\ one \in Nat
<1>1. PICK first \in parse_length(place) : first.value = n /\ first.next = one
  BY LengthsAgree
<1>2. PICK second \in parse_length(place) : second.value = k /\ second.next = other
  BY LengthsAgree
<1>3. first = second
  BY OneLength
<1>4. first.next \in Nat
  BY LengthParsed
<1> QED BY <1>1, <1>2, <1>3, <1>4

\* The places are places.
LEMMA Places ==
  ASSUME ParserInv, NEW m \in Meanings, NEW keys, NEW body, NEW end,
         Stands(m, keys, body, end)
  PROVE  /\ MeantHead(m) + 3 \in Nat /\ keys \in Nat
         /\ MeantHash(m, keys) \in Nat /\ MeantHash(m, keys) + HASH_SIZE \in Nat
         /\ body \in Nat /\ end \in Nat
         /\ Available(MeantHash(m, keys), HASH_SIZE)
         /\ Bytes(MeantHash(m, keys), HASH_SIZE) = m.blockhash
<1> DEFINE hash == MeantHash(m, keys)
<1>1. message \in Seq(Byte) /\ PUBKEY_SIZE \in Nat /\ HASH_SIZE \in Nat
  BY ParserAssumption DEF ParserAssumption, ParserInv, TypeOK
<1>2. Len(m.keys) \in Nat /\ Len(m.instructions) \in Nat
      /\ \A i \in 1..Len(m.instructions) : m.instructions[i] \in Content
  BY MeaningIs
<1>3. MeantHead(m) + 3 \in Nat
  BY DEF MeantHead
<1>4. keys \in Nat
  BY <1>1, <1>2, <1>3, OneEncoded DEF Stands
<1>5. hash \in Nat /\ hash + HASH_SIZE \in Nat
  <2>1. Len(m.keys) * PUBKEY_SIZE \in Nat
    BY <1>1, <1>2, KeysSize
  <2> QED BY <1>1, <1>4, <2>1 DEF MeantHash
<1> HIDE DEF hash
<1>6. body \in Nat
  <2>1. body \in AfterLength(message, hash + HASH_SIZE, Len(m.instructions))
    BY DEF Stands, hash
  <2> QED BY <1>1, <1>2, <1>5, <2>1, OneEncoded
<1>7. end \in Nat
  <2>1. /\ end \in AfterInstructions(message, body, m.instructions)[Len(m.instructions)]
        /\ Len(m.instructions) \in 0..Len(m.instructions)
    BY <1>2 DEF Stands
  <2> QED BY <1>1, <1>2, <1>6, <2>1, OnePlace
<1>8. Available(hash, HASH_SIZE) /\ Bytes(hash, HASH_SIZE) = m.blockhash
  <2>1. m.blockhash \in Seq(Byte) /\ Len(m.blockhash) = HASH_SIZE
    BY MeaningIs
  <2>2. Occurs(message, hash, m.blockhash)
    BY DEF Stands, hash
  <2> QED BY <1>1, <1>5, <2>1, <2>2, BytesOccur
<1> QED BY <1>3, <1>4, <1>5, <1>6, <1>7, <1>8 DEF hash

\* The parser finds the header where it stands.
LEMMA HeaderLocated ==
  ASSUME ParserInv, Understood, NEW m \in Meanings, NEW keys, NEW body, NEW end,
         Stands(m, keys, body, end)
  PROVE  /\ step \in PastVersion =>
              header.versioned = m.versioned /\ HeadOf(header) = MeantHead(m)
         /\ step \in PastHeader =>
              /\ header.num_required_signatures = m.required
              /\ header.num_readonly_signed_accounts = m.readonly[1]
              /\ header.num_readonly_unsigned_accounts = m.readonly[2]
              /\ header.pubkeys_length = Len(m.keys)
         /\ step = "pubkeys" => at = keys
         /\ step \in PastKeys => header.pubkeys = keys
         /\ step = "blockhash" => at = MeantHash(m, keys)
         /\ step \in PastHash => header.blockhash = MeantHash(m, keys)
<1>1. /\ message \in Seq(Byte) /\ header.versioned \in BOOLEAN
      /\ header.pubkeys_length \in Nat
  BY DEF ParserInv, TypeOK
<1>2. m.versioned \in BOOLEAN /\ Len(m.keys) \in Nat
  BY MeaningIs
<1>3. ASSUME step \in PastVersion
      PROVE  header.versioned = m.versioned /\ HeadOf(header) = MeantHead(m)
  <2>1. header.versioned <=> message[1] >= 128
    BY <1>3 DEF Understood, HeaderUnderstood
  <2>2. m.versioned <=> message[1] >= 128
    BY DEF Stands
  <2>3. header.versioned = m.versioned
    BY <1>1, <1>2, <2>1, <2>2
  <2> QED BY <2>3 DEF HeadOf, MeantHead
<1>4. ASSUME step \in PastHeader
      PROVE  /\ header.num_required_signatures = m.required
             /\ header.num_readonly_signed_accounts = m.readonly[1]
             /\ header.num_readonly_unsigned_accounts = m.readonly[2]
  <2> DEFINE a == header.num_required_signatures
             b == header.num_readonly_signed_accounts
             c == header.num_readonly_unsigned_accounts
             head == MeantHead(m)
  <2>1. step \in PastVersion /\ head \in Nat
    BY <1>4, Steps DEF MeantHead
  <2>2. Occurs(message, head, <<a, b, c>>)
    BY <1>3, <1>4, <2>1 DEF Understood, HeaderUnderstood
  <2>3. Occurs(message, head, <<m.required, m.readonly[1], m.readonly[2]>>)
    BY DEF Stands
  <2> HIDE DEF a, b, c, head
  <2>4. ASSUME NEW x, NEW y, NEW z, Occurs(message, head, <<x, y, z>>)
        PROVE  x = message[head + 1] /\ y = message[head + 2] /\ z = message[head + 3]
    <3>1. head + 3 \in After(message, head, <<x, y, z>>)
      BY <2>4 DEF After
    <3> QED BY <2>1, <3>1, Texts
  <2>5. a = m.required /\ b = m.readonly[1] /\ c = m.readonly[2]
    BY <2>2, <2>3, <2>4
  <2> QED BY <2>5 DEF a, b, c
<1>5. MeantHead(m) + 3 \in Nat /\ keys \in AfterLength(message, MeantHead(m) + 3, Len(m.keys))
  BY Places DEF Stands
<1>6. ASSUME NEW place, KeysBegin(header, place), step \in PastVersion
      PROVE  place = keys /\ header.pubkeys_length = Len(m.keys)
  <2>1. place \in AfterLength(message, MeantHead(m) + 3, header.pubkeys_length)
    BY <1>3, <1>6 DEF KeysBegin
  <2> QED BY <1>1, <1>2, <1>5, <2>1, OneEncoded
<1>7. ASSUME step = "pubkeys" PROVE at = keys /\ header.pubkeys_length = Len(m.keys)
  BY <1>6, <1>7, Steps DEF Understood, KeysUnderstood
<1>8. ASSUME step \in PastKeys
      PROVE  header.pubkeys = keys /\ header.pubkeys_length = Len(m.keys)
  BY <1>6, <1>8, Steps DEF Understood, KeysUnderstood
<1>9. ASSUME step \in PastKeys PROVE KeysEnd = MeantHash(m, keys)
  BY <1>8, <1>9 DEF KeysEnd, PubkeyAt, MeantHash
<1>10. step = "blockhash" => at = MeantHash(m, keys)
  BY <1>9, Steps DEF Understood, KeysUnderstood
<1>11. step \in PastHash => header.blockhash = MeantHash(m, keys)
  BY <1>9, Steps DEF Understood, KeysUnderstood
<1> QED BY <1>3, <1>4, <1>7, <1>8, <1>10, <1>11, Steps

\* And the instructions.
LEMMA BodyLocated ==
  ASSUME ParserInv, Understood, NEW m \in Meanings, NEW keys, NEW body, NEW end,
         Stands(m, keys, body, end)
  PROVE  /\ step = "instructions_length" => at = MeantHash(m, keys) + HASH_SIZE
         /\ step \in {"scan", "body", "instructions", "accepted"} =>
              header.instructions_length = Len(m.instructions)
         /\ step = "instructions" =>
              at \in AfterInstructions(message, body, Contents(instructions))[Len(instructions)]
<1>1. message \in Seq(Byte) /\ header.instructions_length \in Nat
  BY DEF ParserInv, TypeOK
<1>2. Len(m.instructions) \in Nat
  BY MeaningIs
<1>3. step \in PastHash => header.blockhash = MeantHash(m, keys)
  BY HeaderLocated
<1>4. ASSUME NEW place, BodyBegins(header, place), step \in PastHash
      PROVE  place = body /\ header.instructions_length = Len(m.instructions)
  <2>1. place \in AfterLength(message, MeantHash(m, keys) + HASH_SIZE,
                              header.instructions_length)
    BY <1>3, <1>4 DEF BodyBegins
  <2>2. body \in AfterLength(message, MeantHash(m, keys) + HASH_SIZE, Len(m.instructions))
    BY DEF Stands
  <2>3. MeantHash(m, keys) + HASH_SIZE \in Nat
    BY Places
  <2> QED BY <1>1, <1>2, <2>1, <2>2, <2>3, OneEncoded
<1>5. ASSUME NEW place, Reached(header, instructions, place), step \in PastHash
      PROVE  /\ place \in AfterInstructions(message, body, Contents(instructions))
                            [Len(instructions)]
             /\ header.instructions_length = Len(m.instructions)
  BY <1>4, <1>5 DEF Reached
<1>6. step = "instructions_length" => at = MeantHash(m, keys) + HASH_SIZE
  BY <1>3, Steps DEF Understood, BodyUnderstood
<1>7. step \in {"scan", "body"} => header.instructions_length = Len(m.instructions)
  BY <1>4, Steps DEF Understood, BodyUnderstood
<1>8. step = "instructions" =>
        /\ header.instructions_length = Len(m.instructions)
        /\ at \in AfterInstructions(message, body, Contents(instructions))[Len(instructions)]
  BY <1>5, Steps DEF Understood, BodyUnderstood
<1>9. step = "accepted" => header.instructions_length = Len(m.instructions)
  BY <1>5, Steps DEF Understood, BodyUnderstood
<1> QED BY <1>6, <1>7, <1>8, <1>9

\* The keys of the header are those that were meant.
LEMMA KeysAreMeant ==
  ASSUME ParserInv, Understood, NEW m \in Meanings, NEW keys, NEW body, NEW end,
         Stands(m, keys, body, end), step \in PastHash, NEW i \in 1..Len(m.keys)
  PROVE  Key(i - 1) = m.keys[i]
<1>1. header.pubkeys = keys /\ header.pubkeys_length = Len(m.keys)
      /\ header.blockhash = MeantHash(m, keys)
  BY HeaderLocated, Steps
<1>2. header.blockhash # NoPointer
  <2>1. MeantHash(m, keys) \in Nat
    BY Places
  <2> QED BY <1>1, <2>1 DEF NoPointer
<1> DEFINE place == PubkeyAt(i - 1)
<1>3. /\ place = keys + (i - 1) * PUBKEY_SIZE /\ place \in Nat
      /\ Key(i - 1) = Bytes(place, PUBKEY_SIZE)
  BY <1>1, <1>2, KeyStands
<1>4. m.keys[i] \in Seq(Byte) /\ Len(m.keys[i]) = PUBKEY_SIZE
  BY MeaningIs
<1>5. Occurs(message, keys + (i - 1) * PUBKEY_SIZE, m.keys[i])
  BY DEF Stands
<1>6. message \in Seq(Byte)
  BY DEF ParserInv, TypeOK
<1> HIDE DEF place
<1>7. Bytes(place, PUBKEY_SIZE) = m.keys[i]
  BY <1>3, <1>4, <1>5, <1>6, BytesOccur
<1> QED BY <1>3, <1>7

\* A signer that is meant to sign is found.
LEMMA SignerFound ==
  ASSUME ParserInv, SignerInv, Understood, NEW m \in Meanings, IsWellFormed(m),
         NEW keys, NEW body, NEW end, Stands(m, keys, body, end), step = "scan"
  PROVE  \E i \in Scanned : IsSigner(i)
<1>1. PICK i \in 1..m.required : m.keys[i] = Signer
  BY DEF IsWellFormed
<1>2. m.required \in Nat /\ Len(m.keys) \in Nat /\ m.required <= Len(m.keys)
  BY MeaningIs DEF IsWellFormed
<1>3. /\ header.num_required_signatures = m.required
      /\ header.pubkeys_length = Len(m.keys) /\ header.blockhash = MeantHash(m, keys)
  BY HeaderLocated, Steps
<1>4. header.blockhash # NoPointer
  <2>1. MeantHash(m, keys) \in Nat
    BY Places
  <2> QED BY <1>3, <2>1 DEF NoPointer
<1>5. i - 1 \in Nat /\ i - 1 < header.pubkeys_length /\ i - 1 \in Scanned /\ i \in 1..Len(m.keys)
  BY <1>2, <1>3 DEF Scanned
<1>6. Key(i - 1) = Signer
  <2>1. Key(i - 1) = m.keys[i]
    BY <1>5, KeysAreMeant, Steps
  <2> QED BY <1>1, <2>1
<1>7. InBuffer(PubkeyAt(i - 1) + PUBKEY_SIZE - 1) /\ MayBeSigner(i - 1)
  BY <1>4, <1>5, <1>6, KeyIsCompared DEF SignerInv
<1> QED BY <1>5, <1>7 DEF IsSigner

\* The instructions that were parsed, when they are the first of those that were meant,
\* end where these do.
LEMMA BodyReached ==
  ASSUME ParserInv, Understood, NEW m \in Meanings, NEW keys, NEW body, NEW end,
         Stands(m, keys, body, end), step = "instructions",
         Len(instructions) <= Len(m.instructions),
         \A i \in 1..Len(instructions) : Meant(instructions[i]) = m.instructions[i]
  PROVE  at \in AfterInstructions(message, body, m.instructions)[Len(instructions)]
<1> DEFINE list == Contents(instructions)
           n == Len(instructions)
<1>1. n \in Nat /\ Len(m.instructions) \in Nat
  BY MeaningIs, LenProperties DEF ParserInv, TypeOK
<1>2. list = [i \in 1..n |-> list[i]] /\ \A i \in 1..n : list[i] = m.instructions[i]
  BY DEF Contents
<1>3. at \in AfterInstructions(message, body, list)[n]
  BY BodyLocated
<1> HIDE DEF list
<1>4. Len(list) = n
  BY <1>1, <1>2, Listed
<1> QED BY <1>1, <1>2, <1>3, <1>4, SameBeginnings

\* The next instruction that is meant is there to be parsed.
LEMMA NextFound ==
  ASSUME ParserInv, Understood, NEW m \in Meanings, NEW keys, NEW body, NEW end,
         Stands(m, keys, body, end), step = "instructions", ~AllParsed,
         Len(instructions) <= Len(m.instructions),
         \A i \in 1..Len(instructions) : Meant(instructions[i]) = m.instructions[i]
  PROVE  /\ Len(instructions) + 1 \in 1..Len(m.instructions)
         /\ \E instruction \in parse_instruction(at) :
              Meant(instruction) = m.instructions[Len(instructions) + 1]
<1> DEFINE n == Len(instructions)
           after == AfterInstructions(message, body, m.instructions)
<1>1. /\ n \in Nat /\ Len(m.instructions) \in Nat /\ message \in Seq(Byte) /\ at \in Nat
      /\ \A i \in 1..Len(m.instructions) : m.instructions[i] \in Content
      /\ body \in Nat
  <2>1. message \in Seq(Byte) /\ at \in 0..Len(message) /\ instructions \in Seq(Instruction)
    BY DEF ParserInv, TypeOK
  <2>2. /\ Len(m.instructions) \in Nat
        /\ \A i \in 1..Len(m.instructions) : m.instructions[i] \in Content
    BY MeaningIs
  <2>3. body \in Nat
    BY Places
  <2>4. n \in Nat /\ Len(message) \in Nat
    BY <2>1, LenProperties
  <2>5. at \in Nat
    BY <2>1, <2>4
  <2> QED BY <2>1, <2>2, <2>3, <2>4, <2>5
<1>2. n + 1 \in 1..Len(m.instructions) /\ (n + 1) - 1 = n /\ n \in 0..Len(m.instructions)
      /\ n + 1 \in 0..Len(m.instructions)
  <2>1. header.instructions_length = Len(m.instructions)
    BY BodyLocated
  <2> QED BY <1>1, <2>1 DEF AllParsed
<1>3. at \in after[n]
  BY BodyReached
<1>4. after[n + 1] # {}
  <2>1. after[Len(m.instructions)] # {}
    BY DEF Stands
  <2> QED BY <1>1, <1>2, <2>1, EachSomewhere
<1>5. \A one \in after[n] : one = at
  <2>1. \A one, other \in after[n] : one = other /\ one \in Nat
    BY <1>1, <1>2, OnePlace
  <2> QED BY <1>3, <2>1
<1>6. after[n + 1] = UNION {AfterInstruction(message, next, m.instructions[n + 1]) :
                              next \in after[n]}
  <2>1. n \in Nat /\ n + 1 <= Len(m.instructions)
    BY <1>1, <1>2
  <2> HIDE DEF n
  <2> QED BY <1>1, <2>1, BehindNext
<1> HIDE DEF after, n
<1>7. PICK next : next \in AfterInstruction(message, at, m.instructions[n + 1])
  BY <1>4, <1>5, <1>6
<1>8. m.instructions[n + 1] \in Content
  BY <1>1, <1>2
<1>9. PICK instruction \in parse_instruction(at) :
        instruction.next = next /\ Meant(instruction) = m.instructions[n + 1]
  BY <1>1, <1>7, <1>8, InstructionsAgree
<1> QED BY <1>2, <1>9 DEF n

\* And is found valid.
LEMMA NextValid ==
  ASSUME ParserInv, Understood, NEW m \in Meanings, IsWellFormed(m),
         NEW keys, NEW body, NEW end, Stands(m, keys, body, end), step = "instructions",
         NEW k \in 1..Len(m.instructions), NEW instruction \in parse_instruction(at),
         Meant(instruction) = m.instructions[k]
  PROVE  instruction_validate(instruction)
<1>1. header.pubkeys_length = Len(m.keys)
  BY HeaderLocated, Steps
<1>2. /\ instruction \in Instruction
      /\ Len(Meant(instruction).accounts) = instruction.accounts_length
  <2>1. message \in Seq(Byte) /\ at \in Nat /\ Len(message) \in Nat
    BY LenProperties DEF ParserInv, TypeOK
  <2>2. /\ instruction \in Instruction
        /\ instruction.accounts + instruction.accounts_length < instruction.data
        /\ instruction.data + instruction.data_length = instruction.next
        /\ instruction.next <= Len(message)
    BY <2>1, InstructionParsed
  <2> QED BY <2>1, <2>2, InstructionMeans
<1>3. /\ Meant(instruction).program < Len(m.keys)
      /\ \A j \in 1..Len(Meant(instruction).accounts) :
           Meant(instruction).accounts[j] < Len(m.keys)
  BY DEF IsWellFormed
<1>4. Meant(instruction).program = instruction.program_id_index
      /\ \A j \in 1..instruction.accounts_length :
           Meant(instruction).accounts[j] = message[instruction.accounts + j]
  BY DEF Meant, Bytes
<1> QED BY <1>1, <1>2, <1>3, <1>4 DEF instruction_validate

\* When all instructions are parsed the message is at its end.
LEMMA EndFound ==
  ASSUME ParserInv, Understood, NEW m \in Meanings, NEW keys, NEW body, NEW end,
         Stands(m, keys, body, end), step = "instructions", AllParsed,
         Len(instructions) <= Len(m.instructions),
         \A i \in 1..Len(instructions) : Meant(instructions[i]) = m.instructions[i]
  PROVE  Len(message) \in TablesEnd
<1> DEFINE after == AfterInstructions(message, body, m.instructions)
           n == Len(m.instructions)
<1>1. /\ n \in Nat /\ message \in Seq(Byte)
      /\ \A i \in 1..Len(m.instructions) : m.instructions[i] \in Content
      /\ body \in Nat /\ end \in Nat
  BY MeaningIs, Places DEF ParserInv, TypeOK
<1>2. Len(instructions) = n
  BY BodyLocated DEF AllParsed
<1>3. at \in after[n]
  BY <1>2, BodyReached
<1>4. end \in after[n] /\ n \in 0..Len(m.instructions)
  BY <1>1 DEF Stands
<1>5. at = end
  <2>1. \A one, other \in after[n] : one = other /\ one \in Nat
    BY <1>1, <1>4, OnePlace
  <2> QED BY <1>3, <1>4, <2>1
<1>6. header.versioned = m.versioned
  BY HeaderLocated, Steps
<1>7. CASE m.versioned
  <2>1. Len(message) \in AfterLength(message, end, 0)
    BY <1>7 DEF Stands
  <2>2. \E length \in parse_length(end) : length.value = 0 /\ length.next = Len(message)
    BY <1>1, <2>1, LengthsAgree
  <2> QED BY <1>5, <1>6, <1>7, <2>2 DEF TablesEnd
<1>8. CASE ~m.versioned
  <2>1. Len(message) = end
    BY <1>8 DEF Stands
  <2> QED BY <1>5, <1>6, <1>8, <2>1 DEF TablesEnd
<1> QED BY <1>7, <1>8

\* No parse function of the header fails on it.
LEMMA HeaderNotRefused ==
  ASSUME ParserInv, Understood, NEW m \in Meanings, NEW keys, NEW body, NEW end,
         Stands(m, keys, body, end)
  PROVE  ~HeaderFails
<1> DEFINE hash == MeantHash(m, keys)
           head == MeantHead(m)
<1>1. /\ message \in Seq(Byte) /\ Len(message) \in Nat /\ message # <<>>
      /\ PUBKEY_SIZE \in Nat /\ HASH_SIZE \in Nat /\ Len(m.keys) \in Nat
      /\ Len(m.instructions) \in Nat
  <2>1. message \in Seq(Byte) /\ PUBKEY_SIZE \in Nat /\ HASH_SIZE \in Nat
    BY ParserAssumption DEF ParserAssumption, ParserInv, TypeOK
  <2>2. Len(m.keys) \in Nat /\ Len(m.instructions) \in Nat
    BY MeaningIs
  <2>3. message # <<>>
    BY DEF Stands
  <2>4. Len(message) \in Nat
    BY <2>1, LenProperties
  <2> QED BY <2>1, <2>2, <2>3, <2>4
<1>2. /\ head + 3 \in Nat /\ keys \in Nat /\ hash \in Nat /\ hash + HASH_SIZE \in Nat
      /\ Available(hash, HASH_SIZE)
  BY Places
<1>3. ASSUME NEW place \in Nat, NEW n \in Nat, AfterLength(message, place, n) # {}
      PROVE  parse_length(place) # {}
  BY <1>1, <1>3, LengthsAgree
<1>4. ASSUME step = "version" PROVE Available(at, 1)
  <2>1. at = 0
    BY <1>4 DEF Understood, HeaderUnderstood
  <2>2. Len(message) # 0
    BY <1>1, EmptySeq
  <2> QED BY <1>1, <2>1, <2>2 DEF Available
<1>5. ASSUME step = "pubkeys_header" PROVE Available(at, 3) /\ parse_length(at + 3) # {}
  <2>1. at = head
    <3>1. at = HeadOf(header)
      BY <1>5 DEF Understood, HeaderUnderstood
    <3> QED BY <1>5, <3>1, HeaderLocated, Steps
  <2>2. Available(head, 3)
    <3>1. Occurs(message, head, <<m.required, m.readonly[1], m.readonly[2]>>)
      BY DEF Stands
    <3>2. Len(<<m.required, m.readonly[1], m.readonly[2]>>) = 3
      OBVIOUS
    <3> HIDE DEF head
    <3> QED BY <3>1, <3>2 DEF Occurs, Available
  <2>3. AfterLength(message, head + 3, Len(m.keys)) # {}
    BY DEF Stands
  <2> HIDE DEF head
  <2> QED BY <1>1, <1>2, <1>3, <2>1, <2>2, <2>3
<1>6. ASSUME step = "pubkeys" PROVE Available(at, pubkeys_size)
  <2>1. at = keys /\ header.pubkeys_length = Len(m.keys)
    BY <1>6, HeaderLocated, Steps
  <2>2. at + pubkeys_size = hash
    BY <2>1 DEF pubkeys_size, MeantHash
  <2> HIDE DEF hash
  <2>3. hash <= Len(message)
    BY <1>1, <1>2 DEF Available
  <2> QED BY <2>2, <2>3 DEF Available
<1>7. ASSUME step = "blockhash" PROVE Available(at, HASH_SIZE)
  <2>1. at = hash
    BY <1>7, HeaderLocated
  <2> QED BY <1>2, <2>1
<1>8. ASSUME step = "instructions_length" PROVE parse_length(at) # {}
  <2>1. at = hash + HASH_SIZE
    BY <1>8, BodyLocated
  <2>2. AfterLength(message, hash + HASH_SIZE, Len(m.instructions)) # {}
    BY DEF Stands
  <2> HIDE DEF hash
  <2> QED BY <1>1, <1>2, <1>3, <2>1, <2>2
<1> QED BY <1>4, <1>5, <1>6, <1>7, <1>8 DEF HeaderFails

\* Nor does the body.
LEMMA BodyNotRefused ==
  ASSUME ParserInv, Understood, NEW m \in Meanings, IsWellFormed(m),
         NEW keys, NEW body, NEW end, Stands(m, keys, body, end),
         Len(instructions) <= Len(m.instructions),
         \A i \in 1..Len(instructions) : Meant(instructions[i]) = m.instructions[i]
  PROVE  ~BodyFails
<1>1. step = "body" => header.instructions_length \in 1..MAX_INSTRUCTIONS
  <2>1. Len(m.instructions) \in 1..MAX_INSTRUCTIONS
    BY DEF IsWellFormed
  <2> QED BY <2>1, BodyLocated
<1>2. ASSUME step = "instructions", ~AllParsed
      PROVE  \E instruction \in parse_instruction(at) : instruction_validate(instruction)
  <2>1. PICK k \in 1..Len(m.instructions), instruction \in parse_instruction(at) :
          Meant(instruction) = m.instructions[k]
    BY <1>2, NextFound
  <2>2. instruction_validate(instruction)
    BY <1>2, <2>1, NextValid
  <2> QED BY <2>2
<1>3. step = "instructions" /\ AllParsed => Len(message) \in TablesEnd
  BY EndFound
<1> QED BY <1>1, <1>2, <1>3 DEF BodyFails

\* Nothing is refused, and nothing parsed, at the beginning.
LEMMA WellFormedInit == Init => WellFormedInv
<1> SUFFICES ASSUME Init, NEW m \in Meanings
             PROVE  /\ step \notin Final \ {"accepted"}
                    /\ Len(instructions) <= Len(m.instructions)
                    /\ \A i \in 1..Len(instructions) :
                         Meant(instructions[i]) = m.instructions[i]
  BY DEF WellFormedInv
<1>1. Len(instructions) = 0 /\ Len(m.instructions) \in Nat
  BY MeaningIs DEF Init
<1> QED BY <1>1 DEF Init, Final

\* A well-formed message is refused by no step, and the instruction that is parsed next is
\* the one that was meant next.
LEMMA WellFormedStep ==
  ParserInv /\ SignerInv /\ Understood /\ WellFormedInv /\ [Next]_vars => WellFormedInv'
<1> SUFFICES ASSUME ParserInv, SignerInv, Understood, WellFormedInv, [Next]_vars
             PROVE  WellFormedInv'
  OBVIOUS
<1>a. ASSUME UNCHANGED <<message, instructions>>, step' \notin Final \ {"accepted"}
      PROVE  WellFormedInv'
  <2>1. \A instruction : Meant(instruction)' = Meant(instruction)
    BY <1>a DEF Meant, Bytes
  <2> QED BY <1>a, <2>1 DEF WellFormedInv
<1>1. CASE parse_version
  BY <1>1, <1>a DEF parse_version, Final
<1>2. CASE parse_pubkeys_header
  BY <1>2, <1>a DEF parse_pubkeys_header, Final
<1>3. CASE parse_pubkeys
  BY <1>3, <1>a DEF parse_pubkeys, Final
<1>4. CASE parse_blockhash
  BY <1>4, <1>a DEF parse_blockhash, Final
<1>5. CASE parse_instructions_length
  BY <1>5, <1>a DEF parse_instructions_length, Final
<1>6. CASE scan_header_for_signer
  BY <1>6, <1>a DEF scan_header_for_signer, Final
<1>7. CASE BeginBody
  BY <1>7, <1>a DEF BeginBody, Final
<1>8. CASE ParseInstruction
  <2>1. UNCHANGED <<message, header, step>> /\ step = "instructions" /\ ~AllParsed
    BY <1>8 DEF ParseInstruction
  <2>2. PICK instruction \in parse_instruction(at) :
          instructions' = Append(instructions, instruction)
    BY <1>8 DEF ParseInstruction
  <2>3. /\ Len(instructions) \in Nat /\ Len(instructions') = Len(instructions) + 1
        /\ \A i \in 1..Len(instructions) : instructions'[i] = instructions[i]
        /\ instructions'[Len(instructions) + 1] = instruction
    <3>1. message \in Seq(Byte) /\ at \in Nat /\ instructions \in Seq(Instruction)
      BY LenProperties DEF ParserInv, TypeOK
    <3>2. instruction \in Instruction
      BY <3>1, InstructionParsed
    <3> QED BY <2>2, <3>1, <3>2, AppendProperties, LenProperties
  <2>4. \A any : Meant(any)' = Meant(any)
    BY <2>1 DEF Meant, Bytes
  <2> SUFFICES ASSUME NEW m \in Meanings, IsWellFormed(m), Encodes(message, m)
               PROVE  /\ Len(instructions') <= Len(m.instructions)
                      /\ \A i \in 1..Len(instructions') :
                           Meant(instructions'[i]) = m.instructions[i]
    BY <2>1, <2>4 DEF WellFormedInv, Final
  <2>5. /\ Len(instructions) <= Len(m.instructions)
        /\ \A i \in 1..Len(instructions) : Meant(instructions[i]) = m.instructions[i]
    BY DEF WellFormedInv
  <2>6. PICK keys, body, end : Stands(m, keys, body, end)
    BY EncodedStands
  <2>7. PICK other \in parse_instruction(at) :
          Meant(other) = m.instructions[Len(instructions) + 1]
    BY <2>1, <2>5, <2>6, NextFound
  <2>8. Len(instructions) + 1 \in 1..Len(m.instructions)
    BY <2>1, <2>5, <2>6, NextFound
  <2>9. other = instruction
    BY OneInstruction
  <2>10. Len(m.instructions) \in Nat
    BY MeaningIs
  <2> QED BY <2>3, <2>5, <2>7, <2>8, <2>9, <2>10
<1>9. CASE Finish
  BY <1>9, <1>a DEF Finish, Final
<1>10. CASE Refuse
  <2>1. UNCHANGED message
    BY <1>10 DEF Refuse
  <2> SUFFICES ASSUME NEW m \in Meanings, IsWellFormed(m), Encodes(message, m)
               PROVE  FALSE
    BY <2>1 DEF WellFormedInv
  <2>2. /\ Len(instructions) <= Len(m.instructions)
        /\ \A i \in 1..Len(instructions) : Meant(instructions[i]) = m.instructions[i]
    BY DEF WellFormedInv
  <2>3. PICK keys, body, end : Stands(m, keys, body, end)
    BY EncodedStands
  <2>4. ~HeaderFails
    BY <2>3, HeaderNotRefused
  <2>5. ~SignerMissing
    BY <2>3, SignerFound DEF SignerMissing
  <2>6. ~BodyFails
    BY <2>2, <2>3, BodyNotRefused
  <2> QED BY <1>10, <2>4, <2>5, <2>6 DEF Refuse
<1>11. CASE UNCHANGED vars
  <2>1. UNCHANGED <<message, instructions, step>>
    BY <1>11 DEF vars
  <2>2. \A instruction : Meant(instruction)' = Meant(instruction)
    BY <2>1 DEF Meant, Bytes
  <2> QED BY <2>1, <2>2 DEF WellFormedInv
<1> QED
  BY <1>1, <1>2, <1>3, <1>4, <1>5, <1>6, <1>7, <1>8, <1>9, <1>10, <1>11 DEF Next

\* A well-formed message that was accepted was parsed as it was meant.
LEMMA AcceptedAsMeant ==
  ASSUME ParserInv, Understood, step = "accepted", NEW m \in Meanings,
         NEW keys, NEW body, NEW end, Stands(m, keys, body, end),
         \A i \in 1..Len(instructions) : Meant(instructions[i]) = m.instructions[i]
  PROVE  Parsed = m
<1>1. /\ header.versioned = m.versioned /\ header.num_required_signatures = m.required
      /\ header.num_readonly_signed_accounts = m.readonly[1]
      /\ header.num_readonly_unsigned_accounts = m.readonly[2]
      /\ header.pubkeys_length = Len(m.keys) /\ header.blockhash = MeantHash(m, keys)
  BY HeaderLocated, Steps
<1>2. Len(instructions) = Len(m.instructions)
  BY BodyLocated DEF Understood, BodyUnderstood, AllParsed
<1>3. [i \in 1..header.pubkeys_length |-> Key(i - 1)] = m.keys
  <2>1. \A i \in 1..Len(m.keys) : Key(i - 1) = m.keys[i]
    BY KeysAreMeant, Steps
  <2>2. m.keys = [i \in 1..Len(m.keys) |-> m.keys[i]]
    BY MeaningIs
  <2> QED BY <1>1, <2>1, <2>2
<1>4. Bytes(header.blockhash, HASH_SIZE) = m.blockhash
  BY <1>1, Places
<1>5. [i \in 1..Len(instructions) |-> Meant(instructions[i])] = m.instructions
  <2>1. m.instructions = [i \in 1..Len(m.instructions) |-> m.instructions[i]]
    BY MeaningIs
  <2> QED BY <1>2, <2>1
<1>6. /\ m.readonly = <<m.readonly[1], m.readonly[2]>>
      /\ m = [versioned |-> m.versioned, required |-> m.required, readonly |-> m.readonly,
              keys |-> m.keys, blockhash |-> m.blockhash, instructions |-> m.instructions]
  BY MeaningIs
<1> QED BY <1>1, <1>3, <1>4, <1>5, <1>6, Zenon DEF Parsed

\* So WellFormedInv says of the end what the property says.
LEMMA InvAccepts == ParserInv /\ Understood /\ WellFormedInv => WellFormedIsAccepted
<1> SUFFICES ASSUME ParserInv, Understood, WellFormedInv, step \in Final,
                    NEW m \in Meanings, IsWellFormed(m), Encodes(message, m)
             PROVE  step = "accepted" /\ Parsed = m
  BY DEF WellFormedIsAccepted
<1>1. /\ step = "accepted"
      /\ \A i \in 1..Len(instructions) : Meant(instructions[i]) = m.instructions[i]
  BY DEF WellFormedInv
<1>2. PICK keys, body, end : Stands(m, keys, body, end)
  BY EncodedStands
<1> QED BY <1>1, <1>2, AcceptedAsMeant

\* The bytes of every message that is accepted are, to the last one, an encoding of what
\* the parser has made of them.
THEOREM AcceptedAlwaysUnderstood == Spec => []AcceptedIsUnderstood
BY ParserInit, ParserStep, UnderstoodInit, UnderstoodStep, UnderstoodEncodes, PTL DEF Spec

\* A message that encodes a well-formed meaning, in whichever of its encodings, is never
\* refused, and when its parsing is over it was parsed as it was meant.
THEOREM WellFormedAlwaysAccepted == Spec => []WellFormedIsAccepted
BY ParserInit, ParserStep, SignerInit, SignerStep, UnderstoodInit, UnderstoodStep,
   WellFormedInit, WellFormedStep, InvAccepts, PTL DEF Spec
=============================================================================
