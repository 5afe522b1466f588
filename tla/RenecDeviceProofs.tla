------------------------- MODULE RenecDeviceProofs -------------------------
(***************************************************************************)
(* Theorems about RenecDevice, for every set of APDUs, every parser and    *)
(* every size of the buffers: its invariants and action properties, then   *)
(* that it keeps the promise of SigningDevice, and that a swap signs only  *)
(* the transfer agreed on.                                                 *)
(***************************************************************************)
EXTENDS RenecDevice, SequenceTheorems, TLAPS

-----------------------------------------------------------------------------
(* What the functions of Apdu return is well typed, an accepted message    *)
(* fits in its buffer, and a chunk that is accepted in the middle of a     *)
(* command extends that very command.                                      *)

\* What read_derivation_path returns, whatever the buffer: a path and what
\* follows it, both pieces of the buffer.
LEMMA PathType ==
  ASSUME NEW data \in Seq(Byte)
  PROVE  /\ read_derivation_path(data).path \in Seq(Byte)
         /\ read_derivation_path(data).rest \in Seq(Byte)
<1>1. CASE read_derivation_path(data).status # "Success"
  BY <1>1, EmptySeq DEF read_derivation_path
<1>2. CASE read_derivation_path(data).status = "Success"
  <2> DEFINE bytes == WordSize * data[1]
  <2>1. /\ data # <<>>
        /\ data[1] \in 1..MAX_BIP32_PATH_LENGTH
        /\ 1 + bytes <= Len(data)
        /\ read_derivation_path(data) =
             [status |-> "Success", path |-> SubSeq(data, 2, 1 + bytes),
              rest |-> SubSeq(data, 2 + bytes, Len(data))]
    <3>1. Len(data) \in Nat
      BY LenProperties
    <3>2. data # <<>>
      BY <1>2 DEF read_derivation_path
    <3>3. data[1] \in 1..MAX_BIP32_PATH_LENGTH
      BY <1>2, <3>2 DEF read_derivation_path
    <3>4. ~(1 + bytes > Len(data))
      BY <1>2, <3>2, <3>3 DEF read_derivation_path
    <3>5. bytes \in Nat
      BY <3>3, ApduAssumption DEF ApduAssumption
    <3> QED
      BY <3>1, <3>2, <3>3, <3>4, <3>5 DEF read_derivation_path
  <2>2. bytes \in Nat /\ Len(data) \in Nat
    BY <2>1, LenProperties, ApduAssumption DEF ApduAssumption
  <2>3. \A i \in 1 .. Len(data) : data[i] \in Byte
    BY ElementOfSeq
  <2>4. SubSeq(data, 2, 1 + bytes) \in Seq(Byte)
    <3> HIDE DEF bytes
    <3>1. \A i \in 2 .. 1 + bytes : data[i] \in Byte
      BY <2>1, <2>2, <2>3
    <3> QED
      BY <2>2, <3>1, SubSeqProperties
  <2>5. SubSeq(data, 2 + bytes, Len(data)) \in Seq(Byte)
    <3> HIDE DEF bytes
    <3>1. \A i \in 2 + bytes .. Len(data) : data[i] \in Byte
      BY <2>2, <2>3
    <3> QED
      BY <2>2, <3>1, SubSeqProperties
  <2> QED
    BY <2>1, <2>4, <2>5
<1> QED
  BY <1>1, <1>2

\* The same for the head of a first chunk and for the payload of any chunk.
LEMMA FirstChunkType ==
  ASSUME NEW apdu \in Apdu
  PROVE  /\ FirstChunk(apdu).path \in Seq(Byte)
         /\ FirstChunk(apdu).rest \in Seq(Byte)
         /\ Payload(apdu) \in Seq(Byte)
<1>1. apdu.data \in Seq(Byte)
  BY DEF Apdu
<1>2. apdu.data # <<>> => Tail(apdu.data) \in Seq(Byte)
  BY <1>1, HeadTailProperties
<1>3. /\ FirstChunk(apdu).path \in Seq(Byte)
      /\ FirstChunk(apdu).rest \in Seq(Byte)
  BY <1>1, <1>2, PathType, EmptySeq DEF FirstChunk
<1> QED
  BY <1>1, <1>3 DEF Payload

\* The cleared command is a command.
LEMMA EmptyCommandType == EmptyCommand \in Command
  BY EmptySeq DEF EmptyCommand, Command

\* apdu_handle_message leaves a well typed command whose message fits in the
\* buffer.
LEMMA HandledType ==
  ASSUME NEW command \in Command, NEW apdu \in Apdu,
         Len(command.message) <= MAX_MESSAGE_LENGTH
  PROVE  /\ apdu_handle_message(command, apdu).command \in Command
         /\ Len(apdu_handle_message(command, apdu).command.message)
              <= MAX_MESSAGE_LENGTH
<1> DEFINE opened == OpenedCommand(command, apdu)
           filled == FilledCommand(command, apdu)
<1>1. EmptyCommand \in Command /\ EmptyCommand.message = <<>>
  BY EmptyCommandType DEF EmptyCommand
<1>2. Len(EmptyCommand.message) <= MAX_MESSAGE_LENGTH
  BY <1>1, EmptySeq, ApduAssumption DEF ApduAssumption
<1>3. opened \in Command
  BY <1>1, FirstChunkType DEF OpenedCommand, Command
<1>4. CASE MessageStatus(command, apdu) # "Success"
  BY <1>1, <1>2, <1>4 DEF apdu_handle_message
<1>5. CASE /\ MessageStatus(command, apdu) = "Success"
           /\ apdu.ins = "GetAppConfiguration"
  <2>1. filled = [EmptyCommand EXCEPT !.state = "PayloadComplete",
                                      !.instruction = apdu.ins,
                                      !.non_confirm = NonConfirm(apdu)]
    BY <1>5 DEF FilledCommand
  <2>2. filled \in Command /\ filled.message = <<>>
    BY <1>1, <1>5, <2>1 DEF Command, Instructions, NonConfirm
  <2> QED
    BY <1>2, <1>1, <1>5, <2>2 DEF apdu_handle_message
<1>6. CASE /\ MessageStatus(command, apdu) = "Success"
           /\ apdu.ins # "GetAppConfiguration"
  <2>1. apdu.ins \in Instructions
    BY <1>6 DEF MessageStatus, HeadStatus, FrameStatus
  <2>2. Len(opened.message) + Len(Payload(apdu)) <= MAX_MESSAGE_LENGTH
    <3>1. ~(Len(opened.message) + Len(Payload(apdu)) > MAX_MESSAGE_LENGTH)
      BY <1>6 DEF MessageStatus
    <3>2. opened.message \in Seq(Byte)
      BY <1>3 DEF Command
    <3>3. Len(opened.message) \in Nat /\ Len(Payload(apdu)) \in Nat
      BY <3>2, FirstChunkType, LenProperties
    <3> HIDE DEF opened
    <3> QED
      BY <3>1, <3>3, ApduAssumption DEF ApduAssumption
  <2>3. /\ opened.message \o Payload(apdu) \in Seq(Byte)
        /\ Len(opened.message \o Payload(apdu)) = Len(opened.message) + Len(Payload(apdu))
    <3>1. opened.message \in Seq(Byte) /\ Payload(apdu) \in Seq(Byte)
      BY <1>3, FirstChunkType DEF Command
    <3> HIDE DEF opened
    <3> QED
      BY <3>1, ConcatProperties
  <2>4. filled =
          [opened EXCEPT
             !.state = IF ExpectsMore(apdu) THEN "PayloadInProgress" ELSE "PayloadComplete",
             !.instruction = apdu.ins,
             !.non_confirm = NonConfirm(apdu),
             !.message = opened.message \o Payload(apdu)]
    BY <1>6, <1>3 DEF FilledCommand, Command
  <2>5. filled \in Command /\ filled.message = opened.message \o Payload(apdu)
    <3> HIDE DEF opened, filled
    <3> QED
      BY <1>3, <2>1, <2>3, <2>4 DEF Command, NonConfirm
  <2> QED
    BY <1>6, <2>2, <2>3, <2>5 DEF apdu_handle_message
<1> QED
  BY <1>4, <1>5, <1>6

\* What a refusal leaves.
LEMMA RefusedCommand ==
  ASSUME NEW command, NEW apdu,
         apdu_handle_message(command, apdu).status # "Success"
  PROVE  apdu_handle_message(command, apdu).command = EmptyCommand
  BY DEF apdu_handle_message

\* The instruction of an accepted APDU becomes that of the command; only an
\* accepted APDU completes a command.
LEMMA AcceptedInstruction ==
  ASSUME NEW command \in Command, NEW apdu \in Apdu,
         apdu_handle_message(command, apdu).command.state = "PayloadComplete"
  PROVE  /\ apdu_handle_message(command, apdu).status = "Success"
         /\ apdu_handle_message(command, apdu).command.instruction = apdu.ins
         /\ apdu_handle_message(command, apdu).command.non_confirm = NonConfirm(apdu)
<1>1. apdu_handle_message(command, apdu).status = "Success"
  BY DEF apdu_handle_message, EmptyCommand
<1>2. OpenedCommand(command, apdu) \in Command
  BY EmptyCommandType, FirstChunkType DEF OpenedCommand, Command
<1>3. apdu_handle_message(command, apdu).command = FilledCommand(command, apdu)
  BY <1>1 DEF apdu_handle_message
<1>4. FilledCommand(command, apdu).instruction = apdu.ins
  BY <1>2, EmptyCommandType DEF FilledCommand, Command
<1>5. FilledCommand(command, apdu).non_confirm = NonConfirm(apdu)
  BY <1>2, EmptyCommandType DEF FilledCommand, Command
<1> QED
  BY <1>1, <1>3, <1>4, <1>5

\* What an accepted chunk of a signing instruction leaves: a first chunk its own
\* path and payload, an EXTEND chunk the command in progress with its data added.
LEMMA AcceptedChunk ==
  ASSUME NEW command \in Command, NEW apdu \in Apdu,
         apdu.ins \in SignInstructions,
         apdu_handle_message(command, apdu).status = "Success"
  PROVE  LET next == apdu_handle_message(command, apdu).command
         IN  /\ next.instruction = apdu.ins
             /\ next.non_confirm = NonConfirm(apdu)
             /\ next.state = IF ExpectsMore(apdu) THEN "PayloadInProgress"
                                                  ELSE "PayloadComplete"
             /\ IF IsFirstChunk(apdu)
                THEN /\ next.derivation_path = FirstChunk(apdu).path
                     /\ next.message = FirstChunk(apdu).rest
                ELSE /\ ContinuesCommand(command, apdu)
                     /\ next.derivation_path = command.derivation_path
                     /\ next.message = command.message \o apdu.data
<1> DEFINE opened == OpenedCommand(command, apdu)
           next == apdu_handle_message(command, apdu).command
<1>1. MessageStatus(command, apdu) = "Success"
  BY DEF apdu_handle_message
<1>2. apdu.ins \in {"SignMessage", "SignOffchainMessage"}
  BY DEF SignInstructions
<1>3. opened \in Command
  BY EmptyCommandType, FirstChunkType DEF OpenedCommand, Command
<1>4. next = [opened EXCEPT
                !.state = IF ExpectsMore(apdu) THEN "PayloadInProgress"
                                               ELSE "PayloadComplete",
                !.instruction = apdu.ins,
                !.non_confirm = NonConfirm(apdu),
                !.message = opened.message \o Payload(apdu)]
  BY <1>1, <1>2, <1>3 DEF apdu_handle_message, FilledCommand, Command
<1>5. /\ next.instruction = apdu.ins
      /\ next.non_confirm = NonConfirm(apdu)
      /\ next.state = IF ExpectsMore(apdu) THEN "PayloadInProgress"
                                           ELSE "PayloadComplete"
      /\ next.derivation_path = opened.derivation_path
      /\ next.message = opened.message \o Payload(apdu)
  <2> HIDE DEF opened, next
  <2> QED
    BY <1>3, <1>4 DEF Command
<1>6. CASE IsFirstChunk(apdu)
  <2>1. opened.derivation_path = FirstChunk(apdu).path /\ opened.message = <<>>
    BY <1>6, EmptyCommandType DEF OpenedCommand, EmptyCommand
  <2>2. <<>> \o FirstChunk(apdu).rest = FirstChunk(apdu).rest
    BY FirstChunkType, ConcatEmptySeq
  <2>3. Payload(apdu) = FirstChunk(apdu).rest
    BY <1>6 DEF Payload
  <2> HIDE DEF next, opened
  <2> QED
    BY <1>5, <1>6, <2>1, <2>2, <2>3 DEF next
<1>7. CASE ~IsFirstChunk(apdu)
  <2>1. opened = command
    BY <1>7 DEF OpenedCommand
  <2>2. ContinuesCommand(command, apdu)
    BY <1>1, <1>2, <1>7 DEF MessageStatus, HeadStatus
  <2>3. Payload(apdu) = apdu.data
    BY <1>7 DEF Payload
  <2> HIDE DEF next, opened
  <2> QED
    BY <1>5, <1>7, <2>1, <2>2, <2>3 DEF next
<1> QED
  BY <1>6, <1>7

-----------------------------------------------------------------------------
(* Type correctness. *)

\* Receiving an APDU leaves a well typed command, within its buffer, and a well
\* typed record of the transfer.
LEMMA ReceivedType ==
  ASSUME TypeOK, NEW apdu \in Apdus, Received(apdu)
  PROVE  /\ G_command' \in Command
         /\ Len(G_command'.message) <= MAX_MESSAGE_LENGTH
         /\ transfer' \in Transfer
<1>1. apdu \in Apdu
  BY DeviceAssumption DEF DeviceAssumption
<1>2. /\ G_command' \in Command
      /\ Len(G_command'.message) <= MAX_MESSAGE_LENGTH
  BY <1>1, HandledType DEF TypeOK, Received
<1>3. \A status : TransferAfter(apdu, status) \in Transfer
  <2>1. NoTransfer \in Transfer
    BY EmptySeq DEF NoTransfer, Transfer
  <2>2. transfer \in Transfer /\ apdu.data \in Seq(Byte)
    BY <1>1 DEF TypeOK, Apdu
  <2>3. transfer.message \o apdu.data \in Seq(Byte)
    BY <2>2, ConcatProperties DEF Transfer
  <2>4. [transfer EXCEPT !.message = @ \o apdu.data, !.open = ExpectsMore(apdu)]
          \in Transfer
    <3>1. ExpectsMore(apdu) \in BOOLEAN
      BY DEF ExpectsMore
    <3> QED
      BY <2>2, <2>3, <3>1 DEF Transfer
  <2>5. apdu.ins \in SignInstructions =>
          [instruction |-> apdu.ins, non_confirm |-> NonConfirm(apdu),
           path |-> FirstChunk(apdu).path, message |-> FirstChunk(apdu).rest,
           open |-> ExpectsMore(apdu)] \in Transfer
    BY <1>1, FirstChunkType DEF Transfer, NonConfirm, ExpectsMore
  <2> QED
    BY <2>1, <2>4, <2>5 DEF TransferAfter
<1> QED
  BY <1>2, <1>3 DEF Received

\* The types hold when the application starts.
LEMMA TypeInit == Init => TypeOK
<1> SUFFICES ASSUME Init PROVE TypeOK
  OBVIOUS
<1>1. EmptyCommand.message = <<>> /\ Len(<<>>) <= MAX_MESSAGE_LENGTH
  BY EmptySeq, ApduAssumption DEF EmptyCommand, ApduAssumption
<1> QED
  BY <1>1, EmptySeq, EmptyCommandType
     DEF Init, TypeOK, NoTransfer, Transfer, NoReview, Review

\* The cleared values have their types.
LEMMA ClearedTypes ==
  /\ EmptyCommand \in Command
  /\ Len(EmptyCommand.message) <= MAX_MESSAGE_LENGTH
  /\ <<>> \in Seq(Byte)
  /\ NoTransfer \in Transfer
  /\ NoReview \in Review
<1>1. EmptyCommand.message = <<>> /\ Len(<<>>) <= MAX_MESSAGE_LENGTH
  BY EmptySeq, ApduAssumption DEF EmptyCommand, ApduAssumption
<1> QED
  BY <1>1, EmptySeq, EmptyCommandType DEF NoTransfer, Transfer, NoReview, Review

\* A completed command has the instruction and the P1 of the APDU that completed
\* it, and its message is one the parsers are assumed about.
LEMMA CompletedCommand ==
  ASSUME TypeOK, NEW apdu \in Apdus, NEW instruction, Completes(apdu, instruction)
  PROVE  /\ Received(apdu)
         /\ G_command'.state = "PayloadComplete"
         /\ G_command'.instruction = instruction
         /\ G_command'.non_confirm = NonConfirm(apdu)
         /\ apdu_handle_message(G_command, apdu).status = "Success"
         /\ G_command'.message \in Message
<1>1. /\ Received(apdu)
      /\ apdu.ins = instruction
      /\ G_command'.state = "PayloadComplete"
      /\ G_command' = apdu_handle_message(G_command, apdu).command
  BY DEF Completes, Received
<1>2. apdu \in Apdu /\ G_command \in Command
  BY DeviceAssumption DEF DeviceAssumption, TypeOK
<1>3. G_command'.message \in Message
  <2>1. /\ G_command'.message \in Seq(Byte)
        /\ Len(G_command'.message) <= MAX_MESSAGE_LENGTH
    BY <1>1, ReceivedType DEF Command
  <2>2. /\ Len(G_command'.message) \in 0..MAX_MESSAGE_LENGTH
        /\ G_command'.message \in [1..Len(G_command'.message) -> Byte]
    BY <2>1, LenProperties, ApduAssumption DEF ApduAssumption
  <2> QED
    BY <2>2 DEF Message
<1> QED
  BY <1>1, <1>2, <1>3, AcceptedInstruction

\* Opening a review of a complete signing command preserves the types.
LEMMA TypeStartReview ==
  ASSUME TypeOK, NEW apdu \in Apdus, Received(apdu),
         G_command'.instruction \in SignInstructions,
         NEW clear \in BOOLEAN, StartReview(G_command', clear), UNCHANGED N_storage
  PROVE  TypeOK'
<1>1. /\ G_command' \in Command
      /\ Len(G_command'.message) <= MAX_MESSAGE_LENGTH
      /\ transfer' \in Transfer
  BY ReceivedType
<1>2. review' \in Review
  BY <1>1 DEF StartReview, Command, Review
<1> QED
  BY <1>1, <1>2 DEF TypeOK, StartReview

\* A handler that answers at once and changes neither settings nor what is on the screen.
LEMMA TypeAnswered ==
  ASSUME TypeOK, NEW apdu \in Apdus, Received(apdu), requested' = FALSE,
         UNCHANGED <<app, G_publicKey, G_swap_response_ready, G_swap_validated, N_storage,
                     screen, swap_result, review, swap_signatures>>
  PROVE  TypeOK'
<1>1. /\ G_command' \in Command
      /\ Len(G_command'.message) <= MAX_MESSAGE_LENGTH
      /\ transfer' \in Transfer
  BY ReceivedType
<1> QED
  BY <1>1 DEF TypeOK

\* Handling an APDU preserves the types.
LEMMA TypeHandle ==
  ASSUME TypeOK, NEW apdu \in Apdus, HandleApdu(apdu)
  PROVE  TypeOK'
<1>1. CASE RefuseApdu(apdu)
  BY <1>1, TypeAnswered DEF RefuseApdu, Answer
<1>2. CASE AcceptChunk(apdu)
  BY <1>2, TypeAnswered DEF AcceptChunk, Answer
<1>3. CASE GetAppConfiguration(apdu)
  BY <1>3, TypeAnswered DEF GetAppConfiguration, Completes, Answer
<1>4. CASE GetPubkey(apdu)
  <2>1. Received(apdu)
    BY <1>4 DEF GetPubkey, Completes
  <2>2. /\ G_command' \in Command
        /\ Len(G_command'.message) <= MAX_MESSAGE_LENGTH
        /\ transfer' \in Transfer
    BY <2>1, ReceivedType
  <2>3. G_command'.derivation_path \in Seq(Byte)
    BY <2>2 DEF Command
  <2>4. [NoReview EXCEPT !.instruction = "GetPubkey",
                         !.path = G_command'.derivation_path] \in Review
    BY <2>3, ClearedTypes DEF Review
  <2>5. /\ G_publicKey' \in {G_publicKey, G_command'.derivation_path}
        /\ screen' \in {screen, "pubkey_review"}
        /\ requested' \in BOOLEAN
        /\ review' \in {review, [NoReview EXCEPT !.instruction = "GetPubkey",
                                                 !.path = G_command'.derivation_path]}
    BY <1>4 DEF GetPubkey, Answer, get_public_key
  <2>6. UNCHANGED <<app, G_transaction_summary, G_swap_response_ready, G_swap_validated,
                    N_storage, swap_result, swap_signatures>>
    BY <1>4 DEF GetPubkey
  <2> QED
    BY <2>2, <2>3, <2>4, <2>5, <2>6 DEF TypeOK
<1>5. CASE RefuseTransactionHeader(apdu)
  BY <1>5, TypeAnswered DEF RefuseTransactionHeader, Completes, HandlerThrows, Answer
<1>6. CASE RefuseTransactionBody(apdu)
  BY <1>6, TypeAnswered DEF RefuseTransactionBody, Completes, HandlerThrows, Answer
<1>7. CASE ReviewTransaction(apdu)
  <2>1. Completes(apdu, "SignMessage") /\ TransactionHeaderStatus(G_command') = "Success"
    BY <1>7 DEF ReviewTransaction, Summarized
  <2>2. G_command'.derivation_path \in Derivable
    BY <2>1 DEF TransactionHeaderStatus
  <2>3. Body(G_command', N_storage).processed \in BOOLEAN
    BY <2>1, <2>2, CompletedCommand, SignAssumption DEF Body, SignAssumption, TypeOK
  <2>4. /\ StartReview(G_command', Body(G_command', N_storage).processed)
        /\ UNCHANGED N_storage
    BY <1>7 DEF ReviewTransaction
  <2>5. Received(apdu) /\ G_command'.instruction \in SignInstructions
    BY <2>1, CompletedCommand DEF SignInstructions
  <2> QED
    BY <2>3, <2>4, <2>5, TypeStartReview
<1>8. CASE AnswerSwap(apdu)
  <2>1. Received(apdu)
    BY <1>8 DEF AnswerSwap, Summarized, Completes
  <2>2. /\ G_command' \in Command
        /\ Len(G_command'.message) <= MAX_MESSAGE_LENGTH
        /\ transfer' \in Transfer
    BY <2>1, ReceivedType
  <2>3. CASE G_swap_response_ready
    <3>1. ProcessEnds /\ UNCHANGED <<reply, swap_signatures, N_storage, swap_result>>
      BY <1>8, <2>3 DEF AnswerSwap
    <3> QED
      BY <2>2, <3>1, ClearedTypes DEF ProcessEnds, TypeOK
  <2>4. CASE ~G_swap_response_ready
    <3>1. /\ UNCHANGED <<G_publicKey, G_swap_validated, screen, review, N_storage, swap_result>>
          /\ G_swap_response_ready' = TRUE
          /\ requested' = FALSE
          /\ app' \in {"finalizing", app}
          /\ swap_signatures' \in {swap_signatures + 1, swap_signatures + 0}
      BY <1>8, <2>4 DEF AnswerSwap, QuitAfterSwapResponse, Answer
    <3>2. swap_signatures' \in Nat
      BY <3>1 DEF TypeOK
    <3>3. app' \in {"dashboard", "standalone", "swap", "finalizing", "frozen"}
      BY <3>1 DEF TypeOK
    <3> QED
      BY <2>2, <3>1, <3>2, <3>3 DEF TypeOK
  <2> QED
    BY <2>3, <2>4, <1>8 DEF TypeOK
<1>9. CASE RefuseOffchainMessage(apdu)
  BY <1>9, TypeAnswered DEF RefuseOffchainMessage, Completes, HandlerThrows, Answer
<1>10. CASE ReviewOffchainMessage(apdu)
  <2>1. Completes(apdu, "SignOffchainMessage")
    BY <1>10 DEF ReviewOffchainMessage
  <2>2. Received(apdu) /\ G_command'.instruction \in SignInstructions
    BY <2>1, CompletedCommand DEF SignInstructions
  <2>3. /\ StartReview(G_command', OffchainText(G_command'.message) = "ascii")
        /\ UNCHANGED N_storage
    BY <1>10 DEF ReviewOffchainMessage
  <2>4. (OffchainText(G_command'.message) = "ascii") \in BOOLEAN
    OBVIOUS
  <2> QED
    BY <2>2, <2>3, <2>4, TypeStartReview
<1> QED
  BY <1>1, <1>2, <1>3, <1>4, <1>5, <1>6, <1>7, <1>8, <1>9, <1>10 DEF HandleApdu

\* The buttons preserve the types.
LEMMA TypeDecide ==
  ASSUME TypeOK, Decide \/ ShowStep
  PROVE  TypeOK'
<1>1. \A status, data : SendResponse(status, data) /\ UNCHANGED <<N_storage, swap_signatures>>
        => TypeOK'
  BY ClearedTypes DEF SendResponse, Freeze, Answer, QuitAfterSwapResponse, TypeOK, memory
<1>2. \A status : ThrowFromCallback(status) /\ UNCHANGED <<N_storage, swap_signatures>>
        => TypeOK'
  BY DEF ThrowFromCallback, Freeze, Answer, TypeOK, memory
<1> QED
  BY <1>1, <1>2 DEF Decide, ApprovePubkey, ApproveSignature, Reject, ShowStep

\* Every step preserves the types.
LEMMA TypeStep == TypeOK /\ [Next]_vars => TypeOK'
<1> SUFFICES ASSUME TypeOK, [Next]_vars PROVE TypeOK'
  OBVIOUS
<1>1. CASE LaunchStandalone
  BY <1>1, ClearedTypes DEF LaunchStandalone, ClearedMemory, InitializedStorage, TypeOK
<1>2. CASE LaunchFromExchange
  BY <1>2, ClearedTypes DEF LaunchFromExchange, ClearedMemory, InitializedStorage, TypeOK
<1>3. CASE FinalizeExchange
  BY <1>3, ClearedTypes DEF FinalizeExchange, finalize_exchange_sign_transaction,
                            Terminated, ProcessEnds, TypeOK
<1>4. CASE Quit \/ PowerOff
  BY <1>4, ClearedTypes DEF Quit, PowerOff, Terminated, ProcessEnds, TypeOK
<1>5. CASE IoReset
  BY <1>5, ClearedTypes DEF IoReset, ClearedMemory, Terminated, ProcessEnds, TypeOK
<1>6. CASE \E apdu \in Apdus : HandleApdu(apdu)
  BY <1>6, TypeHandle
<1>7. CASE ApprovePubkey \/ ApproveSignature \/ Reject \/ ShowStep
  BY <1>7, TypeDecide DEF Decide
<1>8. CASE ChangeSettings
  BY <1>8 DEF ChangeSettings, SwitchSetting, TypeOK, memory
<1>9. CASE UNCHANGED vars
  BY <1>9 DEF vars, memory, TypeOK
<1> QED
  BY <1>1, <1>2, <1>3, <1>4, <1>5, <1>6, <1>7, <1>8, <1>9 DEF Next

\* Every variable keeps its type and no accepted chunk overflows the message
\* buffer, whatever its size: apdu.c checks the sum before it copies.
THEOREM TypeCorrect == Spec => []TypeOK
  BY TypeInit, TypeStep, PTL DEF Spec

-----------------------------------------------------------------------------
(* The command, the transfer and the review. *)

\* Receiving an APDU keeps the command and the transfer the same thing.
LEMMA ReceivedIntegrity ==
  ASSUME TypeOK, TransferIntegrity, NEW apdu \in Apdus, Received(apdu)
  PROVE  TransferIntegrity'
<1> DEFINE parsed == apdu_handle_message(G_command, apdu)
<1>1. /\ G_command' = parsed.command
      /\ transfer' = TransferAfter(apdu, parsed.status)
  BY DEF Received
<1>2. apdu \in Apdu /\ G_command \in Command /\ transfer \in Transfer
  BY DeviceAssumption DEF DeviceAssumption, TypeOK
<1>3. CASE parsed.status # "Success"
  <2>1. G_command'.state = "Uninitialized"
    BY <1>1, <1>3, RefusedCommand DEF EmptyCommand
  <2> QED
    BY <2>1 DEF TransferIntegrity, IsSignCommand
<1>4. CASE parsed.status = "Success" /\ apdu.ins \notin SignInstructions
  <2>1. G_command'.instruction = apdu.ins
    <3>1. G_command' = FilledCommand(G_command, apdu)
      BY <1>1, <1>4 DEF apdu_handle_message
    <3>2. OpenedCommand(G_command, apdu) \in Command
      BY <1>2, EmptyCommandType, FirstChunkType DEF OpenedCommand, Command
    <3> QED
      BY <3>1, <3>2, EmptyCommandType DEF FilledCommand, Command
  <2> QED
    BY <1>4, <2>1 DEF TransferIntegrity, IsSignCommand
<1>5. CASE parsed.status = "Success" /\ apdu.ins \in SignInstructions
  <2>1. /\ G_command'.instruction = apdu.ins
        /\ G_command'.non_confirm = NonConfirm(apdu)
        /\ G_command'.state = IF ExpectsMore(apdu) THEN "PayloadInProgress"
                                                   ELSE "PayloadComplete"
        /\ IF IsFirstChunk(apdu)
           THEN /\ G_command'.derivation_path = FirstChunk(apdu).path
                /\ G_command'.message = FirstChunk(apdu).rest
           ELSE /\ ContinuesCommand(G_command, apdu)
                /\ G_command'.derivation_path = G_command.derivation_path
                /\ G_command'.message = G_command.message \o apdu.data
    BY <1>1, <1>2, <1>5, AcceptedChunk
  <2>2. (G_command'.state = "PayloadInProgress") = ExpectsMore(apdu)
    BY <2>1 DEF ExpectsMore
  <2>3. CASE IsFirstChunk(apdu)
    <3>1. transfer' = [instruction |-> apdu.ins, non_confirm |-> NonConfirm(apdu),
                       path |-> FirstChunk(apdu).path, message |-> FirstChunk(apdu).rest,
                       open |-> ExpectsMore(apdu)]
      BY <1>1, <1>5, <2>3 DEF TransferAfter
    <3> QED
      BY <2>1, <2>2, <2>3, <3>1 DEF TransferIntegrity
  <2>4. CASE ~IsFirstChunk(apdu)
    <3>1. /\ G_command.state = "PayloadInProgress"
          /\ G_command.instruction = apdu.ins
          /\ G_command.non_confirm = NonConfirm(apdu)
      BY <2>1, <2>4 DEF ContinuesCommand
    <3>2. transfer = [instruction |-> apdu.ins, non_confirm |-> NonConfirm(apdu),
                      path |-> G_command.derivation_path, message |-> G_command.message,
                      open |-> TRUE]
      BY <1>5, <3>1 DEF TransferIntegrity, IsSignCommand
    <3>3. transfer' = [transfer EXCEPT !.message = @ \o apdu.data,
                                       !.open = ExpectsMore(apdu)]
      BY <1>1, <1>5, <2>4, <3>2 DEF TransferAfter
    <3>4. transfer' = [instruction |-> apdu.ins, non_confirm |-> NonConfirm(apdu),
                       path |-> G_command.derivation_path,
                       message |-> G_command.message \o apdu.data,
                       open |-> ExpectsMore(apdu)]
      BY <3>2, <3>3
    <3> QED
      BY <2>1, <2>2, <2>4, <3>4 DEF TransferIntegrity
  <2> QED
    BY <2>3, <2>4
<1> QED
  BY <1>3, <1>4, <1>5

\* Every handler starts by receiving its APDU.
LEMMA HandleReceives ==
  ASSUME NEW apdu, HandleApdu(apdu)
  PROVE  Received(apdu)
  BY DEF HandleApdu, RefuseApdu, AcceptChunk, GetAppConfiguration, GetPubkey,
         RefuseTransactionHeader, RefuseTransactionBody, ReviewTransaction, Summarized,
         AnswerSwap, RefuseOffchainMessage, ReviewOffchainMessage, Completes

\* Every step keeps the integrity of the transfer.
LEMMA IntegrityStep == TypeOK /\ TransferIntegrity /\ [Next]_vars => TransferIntegrity'
<1> SUFFICES ASSUME TypeOK, TransferIntegrity, [Next]_vars PROVE TransferIntegrity'
  OBVIOUS
<1>1. G_command' = EmptyCommand => TransferIntegrity'
  BY DEF TransferIntegrity, IsSignCommand, EmptyCommand
<1>2. UNCHANGED <<G_command, transfer>> => TransferIntegrity'
  BY DEF TransferIntegrity, IsSignCommand
<1>3. CASE LaunchStandalone \/ LaunchFromExchange \/ IoReset
  BY <1>1, <1>3 DEF LaunchStandalone, LaunchFromExchange, IoReset, ClearedMemory, Terminated
<1>4. CASE FinalizeExchange \/ Quit \/ PowerOff
  BY <1>1, <1>4 DEF FinalizeExchange, Quit, PowerOff, Terminated
<1>5. CASE \E apdu \in Apdus : HandleApdu(apdu)
  BY <1>5, HandleReceives, ReceivedIntegrity
<1>6. CASE ApprovePubkey \/ ApproveSignature \/ Reject \/ ShowStep
  BY <1>2, <1>6 DEF ApprovePubkey, ApproveSignature, Reject, ShowStep, SendResponse,
                    ThrowFromCallback, Freeze, memory
<1>7. CASE ChangeSettings \/ UNCHANGED vars
  BY <1>2, <1>7 DEF ChangeSettings, SwitchSetting, vars, memory
<1> QED
  BY <1>3, <1>4, <1>5, <1>6, <1>7 DEF Next

\* What is assembled for signing is what the host transferred, for any number of
\* chunks of any size, whatever else is sent in between.
THEOREM TransfersKeepIntegrity == Spec => []TransferIntegrity
<1>1. Init => TransferIntegrity
  BY DEF Init, TransferIntegrity, IsSignCommand, EmptyCommand
<1> QED
  BY <1>1, TypeCorrect, IntegrityStep, PTL DEF Spec

\* Opening a review makes it one of the command just completed.
LEMMA ReviewHandle ==
  ASSUME TypeOK, NEW apdu \in Apdus, HandleApdu(apdu)
  PROVE  ReviewIsOfCommand'
<1>1. requested' = FALSE => ReviewIsOfCommand'
  BY DEF ReviewIsOfCommand
<1>2. CASE RefuseApdu(apdu) \/ AcceptChunk(apdu) \/ GetAppConfiguration(apdu)
  BY <1>1, <1>2 DEF RefuseApdu, AcceptChunk, GetAppConfiguration, Answer
<1>3. CASE RefuseTransactionHeader(apdu) \/ RefuseTransactionBody(apdu)
           \/ RefuseOffchainMessage(apdu)
  BY <1>1, <1>3 DEF RefuseTransactionHeader, RefuseTransactionBody,
                    RefuseOffchainMessage, HandlerThrows, Answer
<1>4. CASE AnswerSwap(apdu)
  BY <1>1, <1>4 DEF AnswerSwap, ProcessEnds, Answer
<1>5. CASE GetPubkey(apdu)
  <2>1. Completes(apdu, "GetPubkey")
    BY <1>5 DEF GetPubkey
  <2>2. /\ G_command'.state = "PayloadComplete"
        /\ G_command'.instruction = "GetPubkey"
        /\ Running
    BY <2>1, CompletedCommand DEF Received
  <2>3. app' = app
    BY <1>5 DEF GetPubkey
  <2>4. \/ requested' = FALSE
        \/ /\ ~G_command'.non_confirm
           /\ G_publicKey' = G_command'.derivation_path
           /\ screen' = "pubkey_review"
           /\ review' = [NoReview EXCEPT !.instruction = "GetPubkey",
                                         !.path = G_command'.derivation_path]
    BY <1>5 DEF GetPubkey, Answer, get_public_key
  <2> QED
    BY <1>1, <2>2, <2>3, <2>4 DEF ReviewIsOfCommand, NoReview, Running
<1>6. CASE ReviewTransaction(apdu)
  <2>1. Completes(apdu, "SignMessage") /\ TransactionHeaderStatus(G_command') = "Success"
    BY <1>6 DEF ReviewTransaction, Summarized
  <2>2. /\ G_command'.derivation_path \in MessageHeader(G_command'.message).signers
        /\ ~G_command'.non_confirm
    BY <2>1 DEF TransactionHeaderStatus
  <2>3. /\ G_command'.state = "PayloadComplete"
        /\ G_command'.instruction = "SignMessage"
        /\ Running
    BY <2>1, CompletedCommand DEF Received
  <2>4. \E clear : StartReview(G_command', clear)
    BY <1>6 DEF ReviewTransaction
  <2> QED
    BY <2>2, <2>3, <2>4 DEF StartReview, ReviewIsOfCommand, Running, SignInstructions
<1>7. CASE ReviewOffchainMessage(apdu)
  <2>1. Completes(apdu, "SignOffchainMessage") /\ OffchainStatus(G_command', N_storage) = "Success"
    BY <1>7 DEF ReviewOffchainMessage
  <2>2. ~G_command'.non_confirm
    BY <2>1 DEF OffchainStatus
  <2>3. /\ G_command'.state = "PayloadComplete"
        /\ G_command'.instruction = "SignOffchainMessage"
        /\ Running
    BY <2>1, CompletedCommand DEF Received
  <2>4. \E clear : StartReview(G_command', clear)
    BY <1>7 DEF ReviewOffchainMessage
  <2> QED
    BY <2>2, <2>3, <2>4 DEF StartReview, ReviewIsOfCommand, Running, SignInstructions
<1> QED
  BY <1>2, <1>3, <1>4, <1>5, <1>6, <1>7 DEF HandleApdu

\* Every step keeps the command of the pending review.
LEMMA ReviewStep == TypeOK /\ ReviewIsOfCommand /\ [Next]_vars => ReviewIsOfCommand'
<1> SUFFICES ASSUME TypeOK, ReviewIsOfCommand, [Next]_vars PROVE ReviewIsOfCommand'
  OBVIOUS
<1>1. requested' = FALSE => ReviewIsOfCommand'
  BY DEF ReviewIsOfCommand
<1>2. ~requested => requested = FALSE
  BY DEF TypeOK
<1>3. CASE LaunchStandalone \/ LaunchFromExchange
  BY <1>1, <1>2, <1>3 DEF LaunchStandalone, LaunchFromExchange, ReviewIsOfCommand, Running
<1>4. CASE FinalizeExchange \/ Quit \/ PowerOff \/ IoReset
  BY <1>1, <1>4 DEF FinalizeExchange, Quit, PowerOff, IoReset, Terminated, ProcessEnds
<1>5. CASE \E apdu \in Apdus : HandleApdu(apdu)
  BY <1>5, ReviewHandle
<1>6. CASE ApprovePubkey \/ ApproveSignature \/ Reject \/ ShowStep
  BY <1>1, <1>2, <1>6 DEF ApprovePubkey, ApproveSignature, Reject, ShowStep, SendResponse,
                          ThrowFromCallback, Freeze, Answer
<1>7. CASE ChangeSettings \/ UNCHANGED vars
  BY <1>7 DEF ChangeSettings, SwitchSetting, vars, memory, ReviewIsOfCommand, Running
<1> QED
  BY <1>3, <1>4, <1>5, <1>6, <1>7 DEF Next

\* The pending review is always of the command a button will act on, though the
\* review flow and the signature read it at different times.
THEOREM ReviewsAreOfTheCommand == Spec => []ReviewIsOfCommand
<1>1. Init => ReviewIsOfCommand
  BY DEF Init, ReviewIsOfCommand
<1> QED
  BY <1>1, TypeCorrect, ReviewStep, PTL DEF Spec

-----------------------------------------------------------------------------
(* Signatures. *)

\* A signature from a button is of the review on display.
LEMMA ButtonSignature ==
  ASSUME TypeOK, TransferIntegrity, ReviewIsOfCommand, ApproveSignature
  PROVE  SignatureAuthorized
<1> SUFFICES ASSUME IsSignature(reply'.data), reply' # reply
             PROVE  SignatureAuthorized
  BY DEF SignatureAuthorized
<1>1. CASE ~requested
  BY <1>1 DEF ApproveSignature, SendResponse, ThrowFromCallback, Freeze
<1>2. CASE requested /\ G_command.derivation_path \in Derivable
  <2>1. /\ reply'.data = Signature(G_command)
        /\ UNCHANGED <<G_command, transfer>>
        /\ screen = "sign_review"
    BY <1>2 DEF ApproveSignature, SendResponse, Answer, memory
  <2>2. /\ G_command.state = "PayloadComplete"
        /\ ~G_command.non_confirm
        /\ review.instruction = G_command.instruction
        /\ review.path = G_command.derivation_path
        /\ G_command.instruction # "GetPubkey"
        /\ review.message = G_command.message
        /\ G_command.instruction = "SignMessage" =>
             G_command.derivation_path \in MessageHeader(G_command.message).signers
    BY <1>2, <2>1 DEF ReviewIsOfCommand
  <2>3. G_command.instruction \in SignInstructions
    BY <1>2, <2>2 DEF ReviewIsOfCommand
  <2>4. transfer = [instruction |-> G_command.instruction,
                    non_confirm |-> G_command.non_confirm,
                    path |-> G_command.derivation_path,
                    message |-> G_command.message,
                    open |-> FALSE]
    BY <2>2, <2>3 DEF TransferIntegrity, IsSignCommand
  <2> QED
    BY <1>2, <2>1, <2>2, <2>4 DEF SignatureAuthorized, Signature
<1>3. CASE requested /\ G_command.derivation_path \notin Derivable
  BY <1>3 DEF ApproveSignature, ThrowFromCallback, Answer, IsSignature, NoData
<1> QED
  BY <1>1, <1>2, <1>3

\* A signature without a review is the answer of a swap.
LEMMA SwapSignature ==
  ASSUME TypeOK, TransferIntegrity, NEW apdu \in Apdus, AnswerSwap(apdu)
  PROVE  SignatureAuthorized
<1> SUFFICES ASSUME IsSignature(reply'.data), reply' # reply
             PROVE  SignatureAuthorized
  BY DEF SignatureAuthorized
<1>1. /\ Completes(apdu, "SignMessage")
      /\ TransactionHeaderStatus(G_command') = "Success"
      /\ app = "swap"
  BY DEF AnswerSwap, Summarized
<1>2. /\ G_command'.state = "PayloadComplete"
      /\ G_command'.instruction = "SignMessage"
      /\ Received(apdu)
  BY <1>1, CompletedCommand
<1>3. /\ G_command'.derivation_path \in MessageHeader(G_command'.message).signers
      /\ ~G_command'.non_confirm
  BY <1>1 DEF TransactionHeaderStatus
<1>4. transfer' = [instruction |-> G_command'.instruction,
                   non_confirm |-> G_command'.non_confirm,
                   path |-> G_command'.derivation_path,
                   message |-> G_command'.message,
                   open |-> FALSE]
  BY <1>2, ReceivedIntegrity DEF TransferIntegrity, IsSignCommand, SignInstructions
<1>5. /\ reply'.data = Signature(G_command')
      /\ swap_signatures' = swap_signatures + 1
  BY DEF AnswerSwap, Answer, IsSignature, NoData
<1> QED
  BY <1>1, <1>2, <1>3, <1>4, <1>5 DEF SignatureAuthorized, Signature

\* From those invariants, a step that signs is one that was authorized.
LEMMA SignatureStep ==
  TypeOK /\ TransferIntegrity /\ ReviewIsOfCommand /\ [Next]_vars
    => [SignatureAuthorized]_vars
<1> SUFFICES ASSUME TypeOK, TransferIntegrity, ReviewIsOfCommand, Next
             PROVE  SignatureAuthorized
  BY DEF SignatureAuthorized, vars
<1>1. UNCHANGED reply => SignatureAuthorized
  BY DEF SignatureAuthorized
<1>2. ~IsSignature(reply'.data) => SignatureAuthorized
  BY DEF SignatureAuthorized
<1>3. CASE LaunchStandalone \/ LaunchFromExchange
  BY <1>2, <1>3 DEF LaunchStandalone, LaunchFromExchange, NoReply, NoData, IsSignature
<1>4. CASE FinalizeExchange \/ Quit \/ PowerOff \/ IoReset
  BY <1>1, <1>4 DEF FinalizeExchange, Quit, PowerOff, IoReset
<1>5. ASSUME NEW apdu \in Apdus, HandleApdu(apdu) PROVE SignatureAuthorized
  <2>1. CASE AnswerSwap(apdu)
    BY <2>1, SwapSignature
  <2>2. CASE RefuseApdu(apdu) \/ AcceptChunk(apdu) \/ GetAppConfiguration(apdu)
    BY <1>2, <2>2 DEF RefuseApdu, AcceptChunk, GetAppConfiguration, Answer, NoData,
                      IsSignature
  <2>3. CASE RefuseTransactionHeader(apdu) \/ RefuseTransactionBody(apdu)
             \/ RefuseOffchainMessage(apdu)
    BY <1>2, <2>3 DEF RefuseTransactionHeader, RefuseTransactionBody,
                      RefuseOffchainMessage, HandlerThrows, Answer, NoData, IsSignature
  <2>4. CASE GetPubkey(apdu)
    BY <1>2, <2>4 DEF GetPubkey, Answer, NoData, NoReply, PublicKey, IsSignature
  <2>5. CASE ReviewTransaction(apdu) \/ ReviewOffchainMessage(apdu)
    BY <1>2, <2>5 DEF ReviewTransaction, ReviewOffchainMessage, StartReview, NoReply,
                      NoData, IsSignature
  <2> QED
    BY <1>5, <2>1, <2>2, <2>3, <2>4, <2>5 DEF HandleApdu
<1>6. CASE ApproveSignature
  BY <1>6, ButtonSignature
<1>7. CASE ApprovePubkey \/ Reject
  BY <1>1, <1>2, <1>7 DEF ApprovePubkey, Reject, SendResponse, Freeze, Answer, NoData,
                          PublicKey, IsSignature
<1>8. CASE ChangeSettings
  BY <1>1, <1>8 DEF ChangeSettings, SwitchSetting
<1>9. CASE ShowStep
  BY <1>1, <1>2, <1>9 DEF ShowStep, ThrowFromCallback, Freeze, Answer, NoData, IsSignature
<1> QED
  BY <1>3, <1>4, <1>5, <1>6, <1>7, <1>8, <1>9 DEF Next

\* Every signature that leaves the device is of a complete transfer, by a signer
\* of it, and follows an approval on the screen or honours a swap.
THEOREM SignaturesAreAuthorized == Spec => SignatureIsAuthorized
  BY TypeCorrect, TransfersKeepIntegrity, ReviewsAreOfTheCommand, SignatureStep, PTL
     DEF Spec, SignatureIsAuthorized

-----------------------------------------------------------------------------
(* What the user is shown, and the limits of a swap. *)

LEMMA SummaryStep ==
  TypeOK /\ ReviewIsOfCommand /\ SummaryIsOfCommand /\ [Next]_vars => SummaryIsOfCommand'
<1> SUFFICES ASSUME TypeOK, ReviewIsOfCommand, SummaryIsOfCommand, [Next]_vars
             PROVE  SummaryIsOfCommand'
  OBVIOUS
<1>1. requested' = FALSE => SummaryIsOfCommand'
  BY DEF SummaryIsOfCommand
<1>2. ~requested => requested = FALSE
  BY DEF TypeOK
<1>3. CASE LaunchStandalone \/ LaunchFromExchange
  BY <1>1, <1>2, <1>3 DEF LaunchStandalone, LaunchFromExchange, ReviewIsOfCommand, Running
<1>4. CASE FinalizeExchange \/ Quit \/ PowerOff \/ IoReset
  BY <1>1, <1>4 DEF FinalizeExchange, Quit, PowerOff, IoReset, Terminated, ProcessEnds
<1>5. ASSUME NEW apdu \in Apdus, HandleApdu(apdu) PROVE SummaryIsOfCommand'
  <2>1. CASE RefuseApdu(apdu) \/ AcceptChunk(apdu) \/ GetAppConfiguration(apdu)
    BY <1>1, <2>1 DEF RefuseApdu, AcceptChunk, GetAppConfiguration, Answer
  <2>2. CASE RefuseTransactionHeader(apdu) \/ RefuseTransactionBody(apdu)
             \/ RefuseOffchainMessage(apdu)
    BY <1>1, <2>2 DEF RefuseTransactionHeader, RefuseTransactionBody,
                      RefuseOffchainMessage, HandlerThrows, Answer
  <2>3. CASE AnswerSwap(apdu)
    BY <1>1, <2>3 DEF AnswerSwap, ProcessEnds, Answer
  <2>4. CASE GetPubkey(apdu)
    <3>1. G_command'.instruction = "GetPubkey"
      BY <2>4, CompletedCommand DEF GetPubkey
    <3> QED
      BY <3>1 DEF SummaryIsOfCommand
  <2>5. CASE ReviewTransaction(apdu)
    <3>1. G_command'.instruction = "SignMessage"
      BY <2>5, CompletedCommand DEF ReviewTransaction, Summarized
    <3>2. /\ G_transaction_summary' = TransactionSummary(G_command', N_storage)
          /\ N_storage' = N_storage
      BY <2>5 DEF ReviewTransaction
    <3>3. G_transaction_summary' = TransactionSummary(G_command', N_storage')
      BY <3>2
    <3> QED
      BY <3>1, <3>3 DEF SummaryIsOfCommand
  <2>6. CASE ReviewOffchainMessage(apdu)
    <3>1. G_command'.instruction = "SignOffchainMessage"
      BY <2>6, CompletedCommand DEF ReviewOffchainMessage
    <3>2. /\ G_transaction_summary' = OffchainSummary(G_command', N_storage)
          /\ N_storage' = N_storage
      BY <2>6 DEF ReviewOffchainMessage
    <3>3. G_transaction_summary' = OffchainSummary(G_command', N_storage')
      BY <3>2
    <3> QED
      BY <3>1, <3>3 DEF SummaryIsOfCommand
  <2> QED
    BY <1>5, <2>1, <2>2, <2>3, <2>4, <2>5, <2>6 DEF HandleApdu
<1>6. CASE ApprovePubkey \/ ApproveSignature \/ Reject \/ ShowStep
  BY <1>1, <1>2, <1>6 DEF ApprovePubkey, ApproveSignature, Reject, ShowStep, SendResponse,
                          ThrowFromCallback, Freeze, Answer
<1>7. CASE ChangeSettings
  <2>1. screen = "idle" /\ UNCHANGED requested
    BY <1>7 DEF ChangeSettings, SwitchSetting
  <2>2. ~requested
    BY <2>1 DEF ReviewIsOfCommand
  <2> QED
    BY <1>1, <1>2, <2>1, <2>2
<1>8. CASE UNCHANGED vars
  BY <1>8 DEF vars, memory, SummaryIsOfCommand
<1> QED
  BY <1>3, <1>4, <1>5, <1>6, <1>7, <1>8 DEF Next

\* The steps of a pending review are those of the command under the settings in
\* force, for every parser: the settings menu is out of reach of a review.
THEOREM SummariesAreOfTheCommand == Spec => []SummaryIsOfCommand
<1>1. Init => SummaryIsOfCommand
  BY DEF Init, SummaryIsOfCommand
<1> QED
  BY <1>1, TypeCorrect, ReviewsAreOfTheCommand, SummaryStep, PTL DEF Spec

\* Every step keeps a pending blind review under the setting for it.
LEMMA BlindStep ==
  TypeOK /\ ReviewIsOfCommand /\ BlindSigningIsEnabled /\ [Next]_vars
    => BlindSigningIsEnabled'
<1> SUFFICES ASSUME TypeOK, ReviewIsOfCommand, BlindSigningIsEnabled, [Next]_vars
             PROVE  BlindSigningIsEnabled'
  OBVIOUS
<1>1. requested' = FALSE => BlindSigningIsEnabled'
  BY DEF BlindSigningIsEnabled
<1>2. ~requested => requested = FALSE
  BY DEF TypeOK
<1>3. CASE LaunchStandalone \/ LaunchFromExchange
  BY <1>1, <1>2, <1>3 DEF LaunchStandalone, LaunchFromExchange, ReviewIsOfCommand, Running
<1>4. CASE FinalizeExchange \/ Quit \/ PowerOff \/ IoReset
  BY <1>1, <1>4 DEF FinalizeExchange, Quit, PowerOff, IoReset, Terminated, ProcessEnds
<1>5. ASSUME NEW apdu \in Apdus, HandleApdu(apdu) PROVE BlindSigningIsEnabled'
  <2>1. CASE RefuseApdu(apdu) \/ AcceptChunk(apdu) \/ GetAppConfiguration(apdu)
    BY <1>1, <2>1 DEF RefuseApdu, AcceptChunk, GetAppConfiguration, Answer
  <2>2. CASE RefuseTransactionHeader(apdu) \/ RefuseTransactionBody(apdu)
             \/ RefuseOffchainMessage(apdu)
    BY <1>1, <2>2 DEF RefuseTransactionHeader, RefuseTransactionBody,
                      RefuseOffchainMessage, HandlerThrows, Answer
  <2>3. CASE AnswerSwap(apdu)
    BY <1>1, <2>3 DEF AnswerSwap, ProcessEnds, Answer
  <2>4. CASE GetPubkey(apdu)
    <3>1. requested' = FALSE \/ review'.clear = TRUE
      BY <2>4 DEF GetPubkey, Answer, NoReview
    <3> QED
      BY <1>1, <3>1 DEF BlindSigningIsEnabled
  <2>5. CASE ReviewTransaction(apdu)
    <3>1. /\ TransactionBodyStatus(G_command', N_storage) = "Success"
          /\ app = "standalone" /\ app' = app
          /\ N_storage' = N_storage
          /\ review'.clear = Body(G_command', N_storage).processed
      BY <2>5 DEF ReviewTransaction, Summarized, StartReview
    <3>2. Body(G_command', N_storage).processed \/ N_storage.allow_blind_sign
      BY <3>1 DEF TransactionBodyStatus
    <3> QED
      BY <3>1, <3>2 DEF BlindSigningIsEnabled
  <2>6. CASE ReviewOffchainMessage(apdu)
    <3>1. /\ OffchainStatus(G_command', N_storage) = "Success"
          /\ N_storage' = N_storage
          /\ review'.clear = (OffchainText(G_command'.message) = "ascii")
          /\ review'.instruction = G_command'.instruction
      BY <2>6 DEF ReviewOffchainMessage, StartReview
    <3>2. OffchainText(G_command'.message) = "ascii" \/ N_storage.allow_blind_sign
      BY <3>1 DEF OffchainStatus
    <3>3. G_command'.instruction = "SignOffchainMessage"
      BY <2>6, CompletedCommand DEF ReviewOffchainMessage
    <3> QED
      BY <3>1, <3>2, <3>3 DEF BlindSigningIsEnabled
  <2> QED
    BY <1>5, <2>1, <2>2, <2>3, <2>4, <2>5, <2>6 DEF HandleApdu
<1>6. CASE ApprovePubkey \/ ApproveSignature \/ Reject \/ ShowStep
  BY <1>1, <1>2, <1>6 DEF ApprovePubkey, ApproveSignature, Reject, ShowStep, SendResponse,
                          ThrowFromCallback, Freeze, Answer
<1>7. CASE ChangeSettings
  <2>1. screen = "idle" /\ UNCHANGED requested
    BY <1>7 DEF ChangeSettings, SwitchSetting
  <2> QED
    BY <1>1, <1>2, <2>1 DEF ReviewIsOfCommand
<1>8. CASE UNCHANGED vars
  BY <1>8 DEF vars, memory, BlindSigningIsEnabled
<1> QED
  BY <1>3, <1>4, <1>5, <1>6, <1>7, <1>8 DEF Next

\* Whatever the parsers recognise, what they do not is reviewed only while blind
\* signing is enabled, and no such transaction in a swap.
THEOREM BlindSigningNeedsTheSetting == Spec => []BlindSigningIsEnabled
<1>1. Init => BlindSigningIsEnabled
  BY DEF Init, BlindSigningIsEnabled
<1> QED
  BY <1>1, TypeCorrect, ReviewsAreOfTheCommand, BlindStep, PTL DEF Spec

\* Why a launch from Exchange signs once: no transaction has been signed before the
\* way out, and only a signature is a success there.
SwapInv ==
  /\ app = "swap" => swap_signatures = 0
  /\ app = "finalizing" /\ reply.status = "Success" => swap_signatures = 1
  /\ SwapSignsOnce

\* Every step keeps the limits of a swap.
LEMMA SwapStep == TypeOK /\ SwapInv /\ [Next]_vars => SwapInv'
<1> SUFFICES ASSUME TypeOK, SwapInv, [Next]_vars PROVE SwapInv'
  OBVIOUS
<1>1. CASE /\ UNCHANGED <<G_swap_response_ready, swap_signatures, swap_result>>
           /\ app' = app \/ app' = "frozen"
           /\ app \in {"standalone", "swap"}
  BY <1>1 DEF SwapInv, SwapSignsOnce
<1>2. CASE LaunchStandalone \/ LaunchFromExchange
  BY <1>2 DEF LaunchStandalone, LaunchFromExchange, SwapInv, SwapSignsOnce
<1>3. CASE FinalizeExchange
  BY <1>3 DEF FinalizeExchange, finalize_exchange_sign_transaction, Terminated,
              ProcessEnds, SwapInv, SwapSignsOnce
<1>4. CASE Quit \/ PowerOff
  BY <1>4 DEF Quit, PowerOff, Terminated, ProcessEnds, SwapInv, SwapSignsOnce
<1>5. CASE IoReset
  BY <1>5 DEF IoReset, Terminated, ProcessEnds, SwapInv, SwapSignsOnce, Running
<1>6. ASSUME NEW apdu \in Apdus, HandleApdu(apdu) PROVE SwapInv'
  <2>1. Running /\ ~G_swap_response_ready
    BY <1>6, HandleReceives DEF Received, SwapInv, SwapSignsOnce, Running
  <2>2. CASE AnswerSwap(apdu)
    <3>1. /\ G_swap_response_ready' = TRUE
          /\ app' = "finalizing"
          /\ swap_result' = swap_result
          /\ app = "swap"
          /\ \/ swap_signatures' = swap_signatures + 1
             \/ /\ swap_signatures' = swap_signatures + 0
                /\ reply'.status = "SummaryFinalizeFailed"
      BY <2>1, <2>2 DEF AnswerSwap, QuitAfterSwapResponse, Answer
    <3> QED
      BY <3>1 DEF SwapInv, SwapSignsOnce
  <2>3. CASE ~AnswerSwap(apdu)
    <3>1. UNCHANGED <<app, G_swap_response_ready, swap_signatures, swap_result>>
      BY <1>6, <2>3
         DEF HandleApdu, RefuseApdu, AcceptChunk, GetAppConfiguration, GetPubkey,
             RefuseTransactionHeader, RefuseTransactionBody, ReviewTransaction,
             RefuseOffchainMessage, ReviewOffchainMessage, HandlerThrows, StartReview
    <3> QED
      BY <1>1, <2>1, <3>1 DEF Running
  <2> QED
    BY <2>2, <2>3
<1>7. CASE ApprovePubkey \/ ApproveSignature \/ Reject \/ ShowStep
  <2>1. Running /\ ~G_swap_response_ready
    BY <1>7 DEF ApprovePubkey, ApproveSignature, Reject, ShowStep, SwapInv, SwapSignsOnce,
                 Running
  <2>2. /\ UNCHANGED <<G_swap_response_ready, swap_signatures, swap_result>>
        /\ app' = app \/ app' = "frozen"
    BY <1>7, <2>1 DEF ApprovePubkey, ApproveSignature, Reject, ShowStep, SendResponse,
                      ThrowFromCallback, Freeze, QuitAfterSwapResponse, memory
  <2> QED
    BY <1>1, <2>1, <2>2 DEF Running
<1>8. CASE ChangeSettings
  BY <1>1, <1>8 DEF ChangeSettings, SwitchSetting, Running, memory
<1>9. CASE UNCHANGED vars
  BY <1>9 DEF vars, memory, SwapInv, SwapSignsOnce
<1> QED
  BY <1>2, <1>3, <1>4, <1>5, <1>6, <1>7, <1>8, <1>9 DEF Next

\* So a swap signs within its limits in every state.
LEMMA SwapInvariant == Spec => []SwapInv
<1>1. Init => SwapInv
  BY DEF Init, SwapInv, SwapSignsOnce
<1> QED
  BY <1>1, TypeCorrect, SwapStep, PTL DEF Spec

\* One launch from Exchange signs at most one transaction, and reports success
\* only after it, however the device is unplugged, switched off or interrupted; the
\* guard against a second signature is never reached.
THEOREM SwapsSignOnce == Spec => []SwapSignsOnce
<1>1. SwapInv => SwapSignsOnce
  BY DEF SwapInv
<1> QED
  BY <1>1, SwapInvariant, PTL

-----------------------------------------------------------------------------
(* What check_swap_validity lets pass. *)

\* A record of its three fields.
IsItem(one) == one = Item(one.kind, one.title, one.value)

\* Items that are places with elements of S are a sequence over S.
LEMMA ItemsAreASequence ==
  ASSUME NEW items, AreItems(items), NEW S, \A i \in 1..Len(items) : items[i] \in S
  PROVE  items \in Seq(S)
<1>1. Len(items) \in Nat
  BY DEF AreItems
<1>2. items = [i \in 1..Len(items) |-> items[i]]
  BY DEF AreItems
<1>3. items \in [1..Len(items) -> S]
  BY <1>2
<1> QED
  BY <1>1, <1>3

\* Item makes an item.
LEMMA ItemIsItem == \A kind, title, value : IsItem(Item(kind, title, value))
  BY DEF Item, IsItem

\* An item of AreItems is a record of its fields.
LEMMA ItemIsARecord ==
  ASSUME NEW items, AreItems(items), NEW i \in 1..Len(items)
  PROVE  IsItem(items[i])
  BY DEF AreItems, IsItem

\* Two steps that check_swap_validity accepts are the amount and the recipient
\* of the offer, however they are ordered.
AreTheOffer(steps, offer) ==
  /\ Len(steps) = 2
  /\ {steps[1], steps[2]} = {Item("Amount", "Transfer", offer.amount),
                             Item("Pubkey", "Recipient", offer.recipient)}

\* Steps that check_swap_validity accepts are the amount and the recipient of the offer.
LEMMA ValidSteps ==
  ASSUME NEW S, NEW steps \in Seq(S), NEW offer, check_swap_validity(steps, offer),
         \A i \in 1..Len(steps) : IsItem(steps[i])
  PROVE  AreTheOffer(steps, offer)
<1>1. Len(steps) = 2 /\ DOMAIN steps = 1..2
  BY LenProperties DEF check_swap_validity
<1>2. {steps[i].kind : i \in 1..2} = {"Amount", "Pubkey"}
  BY <1>1 DEF check_swap_validity
<1>3. /\ SwapItemMatches(steps[1], offer)
      /\ SwapItemMatches(steps[2], offer)
  BY <1>1 DEF check_swap_validity
<1>4. \A i \in 1..2 :
        \/ steps[i].kind = "Amount" /\ steps[i] = Item("Amount", "Transfer", offer.amount)
        \/ steps[i].kind = "Pubkey" /\ steps[i] = Item("Pubkey", "Recipient", offer.recipient)
  BY <1>1, <1>3 DEF SwapItemMatches, IsItem
<1>5. \/ steps[1].kind = "Amount" /\ steps[2].kind = "Pubkey"
      \/ steps[1].kind = "Pubkey" /\ steps[2].kind = "Amount"
  <2>1. \E i \in 1..2 : steps[i].kind = "Amount"
    BY <1>2
  <2>2. \E i \in 1..2 : steps[i].kind = "Pubkey"
    BY <1>2
  <2> QED
    BY <2>1, <2>2, <1>4
<1> QED
  BY <1>1, <1>4, <1>5 DEF AreTheOffer

\* A summary whose parts are sequences of S.
PartsIn(summary, S) ==
  /\ summary.primary \in Seq(S)
  /\ summary.general \in Seq(S)
  /\ summary.nonce \in Seq(S)
  /\ summary.fee_payer \in Seq(S)

\* The steps before the fee payer.
BeforePayer(summary) == summary.primary \o summary.general \o summary.nonce

\* What the handler adds for a message that is not recognised, and for a fee payer.
IsBlind(summary) == summary.primary = <<Item("String", "Unrecognized", <<>>)>>
NamesPayer(summary) ==
  \E payer : summary.fee_payer = <<Item("Pubkey", "Fee payer", payer)>>

\* Where the first and the last step of a summary come from.
LEMMA StepsOfParts ==
  ASSUME NEW S, NEW summary, PartsIn(summary, S)
  PROVE  /\ Steps(summary) \in Seq(S)
         /\ summary.fee_payer = <<>> => Steps(summary) = BeforePayer(summary)
         /\ Len(summary.fee_payer) = 1 /\ Len(Steps(summary)) = 2 =>
              Steps(summary)[2] = summary.fee_payer[1]
         /\ Len(summary.primary) = 1 => Steps(summary)[1] = summary.primary[1]
<1> DEFINE primary == summary.primary
           general == summary.general
           nonce == summary.nonce
           fee_payer == summary.fee_payer
           first == primary \o general
           others == first \o nonce
           steps == others \o fee_payer
<1>1. primary \in Seq(S) /\ general \in Seq(S) /\ nonce \in Seq(S) /\ fee_payer \in Seq(S)
  BY DEF PartsIn
<1>2. Steps(summary) = steps /\ BeforePayer(summary) = others
  BY DEF Steps, BeforePayer
<1> HIDE DEF primary, general, nonce, fee_payer
<1>3. /\ first \in Seq(S) /\ Len(first) = Len(primary) + Len(general)
      /\ Len(primary) = 1 => first[1] = primary[1]
  BY <1>1, ConcatProperties, LenProperties
<1>4. /\ Len(primary) \in Nat /\ Len(general) \in Nat /\ Len(nonce) \in Nat
      /\ Len(fee_payer) \in Nat
  BY <1>1, LenProperties
<1> HIDE DEF first
<1>5. /\ others \in Seq(S) /\ Len(others) = Len(first) + Len(nonce)
      /\ Len(primary) = 1 => others[1] = primary[1]
  <2>1. /\ others \in Seq(S) /\ Len(others) = Len(first) + Len(nonce)
        /\ \A i \in 1..(Len(first) + Len(nonce)) :
             others[i] = IF i <= Len(first) THEN first[i] ELSE nonce[i - Len(first)]
    <3>1. first \in Seq(S) /\ nonce \in Seq(S)
      BY <1>1, <1>3
    <3> QED
      BY <3>1, ConcatProperties
  <2>2. Len(primary) = 1 => 1 \in 1..(Len(first) + Len(nonce)) /\ 1 <= Len(first)
    BY <1>3, <1>4
  <2> HIDE DEF others
  <2> QED
    BY <1>3, <2>1, <2>2
<1> HIDE DEF others
<1>6. /\ steps \in Seq(S) /\ Len(steps) = Len(others) + Len(fee_payer)
      /\ \A i \in 1..(Len(others) + Len(fee_payer)) :
           steps[i] = IF i <= Len(others) THEN others[i] ELSE fee_payer[i - Len(others)]
  <2>1. others \in Seq(S)
    BY <1>5
  <2> QED
    BY <1>1, <2>1, ConcatProperties
<1>7. fee_payer = <<>> => steps = others
  BY <1>5, ConcatEmptySeq
<1> HIDE DEF steps
<1>8. Len(others) \in Nat /\ (Len(primary) = 1 => Len(others) >= 1)
  <2>1. Len(others) = Len(primary) + Len(general) + Len(nonce)
    BY <1>3, <1>5
  <2> QED
    BY <1>4, <2>1
<1>9. Len(primary) = 1 => steps[1] = primary[1]
  BY <1>4, <1>5, <1>6, <1>8
<1>10. Len(fee_payer) = 1 /\ Len(steps) = 2 => steps[2] = fee_payer[1]
  <2> SUFFICES ASSUME Len(fee_payer) = 1, Len(steps) = 2 PROVE steps[2] = fee_payer[1]
    OBVIOUS
  <2>1. 2 = Len(others) + 1
    BY <1>6
  <2>2. Len(others) = 1
    BY <1>8, <2>1
  <2> QED
    BY <1>6, <2>2
<1> QED
  BY <1>2, <1>6, <1>7, <1>9, <1>10 DEF primary, fee_payer

\* A summary that says the message is not recognised, or who pays for it, has a step
\* that no offer matches; what is left is the transfer of the offer.
LEMMA PaysWithoutBlind ==
  ASSUME NEW S, \A one \in S : IsItem(one),
         NEW summary, PartsIn(summary, S), NEW offer,
         summary.fee_payer = <<>> \/ NamesPayer(summary),
         check_swap_validity(Steps(summary), offer)
  PROVE  /\ summary.fee_payer = <<>>
         /\ ~IsBlind(summary)
         /\ AreTheOffer(BeforePayer(summary), offer)
<1> DEFINE steps == Steps(summary)
<1>1. /\ steps \in Seq(S)
      /\ summary.fee_payer = <<>> => steps = BeforePayer(summary)
      /\ Len(summary.fee_payer) = 1 /\ Len(steps) = 2 => steps[2] = summary.fee_payer[1]
      /\ Len(summary.primary) = 1 => steps[1] = summary.primary[1]
  BY StepsOfParts
<1>2. check_swap_validity(steps, offer)
  OBVIOUS
<1> HIDE DEF steps
<1>3. \A i \in 1..Len(steps) : IsItem(steps[i])
  BY <1>1, ElementOfSeq
<1>4. AreTheOffer(steps, offer)
  BY <1>1, <1>2, <1>3, ValidSteps
<1>5. \A one \in {steps[1], steps[2]} :
        one.title # "Fee payer" /\ one.title # "Unrecognized"
  <2>1. /\ Item("Amount", "Transfer", offer.amount).title = "Transfer"
        /\ Item("Pubkey", "Recipient", offer.recipient).title = "Recipient"
    BY DEF Item
  <2> QED
    BY <1>4, <2>1 DEF AreTheOffer
<1>o. \A one : Len(<<one>>) = 1 /\ <<one>>[1] = one
  OBVIOUS
<1>6. summary.fee_payer = <<>>
  <2> SUFFICES ASSUME NEW payer, summary.fee_payer = <<Item("Pubkey", "Fee payer", payer)>>
               PROVE  FALSE
    BY DEF NamesPayer
  <2>1. steps[2] = Item("Pubkey", "Fee payer", payer)
    <3>1. /\ Len(summary.fee_payer) = 1
          /\ summary.fee_payer[1] = Item("Pubkey", "Fee payer", payer)
      BY <1>o
    <3> QED
      BY <1>1, <1>4, <3>1 DEF AreTheOffer
  <2>2. Item("Pubkey", "Fee payer", payer).title = "Fee payer"
    BY DEF Item
  <2> QED
    BY <1>5, <2>1, <2>2
<1>7. ~IsBlind(summary)
  <2> SUFFICES ASSUME summary.primary = <<Item("String", "Unrecognized", <<>>)>> PROVE FALSE
    BY DEF IsBlind
  <2>1. steps[1] = Item("String", "Unrecognized", <<>>)
    <3>1. /\ Len(summary.primary) = 1
          /\ summary.primary[1] = Item("String", "Unrecognized", <<>>)
      BY <1>o
    <3> QED
      BY <1>1, <3>1
  <2>2. Item("String", "Unrecognized", <<>>).title = "Unrecognized"
    BY DEF Item
  <2> QED
    BY <1>5, <2>1, <2>2
<1> QED
  BY <1>1, <1>4, <1>6, <1>7

\* The parts of a parsed message, and what the handler adds, are sequences of items.
LEMMA PartsAreSequences ==
  ASSUME NEW body, AreItems(body.primary), AreItems(body.general), AreItems(body.nonce),
         NEW added, \A one \in added : IsItem(one)
  PROVE  \E V : /\ \A one \in V : IsItem(one)
                /\ body.primary \in Seq(V) /\ body.general \in Seq(V) /\ body.nonce \in Seq(V)
                /\ added \subseteq V
<1> DEFINE V == {body.primary[i] : i \in 1..Len(body.primary)} \cup
                {body.general[i] : i \in 1..Len(body.general)} \cup
                {body.nonce[i] : i \in 1..Len(body.nonce)} \cup added
<1>1. body.primary \in Seq(V) /\ body.general \in Seq(V) /\ body.nonce \in Seq(V)
  BY ItemsAreASequence
<1>2. \A one \in V : IsItem(one)
  BY ItemIsARecord
<1>3. added \subseteq V
  OBVIOUS
<1> HIDE DEF V
<1> WITNESS V
<1> QED
  BY <1>1, <1>2, <1>3

\* A summary that passes has no fee payer, no message hash and was not printed for
\* experts: it is the transfer of the offer and nothing else.
LEMMA ValidSummaryPays ==
  ASSUME NEW command, command.message \in Message, command.derivation_path \in Derivable,
         NEW settings, settings.expert \in BOOLEAN,
         TransactionBodyStatus(command, settings) = "Success",
         NEW offer, check_swap_validity(Steps(TransactionSummary(command, settings)), offer)
  PROVE  Pays(command.message, command.derivation_path, offer)
<1> DEFINE body == Body(command, settings)
           payer == MessageHeader(command.message).fee_payer
           blind == Item("String", "Unrecognized", <<>>)
           hash == Item("Hash", "Message Hash", command.message)
           pays == Item("Pubkey", "Fee payer", payer)
<1>1. /\ body.processed \in BOOLEAN
      /\ AreItems(body.primary) /\ AreItems(body.general) /\ AreItems(body.nonce)
  BY SignAssumption DEF SignAssumption, Body
<1> DEFINE added == {blind, hash, pays}
<1>2. \A one \in added : IsItem(one)
  BY ItemIsItem
<1> HIDE DEF body, blind, hash, pays, payer, added
<1>3. PICK V : /\ \A one \in V : IsItem(one)
               /\ body.primary \in Seq(V) /\ body.general \in Seq(V) /\ body.nonce \in Seq(V)
               /\ added \subseteq V
  <2>1. AreItems(body.primary) /\ AreItems(body.general) /\ AreItems(body.nonce)
    BY <1>1
  <2> QED
    BY <1>2, <2>1, PartsAreSequences
<1> DEFINE summary == TransactionSummary(command, settings)
<1>4. /\ summary.nonce = body.nonce
      /\ summary.fee_payer = IF settings.expert \/ payer # command.derivation_path
                             THEN <<pays>> ELSE <<>>
      /\ \/ ~body.processed /\ summary.primary = <<blind>>
                            /\ summary.general = Append(body.general, hash)
         \/ body.processed /\ summary.primary = body.primary /\ summary.general = body.general
  <2>1. body.processed \/ settings.allow_blind_sign
    BY DEF TransactionBodyStatus, body
  <2> QED
    BY <1>1, <2>1 DEF TransactionSummary, body, payer, blind, hash, pays
<1> HIDE DEF summary
<1>5. PartsIn(summary, V)
  <2>1. \A one \in V : <<one>> \in Seq(V) /\ Append(body.general, one) \in Seq(V)
    BY <1>3, AppendProperties
  <2>2. <<blind>> \in Seq(V) /\ <<pays>> \in Seq(V) /\ Append(body.general, hash) \in Seq(V)
    BY <1>3, <2>1 DEF added
  <2> QED
    BY <1>3, <1>4, <2>2, EmptySeq DEF PartsIn
<1>6. summary.fee_payer = <<>> \/ NamesPayer(summary)
  BY <1>4 DEF pays, NamesPayer
<1>7. check_swap_validity(Steps(summary), offer)
  BY DEF summary
<1>8. /\ summary.fee_payer = <<>>
      /\ ~IsBlind(summary)
      /\ AreTheOffer(BeforePayer(summary), offer)
  <2>1. \A one \in V : IsItem(one)
    BY <1>3
  <2> QED
    BY <2>1, <1>5, <1>6, <1>7, PaysWithoutBlind
<1>9. body.processed /\ BeforePayer(summary) = body.primary \o body.general \o body.nonce
  BY <1>4, <1>8 DEF BeforePayer, IsBlind, blind
<1>10. settings.expert = FALSE
  <2>1. <<pays>> # <<>>
    OBVIOUS
  <2> QED
    BY <1>4, <1>8, <2>1
<1>11. body = MessageBody(command.message, command.derivation_path, FALSE)
  BY <1>10 DEF Body, body
<1> QED
  BY <1>8, <1>9, <1>11 DEF Pays, AreTheOffer

-----------------------------------------------------------------------------
(* Only the offer is signed in a swap. *)

\* A swap has an offer as long as it runs.
OfferInv == app = "swap" => G_swap_validated \in SwapOffers

\* Every step keeps the offer of a swap as long as it runs.
LEMMA OfferStep == OfferInv /\ [Next]_vars => OfferInv'
<1> SUFFICES ASSUME OfferInv, [Next]_vars PROVE OfferInv'
  OBVIOUS
<1>1. app' # "swap" \/ UNCHANGED <<app, G_swap_validated>> => OfferInv'
  BY DEF OfferInv
<1>2. CASE LaunchStandalone \/ FinalizeExchange \/ Quit \/ PowerOff
  BY <1>1, <1>2 DEF LaunchStandalone, FinalizeExchange, Quit, PowerOff, Terminated, ProcessEnds
<1>3. CASE LaunchFromExchange
  BY <1>3 DEF LaunchFromExchange, OfferInv
<1>4. CASE IoReset
  BY <1>1, <1>4 DEF IoReset, Terminated, ProcessEnds
<1>5. ASSUME NEW apdu \in Apdus, HandleApdu(apdu) PROVE OfferInv'
  BY <1>1, <1>5
     DEF HandleApdu, RefuseApdu, AcceptChunk, GetAppConfiguration, GetPubkey,
         RefuseTransactionHeader, RefuseTransactionBody, ReviewTransaction, AnswerSwap,
         RefuseOffchainMessage, ReviewOffchainMessage, HandlerThrows, StartReview,
         ProcessEnds, QuitAfterSwapResponse, OfferInv
<1>6. CASE ApprovePubkey \/ ApproveSignature \/ Reject \/ ShowStep
  BY <1>6 DEF ApprovePubkey, ApproveSignature, Reject, ShowStep, SendResponse,
              ThrowFromCallback, Freeze, QuitAfterSwapResponse, memory, OfferInv
<1>7. CASE ChangeSettings \/ UNCHANGED vars
  BY <1>1, <1>7 DEF ChangeSettings, SwitchSetting, vars, memory
<1> QED
  BY <1>2, <1>3, <1>4, <1>5, <1>6, <1>7 DEF Next

\* So a swap has an offer in every state.
LEMMA OfferInvariant == Spec => []OfferInv
<1>1. Init => OfferInv
  BY DEF Init, OfferInv
<1> QED
  BY <1>1, OfferStep, PTL DEF Spec

\* A swap is answered with a signature only when the transaction pays the offer.
LEMMA SignedSwapPays ==
  ASSUME TypeOK, NEW apdu \in Apdus, AnswerSwap(apdu), ~G_swap_response_ready,
         check_swap_validity(Steps(TransactionSummary(G_command', N_storage)),
                             G_swap_validated)
  PROVE  /\ reply'.data = Signature(G_command')
         /\ Pays(reply'.data.message, reply'.data.path, G_swap_validated)
<1>1. /\ Completes(apdu, "SignMessage")
      /\ TransactionHeaderStatus(G_command') = "Success"
      /\ TransactionBodyStatus(G_command', N_storage) = "Success"
  BY DEF AnswerSwap, Summarized
<1>2. G_command'.message \in Message
  BY <1>1, CompletedCommand
<1>3. G_command'.derivation_path \in Derivable
  BY <1>1 DEF TransactionHeaderStatus
<1>4. N_storage.expert \in BOOLEAN
  BY DEF TypeOK
<1>5. Pays(G_command'.message, G_command'.derivation_path, G_swap_validated)
  BY <1>1, <1>2, <1>3, <1>4, ValidSummaryPays
<1>6. reply'.data = Signature(G_command')
  BY DEF AnswerSwap, Answer
<1> QED
  BY <1>5, <1>6 DEF Signature

\* The count of signatures grows in no other step.
LEMMA SignaturesGrow ==
  ASSUME TypeOK, Next, swap_signatures' > swap_signatures
  PROVE  \E apdu \in Apdus :
           /\ AnswerSwap(apdu) /\ ~G_swap_response_ready
           /\ check_swap_validity(Steps(TransactionSummary(G_command', N_storage)),
                                  G_swap_validated)
<1>1. swap_signatures \in Nat
  BY DEF TypeOK
<1>2. swap_signatures' # swap_signatures /\ swap_signatures' # 0
  BY <1>1
<1>3. ~(LaunchStandalone \/ LaunchFromExchange \/ FinalizeExchange \/ Quit \/ PowerOff
        \/ IoReset)
  BY <1>2 DEF LaunchStandalone, LaunchFromExchange, FinalizeExchange, Quit, PowerOff, IoReset
<1>4. ~(ApprovePubkey \/ ApproveSignature \/ Reject \/ ShowStep \/ ChangeSettings)
  BY <1>2 DEF ApprovePubkey, ApproveSignature, Reject, ShowStep, ChangeSettings, SwitchSetting
<1>5. PICK apdu \in Apdus : HandleApdu(apdu)
  BY <1>3, <1>4 DEF Next
<1>6. AnswerSwap(apdu)
  BY <1>2, <1>5
     DEF HandleApdu, RefuseApdu, AcceptChunk, GetAppConfiguration, GetPubkey,
         RefuseTransactionHeader, RefuseTransactionBody, ReviewTransaction,
         RefuseOffchainMessage, ReviewOffchainMessage, HandlerThrows, StartReview
<1>7. ~G_swap_response_ready
  BY <1>2, <1>6 DEF AnswerSwap
<1>8. check_swap_validity(Steps(TransactionSummary(G_command', N_storage)), G_swap_validated)
  <2>1. swap_signatures' = swap_signatures +
          IF check_swap_validity(Steps(TransactionSummary(G_command', N_storage)),
                                 G_swap_validated) THEN 1 ELSE 0
    BY <1>6, <1>7 DEF AnswerSwap
  <2> QED
    BY <1>1, <1>2, <2>1
<1> QED
  BY <1>6, <1>7, <1>8

\* Whatever the parsers find in a message, the only transaction that is signed without
\* a review is a recognised transfer of the amount and to the recipient agreed on.
THEOREM SwapsSignOnlyTheOffer == Spec => SwapSignsOnlyTheOffer
<1> DEFINE Paid == swap_signatures' > swap_signatures =>
                     Pays(reply'.data.message, reply'.data.path, G_swap_validated)
<1>1. ASSUME TypeOK, [Next]_vars PROVE [Paid]_vars
  BY <1>1, SignaturesGrow, SignedSwapPays
<1> QED
  BY <1>1, TypeCorrect, PTL DEF Spec, SwapSignsOnlyTheOffer

-----------------------------------------------------------------------------
(* The device is a SigningDevice: what each variable of the promise is, and *)
(* what makes a step one of its actions.                                    *)

Assembled ==
  IF /\ Running
     /\ G_command.state = "PayloadInProgress"
     /\ G_command.instruction \in SignInstructions
  THEN ItemOf(G_command) ELSE NoItem

IsReviewed == requested /\ review.instruction \in SignInstructions
Presented ==
  IF IsReviewed
  THEN [instruction |-> review.instruction, path |-> review.path, message |-> review.message]
  ELSE NoItem

NoSigned == [path |-> <<>>, message |-> <<>>]
Signed ==
  IF IsSignature(reply.data)
  THEN [path |-> reply.data.path, message |-> reply.data.message] ELSE NoSigned

OpenOffer == IF app = "swap" /\ ~G_swap_response_ready THEN G_swap_validated ELSE NoOffer

\* The item assembled and one more chunk.
Extended(chunk) == [Assembled EXCEPT !.message = @ \o chunk]

\* item is the first chunk of a message, or an extended one.
Receives(item) ==
  /\ item \in [instruction : SignInstructions, path : Seq(Byte), message : Seq(Byte)]
  /\ \E apdu \in Apdus :
       \/ item.message = Payload(apdu)
       \/ /\ Assembled # NoItem
          /\ item = Extended(Payload(apdu))

\* A reviewed item is not the empty one.
LEMMA ReviewedIsAnItem ==
  /\ Presented # NoItem <=> IsReviewed
  /\ IsReviewed => Presented = [instruction |-> review.instruction, path |-> review.path,
                                message |-> review.message]
  BY DEF Presented, NoItem, SignInstructions, IsReviewed

\* The operators above are the variables of the promise.
LEMMA ContractVariables ==
  /\ Contract!NoItem = NoItem /\ Contract!NoSignature = NoSigned /\ Contract!NoOffer = NoOffer
  /\ Contract!Reviewing <=> IsReviewed
  /\ \A item : Receives(item) => Contract!Receives(item)
<1>1. Contract!NoItem = NoItem /\ Contract!NoSignature = NoSigned /\ Contract!NoOffer = NoOffer
  BY DEF Contract!NoItem, Contract!NoSignature, Contract!NoOffer, NoItem, NoSigned, NoOffer
<1>2. Contract!Reviewing <=> IsReviewed
  BY <1>1, ReviewedIsAnItem DEF Contract!Reviewing, Presented, IsReviewed
<1>3. ASSUME NEW item, Receives(item) PROVE Contract!Receives(item)
  BY <1>1, <1>3 DEF Contract!Receives, Contract!Item, Receives, Assembled, Extended
<1> QED
  BY <1>1, <1>2, <1>3

\* An answer that signs nothing.
SignsNothing == ~IsSignature(reply'.data)

\* A step that drops what was assembled is Discard.
LEMMA Discards ==
  ASSUME ~IsReviewed, ~IsReviewed', Assembled' = NoItem, SignsNothing, OpenOffer' = OpenOffer
  PROVE  Contract!Discard
<1>1. Presented = NoItem /\ Presented' = NoItem /\ Signed' = NoSigned
  BY DEF Presented, Signed, SignsNothing
<1>2. ~Contract!Reviewing
  BY ContractVariables
<1> QED
  BY <1>1, <1>2, ContractVariables
     DEF Contract!Discard, Presented, Signed, NoSigned, OpenOffer, Assembled,
         IsReviewed

\* A chunk that is accepted is Assemble.
LEMMA Assembles ==
  ASSUME ~IsReviewed, ~IsReviewed', Receives(Assembled'), SignsNothing, OpenOffer' = OpenOffer
  PROVE  Contract!Assemble
<1>1. Presented = NoItem /\ Presented' = NoItem /\ Signed' = NoSigned
  BY DEF Presented, Signed, SignsNothing
<1>2. ~Contract!Reviewing /\ Contract!Receives(Assembled')
  BY ContractVariables
<1> QED
  BY <1>1, <1>2, ContractVariables
     DEF Contract!Assemble, Presented, Signed, NoSigned, OpenOffer, Assembled,
         IsReviewed

\* A review that is opened is Present.
LEMMA Presents ==
  ASSUME ~IsReviewed, Receives(Presented'), Assembled' = NoItem, SignsNothing,
         OpenOffer' = OpenOffer
  PROVE  Contract!Present
<1>1. Signed' = NoSigned
  BY DEF Signed, SignsNothing
<1>2. ~Contract!Reviewing /\ Contract!Receives(Presented')
  BY ContractVariables
<1> QED
  BY <1>1, <1>2, ContractVariables
     DEF Contract!Present, Presented, Signed, NoSigned, OpenOffer, Assembled,
         IsReviewed

\* A button or whatever ends a review is Approve or Refuse.
LEMMA Decides ==
  ASSUME IsReviewed, ~IsReviewed', Assembled' = Assembled, OpenOffer' = OpenOffer,
         SignsNothing \/ (IsSignature(reply'.data) /\ reply'.data.path = review.path
                                                  /\ reply'.data.message = review.message)
  PROVE  Contract!Approve \/ Contract!Refuse
<1>1. Presented' = NoItem
  BY DEF Presented
<1>2. Contract!Reviewing
  BY ContractVariables
<1>3. CASE SignsNothing
  <2>1. Signed' = NoSigned
    BY <1>3 DEF Signed, SignsNothing
  <2> QED
    BY <1>1, <1>2, <2>1, ContractVariables
       DEF Contract!Refuse, Presented, Signed, NoSigned, OpenOffer, Assembled,
         IsReviewed
<1>4. CASE ~SignsNothing
  <2>1. Signed' = [path |-> Presented.path, message |-> Presented.message]
    BY <1>4 DEF Signed, SignsNothing, Presented
  <2> QED
    BY <1>1, <1>2, <2>1, ContractVariables
       DEF Contract!Approve, Contract!SignatureOf, Presented, Signed, NoSigned, OpenOffer,
           Assembled, IsReviewed
<1> QED
  BY <1>3, <1>4

\* A signature answered to Exchange is SignForOffer.
LEMMA SignsForOffer ==
  ASSUME ~IsReviewed, ~IsReviewed', Assembled' = NoItem, OpenOffer # NoOffer,
         OpenOffer' = NoOffer, IsSignature(reply'.data),
         Receives([instruction |-> "SignMessage", path |-> reply'.data.path,
                   message |-> reply'.data.message]),
         Pays(reply'.data.message, reply'.data.path, OpenOffer)
  PROVE  Contract!SignForOffer
<1>1. /\ Presented = NoItem /\ Presented' = NoItem
      /\ Signed'.path = reply'.data.path /\ Signed'.message = reply'.data.message
  BY DEF Presented, Signed
<1>2. /\ ~Contract!Reviewing
      /\ Contract!Receives([instruction |-> "SignMessage", path |-> Signed'.path,
                            message |-> Signed'.message])
      /\ Pays(Signed'.message, Signed'.path, OpenOffer)
  BY <1>1, ContractVariables
<1> QED
  BY <1>1, <1>2, ContractVariables
     DEF Contract!SignForOffer, Presented, Signed, OpenOffer, Assembled, IsReviewed, NoSigned

\* An offer that is answered without a signature is DeclineOffer.
LEMMA DeclinesOffer ==
  ASSUME ~IsReviewed, ~IsReviewed', Assembled' = NoItem, OpenOffer # NoOffer,
         OpenOffer' = NoOffer, SignsNothing
  PROVE  Contract!DeclineOffer
<1>1. Presented = NoItem /\ Presented' = NoItem /\ Signed' = NoSigned
  BY DEF Presented, Signed, SignsNothing
<1>2. ~Contract!Reviewing
  BY ContractVariables
<1> QED
  BY <1>1, <1>2, ContractVariables
     DEF Contract!DeclineOffer, Presented, Signed, NoSigned, OpenOffer, Assembled,
         IsReviewed

\* A launch is Start.
LEMMA Starts ==
  ASSUME ~IsReviewed, ~IsReviewed', OpenOffer = NoOffer,
         OpenOffer' \in SwapOffers \cup {NoOffer}, Assembled' = NoItem, SignsNothing
  PROVE  Contract!Start
<1>1. Presented = NoItem /\ Presented' = NoItem /\ Signed' = NoSigned
  BY DEF Presented, Signed, SignsNothing
<1> QED
  BY <1>1, ContractVariables
     DEF Contract!Start, Presented, Signed, NoSigned, OpenOffer, Assembled,
         IsReviewed

\* The end of the application is Stop.
LEMMA Stops ==
  ASSUME ~IsReviewed', Assembled' = NoItem, OpenOffer' = NoOffer, UNCHANGED reply
  PROVE  Contract!Stop
<1>1. Presented' = NoItem /\ Signed' = Signed
  BY DEF Presented, Signed
<1> QED
  BY <1>1, ContractVariables
     DEF Contract!Stop, Presented, Signed, NoSigned, OpenOffer, Assembled,
         IsReviewed

\* An accepted chunk of a signing instruction is received after what is assembled.
LEMMA ReceivedItem ==
  ASSUME TypeOK, NEW apdu \in Apdus, Received(apdu), apdu.ins \in SignInstructions,
         apdu_handle_message(G_command, apdu).status = "Success"
  PROVE  Receives(ItemOf(G_command')) /\ G_command'.instruction = apdu.ins
<1>1. G_command \in Command /\ apdu \in Apdu /\ G_command' \in Command
  BY ReceivedType, DeviceAssumption DEF DeviceAssumption, TypeOK
<1>2. /\ G_command'.instruction = apdu.ins
      /\ IF IsFirstChunk(apdu)
         THEN G_command'.message = FirstChunk(apdu).rest
         ELSE /\ ContinuesCommand(G_command, apdu)
              /\ G_command'.derivation_path = G_command.derivation_path
              /\ G_command'.message = G_command.message \o apdu.data
  BY <1>1, AcceptedChunk DEF Received
<1>3. ItemOf(G_command') \in [instruction : SignInstructions, path : Seq(Byte),
                              message : Seq(Byte)]
  BY <1>1, <1>2 DEF ItemOf, Command
<1>4. CASE IsFirstChunk(apdu)
  BY <1>2, <1>3, <1>4 DEF Receives, ItemOf, Payload
<1>5. CASE ~IsFirstChunk(apdu)
  <2>1. /\ Assembled = ItemOf(G_command)
        /\ G_command.instruction = apdu.ins
    BY <1>2, <1>5 DEF Assembled, ContinuesCommand, Received
  <2>2. Assembled # NoItem
    <3>1. Assembled.instruction \in SignInstructions
      BY <2>1 DEF ItemOf
    <3> QED
      BY <3>1 DEF NoItem, SignInstructions
  <2>3. ItemOf(G_command') = Extended(Payload(apdu))
    <3>1. /\ G_command'.message = G_command.message \o Payload(apdu)
          /\ G_command'.derivation_path = G_command.derivation_path
          /\ G_command'.instruction = G_command.instruction
      BY <1>2, <1>5, <2>1 DEF Payload
    <3>2. Extended(Payload(apdu)) =
            [ItemOf(G_command) EXCEPT !.message = G_command.message \o Payload(apdu)]
      BY <2>1 DEF Extended, ItemOf
    <3> QED
      BY <3>1, <3>2 DEF ItemOf
  <2> QED
    BY <1>2, <1>3, <2>2, <2>3 DEF Receives
<1> QED
  BY <1>2, <1>4, <1>5

\* A command that is complete, or not there, is not being received.
LEMMA NothingAssembled ==
  /\ G_command.state # "PayloadInProgress" => Assembled = NoItem
  /\ G_command'.state # "PayloadInProgress" => Assembled' = NoItem
  /\ ~Running => Assembled = NoItem
  /\ ~Running' => Assembled' = NoItem
  BY DEF Assembled

\* A handler that answers, with no signature, ends the transfer.
LEMMA AnswersDiscard ==
  ASSUME ~requested, G_command'.state # "PayloadInProgress",
         NEW status, NEW data, ~IsSignature(data), Answer(status, data),
         UNCHANGED <<app, G_swap_response_ready, G_swap_validated>>
  PROVE  Contract!Discard
<1>1. ~IsReviewed /\ ~IsReviewed' /\ SignsNothing /\ OpenOffer' = OpenOffer
  BY DEF IsReviewed, SignsNothing, Answer, OpenOffer
<1> QED
  BY <1>1, NothingAssembled, Discards

\* The answers that hold no signature.
LEMMA PlainAnswers ==
  /\ ~IsSignature(NoData)
  /\ \A path : ~IsSignature(PublicKey(path))
  /\ \A b : ~IsSignature([kind |-> "config", allow_blind_sign |-> b])
  /\ ~IsSignature(NoReply.data)
  BY DEF IsSignature, NoData, PublicKey, NoReply

\* The cleared command is no transfer in progress.
LEMMA RefusedCommandState == EmptyCommand.state # "PayloadInProgress"
  BY DEF EmptyCommand

\* Every APDU is assembled, presented, answered for the offer, or ends the transfer.
LEMMA ContractHandle ==
  ASSUME TypeOK, SwapInv, OfferInv, NEW apdu \in Apdus, HandleApdu(apdu)
  PROVE  Contract!Next
<1>1. Received(apdu) /\ ~requested /\ Running
  BY HandleReceives DEF Received
<1>2. apdu \in Apdu /\ G_command \in Command
  BY DeviceAssumption DEF DeviceAssumption, TypeOK
<1>3. ~IsReviewed
  BY <1>1 DEF IsReviewed
<1>4. CASE RefuseApdu(apdu)
  <2>1. G_command' = EmptyCommand
    BY <1>4, RefusedCommand DEF RefuseApdu, Received
  <2>2. Contract!Discard
    BY <1>1, <1>4, <2>1, RefusedCommandState, PlainAnswers, AnswersDiscard DEF RefuseApdu
  <2> QED
    BY <2>2 DEF Contract!Next
<1>5. CASE AcceptChunk(apdu)
  <2>1. /\ ~IsReviewed' /\ SignsNothing /\ OpenOffer' = OpenOffer
    BY <1>5, PlainAnswers DEF AcceptChunk, Answer, IsReviewed, SignsNothing, OpenOffer
  <2>2. apdu_handle_message(G_command, apdu).status = "Success"
    BY <1>5, RefusedCommand, RefusedCommandState DEF AcceptChunk, Received
  <2>3. CASE apdu.ins \in SignInstructions
    <3>1. Receives(ItemOf(G_command')) /\ G_command'.instruction = apdu.ins
      BY <1>1, <2>2, <2>3, ReceivedItem
    <3>2. Assembled' = ItemOf(G_command')
      BY <1>1, <1>5, <2>3, <3>1 DEF AcceptChunk, Assembled, Running, ItemOf
    <3>3. Contract!Assemble
      BY <1>3, <2>1, <3>1, <3>2, Assembles
    <3> QED
      BY <3>3 DEF Contract!Next
  <2>4. CASE apdu.ins \notin SignInstructions
    <3>1. G_command'.instruction \notin SignInstructions
      <4>1. G_command' = FilledCommand(G_command, apdu)
        BY <1>1, <2>2 DEF apdu_handle_message, Received
      <4>2. OpenedCommand(G_command, apdu) \in Command
        BY <1>2, EmptyCommandType, FirstChunkType DEF OpenedCommand, Command
      <4> QED
        BY <2>4, <4>1, <4>2 DEF FilledCommand, Command
    <3>2. Assembled' = NoItem
      BY <3>1 DEF Assembled
    <3>3. Contract!Discard
      BY <1>3, <2>1, <3>2, Discards
    <3> QED
      BY <3>3 DEF Contract!Next
  <2> QED
    BY <2>3, <2>4
<1> DEFINE Complete == G_command'.state # "PayloadInProgress"
<1>6. ASSUME NEW instruction, Completes(apdu, instruction)
      PROVE  Complete /\ G_command'.instruction = instruction /\ apdu.ins = instruction
             /\ apdu_handle_message(G_command, apdu).status = "Success"
  BY <1>6, CompletedCommand DEF Completes
<1> HIDE DEF Complete
<1>7. CASE GetAppConfiguration(apdu)
  <2>1. Complete
    BY <1>6, <1>7 DEF GetAppConfiguration
  <2>2. Contract!Discard
    BY <1>1, <1>7, <2>1, PlainAnswers, AnswersDiscard DEF GetAppConfiguration, Complete
  <2> QED
    BY <2>2 DEF Contract!Next
<1>8. CASE GetPubkey(apdu)
  <2>1. Assembled' = NoItem
    BY <1>6, <1>8, NothingAssembled DEF GetPubkey, Complete
  <2>2. OpenOffer' = OpenOffer
    BY <1>8 DEF GetPubkey, OpenOffer
  <2>3. ~IsReviewed'
    <3>1. \/ requested' = FALSE
          \/ \E path : review' = [NoReview EXCEPT !.instruction = "GetPubkey", !.path = path]
      BY <1>8 DEF GetPubkey, Answer
    <3>2. ASSUME NEW path,
                 review' = [NoReview EXCEPT !.instruction = "GetPubkey", !.path = path]
          PROVE  review'.instruction = "GetPubkey"
      BY <3>2 DEF NoReview
    <3> QED
      BY <3>1, <3>2 DEF IsReviewed, SignInstructions
  <2>4. SignsNothing
    <3>1. \/ reply'.data = NoData
          \/ reply'.data = PublicKey(G_command'.derivation_path)
      BY <1>8 DEF GetPubkey, Answer, NoReply
    <3> QED
      BY <3>1, PlainAnswers DEF SignsNothing
  <2>5. Contract!Discard
    BY <1>3, <2>1, <2>2, <2>3, <2>4, Discards
  <2> QED
    BY <2>5 DEF Contract!Next
<1>9. CASE RefuseTransactionHeader(apdu) \/ RefuseTransactionBody(apdu)
           \/ RefuseOffchainMessage(apdu)
  <2>1. Complete
    BY <1>6, <1>9 DEF RefuseTransactionHeader, RefuseTransactionBody, RefuseOffchainMessage
  <2>2. PICK status : HandlerThrows(status)
    BY <1>9 DEF RefuseTransactionHeader, RefuseTransactionBody, RefuseOffchainMessage
  <2>3. Contract!Discard
    BY <1>1, <2>1, <2>2, PlainAnswers, AnswersDiscard DEF HandlerThrows, Complete
  <2> QED
    BY <2>3 DEF Contract!Next
<1>10. CASE ReviewTransaction(apdu) \/ ReviewOffchainMessage(apdu)
  <2>1. /\ Complete /\ apdu.ins \in SignInstructions
        /\ apdu_handle_message(G_command, apdu).status = "Success"
    BY <1>6, <1>10
       DEF ReviewTransaction, ReviewOffchainMessage, Summarized, SignInstructions
  <2>2. Receives(ItemOf(G_command')) /\ G_command'.instruction = apdu.ins
    BY <1>1, <2>1, ReceivedItem
  <2>3. PICK clear : StartReview(G_command', clear)
    BY <1>10 DEF ReviewTransaction, ReviewOffchainMessage
  <2>4. Presented' = ItemOf(G_command')
    BY <2>1, <2>2, <2>3 DEF StartReview, Presented, IsReviewed, ItemOf
  <2>5. SignsNothing /\ OpenOffer' = OpenOffer
    BY <2>3, PlainAnswers DEF StartReview, SignsNothing, OpenOffer
  <2>6. Assembled' = NoItem
    BY <2>1, NothingAssembled DEF Complete
  <2>7. Contract!Present
    BY <1>3, <2>2, <2>4, <2>5, <2>6, Presents
  <2> QED
    BY <2>7 DEF Contract!Next
<1>11. CASE AnswerSwap(apdu)
  <2> DEFINE valid == check_swap_validity(Steps(TransactionSummary(G_command', N_storage)),
                                          G_swap_validated)
  <2>1. app = "swap" /\ ~G_swap_response_ready
    BY <1>11 DEF AnswerSwap, SwapInv, SwapSignsOnce
  <2>2. OpenOffer = G_swap_validated /\ OpenOffer # NoOffer
    BY <2>1, DeviceAssumption DEF OpenOffer, OfferInv, DeviceAssumption
  <2>3. /\ Complete /\ apdu.ins = "SignMessage"
        /\ apdu_handle_message(G_command, apdu).status = "Success"
    BY <1>6, <1>11 DEF AnswerSwap, Summarized
  <2>4. Assembled' = NoItem
    BY <2>3, NothingAssembled DEF Complete
  <2>5. G_swap_response_ready' = TRUE /\ requested' = FALSE
    BY <1>11, <2>1 DEF AnswerSwap, Answer
  <2>6. ~IsReviewed' /\ OpenOffer' = NoOffer
    BY <2>5 DEF IsReviewed, OpenOffer
  <2>7. CASE valid
    <3>1. /\ reply'.data = Signature(G_command')
          /\ Pays(reply'.data.message, reply'.data.path, G_swap_validated)
      BY <1>11, <2>1, <2>7, SignedSwapPays
    <3>2. IsSignature(reply'.data)
      BY <3>1 DEF IsSignature, Signature
    <3>3. [instruction |-> "SignMessage", path |-> reply'.data.path,
           message |-> reply'.data.message] = ItemOf(G_command')
          /\ Receives(ItemOf(G_command'))
      BY <1>1, <2>3, <3>1, ReceivedItem DEF ItemOf, Signature, SignInstructions
    <3>4. Contract!SignForOffer
      BY <1>3, <2>2, <2>4, <2>6, <3>1, <3>2, <3>3, SignsForOffer
    <3> QED
      BY <3>4 DEF Contract!Next
  <2>8. CASE ~valid
    <3>1. reply'.data = NoData
      BY <1>11, <2>1, <2>8 DEF AnswerSwap, Answer
    <3>2. SignsNothing
      BY <3>1, PlainAnswers DEF SignsNothing
    <3>3. Contract!DeclineOffer
      BY <1>3, <2>2, <2>4, <2>6, <3>2, DeclinesOffer
    <3> QED
      BY <3>3 DEF Contract!Next
  <2> QED
    BY <2>7, <2>8
<1> QED
  BY <1>4, <1>5, <1>7, <1>8, <1>9, <1>10, <1>11 DEF HandleApdu

\* A button, and a step of the review that cannot be shown, decide what is reviewed.
LEMMA ContractDecide ==
  ASSUME TypeOK, ReviewIsOfCommand, SwapInv, Decide \/ ShowStep
  PROVE  Contract!Next
<1>1. Running /\ (screen = "sign_review" \/ screen = "pubkey_review")
  BY DEF Decide, ApprovePubkey, ApproveSignature, Reject, ShowStep
<1>2. CASE ~requested
  <2>1. app' = "frozen" /\ UNCHANGED <<requested, reply>>
    BY <1>2 DEF Decide, ApprovePubkey, ApproveSignature, Reject, ShowStep, SendResponse,
                ThrowFromCallback, Freeze
  <2>2. ~IsReviewed' /\ OpenOffer' = NoOffer /\ ~Running'
    BY <1>2, <2>1 DEF IsReviewed, OpenOffer, Running
  <2>3. Contract!Stop
    BY <2>1, <2>2, NothingAssembled, Stops
  <2> QED
    BY <2>3 DEF Contract!Next
<1>3. CASE requested
  <2>1. /\ G_command.state = "PayloadComplete"
        /\ review.path = G_command.derivation_path
        /\ screen = "sign_review" =>
             IsReviewed /\ review.message = G_command.message
        /\ screen = "pubkey_review" => ~IsReviewed
    BY <1>3 DEF ReviewIsOfCommand, IsReviewed, SignInstructions
  <2>2. /\ requested' = FALSE
        /\ UNCHANGED <<G_command, G_swap_response_ready, G_swap_validated>>
        /\ app' = app \/ G_swap_response_ready'
        /\ \/ reply'.data = NoData
           \/ screen = "pubkey_review" /\ reply'.data = PublicKey(G_publicKey)
           \/ screen = "sign_review" /\ reply'.data = Signature(G_command)
    BY <1>3 DEF Decide, ApprovePubkey, ApproveSignature, Reject, ShowStep, SendResponse,
                ThrowFromCallback, QuitAfterSwapResponse, Answer, memory
  <2>3. app' = app
    BY <1>1, <2>2 DEF SwapInv, SwapSignsOnce, Running
  <2>4. ~IsReviewed' /\ OpenOffer' = OpenOffer
    BY <2>2, <2>3 DEF IsReviewed, OpenOffer
  <2>5. Assembled = NoItem /\ Assembled' = NoItem
    BY <2>1, <2>2, NothingAssembled
  <2>6. CASE screen = "pubkey_review"
    <3>1. SignsNothing
      BY <2>2, <2>6, PlainAnswers DEF SignsNothing
    <3>2. Contract!Discard
      BY <2>1, <2>4, <2>5, <2>6, <3>1, Discards
    <3> QED
      BY <3>2 DEF Contract!Next
  <2>7. CASE screen = "sign_review"
    <3>1. \/ SignsNothing
          \/ /\ IsSignature(reply'.data)
             /\ reply'.data.path = review.path
             /\ reply'.data.message = review.message
      <4>1. CASE reply'.data = NoData
        BY <4>1, PlainAnswers DEF SignsNothing
      <4>2. CASE reply'.data = Signature(G_command)
        BY <2>1, <2>7, <4>2 DEF IsSignature, Signature
      <4> QED
        BY <2>2, <2>7, <4>1, <4>2
    <3>2. Contract!Approve \/ Contract!Refuse
      BY <2>1, <2>4, <2>5, <2>7, <3>1, Decides
    <3> QED
      BY <3>2 DEF Contract!Next
  <2> QED
    BY <1>1, <2>6, <2>7
<1> QED
  BY <1>2, <1>3

\* The variables of the promise, as Contract!Spec substitutes them.
Promised == <<Assembled, Presented, Signed, OpenOffer>>

\* Every step of the application is one of the promise or a stutter.
LEMMA ContractStep ==
  TypeOK /\ ReviewIsOfCommand /\ SwapInv /\ OfferInv /\ [Next]_vars
    => Contract!Next \/ UNCHANGED Promised
<1> SUFFICES ASSUME TypeOK, ReviewIsOfCommand, SwapInv, OfferInv, [Next]_vars
             PROVE  Contract!Next \/ UNCHANGED Promised
  OBVIOUS
<1>1. CASE LaunchStandalone \/ LaunchFromExchange
  <2>1. app = "dashboard" /\ requested = FALSE /\ requested' = FALSE
    BY <1>1 DEF LaunchStandalone, LaunchFromExchange, ReviewIsOfCommand, Running, TypeOK
  <2>2. G_command' = EmptyCommand /\ reply' = NoReply
    BY <1>1 DEF LaunchStandalone, LaunchFromExchange, ClearedMemory
  <2>3. OpenOffer = NoOffer /\ OpenOffer' \in SwapOffers \cup {NoOffer}
    BY <1>1, <2>1 DEF LaunchStandalone, LaunchFromExchange, OpenOffer
  <2>4. ~IsReviewed /\ ~IsReviewed' /\ Assembled' = NoItem /\ SignsNothing
    BY <2>1, <2>2, NothingAssembled, RefusedCommandState, PlainAnswers
       DEF IsReviewed, SignsNothing
  <2>5. Contract!Start
    BY <2>3, <2>4, Starts
  <2> QED
    BY <2>5 DEF Contract!Next
<1>2. CASE FinalizeExchange \/ Quit \/ PowerOff \/ IoReset
  <2>1. /\ G_command' = EmptyCommand /\ requested' = FALSE /\ app' # "swap"
        /\ UNCHANGED reply
    BY <1>2 DEF FinalizeExchange, Quit, PowerOff, IoReset, Terminated, ProcessEnds,
                ClearedMemory
  <2>2. ~IsReviewed' /\ OpenOffer' = NoOffer /\ Assembled' = NoItem
    BY <2>1, NothingAssembled, RefusedCommandState DEF IsReviewed, OpenOffer
  <2>3. Contract!Stop
    BY <2>1, <2>2, Stops
  <2> QED
    BY <2>3 DEF Contract!Next
<1>3. ASSUME NEW apdu \in Apdus, HandleApdu(apdu) PROVE Contract!Next
  BY <1>3, ContractHandle
<1>4. CASE Decide \/ ShowStep
  BY <1>4, ContractDecide
<1>5. CASE ChangeSettings \/ UNCHANGED vars
  BY <1>5 DEF ChangeSettings, SwitchSetting, vars, memory, Promised, Assembled, Presented,
              IsReviewed, Signed, OpenOffer, Running
<1> QED
  BY <1>1, <1>2, <1>3, <1>4, <1>5 DEF Next, Decide

\* The initial states are those of the promise.
LEMMA ContractInit == Init => Contract!Init
<1> SUFFICES ASSUME Init PROVE Contract!Init
  OBVIOUS
<1>1. /\ Assembled = NoItem /\ Presented = NoItem /\ Signed = NoSigned
      /\ OpenOffer = NoOffer
  BY PlainAnswers DEF Init, Assembled, Presented, IsReviewed, Signed, OpenOffer, Running
<1> QED
  BY <1>1, ContractVariables
     DEF Contract!Init, Assembled, Presented, IsReviewed, Signed, NoSigned, OpenOffer

\* For every parser, every set of APDUs and every offer, the app is a SigningDevice:
\* whatever is interleaved, what is signed has been received in order and reviewed, or
\* honours the offer that its one signature uses up.
THEOREM DeviceKeepsContract == Spec => ImplementsSigningDevice
<1>1. UNCHANGED Promised => UNCHANGED Contract!vars
  BY DEF Promised, Contract!vars, Assembled, Presented, IsReviewed, Signed, NoSigned,
         OpenOffer
<1>2. TypeOK /\ ReviewIsOfCommand /\ SwapInv /\ OfferInv /\ [Next]_vars
        => [Contract!Next]_(Contract!vars)
  BY <1>1, ContractStep
<1> QED
  BY <1>2, ContractInit, TypeCorrect, ReviewsAreOfTheCommand, SwapInvariant, OfferInvariant,
     PTL DEF Spec, ImplementsSigningDevice, Contract!Spec
=============================================================================
