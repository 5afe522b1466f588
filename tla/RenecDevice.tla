---------------------------- MODULE RenecDevice ----------------------------
(***************************************************************************)
(* The running application: the launch paths and the event loop of         *)
(* src/src/main.c, the handlers behind it, the replies of src/src/io.c and *)
(* the buttons of the review screens.                                      *)
(*                                                                         *)
(* The app is single threaded.  It polls for events inside io_exchange     *)
(* only, so an APDU is handled, up to its reply or to the opening of a     *)
(* review, in one step; a button press is another step, and so is the      *)
(* unplugging of the cable.  What can go wrong is what lies between them.  *)
(***************************************************************************)
EXTENDS SignHandlers

CONSTANTS
  Apdus,          \* the APDUs the host may send
  Displayable(_), \* transaction_summary_display_item can format the item
  SwapOffers      \* the [amount, recipient] the Exchange app may have agreed on

NoOffer == [amount |-> 0, recipient |-> <<>>]

\* The Exchange app never agrees to pay nothing to nobody.
ASSUME DeviceAssumption == Apdus \subseteq Apdu /\ NoOffer \notin SwapOffers

VARIABLES
  app,                    \* which main is running, if any
  G_command,
  G_publicKey,            \* the path whose key it holds, <<>> once cleared
  G_transaction_summary,
  G_swap_response_ready,
  G_swap_validated,
  N_storage,              \* settings, in non-volatile memory
  screen,                 \* the flow on display
  requested,              \* an APDU has been received and not been answered
  reply,                  \* the last answer
  swap_result,            \* what the Exchange app has been told
  \* history, read by no action of the app:
  transfer,               \* what the host believes it has transferred
  review,                 \* what the flow on display was built from
  swap_signatures         \* transactions signed since the launch from Exchange

memory == <<G_command, G_publicKey, G_transaction_summary,
            G_swap_response_ready, G_swap_validated>>
vars == <<app, memory, N_storage, screen, requested, reply, swap_result,
          transfer, review, swap_signatures>>

NoReview == [instruction |-> "None", path |-> <<>>, message |-> <<>>, clear |-> TRUE]
NoTransfer == [instruction |-> "None", non_confirm |-> FALSE, path |-> <<>>,
               message |-> <<>>, open |-> FALSE]

NoData == [kind |-> "none"]
Signature(command) ==
  [kind |-> "signature", path |-> command.derivation_path, message |-> command.message]
PublicKey(path) == [kind |-> "pubkey", path |-> path]
NoReply == [status |-> "None", data |-> NoData]

Running == app \in {"standalone", "swap"}

-----------------------------------------------------------------------------
(* Launching and leaving. *)

\* reset_main_globals and reset_getpubkey_globals, and what dies with them.
ClearedMemory ==
  /\ G_command' = EmptyCommand
  /\ G_publicKey' = <<>>
  /\ G_transaction_summary' = EmptySummary
  /\ transfer' = NoTransfer
  /\ review' = NoReview

\* nv_app_state_init
InitializedStorage ==
  IF N_storage.initialized THEN N_storage
  ELSE [initialized |-> TRUE, allow_blind_sign |-> FALSE, expert |-> FALSE]

Init ==
  /\ app = "dashboard"
  /\ G_command = EmptyCommand
  /\ G_publicKey = <<>>
  /\ G_transaction_summary = EmptySummary
  /\ G_swap_response_ready = FALSE
  /\ G_swap_validated = NoOffer
  /\ N_storage = [initialized |-> FALSE, allow_blind_sign |-> FALSE, expert |-> FALSE]
  /\ screen = "none"
  /\ requested = FALSE
  /\ reply = NoReply
  /\ swap_result = "none"
  /\ transfer = NoTransfer
  /\ review = NoReview
  /\ swap_signatures = 0

\* coin_main
LaunchStandalone ==
  /\ app = "dashboard"
  /\ app' = "standalone"
  /\ ClearedMemory
  /\ N_storage' = InitializedStorage
  /\ screen' = "idle"
  /\ reply' = NoReply
  /\ swap_result' = "none"
  /\ swap_signatures' = 0
  /\ UNCHANGED <<G_swap_response_ready, G_swap_validated, requested>>

\* library_main_helper on SIGN_TRANSACTION: copy_transaction_parameters accepts
\* the offer, start_app_from_lib shows no menu and never returns.
LaunchFromExchange ==
  /\ app = "dashboard"
  /\ app' = "swap"
  /\ ClearedMemory
  /\ G_swap_validated' \in SwapOffers
  /\ G_swap_response_ready' = FALSE
  /\ N_storage' = InitializedStorage
  /\ screen' = "none"
  /\ reply' = NoReply
  /\ swap_result' = "none"
  /\ swap_signatures' = 0
  /\ UNCHANGED requested

\* The process ends; reply and swap_result have been sent out.
ProcessEnds ==
  /\ app' = "dashboard"
  /\ G_publicKey' = <<>>
  /\ G_transaction_summary' = EmptySummary
  /\ G_swap_response_ready' = FALSE
  /\ G_swap_validated' = NoOffer
  /\ screen' = "none"
  /\ requested' = FALSE
  /\ review' = NoReview

Terminated ==
  /\ ProcessEnds
  /\ G_command' = EmptyCommand
  /\ transfer' = NoTransfer

\* os_sched_exit from the menu.
Quit ==
  /\ Running
  /\ screen = "idle"
  /\ Terminated
  /\ UNCHANGED <<N_storage, reply, swap_result, swap_signatures>>

\* The device loses power, or the user reboots it.
PowerOff ==
  /\ app # "dashboard"
  /\ Terminated
  /\ UNCHANGED <<N_storage, reply, swap_result, swap_signatures>>

\* io_event finds the cable unplugged and throws ApduReplySdkExceptionIoReset.
\* coin_main restarts app_main; library_main has no catch and ends the library.
IoReset ==
  /\ Running
  /\ IF app = "standalone"
     THEN /\ ClearedMemory
          /\ screen' = "idle"
          /\ requested' = FALSE
          /\ UNCHANGED <<app, G_swap_response_ready, G_swap_validated>>
     ELSE Terminated
  /\ UNCHANGED <<N_storage, reply, swap_result, swap_signatures>>

-----------------------------------------------------------------------------
(* Answering. *)

Answer(status, data) ==
  /\ requested' = FALSE
  /\ reply' = [status |-> status, data |-> data]

\* io_exchange refuses a reply when no APDU is outstanding: it throws, app_main
\* tries to report the error by the same call, and its loop never gets further.
Freeze ==
  /\ app' = "frozen"
  /\ UNCHANGED <<memory, screen, requested, reply, swap_result, transfer, review>>

\* sendResponse once the status has gone out: the response of a swap is the
\* last thing the process does.
QuitAfterSwapResponse ==
  app' = IF app = "swap" /\ G_swap_response_ready' THEN "finalizing" ELSE app

\* A button that goes back to the menu without sending a response.
MenuWithoutResponse(status, data) ==
  /\ screen' = "idle"
  /\ review' = NoReview
  /\ UNCHANGED <<app, memory, requested, reply, swap_result, transfer>>

\* A button of a review calls sendResponse, then the menu comes back.
SendResponse(status, data) ==
  IF ~requested THEN Freeze
  ELSE /\ Answer(status, data)
       /\ UNCHANGED <<memory, swap_result, transfer>>
       /\ QuitAfterSwapResponse
       /\ screen' = "idle"
       /\ review' = NoReview

\* An exception in a button's callback reaches app_main, which answers with it
\* and leaves the flow on display.
ThrowFromCallback(status) ==
  IF ~requested THEN Freeze
  ELSE /\ Answer(status, NoData)
       /\ UNCHANGED <<app, memory, screen, swap_result, transfer, review>>

-----------------------------------------------------------------------------
(* Receiving an APDU: handleApdu. *)

\* What the host knows it has transferred, from the APDUs and statuses on the
\* wire alone: a refusal or another command in between voids the transfer.
TransferAfter(apdu, status) ==
  IF status # "Success" \/ apdu.ins \notin SignInstructions THEN NoTransfer
  ELSE IF IsFirstChunk(apdu)
  THEN [instruction |-> apdu.ins, non_confirm |-> NonConfirm(apdu),
        path |-> FirstChunk(apdu).path, message |-> FirstChunk(apdu).rest,
        open |-> ExpectsMore(apdu)]
  ELSE IF /\ transfer.open
          /\ transfer.instruction = apdu.ins
          /\ transfer.non_confirm = NonConfirm(apdu)
  THEN [transfer EXCEPT !.message = @ \o apdu.data, !.open = ExpectsMore(apdu)]
  ELSE NoTransfer

\* The state handleApdu starts from once it has received apdu: what
\* apdu_handle_message returns becomes G_command.
Received(apdu) ==
  /\ Running
  /\ ~requested
  /\ LET parsed == apdu_handle_message(G_command, apdu)
     IN  /\ G_command' = parsed.command
         /\ transfer' = TransferAfter(apdu, parsed.status)

\* apdu completes a command of the given instruction.
Completes(apdu, instruction) ==
  /\ apdu.ins = instruction
  /\ Received(apdu)
  /\ G_command'.state = "PayloadComplete"

\* apdu_handle_message fails, and the command is cleared.
RefuseApdu(apdu) ==
  LET status == apdu_handle_message(G_command, apdu).status
  IN  /\ status # "Success"
      /\ Received(apdu)
      /\ Answer(status, NoData)
      /\ UNCHANGED <<app, G_publicKey, G_transaction_summary, G_swap_response_ready,
                     G_swap_validated, N_storage, screen, swap_result, review,
                     swap_signatures>>

\* A chunk that is not the last one.
AcceptChunk(apdu) ==
  /\ Received(apdu)
  /\ G_command'.state = "PayloadInProgress"
  /\ Answer("Success", NoData)
  /\ UNCHANGED <<app, G_publicKey, G_transaction_summary, G_swap_response_ready,
                 G_swap_validated, N_storage, screen, swap_result, review,
                 swap_signatures>>

GetAppConfiguration(apdu) ==
  /\ Completes(apdu, "GetAppConfiguration")
  /\ Answer("Success", [kind |-> "config", allow_blind_sign |-> N_storage.allow_blind_sign])
  /\ UNCHANGED <<app, G_publicKey, G_transaction_summary, G_swap_response_ready,
                 G_swap_validated, N_storage, screen, swap_result, review,
                 swap_signatures>>

\* A handle_get_pubkey that keeps a key it already holds.
CachedPublicKey(path) ==
  G_publicKey' = IF G_publicKey = <<>> THEN path ELSE G_publicKey

\* get_public_key into the global the buttons read.
get_public_key(path) == G_publicKey' = path

\* handle_get_pubkey
GetPubkey(apdu) ==
  /\ Completes(apdu, "GetPubkey")
  /\ LET path == G_command'.derivation_path
     IN  \/ /\ path \notin Derivable
            /\ Answer("DerivationFailed", NoData)
            /\ UNCHANGED <<G_publicKey, screen, review>>
         \/ /\ path \in Derivable
            /\ G_command'.non_confirm
            /\ get_public_key(path)
            /\ Answer("Success", PublicKey(path))
            /\ UNCHANGED <<screen, review>>
         \/ /\ path \in Derivable
            /\ ~G_command'.non_confirm
            /\ get_public_key(path)
            /\ screen' = "pubkey_review"
            /\ review' = [NoReview EXCEPT !.instruction = "GetPubkey", !.path = path]
            /\ requested' = TRUE
            /\ reply' = NoReply
  /\ UNCHANGED <<app, G_transaction_summary, G_swap_response_ready, G_swap_validated,
                 N_storage, swap_result, swap_signatures>>

\* start_sign_tx_ui and start_sign_offchain_message_ui; the handler returns with
\* IO_ASYNCH_REPLY, so the APDU stays outstanding.
StartReview(command, clear) ==
  /\ screen' = "sign_review"
  /\ review' = [instruction |-> command.instruction, path |-> command.derivation_path,
                message |-> command.message, clear |-> clear]
  /\ requested' = TRUE
  /\ reply' = NoReply
  /\ UNCHANGED <<app, G_publicKey, G_swap_response_ready, G_swap_validated,
                 swap_result, swap_signatures>>

\* The handler throws: app_main reports, the command stays complete.
HandlerThrows(status) ==
  /\ Answer(status, NoData)
  /\ UNCHANGED <<app, G_publicKey, G_swap_response_ready, G_swap_validated, screen,
                 swap_result, review, swap_signatures>>

\* handle_sign_message_parse_message fails on the header or the signer.
RefuseTransactionHeader(apdu) ==
  /\ Completes(apdu, "SignMessage")
  /\ LET status == TransactionHeaderStatus(G_command')
     IN  /\ status # "Success"
         /\ HandlerThrows(status)
  /\ UNCHANGED <<G_transaction_summary, N_storage>>

\* It fails on the body, and blind signing is disabled.
RefuseTransactionBody(apdu) ==
  /\ Completes(apdu, "SignMessage")
  /\ TransactionHeaderStatus(G_command') = "Success"
  /\ LET status == TransactionBodyStatus(G_command', N_storage)
     IN  /\ status # "Success"
         /\ HandlerThrows(status)
  /\ G_transaction_summary' = TransactionSummary(G_command', N_storage)
  /\ UNCHANGED N_storage

\* A transaction has been parsed, and its summary can be finalized.
Summarized(apdu) ==
  /\ Completes(apdu, "SignMessage")
  /\ TransactionHeaderStatus(G_command') = "Success"
  /\ TransactionBodyStatus(G_command', N_storage) = "Success"

\* handle_sign_message_ui outside a swap.
ReviewTransaction(apdu) ==
  /\ app = "standalone"
  /\ Summarized(apdu)
  /\ G_transaction_summary' = TransactionSummary(G_command', N_storage)
  /\ StartReview(G_command', Body(G_command', N_storage).processed)
  /\ UNCHANGED N_storage

\* handle_sign_message_ui in a swap: no screen; the response is sent, and as it
\* is the one the Exchange app waits for, sendResponse goes on to finalize.
\* With a response ready already the app exits without signing.
AnswerSwap(apdu) ==
  /\ app = "swap"
  /\ Summarized(apdu)
  /\ LET summary == TransactionSummary(G_command', N_storage)
         valid   == check_swap_validity(Steps(summary), G_swap_validated)
     IN  IF G_swap_response_ready
         THEN ProcessEnds /\ UNCHANGED <<reply, swap_signatures>>
         ELSE /\ G_swap_response_ready' = TRUE
              /\ IF valid THEN Answer("Success", Signature(G_command'))
                          ELSE Answer("SummaryFinalizeFailed", NoData)
              /\ swap_signatures' = swap_signatures + IF valid THEN 1 ELSE 0
              /\ QuitAfterSwapResponse
              /\ G_transaction_summary' = summary
              /\ UNCHANGED <<G_publicKey, G_swap_validated, screen, review>>
  /\ UNCHANGED <<N_storage, swap_result>>

\* A finalize_exchange_sign_transaction that reports every answer as a success.
AnyAnswerIsSuccess(status) == swap_result' = "success"

\* The result sendResponse hands over, by the status it has sent.
finalize_exchange_sign_transaction(status) ==
  swap_result' = IF status = "Success" THEN "success" ELSE "failure"

\* finalize_exchange_sign_transaction: the result is written for the Exchange
\* app and the library ends.  PowerOff may come first.
FinalizeExchange ==
  /\ app = "finalizing"
  /\ finalize_exchange_sign_transaction(reply.status)
  /\ Terminated
  /\ UNCHANGED <<N_storage, reply, swap_signatures>>

\* handle_sign_offchain_message refuses the message.
RefuseOffchainMessage(apdu) ==
  /\ Completes(apdu, "SignOffchainMessage")
  /\ LET status == OffchainStatus(G_command', N_storage)
     IN  /\ status # "Success"
         /\ HandlerThrows(status)
         /\ G_transaction_summary' =
              IF status = "DerivationFailed"
              THEN [OffchainSummary(G_command', N_storage) EXCEPT
                      !.general = SubSeq(@, 1, 4)]
              ELSE G_transaction_summary
  /\ UNCHANGED N_storage

\* It is reviewed on the screen, in a swap too.
ReviewOffchainMessage(apdu) ==
  /\ Completes(apdu, "SignOffchainMessage")
  /\ OffchainStatus(G_command', N_storage) = "Success"
  /\ G_transaction_summary' = OffchainSummary(G_command', N_storage)
  /\ StartReview(G_command', OffchainText(G_command'.message) = "ascii")
  /\ UNCHANGED N_storage

-----------------------------------------------------------------------------
(* The user: the buttons of the review flows, and the menu. *)

ApprovePubkey ==
  /\ Running
  /\ screen = "pubkey_review"
  /\ SendResponse("Success", PublicKey(G_publicKey))
  /\ UNCHANGED <<N_storage, swap_signatures>>

\* set_result_sign_message signs what G_command holds now.
ApproveSignature ==
  /\ Running
  /\ screen = "sign_review"
  /\ IF G_command.derivation_path \in Derivable
     THEN SendResponse("Success", Signature(G_command))
     ELSE ThrowFromCallback("DerivationFailed")
  /\ UNCHANGED <<N_storage, swap_signatures>>

Reject ==
  /\ Running
  /\ screen \in {"pubkey_review", "sign_review"}
  /\ SendResponse("UserRefusal", NoData)
  /\ UNCHANGED <<N_storage, swap_signatures>>

\* The user walks to another step of the review, and its item cannot be formatted,
\* like a date past the year 9999.  A flow left on display without a request may
\* also have more steps than the summary has now.
ShowStep ==
  /\ Running
  /\ screen = "sign_review"
  /\ requested =>
       LET steps == Steps(G_transaction_summary)
       IN  \E i \in DOMAIN steps : ~Displayable(steps[i])
  /\ ThrowFromCallback("SummaryUpdateFailed")
  /\ UNCHANGED <<N_storage, swap_signatures>>

\* One of the two settings the handlers read is given a value.
SwitchSetting ==
  /\ \E b \in BOOLEAN :
       N_storage' \in {[N_storage EXCEPT !.allow_blind_sign = b],
                       [N_storage EXCEPT !.expert = b]}
  /\ UNCHANGED <<app, memory, screen, requested, reply, swap_result, transfer,
                 review, swap_signatures>>

\* A settings page that can be reached from a review.
ChangeSettingsAnywhere == Running /\ SwitchSetting

\* The settings are reached from the menu only.
ChangeSettings ==
  /\ Running
  /\ screen = "idle"
  /\ SwitchSetting

-----------------------------------------------------------------------------

HandleApdu(apdu) ==
  \/ RefuseApdu(apdu)
  \/ AcceptChunk(apdu)
  \/ GetAppConfiguration(apdu)
  \/ GetPubkey(apdu)
  \/ RefuseTransactionHeader(apdu)
  \/ RefuseTransactionBody(apdu)
  \/ ReviewTransaction(apdu)
  \/ AnswerSwap(apdu)
  \/ RefuseOffchainMessage(apdu)
  \/ ReviewOffchainMessage(apdu)

Decide == ApprovePubkey \/ ApproveSignature \/ Reject

Next ==
  \/ LaunchStandalone
  \/ LaunchFromExchange
  \/ FinalizeExchange
  \/ Quit
  \/ PowerOff
  \/ IoReset
  \/ \E apdu \in Apdus : HandleApdu(apdu)
  \/ ApprovePubkey
  \/ ApproveSignature
  \/ Reject
  \/ ShowStep
  \/ ChangeSettings

Spec == Init /\ [][Next]_vars

\* The user answers a review in the end.
FairSpec == Spec /\ WF_vars(Decide)

-----------------------------------------------------------------------------
(* Properties. *)

Review ==
  [instruction : {"None", "GetPubkey"} \cup SignInstructions,
   path : Seq(Byte), message : Seq(Byte), clear : BOOLEAN]

Transfer ==
  [instruction : {"None"} \cup SignInstructions, non_confirm : BOOLEAN,
   path : Seq(Byte), message : Seq(Byte), open : BOOLEAN]

\* Every variable has its type, and the message buffer never overflows: the
\* chunks of apdu_handle_message fit in G_command.message.
TypeOK ==
  /\ app \in {"dashboard", "standalone", "swap", "finalizing", "frozen"}
  /\ G_command \in Command
  /\ Len(G_command.message) <= MAX_MESSAGE_LENGTH
  /\ G_publicKey \in Seq(Byte)
  /\ G_swap_response_ready \in BOOLEAN
  /\ G_swap_validated \in SwapOffers \cup {NoOffer}
  /\ N_storage \in [initialized : BOOLEAN, allow_blind_sign : BOOLEAN, expert : BOOLEAN]
  /\ screen \in {"none", "idle", "pubkey_review", "sign_review"}
  /\ requested \in BOOLEAN
  /\ swap_result \in {"none", "success", "failure"}
  /\ transfer \in Transfer
  /\ review \in Review
  /\ swap_signatures \in Nat

IsSignCommand(command) ==
  command.state # "Uninitialized" /\ command.instruction \in SignInstructions

\* The command assembled for signing is exactly what the host transferred, in
\* one uninterrupted run of accepted chunks of one instruction and one P1: no
\* chunk of another command, of a refused one or of an earlier session is in it.
TransferIntegrity ==
  IsSignCommand(G_command) =>
    transfer = [instruction |-> G_command.instruction,
                non_confirm |-> G_command.non_confirm,
                path |-> G_command.derivation_path,
                message |-> G_command.message,
                open |-> G_command.state = "PayloadInProgress"]

\* While an APDU waits for the user, the flow on display was built from the very
\* command that a button will act on: the items are read from G_command.message
\* only when a step is shown, the key and the signature only when a button is
\* pressed.  A transaction is under review by one of its signers only.
ReviewIsOfCommand ==
  requested =>
    /\ Running
    /\ G_command.state = "PayloadComplete"
    /\ ~G_command.non_confirm
    /\ review.instruction = G_command.instruction
    /\ review.path = G_command.derivation_path
    /\ IF G_command.instruction = "GetPubkey"
       THEN screen = "pubkey_review" /\ G_publicKey = review.path
       ELSE /\ G_command.instruction \in SignInstructions
            /\ screen = "sign_review"
            /\ review.message = G_command.message
    /\ G_command.instruction = "SignMessage" =>
         G_command.derivation_path \in MessageHeader(G_command.message).signers

\* The steps of a pending review are those the handler computes from the command
\* under the settings as they stand now: they have not been switched behind it.
SummaryIsOfCommand ==
  requested =>
    CASE G_command.instruction = "SignMessage" ->
           G_transaction_summary = TransactionSummary(G_command, N_storage)
      [] G_command.instruction = "SignOffchainMessage" ->
           G_transaction_summary = OffchainSummary(G_command, N_storage)
      [] OTHER -> TRUE

\* What cannot be shown in clear is put to the user only while blind signing is
\* enabled, and a transaction never during a swap.
BlindSigningIsEnabled ==
  requested /\ ~review.clear =>
    /\ N_storage.allow_blind_sign
    /\ review.instruction = "SignMessage" => app = "standalone"

IsSignature(data) == data.kind = "signature"

\* A signature goes out only for a confirmed, completed transfer, over all of its
\* bytes and under its path, a transaction's only by one of its signers; and either
\* the user has pressed Approve on a review of those bytes, or a swap transaction is
\* answered without any screen.
SignatureAuthorized ==
  IsSignature(reply'.data) /\ reply' # reply =>
    /\ ~transfer'.open /\ ~transfer'.non_confirm
    /\ reply'.data.path = transfer'.path
    /\ reply'.data.message = transfer'.message
    /\ transfer'.instruction = "SignMessage" =>
         reply'.data.path \in MessageHeader(reply'.data.message).signers
    /\ \/ /\ requested /\ screen = "sign_review"
          /\ review.path = reply'.data.path
          /\ review.message = reply'.data.message
       \/ /\ app = "swap" /\ transfer'.instruction = "SignMessage"
          /\ swap_signatures' = swap_signatures + 1

SignatureIsAuthorized == [][SignatureAuthorized]_vars

\* The transaction the bytes of a message encode: a recognised transfer of the
\* agreed amount to the agreed recipient and nothing else.
Pays(message, path, offer) ==
  LET body  == MessageBody(message, path, FALSE)
      steps == body.primary \o body.general \o body.nonce
  IN  /\ body.processed
      /\ Len(steps) = 2
      /\ {steps[1], steps[2]} = {Item("Amount", "Transfer", offer.amount),
                                 Item("Pubkey", "Recipient", offer.recipient)}

\* A swap signs only the transfer agreed on in the Exchange app, and never blindly.
SwapSignsOnlyTheOffer ==
  [][swap_signatures' > swap_signatures =>
       Pays(reply'.data.message, reply'.data.path, G_swap_validated)]_vars

\* A launch from Exchange signs one transaction at most, and success is reported
\* for it only if a signature has been sent.  The safety against signing twice
\* "should never be triggered" (handle_sign_message.c:128-130), and is not: once a
\* response is ready, the app is on its way out and takes no APDU.
SwapSignsOnce ==
  /\ swap_signatures <= 1
  /\ swap_result = "success" => swap_signatures = 1
  /\ G_swap_response_ready => app = "finalizing"

\* Every APDU is answered in the end: a review is left by a button or by a reset.
RequestsAreAnswered == requested ~> ~requested

\* src/src/io.c:125-126: in swap mode the app quits once one transaction request
\* has been processed, with success or failure.
SwapQuitsAfterTransaction ==
  ~ /\ app = "swap"
    /\ G_command.state = "PayloadComplete"
    /\ G_command.instruction = "SignMessage"

-----------------------------------------------------------------------------
(* The promise kept: what the state of the app means to the host and user. *)

ItemOf(command) ==
  [instruction |-> command.instruction, path |-> command.derivation_path,
   message |-> command.message]
NoItem == [instruction |-> "None", path |-> <<>>, message |-> <<>>]

Contract == INSTANCE SigningDevice WITH
  Instruction <- SignInstructions,
  Transaction <- "SignMessage",
  Chunks      <- {Payload(apdu) : apdu \in Apdus},
  Offers      <- SwapOffers,
  Honours     <- Pays,
  assembled   <- IF /\ Running
                    /\ G_command.state = "PayloadInProgress"
                    /\ G_command.instruction \in SignInstructions
                 THEN ItemOf(G_command) ELSE NoItem,
  presented   <- IF requested /\ review.instruction \in SignInstructions
                 THEN [instruction |-> review.instruction, path |-> review.path,
                       message |-> review.message]
                 ELSE NoItem,
  signed      <- IF IsSignature(reply.data)
                 THEN [path |-> reply.data.path, message |-> reply.data.message]
                 ELSE [path |-> <<>>, message |-> <<>>],
  offer       <- IF app = "swap" /\ ~G_swap_response_ready
                 THEN G_swap_validated ELSE NoOffer

\* The app is a SigningDevice: however chunks, refusals, resets and buttons
\* interleave, what is signed is what was received in order and reviewed, and an
\* offer of the Exchange app is good for one signature of a transfer it describes.
ImplementsSigningDevice == Contract!Spec
=============================================================================
