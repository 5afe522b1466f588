--------------------------- MODULE SignHandlers ---------------------------
(***************************************************************************)
(* What the signing handlers decide about a complete command, before any   *)
(* screen is shown: src/src/handle_sign_message.c and                      *)
(* src/src/handle_sign_offchain_message.c.                                 *)
(*                                                                         *)
(* The parsers of librenec are parameters: what they find in a message.    *)
(* A public key is named by the derivation path it is derived from.        *)
(***************************************************************************)
EXTENDS Apdu, SummaryItems

CONSTANTS
  Derivable,             \* paths BOLOS derives for the app (prefix 44'/501')
  MessageHeader(_),      \* parse_message_header: [parsed, signers, fee_payer]
  MessageBody(_, _, _),  \* process_message_body of (message, signer, expert):
                         \*   [processed, primary, general, nonce]
  OffchainHeader(_),     \* parse_offchain_message_header:
                         \*   [parsed, version, format, length]
  OffchainText(_),       \* "ascii", "utf8" or "binary": the text after the header
  OFFCHAIN_MESSAGE_HEADER_LENGTH,
  MAX_OFFCHAIN_MESSAGE_LENGTH

\* The messages that fit in the buffer.
Message == UNION {[1..n -> Byte] : n \in 0..MAX_MESSAGE_LENGTH}

AreItems(items) ==
  /\ Len(items) \in Nat
  /\ items = [i \in 1..Len(items) |-> Item(items[i].kind, items[i].title, items[i].value)]

\* The print functions set items of the summary, the primary one exactly when they
\* succeed, so that transaction_summary_finalize never fails on a transaction.
ASSUME SignAssumption ==
  \A message \in Message, path \in Derivable, expert \in BOOLEAN :
    LET body == MessageBody(message, path, expert)
    IN  /\ body.processed \in BOOLEAN
        /\ body.processed <=> body.primary # <<>>
        /\ AreItems(body.primary) /\ AreItems(body.general) /\ AreItems(body.nonce)

\* A TransactionSummary: each part is the sequence of its used items.
EmptySummary == [primary |-> <<>>, general |-> <<>>, nonce |-> <<>>, fee_payer |-> <<>>]

\* The steps of the review, in the order of transaction_summary_finalize.
Steps(summary) ==
  summary.primary \o summary.general \o summary.nonce \o summary.fee_payer

-----------------------------------------------------------------------------
(* Transactions. *)

\* TransactionHeaderStatus without scan_header_for_signer.
AnySignerHeaderStatus(command) ==
  IF ~MessageHeader(command.message).parsed THEN "InvalidMessage"
  ELSE IF command.derivation_path \notin Derivable THEN "DerivationFailed"
  ELSE IF command.non_confirm THEN "SdkNotSupported"
  ELSE "Success"

\* handle_sign_message_parse_message up to the summary: a derivation BOLOS
\* refuses throws inside scan_header_for_signer.
TransactionHeaderStatus(command) ==
  LET header == MessageHeader(command.message)
  IN  IF ~header.parsed THEN "InvalidMessage"
      ELSE IF command.derivation_path \notin Derivable THEN "DerivationFailed"
      ELSE IF command.derivation_path \notin header.signers THEN "InvalidMessageHeader"
      ELSE IF command.non_confirm THEN "SdkNotSupported"
      ELSE "Success"

Body(command, settings) ==
  MessageBody(command.message, command.derivation_path, settings.expert)

\* TransactionBodyStatus without the setting.
AlwaysBlindBodyStatus(command, settings) == "Success"

\* The transaction can be shown: recognised, or blind signing is enabled.
TransactionBodyStatus(command, settings) ==
  IF Body(command, settings).processed \/ settings.allow_blind_sign
  THEN "Success" ELSE "SdkNotSupported"

TransactionSummary(command, settings) ==
  LET body  == Body(command, settings)
      payer == MessageHeader(command.message).fee_payer
      blind == ~body.processed /\ settings.allow_blind_sign
  IN  [primary   |-> IF blind THEN <<Item("String", "Unrecognized", <<>>)>>
                     ELSE body.primary,
       general   |-> IF blind
                     THEN Append(body.general, Item("Hash", "Message Hash", command.message))
                     ELSE body.general,
       nonce     |-> body.nonce,
       fee_payer |-> IF /\ TransactionBodyStatus(command, settings) = "Success"
                        /\ settings.expert \/ payer # command.derivation_path
                     THEN <<Item("Pubkey", "Fee payer", payer)>>
                     ELSE <<>>]

-----------------------------------------------------------------------------
(* Off-chain messages. *)

OffchainStatus(command, settings) ==
  LET header == OffchainHeader(command.message)
      text   == OffchainText(command.message)
  IN  IF command.non_confirm THEN "SdkNotSupported"
      ELSE IF ~header.parsed THEN "InvalidMessageHeader"
      ELSE IF \/ header.version # 0
              \/ header.format > 1
              \/ header.length > MAX_OFFCHAIN_MESSAGE_LENGTH
              \/ header.length + OFFCHAIN_MESSAGE_HEADER_LENGTH # Len(command.message)
           THEN "InvalidMessageHeader"
      ELSE IF text # "ascii" /\ (text # "utf8" \/ header.format = 0)
           THEN "InvalidMessageFormat"
      ELSE IF text # "ascii" /\ ~settings.allow_blind_sign THEN "SdkNotSupported"
      \* expert mode shows the signer's key, which BOLOS may refuse to derive
      ELSE IF settings.expert /\ command.derivation_path \notin Derivable
           THEN "DerivationFailed"
      ELSE "Success"

OffchainSummary(command, settings) ==
  LET header == OffchainHeader(command.message)
      hash   == Item("Hash", "Hash", command.message)
  IN  [EmptySummary EXCEPT
         !.primary = <<Item("String", "Sign", <<>>)>>,
         !.general =
           IF settings.expert
           THEN <<Item("U64", "Version", header.version), Item("U64", "Format", header.format),
                  Item("U64", "Size", header.length), hash,
                  Item("Pubkey", "Signer", command.derivation_path)>>
           ELSE IF OffchainText(command.message) # "ascii" THEN <<hash>> ELSE <<>>]
=============================================================================
