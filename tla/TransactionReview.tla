------------------------- MODULE TransactionReview -------------------------
(***************************************************************************)
(* From the instructions of a transaction to the steps on the screen: the  *)
(* part of src/src/handle_sign_message.c that has the body processed,      *)
(* fills the summary, one item after the other, falls back to blind        *)
(* signing, adds the fee payer, finalizes, and then displays whatever step *)
(* the user walks to.                                                      *)
(***************************************************************************)
EXTENDS TransactionPrinters, TransactionSummary

CONSTANTS
  Messages,   \* the transactions: [instructions, well_formed, fee_payer]
  Signer      \* the key that signs

\* The instructions of a transaction, their accounts and their data are in an order.
IsSequence(s) == Len(s) \in Nat /\ DOMAIN s = 1..Len(s)
IsTransaction(transaction) ==
  /\ IsSequence(transaction.instructions)
  /\ \A i \in DOMAIN transaction.instructions :
       /\ IsSequence(transaction.instructions[i].accounts)
       /\ IsSequence(transaction.instructions[i].data)
ASSUME MessagesAssumption == \A transaction \in Messages : IsTransaction(transaction)

VARIABLES
  message,
  settings,   \* [expert, allow_blind_sign]
  phase,      \* how far the handler has come
  pending,    \* the items the print functions have still to put in the summary
  summary,
  kinds,      \* summary_step_kinds
  shown       \* the last step displayed, [index, item]

vars == <<message, settings, phase, pending, summary, kinds, shown>>

print_config == [expert |-> settings.expert, signer |-> Signer]
NotShown == [index |-> -1, item |-> Unused]

\* What is printed of a transaction that is not recognised, and of the payer of one
\* whom the user does not know.
Unrecognized(transaction) ==
  Primary("String", "Unrecognized", "format") \o General("Hash", "Message_Hash", transaction)
FeePayer(transaction, config) ==
  When(print_config_show_authority(config, transaction.fee_payer),
       PrintTo("fee_payer", "Pubkey", "Fee_payer", transaction.fee_payer))

\* The handler, its summary reset, calls process_message_body.
Init ==
  /\ message \in Messages
  /\ settings \in [expert : BOOLEAN, allow_blind_sign : BOOLEAN]
  /\ phase = "printing"
  /\ pending = process_message_body(message, print_config).items
  /\ summary = ResetSummary
  /\ kinds = <<>>
  /\ shown = NotShown

\* The next item gets a slot; a NULL slot is written through all the same, and
\* what happens then is undefined.
PutItem ==
  /\ pending # <<>>
  /\ phase \in {"printing", "unrecognized", "payer"}
  /\ LET slot == Head(pending).slot
     IN  IF IsAvailable(summary, slot)
         THEN /\ summary' = SetItem(summary, slot, Head(pending).item)
              /\ pending' = Tail(pending)
              /\ UNCHANGED phase
         ELSE /\ phase' = "undefined"
              /\ UNCHANGED <<summary, pending>>
  /\ UNCHANGED <<message, settings, kinds, shown>>

\* process_message_body fails and blind signing is enabled.
FallBack ==
  /\ phase = "printing"
  /\ pending = <<>>
  /\ ~process_message_body(message, print_config).printed
  /\ settings.allow_blind_sign
  /\ phase' = "unrecognized"
  /\ pending' = Unrecognized(message)
  /\ UNCHANGED <<message, settings, summary, kinds, shown>>

\* It fails and blind signing is disabled.
Refuse ==
  /\ phase = "printing"
  /\ pending = <<>>
  /\ ~process_message_body(message, print_config).printed
  /\ ~settings.allow_blind_sign
  /\ phase' = "refused"
  /\ UNCHANGED <<message, settings, pending, summary, kinds, shown>>

\* transaction_summary_set_fee_payer_pubkey.
AddFeePayer ==
  /\ pending = <<>>
  /\ \/ phase = "printing" /\ process_message_body(message, print_config).printed
     \/ phase = "unrecognized"
  /\ phase' = "payer"
  /\ pending' = FeePayer(message, print_config)
  /\ UNCHANGED <<message, settings, summary, kinds, shown>>

\* handle_sign_message_ui opens the flow with as many steps as there are kinds.
Finalize ==
  /\ phase = "payer"
  /\ pending = <<>>
  /\ LET finalized == transaction_summary_finalize(summary)
     IN  IF finalized.ok
         THEN phase' = "review" /\ kinds' = finalized.kinds
         ELSE phase' = "refused" /\ UNCHANGED kinds
  /\ UNCHANGED <<message, settings, pending, summary, shown>>

\* ux_summary_step: the flow starts at step 0, and the user goes to and fro.
DisplayItem(index) ==
  /\ phase = "review"
  /\ index \in 0..(Len(kinds) - 1)
  /\ IF shown = NotShown THEN index = 0 ELSE index \in {shown.index - 1, shown.index + 1}
  /\ shown' = [index |-> index, item |-> transaction_summary_find_item(summary, index)]
  /\ UNCHANGED <<message, settings, phase, pending, summary, kinds>>

Next ==
  \/ PutItem
  \/ FallBack
  \/ Refuse
  \/ AddFeePayer
  \/ Finalize
  \/ \E index \in 0..(NUM_GENERAL_ITEMS + 3) : DisplayItem(index)

Spec == Init /\ [][Next]_vars

-----------------------------------------------------------------------------
(* Properties. *)

CONSTANTS
  SwapOffers,     \* offers of the Exchange app to compare the steps with
  Alternatives    \* transactions to compare a transaction's review with

ASSUME AlternativesAssumption == \A transaction \in Alternatives : IsTransaction(transaction)

Processed == process_message_body(message, print_config).printed
Steps == FinalizedItems(summary)

\* The instructions the user is told about: no memo, no nonce advanced before others.
HasNonce(infos) == Len(infos) > 1 /\ is_advance_nonce_account(infos[1])
WithoutNonce(infos) == IF HasNonce(infos) THEN Tail(infos) ELSE infos
Told == WithoutNonce(Displayed(Infos(message)))

\* Every variable that changes has its type.
TypeOK ==
  /\ settings \in [expert : BOOLEAN, allow_blind_sign : BOOLEAN]
  /\ phase \in {"printing", "unrecognized", "payer", "review", "refused", "undefined"}
  /\ \A i \in DOMAIN pending : pending[i].slot \in SpecialSlots \cup {"general"}
  /\ DOMAIN summary = SpecialSlots \cup {"general"}
  /\ DOMAIN summary.general = 1..NUM_GENERAL_ITEMS
  /\ Len(kinds) <= NUM_GENERAL_ITEMS + 4
  /\ \A i \in DOMAIN kinds : kinds[i] \in ItemKinds
  /\ shown.index \in -1..(Len(kinds) - 1)

\* No item of any transaction is written through a NULL pointer: the eleven
\* general items of transaction_summary.h:22 suffice for every combination of
\* instructions the printers recognise, and no special item is set twice, not even
\* by the blind review that follows a printer's failure.
ItemsHaveSlots == phase # "undefined"

\* Every step the user can walk to has an item, of the kind it was announced with:
\* transaction_summary_finalize and transaction_summary_find_item walk the slots
\* separately and agree.
StepsAreDisplayable ==
  shown # NotShown =>
    Used(shown.item) /\ shown.item.kind = kinds[shown.index + 1]

\* A blind review shows the hash and nothing of what a printer made of it before it
\* gave up, save the nonce: no half of a transaction is presented as the whole.
BlindReviewIsBare ==
  phase = "review" /\ ~Processed =>
    /\ summary.primary.title = "Unrecognized"
    /\ {summary.general[i] : i \in 1..NUM_GENERAL_ITEMS} \ {Unused} =
         {Item("Hash", "Message_Hash", message)}

\* transaction_summary_finalize does not fail on a transaction, so that the only
\* refusal here is the one for want of blind signing: a printer that succeeds has
\* set the primary item.
OnlyBlindSigningRefuses ==
  phase = "refused" => ~Processed /\ ~settings.allow_blind_sign

\* Expert mode adds steps to those of user mode and takes none away, in one order.
ExpertsSeeMore ==
  phase = "review" =>
    LET items(expert) == process_message_body(message, [print_config EXCEPT !.expert = expert]).items
        user == items(FALSE)
        all  == items(TRUE)
    IN  user = Kept(all, {i \in DOMAIN all : \E j \in DOMAIN user : user[j] = all[i]})

AmountFields == {"lamports", "amount"}
AmountsOf(info) == {info[field] : field \in AmountFields \cap DOMAIN info}
ShowsAmount(amount) ==
  \E i \in DOMAIN Steps :
    \/ Steps[i].kind = "Amount" /\ Steps[i].value = amount
    \/ Steps[i].kind = "TokenAmount" /\ Steps[i].value.amount = amount

\* A new account a stake is split into.
SplitInto(infos) ==
  /\ Len(infos) = 2
  /\ infos[1].program = "System" /\ infos[1].kind \in Creates
  /\ infos[2].program = "Stake" /\ infos[2].kind = "Split"

\* Whatever a recognised transaction moves, lamports or tokens, is a step of its
\* review, in whichever of its instructions the amount stands; the lamports of an
\* account a stake is split into are the exception.
AmountsAreShown ==
  phase = "review" /\ Processed =>
    \A i \in DOMAIN Told :
      \A amount \in AmountsOf(Told[i]) :
        ShowsAmount(amount) \/ (SplitInto(Told) /\ i = 1)

AuthorityFields == {"authority", "authorized_pubkey"}
ActingKeys(info) ==
  IF "from" \in DOMAIN info THEN {info.from}
  ELSE IF info.program = "Stake" /\ info.kind \in {"SetLockup", "SetLockupChecked"}
  THEN {info.custodian}
  ELSE IF info.program \in {"System", "Stake"} /\ info.kind \in
            {"InitializeNonceAccount", "Initialize", "InitializeChecked"} THEN {}
  ELSE {info[field] : field \in AuthorityFields \cap DOMAIN info} \cup
       (IF "sign" \in DOMAIN info THEN {info.sign.account} ELSE {})

\* Who funds an account that a stake is split into is not shown, nor the first of two
\* authorities that are replaced together.
ActsUnseen(infos, i) ==
  i = 1 /\ (SplitInto(infos) \/ is_stake_authorize_both(infos) \/ is_vote_authorize_both(infos))

\* Every key under whose authority an instruction of a recognised transaction acts is a
\* step of its review, unless it is the user's own: but for the two exceptions above,
\* and for a nonce advanced first, whose authority only experts see.
ForeignAuthorityIsShown ==
  phase = "review" /\ Processed =>
    \A i \in DOMAIN Told :
      \A key \in ActingKeys(Told[i]) \ {Signer} :
        \/ ActsUnseen(Told, i)
        \/ \E k \in DOMAIN Steps : Steps[k].kind = "Pubkey" /\ Steps[k].value = key

\* The instructions of a transaction that are more than a memo or a nonce.
Moves(instruction) ==
  instruction.program # "RplMemo" /\ instruction.kind # "AdvanceNonceAccount"
MovesOf(transaction) ==
  Kept(transaction.instructions, {i \in DOMAIN transaction.instructions :
                                    Moves(transaction.instructions[i])})

\* Two steps that agree with an offer of the Exchange app come from one transaction
\* only: a lone transfer of the agreed amount to the agreed recipient, from the
\* signer, who pays the fee; a memo, or in user mode a nonce, may go along with it.
SwapStepsAreATransfer ==
  phase = "review" =>
    \A offer \in SwapOffers :
      check_swap_validity(Steps, offer) =>
        LET moves == MovesOf(message)
        IN  /\ Len(moves) = 1
            /\ moves[1].program = "System" /\ moves[1].kind = "Transfer"
            /\ SubSeq(moves[1].accounts, 1, 2) = <<Signer, offer.recipient>>
            /\ moves[1].data[1] = offer.amount
            /\ message.fee_payer = Signer

\* The fewest accounts and fields that an instruction of a kind has in the transactions
\* of the tests (message_test.c and those of each program), without its optional ones.
LeastLengths ==
  [System |->
     [CreateAccount |-> <<2, 3>>, CreateAccountWithSeed |-> <<2, 5>>, Transfer |-> <<2, 1>>,
      Allocate |-> <<1, 1>>, AllocateWithSeed |-> <<2, 4>>, Assign |-> <<1, 1>>,
      AdvanceNonceAccount |-> <<3, 0>>, InitializeNonceAccount |-> <<3, 1>>,
      WithdrawNonceAccount |-> <<5, 1>>, AuthorizeNonceAccount |-> <<2, 1>>],
   Stake |->
     [Initialize |-> <<2, 5>>, InitializeChecked |-> <<4, 0>>, Delegate |-> <<6, 0>>,
      Split |-> <<3, 1>>, Merge |-> <<5, 0>>, Withdraw |-> <<5, 1>>, Deactivate |-> <<3, 0>>,
      Authorize |-> <<3, 2>>, AuthorizeChecked |-> <<4, 1>>,
      SetLockup |-> <<2, 3>>, SetLockupChecked |-> <<2, 2>>],
   Vote |->
     [Initialize |-> <<3, 4>>, Withdraw |-> <<3, 1>>, Authorize |-> <<3, 2>>,
      AuthorizeChecked |-> <<4, 1>>, UpdateValidatorId |-> <<3, 0>>,
      UpdateCommission |-> <<2, 1>>],
   RplToken |->
     [InitializeMint |-> <<2, 3>>, InitializeAccount |-> <<4, 0>>,
      InitializeAccount2 |-> <<3, 1>>, InitializeMultisig |-> <<3, 1>>,
      TransferChecked |-> <<4, 2>>, ApproveChecked |-> <<4, 2>>, MintToChecked |-> <<3, 2>>,
      BurnChecked |-> <<3, 2>>, Revoke |-> <<2, 0>>, SetAuthority |-> <<2, 2>>,
      CloseAccount |-> <<3, 0>>, FreezeAccount |-> <<3, 0>>, ThawAccount |-> <<3, 0>>,
      SyncNative |-> <<1, 0>>]]
HasLengths(instruction, least) ==
  Len(instruction.accounts) >= least[1] /\ Len(instruction.data) >= least[2]

\* A memo has neither, and an associated account has no kinds.
IsUncut(instruction) ==
  CASE instruction.program = "RplMemo" -> TRUE
    [] instruction.program = "RplAssociatedTokenAccount" -> HasLengths(instruction, <<6, 0>>)
    [] OTHER -> /\ instruction.program \in DOMAIN LeastLengths
                /\ instruction.kind \in DOMAIN LeastLengths[instruction.program]
                /\ HasLengths(instruction, LeastLengths[instruction.program][instruction.kind])

\* The data of a creation ends in the space and the owner program of the new account.
\* Its parser stops behind the lamports: one that is cut there has all the same an info.
ToLamports == [CreateAccount |-> <<2, 1>>, CreateAccountWithSeed |-> <<2, 3>>]
IsCreationToLamports(instruction) ==
  /\ instruction.program = "System" /\ instruction.kind \in DOMAIN ToLamports
  /\ HasLengths(instruction, ToLamports[instruction.kind])

\* No instruction that is cut short, in its accounts or its data, is reviewed as if
\* it were whole: a recognised one has all that the tests' instructions of its kind
\* have.  Creations are the exception, and the only one: they have all but, it may be,
\* the space and the owner program, which system_instruction.c:51-82 never reads.
RecognisedIsComplete ==
  phase = "review" /\ Processed =>
    \A i \in DOMAIN message.instructions :
      IsUncut(message.instructions[i]) \/ IsCreationToLamports(message.instructions[i])

\* The numbers of signers on the screen are those of the accounts that sign, counted
\* modulo 256, the range of the iterator; a threshold nobody can reach has no step.
Shows(kind, title, value) == \E i \in DOMAIN Steps : Steps[i] = Item(kind, title, value)
SignersAreCounted ==
  phase = "review" /\ Processed =>
    \A i \in {i \in DOMAIN message.instructions :
               message.instructions[i].program = "RplToken"} :
      LET instruction == message.instructions[i]
          After(n) == (Len(instruction.accounts) % 256) - n
      IN  CASE instruction.kind = "InitializeMultisig" ->
                 instruction.data[1] <= After(2) <=>
                   Shows("String", "Required_signers", <<instruction.data[1], After(2)>>)
            [] instruction.kind \in DOMAIN TokenSignedLayouts ->
                 LET signers == After(Len(TokenSignedLayouts[instruction.kind].accounts) + 1)
                 IN  signers > 0 => Shows("U64", "Signers", signers)
            [] OTHER -> TRUE

-----------------------------------------------------------------------------
(* What a review tells experts, and what it does not. *)

\* Fields of instructions reviewed together that have no step, with their places:
\* that the instructions are about one account is taken for granted.
Untold(infos) ==
  CASE Len(infos) = 1 -> {<<1, "program_id">> : info \in
         {info \in {infos[1]} : info.program = "System" /\ info.kind = "AllocateWithSeed"}}
    [] is_create_stake_account(infos) \/ is_create_nonce_account(infos)
         \/ is_create_vote_account(infos) -> {<<2, "account">>}
    [] is_create_stake_account_and_delegate(infos) -> {<<2, "account">>, <<3, "stake_pubkey">>}
    [] is_stake_authorize_both(infos) \/ is_vote_authorize_both(infos) ->
         {<<1, "authority">>, <<1, "custodian">>, <<2, "account">>}
    [] is_stake_split_with_seed(infos) ->
         {1} \X {"kind", "from", "to", "lamports", "account", "space", "program_id"}
    [] is_rpl_token_create_mint(infos) \/ is_rpl_token_create_account(infos)
         \/ is_rpl_token_create_multisig(infos) -> {<<1, "to">>}
    [] OTHER -> {}

\* The account a stake is split into comes into being without a step.
Reviewed(infos) ==
  IF is_stake_split_v1_1(infos) \/ is_stake_split_v1_2(infos) THEN <<infos[Len(infos)]>>
  ELSE infos

\* Kinds that are titled alike, and values that stand for each other on the screen:
\* mints without a symbol, parts of a lockup that lock nothing, thresholds without a
\* text.  An instruction for an associated account has no kind.
Alike == [InitializeChecked |-> "Initialize", AuthorizeChecked |-> "Authorize",
          SetLockupChecked |-> "SetLockup", InitializeAccount2 |-> "InitializeAccount"]
ShownKind(info) ==
  IF info.program = "RplAssociatedTokenAccount" THEN "Create"
  ELSE IF info.kind \in DOMAIN Alike THEN Alike[info.kind] ELSE info.kind
ShownLockup(lockup) ==
  LET Positive(part) == IF part > 0 THEN part ELSE 0
  IN  IF lockup.unix_timestamp > 0 \/ lockup.epoch > 0
      THEN [unix_timestamp |-> Positive(lockup.unix_timestamp),
            epoch          |-> Positive(lockup.epoch),
            custodian      |-> lockup.custodian]
      ELSE ZeroLockup
Shown(info, field) ==
  CASE field = "kind" -> ShownKind(info)
    [] field = "mint_account"
         /\ info.kind \in {"TransferChecked", "ApproveChecked", "BurnChecked"} ->
         get_token_symbol(info.mint_account)
    [] field = "lockup" /\ info.kind \in {"Initialize", "InitializeChecked"} ->
         ShownLockup(info.lockup)
    [] field \in {"m", "count"} /\ ~(info.m <= info.count) -> 0
    [] OTHER -> info[field]
Meaning(infos) ==
  LET untold == Untold(infos)
  IN  [i \in DOMAIN infos |->
         [field \in {field \in DOMAIN infos[i] : <<i, field>> \notin untold} |->
            Shown(infos[i], field)]]

\* The steps of a transaction for experts, in their order, and what they mean.
Expert == [expert |-> TRUE, signer |-> Signer]
InOrder(items) ==
  LET In(slot) == Kept(items, {i \in DOMAIN items : items[i].slot = slot})
  IN  In("primary") \o In("general") \o In("nonce_account") \o In("nonce_authority")
ItemsOf(put) == [i \in DOMAIN put |-> put[i].item]
ExpertSteps(transaction) ==
  Append(ItemsOf(InOrder(process_message_body(transaction, Expert).items)),
         Item("Pubkey", "Fee_payer", transaction.fee_payer))
MeaningWithNonce(infos) ==
  <<IF HasNonce(infos) THEN <<infos[1]>> ELSE <<>>, Meaning(Reviewed(WithoutNonce(infos)))>>
ExpertMeaning(transaction) ==
  Append(MeaningWithNonce(Displayed(Infos(transaction))), transaction.fee_payer)
Recognised == {[steps |-> ExpertSteps(transaction), meaning |-> ExpertMeaning(transaction)] :
                 transaction \in {transaction \in Alternatives :
                                    process_message_body(transaction, Expert).printed}}
RecognisedAs == [primary \in {review.steps[1] : review \in Recognised} |->
                   {review \in Recognised : review.steps[1] = primary}]

\* Two recognised transactions that experts see alike mean the same: every key, every
\* amount and every option the parsers read has a step, or is listed above.
ReviewTellsApart ==
  (/\ phase = "review" /\ Processed /\ settings.expert /\ shown = NotShown
   /\ Steps[1] \in DOMAIN RecognisedAs) =>
      \A review \in RecognisedAs[Steps[1]] :
        review.steps = Steps => review.meaning = ExpertMeaning(message)

-----------------------------------------------------------------------------
(* What the source says and the code does not do. *)

\* transaction_summary.h:13-20: the fee payer is a required item, and without it
\* "finalization will fail".
FeePayerIsRequired == phase = "review" => Used(summary.fee_payer)

\* transaction_printers.c:583: a created account that a stake is split into "is
\* issued with zero lamports in this case".
SplitAccountIsUnfunded ==
  /\ phase = "review" /\ Processed
  /\ SplitInto(Told) /\ Told[1].kind = "CreateAccount"
  => Told[1].lamports = 0
=============================================================================
