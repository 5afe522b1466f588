------------------------ MODULE TransactionPrinters ------------------------
(***************************************************************************)
(* What librenec makes of the instructions of a transaction: the dispatch  *)
(* of src/librenec/message.c and transaction_printers.c, and the print     *)
(* functions of every program it knows.                                    *)
(*                                                                         *)
(* A print function is the sequence of the items it puts in the summary,   *)
(* each with the slot it asks for; it prints the info that a parser of     *)
(* InstructionParsers has made of an instruction.  A title is written with *)
(* an underscore for every blank.                                          *)
(***************************************************************************)
EXTENDS SummaryItems, InstructionParsers, Filters

MAX_INSTRUCTIONS == 4

\* The title of a print function that may be NULL.
NoTitle == "no_title"

PrintTo(slot, kind, title, value) == <<[slot |-> slot, item |-> Item(kind, title, value)]>>
Primary(kind, title, value) == PrintTo("primary", kind, title, value)
General(kind, title, value) == PrintTo("general", kind, title, value)
Pubkey(title, key) == General("Pubkey", title, key)
OptionalPrimary(title, key) == IF title = NoTitle THEN <<>> ELSE Primary("Pubkey", title, key)

When(condition, items) == IF condition THEN items ELSE <<>>

\* The flag of expert mode tested the wrong way round.
ShowAuthorityInUserMode(config, key) == ~config.expert \/ key # config.signer

\* The user knows the key that signs: it is shown to experts only.
print_config_show_authority(config, key) == config.expert \/ key # config.signer
Authority(config, title, key) ==
  When(print_config_show_authority(config, key), Pubkey(title, key))

-----------------------------------------------------------------------------
(* System program. *)

\* The account of a seed is explained to experts.
Seeded(info, config) ==
  When(config.expert, Pubkey("Base", info.base) \o General("SizedString", "Seed", info.seed))

print_system_create_account_info(title, info, config) ==
  OptionalPrimary(title, info.to) \o
  General("Amount", "Deposit", info.lamports) \o
  Authority(config, "From", info.from)

print_system_create_account_with_seed_info(title, info, config) ==
  print_system_create_account_info(title, info, config) \o Seeded(info, config)

print_system_initialize_nonce_info(title, info) ==
  OptionalPrimary(title, info.account) \o Pubkey("New_authority", info.authority)

print_system_info(info, config) ==
  LET authorized == Authority(config, "Authorized_by", info.authority)
  IN CASE info.kind = "Transfer" ->
            Primary("Amount", "Transfer", info.lamports) \o
            Authority(config, "Sender", info.from) \o
            Pubkey("Recipient", info.to)
       [] info.kind = "AdvanceNonceAccount" ->
            Primary("Pubkey", "Advance_nonce", info.account) \o authorized
       [] info.kind = "CreateAccount" ->
            print_system_create_account_info("Create_account", info, config)
       [] info.kind = "CreateAccountWithSeed" ->
            print_system_create_account_with_seed_info("Create_account", info, config)
       [] info.kind = "InitializeNonceAccount" ->
            print_system_initialize_nonce_info("Init_nonce_acct", info)
       [] info.kind = "WithdrawNonceAccount" ->
            Primary("Amount", "Nonce_withdraw", info.lamports) \o
            Pubkey("From", info.account) \o Pubkey("To", info.to) \o authorized
       [] info.kind = "AuthorizeNonceAccount" ->
            Primary("Pubkey", "Set_nonce_auth", info.account) \o
            Pubkey("New_authority", info.new_authority) \o authorized
       [] info.kind = "Assign" ->
            Primary("Pubkey", "Assign_acct", info.account) \o
            Pubkey("To_program", info.program_id)
       [] info.kind = "Allocate" ->
            Primary("Pubkey", "Allocate_acct", info.account) \o
            General("U64", "Data_size", info.space)
       [] info.kind = "AllocateWithSeed" ->
            Primary("Pubkey", "Allocate_acct", info.account) \o
            General("U64", "Data_size", info.space) \o Seeded(info, config)

\* print_system_nonced_transaction_sentinel
Sentinel(info, config) ==
  When(config.expert,
       PrintTo("nonce_account", "Pubkey", "Nonce_account", info.account) \o
       PrintTo("nonce_authority", "Pubkey", "Nonce_authority", info.authority))

-----------------------------------------------------------------------------
(* Stake program. *)

print_delegate_stake_info(title, info, config) ==
  OptionalPrimary(title, info.stake_pubkey) \o
  Authority(config, "Authorized_by", info.authorized_pubkey) \o
  Pubkey("Vote_account", info.vote_pubkey)

\* The authorities when a stake account is initialized, or both of them are set.
NewAuthorities(same, staker, withdrawer, same_title, staker_title) ==
  IF same THEN Pubkey(same_title, staker)
  ELSE Pubkey(staker_title, staker) \o Pubkey("New_withdraw_auth", withdrawer)

\* Lockup with the "None" of experts in any case.
LockupAndNone(lockup, config) ==
  When(lockup.unix_timestamp > 0,
       General("Timestamp", "Lockup_time", lockup.unix_timestamp)) \o
  When(lockup.epoch > 0, General("U64", "Lockup_epoch", lockup.epoch)) \o
  When(lockup.unix_timestamp > 0 \/ lockup.epoch > 0,
       Pubkey("Lockup_authority", lockup.custodian)) \o
  When(config.expert, General("String", "Lockup", "None"))

\* The lockup of an initialized account; that of a checked instruction is all zero.
Lockup(lockup, config) ==
  LET locked == lockup.unix_timestamp > 0 \/ lockup.epoch > 0
  IN  When(lockup.unix_timestamp > 0,
           General("Timestamp", "Lockup_time", lockup.unix_timestamp)) \o
      When(lockup.epoch > 0, General("U64", "Lockup_epoch", lockup.epoch)) \o
      When(locked, Pubkey("Lockup_authority", lockup.custodian)) \o
      When(~locked /\ config.expert, General("String", "Lockup", "None"))

print_stake_initialize_info(title, info, config) ==
  OptionalPrimary(title, info.account) \o
  NewAuthorities(info.stake_authority = info.withdraw_authority, info.stake_authority,
                 info.withdraw_authority, "New_authority", "New_stake_auth") \o
  Lockup(info.lockup, config)

print_stake_split_info1(info) ==
  Primary("Amount", "Split_stake", info.lamports) \o
  Pubkey("From", info.account) \o Pubkey("To", info.split_account)

print_stake_split_info2(info, config) == Authority(config, "Authorized_by", info.authority)

print_stake_info(info, config) ==
  LET authorized == Authority(config, "Authorized_by", info.authority)
  IN CASE info.kind = "Delegate" -> print_delegate_stake_info("Delegate_from", info, config)
       [] info.kind \in {"Initialize", "InitializeChecked"} ->
            print_stake_initialize_info("Init_stake_acct", info, config)
       [] info.kind = "Withdraw" ->
            Primary("Amount", "Stake_withdraw", info.lamports) \o
            Pubkey("From", info.account) \o Pubkey("To", info.to) \o authorized
       [] info.kind \in {"Authorize", "AuthorizeChecked"} ->
            Primary("Pubkey", "Set_stake_auth", info.account) \o
            Pubkey(IF info.authorize = "Staker" THEN "New_stake_auth"
                   ELSE "New_withdraw_auth", info.new_authority) \o
            authorized \o
            When(info.custodian # NoKey, Authority(config, "Custodian", info.custodian))
       [] info.kind = "Deactivate" ->
            Primary("Pubkey", "Deactivate_stake", info.account) \o authorized
       [] info.kind \in {"SetLockup", "SetLockupChecked"} ->
            Primary("Pubkey", "Set_lockup", info.account) \o
            When("Timestamp" \in info.lockup.present,
                 General("Timestamp", "Time", info.lockup.unix_timestamp)) \o
            When("Epoch" \in info.lockup.present,
                 General("U64", "Epoch", info.lockup.epoch)) \o
            When("Custodian" \in info.lockup.present,
                 Pubkey("New_authority", info.lockup.custodian)) \o
            Authority(config, "Authorized_by", info.custodian)
       [] info.kind = "Split" ->
            print_stake_split_info1(info) \o print_stake_split_info2(info, config)
       [] info.kind = "Merge" ->
            Primary("Pubkey", "Merge", info.source) \o
            Pubkey("Into", info.destination) \o authorized

-----------------------------------------------------------------------------
(* Vote program. *)

print_vote_initialize_info(title, info) ==
  OptionalPrimary(title, info.account) \o
  Pubkey("Validator_ID", info.validator_id) \o
  Pubkey("New_vote_auth", info.vote_authority) \o
  Pubkey("New_withdraw_auth", info.withdraw_authority) \o
  General("U64", "Commission", info.commission)

print_vote_info(info, config) ==
  LET authorized == Authority(config, "Authorized_by", info.authority)
  IN CASE info.kind = "Initialize" -> print_vote_initialize_info("Init_vote_acct", info)
       [] info.kind = "Withdraw" ->
            Primary("Amount", "Vote_withdraw", info.lamports) \o
            Pubkey("From", info.account) \o Pubkey("To", info.to) \o authorized
       [] info.kind \in {"Authorize", "AuthorizeChecked"} ->
            Primary("Pubkey", "Set_vote_auth", info.account) \o
            Pubkey(IF info.authorize = "Voter" THEN "New_vote_auth"
                   ELSE "New_withdraw_auth", info.new_authority) \o authorized
       [] info.kind = "UpdateValidatorId" ->
            Primary("Pubkey", "Update_validator", info.account) \o
            Pubkey("New_validator_ID", info.new_validator_id) \o authorized
       [] info.kind = "UpdateCommission" ->
            Primary("Pubkey", "Update_commission", info.account) \o
            General("U64", "Commission", info.commission) \o authorized

-----------------------------------------------------------------------------
(* Token programs. *)

\* print_rpl_token_sign without the number of signers.
OwnerUncounted(sign, config) ==
  IF sign.kind = "Single" THEN Authority(config, "Owner", sign.account)
  ELSE Pubkey("Owner", sign.account)

\* print_rpl_token_sign: a single owner is an authority, a multisig is counted.
Owner(sign, config) ==
  IF sign.kind = "Single" THEN Authority(config, "Owner", sign.account)
  ELSE Pubkey("Owner", sign.account) \o General("U64", "Signers", sign.count)

\* get_token_symbol: the only token with a symbol is the wrapped native one.
WrappedMint == "rpl_token_program_id"
get_token_symbol(mint) == IF mint = WrappedMint THEN "WRENEC" ELSE "???"

\* summary_item_set_token_amount
TokenAmount(slot, title, info) ==
  PrintTo(slot, "TokenAmount", title,
          [amount |-> info.amount, symbol |-> get_token_symbol(info.mint_account),
           decimals |-> info.decimals])

\* A threshold above the number of signers has no text, and its item stays unused.
summary_item_set_multisig_m_of_n(m, n) ==
  When(m <= n, General("String", "Required_signers", <<m, n>>))

\* print_rpl_token_transfer_info that never prints the primary item.
TransferAsGeneralItem(slot, info, config) ==
  TokenAmount("general", "Transfer_tokens", info) \o
  Pubkey("From", info.src_account) \o Pubkey("To", info.dest_account)

print_rpl_token_transfer_info(slot, info, config) ==
  TokenAmount(slot, "Transfer_tokens", info) \o
  Pubkey("From", info.src_account) \o Pubkey("To", info.dest_account) \o
  Owner(info.sign, config)

print_rpl_token_info(info, config) ==
  LET owner == Owner(info.sign, config)
      mint  == When(config.expert, Pubkey("Mint", info.mint_account))
  IN CASE info.kind = "InitializeMint" ->
            Primary("Pubkey", "Init_mint", info.mint_account) \o
            Pubkey("Mint_authority", info.mint_authority) \o
            General("U64", "Decimals", info.decimals) \o
            When(info.freeze_authority # NoKey,
                 Pubkey("Freeze_authority", info.freeze_authority))
       [] info.kind \in {"InitializeAccount", "InitializeAccount2"} ->
            Primary("Pubkey", "Init_acct", info.token_account) \o
            Pubkey("Owner", info.owner) \o Pubkey("Mint", info.mint_account)
       [] info.kind = "InitializeMultisig" ->
            Primary("Pubkey", "Init_multisig", info.multisig_account) \o
            summary_item_set_multisig_m_of_n(info.m, info.count)
       [] info.kind = "Revoke" ->
            Primary("Pubkey", "Revoke_delegate", info.token_account) \o owner
       [] info.kind = "SetAuthority" ->
            Primary("Pubkey", IF info.new_authority = NoKey THEN "Clear_authority"
                              ELSE "Set_authority", info.account) \o
            General("String", "Type", info.authority_type) \o
            When(info.new_authority # NoKey, Pubkey("Authority", info.new_authority)) \o
            owner
       [] info.kind = "CloseAccount" ->
            Primary("Pubkey", "Close_acct", info.token_account) \o
            Pubkey("Withdraw_to", info.dest_account) \o owner
       [] info.kind = "FreezeAccount" ->
            Primary("Pubkey", "Freeze_acct", info.token_account) \o mint \o owner
       [] info.kind = "ThawAccount" ->
            Primary("Pubkey", "Thaw_acct", info.token_account) \o mint \o owner
       [] info.kind = "TransferChecked" ->
            print_rpl_token_transfer_info("primary", info, config)
       [] info.kind = "ApproveChecked" ->
            Primary("Pubkey", "Approve_delegate", info.delegate) \o
            TokenAmount("general", "Allowance", info) \o
            Pubkey("From", info.token_account) \o owner
       [] info.kind = "MintToChecked" ->
            TokenAmount("primary", "Mint_tokens", info) \o
            When(config.expert, Pubkey("From", info.mint_account)) \o
            Pubkey("To", info.token_account) \o owner
       [] info.kind = "BurnChecked" ->
            TokenAmount("primary", "Burn_tokens", info) \o
            Pubkey("From", info.token_account) \o owner
       [] info.kind = "SyncNative" ->
            Primary("Pubkey", "Sync_native_acct", info.token_account)

print_rpl_associated_token_account_create_info(info) ==
  Primary("Pubkey", "Create_token_acct", info.address) \o
  Pubkey("From_mint", info.mint) \o Pubkey("Owned_by", info.owner) \o
  Pubkey("Funded_by", info.funder)

-----------------------------------------------------------------------------
(* Instructions that make sense together: transaction_printers.c. *)

Printed(items) == [printed |-> TRUE, items |-> items]
NotPrinted == [printed |-> FALSE, items |-> <<>>]

\* An account is created and initialized, and a stake delegated.
print_create_account(title, infos, config, initialize) ==
  LET create == infos[1]
  IN  Primary("Pubkey", title, create.to) \o
      (IF create.kind = "CreateAccount"
       THEN print_system_create_account_info(NoTitle, create, config)
       ELSE print_system_create_account_with_seed_info(NoTitle, create, config)) \o
      initialize

\* Funded without the deposit.
FunderOnly(create, config) == Authority(config, "Funded_by", create.from)

\* Funded with the new account compared in place of its funder.
FundedByCreated(create, config) ==
  Authority(config, "Funded_by", create.to) \o
  General("Amount", "Funded_with", create.lamports)

\* The funder and the deposit of a token account, after its own items.
Funded(create, config) ==
  Authority(config, "Funded_by", create.from) \o
  General("Amount", "Funded_with", create.lamports)

\* print_authorize_both with its sanity check after the new authorities.
AuthorizeThenCheck(infos, config, account_title, new_title, expected) ==
  LET authorities == NewAuthorities(FALSE, infos[1].new_authority, infos[2].new_authority,
                                    "New_authorities", new_title)
  IN  IF <<infos[1].authorize, infos[2].authorize>> # expected
      THEN [printed |-> FALSE, items |-> authorities]
      ELSE Printed(Primary("Pubkey", account_title, infos[1].account) \o authorities)

\* print_stake_authorize_both and print_vote_authorize_both.  The keys are compared
\* as pointers: equal keys have one address in the header's table, where those of a
\* checked instruction are, and two in the instructions.
print_authorize_both(infos, config, account_title, new_title, expected) ==
  LET first == infos[1]
      withdrawer == infos[2]
      same == /\ first.kind = "AuthorizeChecked"
              /\ first.new_authority = withdrawer.new_authority
  IN  IF <<first.authorize, withdrawer.authorize>> # expected THEN NotPrinted
      ELSE Printed(
        Primary("Pubkey", account_title, first.account) \o
        NewAuthorities(same, first.new_authority, withdrawer.new_authority,
                       "New_authorities", new_title) \o
        When(first.program = "Stake" /\ withdrawer.custodian # NoKey,
             Pubkey("Custodian", withdrawer.custodian)) \o
        Authority(config, "Authorized_by", withdrawer.authority))

\* The seed of the account a stake is split into.
print_stake_split_with_seed(infos, config) ==
  print_stake_split_info1(infos[2]) \o Seeded(infos[1], config) \o
  print_stake_split_info2(infos[2], config)

PrintOne(info, config) ==
  CASE info.program = "System" -> Printed(print_system_info(info, config))
    [] info.program = "Stake" -> Printed(print_stake_info(info, config))
    [] info.program = "Vote" -> Printed(print_vote_info(info, config))
    [] info.program = "RplToken" -> Printed(print_rpl_token_info(info, config))
    [] info.program = "RplAssociatedTokenAccount" ->
         Printed(print_rpl_associated_token_account_create_info(info))

-----------------------------------------------------------------------------
(* Which instructions make sense together. *)

Creates == {"CreateAccount", "CreateAccountWithSeed"}

\* instruction_infos_match_briefs: programs and kinds, each from a set.
Match(infos, briefs) ==
  /\ Len(infos) = Len(briefs)
  /\ \A i \in DOMAIN briefs :
       infos[i].program = briefs[i][1] /\ infos[i].kind \in briefs[i][2]
SystemThen(first_kinds, infos, program, second_kinds) ==
  Match(infos, <<<<"System", first_kinds>>, <<program, second_kinds>>>>)
Twice(program, kind, infos) == Match(infos, <<<<program, {kind}>>, <<program, {kind}>>>>)

is_advance_nonce_account(info) ==
  info.program = "System" /\ info.kind = "AdvanceNonceAccount"
is_create_stake_account(infos) ==
  SystemThen(Creates, infos, "Stake", {"Initialize", "InitializeChecked"})
is_create_stake_account_and_delegate(infos) ==
  Match(infos, <<<<"System", Creates>>, <<"Stake", {"Initialize"}>>, <<"Stake", {"Delegate"}>>>>)
is_stake_split_v1_1(infos) ==
  Match(infos, <<<<"System", {"Allocate"}>>, <<"System", {"Assign"}>>, <<"Stake", {"Split"}>>>>)
is_stake_split_with_seed(infos) ==
  SystemThen({"AllocateWithSeed", "CreateAccountWithSeed"}, infos, "Stake", {"Split"})
is_stake_split_v1_2(infos) == SystemThen({"CreateAccount"}, infos, "Stake", {"Split"})
is_stake_authorize_both(infos) ==
  Twice("Stake", "Authorize", infos) \/ Twice("Stake", "AuthorizeChecked", infos)
is_create_nonce_account(infos) ==
  SystemThen(Creates, infos, "System", {"InitializeNonceAccount"})
is_create_vote_account(infos) == SystemThen(Creates, infos, "Vote", {"Initialize"})
is_vote_authorize_both(infos) ==
  Twice("Vote", "Authorize", infos) \/ Twice("Vote", "AuthorizeChecked", infos)
is_rpl_token_create_mint(infos) ==
  SystemThen({"CreateAccount"}, infos, "RplToken", {"InitializeMint"})
is_rpl_token_create_account(infos) ==
  SystemThen({"CreateAccount"}, infos, "RplToken", {"InitializeAccount", "InitializeAccount2"})
is_rpl_token_create_multisig(infos) ==
  SystemThen({"CreateAccount"}, infos, "RplToken", {"InitializeMultisig"})
is_rpl_associated_token_account_create_with_transfer(infos) ==
  /\ Len(infos) = 2
  /\ infos[1].program = "RplAssociatedTokenAccount"
  /\ infos[2].program = "RplToken" /\ infos[2].kind = "TransferChecked"

print_rpl_token_create_mint(create, info, config) ==
  Primary("Pubkey", "Create_token_mint", info.mint_account) \o
  Pubkey("Mint_authority", info.mint_authority) \o
  General("U64", "Mint_decimals", info.decimals) \o
  When(info.freeze_authority # NoKey, Pubkey("Freeze_authority", info.freeze_authority)) \o
  Funded(create, config)

print_rpl_token_create_account(create, info, config) ==
  Primary("Pubkey", "Create_token_acct", info.token_account) \o
  Pubkey("From_mint", info.mint_account) \o
  Pubkey("Owned_by", info.owner) \o
  Funded(create, config)

print_rpl_token_create_multisig(create, info, config) ==
  Primary("Pubkey", "Create_multisig", info.multisig_account) \o
  summary_item_set_multisig_m_of_n(info.m, info.count) \o
  Funded(create, config)

PrintTwo(infos, config) ==
  LET create == infos[1]
      info == infos[2]
  IN CASE is_create_stake_account(infos) ->
            Printed(print_create_account("Create_stake_acct", infos, config,
              print_stake_initialize_info(NoTitle, info, config)))
       [] is_create_nonce_account(infos) ->
            Printed(print_create_account("Create_nonce_acct", infos, config,
              print_system_initialize_nonce_info(NoTitle, info)))
       [] is_create_vote_account(infos) ->
            Printed(print_create_account("Create_vote_acct", infos, config,
              print_vote_initialize_info(NoTitle, info)))
       [] is_stake_authorize_both(infos) ->
            print_authorize_both(infos, config, "Set_stake_auth", "New_stake_auth",
                                 <<"Staker", "Withdrawer">>)
       [] is_vote_authorize_both(infos) ->
            print_authorize_both(infos, config, "Set_vote_auth", "New_vote_auth",
                                 <<"Voter", "Withdrawer">>)
       [] is_stake_split_with_seed(infos) -> Printed(print_stake_split_with_seed(infos, config))
       [] is_stake_split_v1_2(infos) -> Printed(print_stake_info(info, config))
       [] is_rpl_token_create_mint(infos) ->
            Printed(print_rpl_token_create_mint(create, info, config))
       [] is_rpl_token_create_account(infos) ->
            Printed(print_rpl_token_create_account(create, info, config))
       [] is_rpl_token_create_multisig(infos) ->
            Printed(print_rpl_token_create_multisig(create, info, config))
       [] is_rpl_associated_token_account_create_with_transfer(infos) ->
            Printed(print_rpl_associated_token_account_create_info(create) \o
                    print_rpl_token_transfer_info("general", info, config))
       [] OTHER -> NotPrinted

PrintThree(infos, config) ==
  CASE is_create_stake_account_and_delegate(infos) ->
         Printed(print_create_account("Delegate_from", infos, config,
           print_stake_initialize_info(NoTitle, infos[2], config) \o
           print_delegate_stake_info(NoTitle, infos[3], config)))
    [] is_stake_split_v1_1(infos) -> Printed(print_stake_info(infos[3], config))
    [] OTHER -> NotPrinted

print_transaction_nonce_processed(infos, config) ==
  CASE Len(infos) = 1 -> PrintOne(infos[1], config)
    [] Len(infos) = 2 -> PrintTwo(infos, config)
    [] Len(infos) = 3 -> PrintThree(infos, config)
    [] OTHER -> NotPrinted

\* A nonce may be advanced first.  Its items stay when the rest is not recognised.
print_transaction(infos, config) ==
  IF Len(infos) > 1 /\ is_advance_nonce_account(infos[1])
  THEN LET printed == print_transaction_nonce_processed(Tail(infos), config)
       IN  [printed EXCEPT !.items = Sentinel(infos[1], config) \o @]
  ELSE print_transaction_nonce_processed(infos, config)

\* What is displayed of the instructions: memos are ignored.
Displayed(infos) == Kept(infos, {i \in DOMAIN infos : infos[i].program # "RplMemo"})
Infos(transaction) == [i \in DOMAIN transaction.instructions |-> Info(transaction.instructions[i])]

\* process_message_body without the last loop over the instructions.
ProcessKnownInstructions(transaction, config) ==
  IF Len(transaction.instructions) \notin 1..MAX_INSTRUCTIONS \/ ~transaction.well_formed
  THEN NotPrinted
  ELSE LET infos == Infos(transaction)
       IN  print_transaction(
             Kept(infos, {i \in DOMAIN infos : infos[i].program \notin {"RplMemo", "Unknown"}}),
             config)

\* transaction.well_formed: instructions and accounts are within bounds, a
\* versioned message has no account tables, and nothing follows.
process_message_body(transaction, config) ==
  LET infos == Infos(transaction)
  IN  IF \/ Len(infos) \notin 1..MAX_INSTRUCTIONS
         \/ ~transaction.well_formed
         \/ \E i \in DOMAIN infos : infos[i].program = "Unknown"
      THEN NotPrinted
      ELSE print_transaction(Displayed(infos), config)
=============================================================================
