------------------------- MODULE InstructionParsers -------------------------
(***************************************************************************)
(* How librenec reads an instruction of a program it knows: the parse      *)
(* functions of the *_instruction.c files and their dispatch in            *)
(* src/librenec/message.c.                                                 *)
(*                                                                         *)
(* An instruction is [program, kind, accounts, data]: the program and the  *)
(* kind its bytes name, the keys its account indices stand for, and the    *)
(* fields that can be read from its data after the kind; the first field   *)
(* whose bytes are cut short, or are no option, ends them.  A parser is    *)
(* the set of the infos it fills in: one, or none when it bails out.  The  *)
(* order in which it reads accounts and data is of no consequence, and     *)
(* most parsers are no more than the names they give to both.              *)
(***************************************************************************)
EXTENDS Integers, Sequences

NoKey == "no_key"       \* a pointer that is NULL, an option that is absent
Skip == "skip"          \* an account that is read and forgotten

Token_MAX_SIGNERS == 11

-----------------------------------------------------------------------------
(* Accounts and fields. *)

\* instruction_accounts_iterator_init keeps the number of accounts in a uint8_t.
Iterate(instruction) == SubSeq(instruction.accounts, 1, Len(instruction.accounts) % 256)

\* The values of a sequence under the names given to its first elements.
Named(names, values) ==
  [name \in {names[i] : i \in DOMAIN names} \ {Skip} |->
     values[CHOOSE i \in DOMAIN names : names[i] = name]]

\* One account or one field read for each name, or a bail-out; the rest is ignored.
Read(names, values) == IF Len(values) >= Len(names) THEN {Named(names, values)} ELSE {}

\* The fields of two records in one, and those of any two from two sets.
Joined(info, other) ==
  [field \in DOMAIN info \cup DOMAIN other |->
     IF field \in DOMAIN info THEN info[field] ELSE other[field]]
Both(infos, others) == {Joined(info, other) : info \in infos, other \in others}

Layout(accounts, data) == [accounts |-> accounts, data |-> data]
ReadLayout(layout, instruction) ==
  Both(Read(layout.accounts, Iterate(instruction)), Read(layout.data, instruction.data))

\* instruction_accounts_iterator_remaining when a layout has been read.
Remaining(layout, instruction) ==
  SubSeq(Iterate(instruction), Len(layout.accounts) + 1, Len(Iterate(instruction)))

\* An account that may be missing: the pointer stays NULL.
OptionalAccount(accounts) == IF accounts = <<>> THEN NoKey ELSE accounts[1]

-----------------------------------------------------------------------------
(* System program; AssignWithSeed is known to it and has no parser. *)

SystemNonceLayouts ==
  [AdvanceNonceAccount    |-> Layout(<<"account", Skip, "authority">>, <<>>),
   InitializeNonceAccount |-> Layout(<<"account", Skip, Skip>>, <<"authority">>),
   WithdrawNonceAccount   |-> Layout(<<"account", "to", Skip, Skip, "authority">>, <<"lamports">>),
   AuthorizeNonceAccount  |-> Layout(<<"account", "authority">>, <<"new_authority">>)]

\* Without the account that is skipped because the base is read from the data.
AllocateWithSeedUnskipped == Layout(<<"account">>, <<"base", "seed", "space", "program_id">>)

AllocateWithSeed == Layout(<<"account", Skip>>, <<"base", "seed", "space", "program_id">>)

SystemAccountLayouts ==
  [Transfer              |-> Layout(<<"from", "to">>, <<"lamports">>),
   CreateAccount         |-> Layout(<<"from", "to">>, <<"lamports">>),
   CreateAccountWithSeed |-> Layout(<<"from", "to">>, <<"base", "seed", "lamports">>),
   Allocate              |-> Layout(<<"account">>, <<"space">>),
   Assign                |-> Layout(<<"account">>, <<"program_id">>),
   AllocateWithSeed      |-> AllocateWithSeed]

\* The layout that the kind has in the switch of a program, if it is supported.
Switch(layouts, instruction) ==
  IF instruction.kind \in DOMAIN layouts
  THEN ReadLayout(layouts[instruction.kind], instruction) ELSE {}

parse_system_instructions(instruction) ==
  Switch(Joined(SystemNonceLayouts, SystemAccountLayouts), instruction)

-----------------------------------------------------------------------------
(* Stake program; AuthorizeWithSeed and AuthorizeCheckedWithSeed have no parser. *)

StakeMoveLayouts ==
  [Delegate   |-> Layout(<<"stake_pubkey", "vote_pubkey", Skip, Skip, Skip,
                           "authorized_pubkey">>, <<>>),
   Withdraw   |-> Layout(<<"account", "to", Skip, Skip, "authority">>, <<"lamports">>),
   Deactivate |-> Layout(<<"account", Skip, "authority">>, <<>>),
   Split      |-> Layout(<<"account", "split_account", "authority">>, <<"lamports">>),
   Merge      |-> Layout(<<"destination", "source", Skip, Skip, "authority">>, <<>>)]

StakeInitializeLayouts ==
  [Initialize        |-> Layout(<<"account", Skip>>,
                                <<"stake_authority", "withdraw_authority", "unix_timestamp",
                                  "epoch", "custodian">>),
   InitializeChecked |-> Layout(<<"account", Skip, "stake_authority", "withdraw_authority">>,
                                <<>>)]

\* The lockup of a checked instruction keeps the zeros of process_message_body.
ZeroLockup == [unix_timestamp |-> 0, epoch |-> 0, custodian |-> NoKey]
parse_stake_initialize(instruction) ==
  {[account            |-> info.account,
    stake_authority    |-> info.stake_authority,
    withdraw_authority |-> info.withdraw_authority,
    lockup |-> IF instruction.kind = "InitializeChecked" THEN ZeroLockup
               ELSE [unix_timestamp |-> info.unix_timestamp, epoch |-> info.epoch,
                     custodian |-> info.custodian]] :
     info \in Switch(StakeInitializeLayouts, instruction)}

StakeAuthorizeLayouts ==
  [Authorize        |-> Layout(<<"account", Skip, "authority">>, <<"new_authority", "authorize">>),
   AuthorizeChecked |-> Layout(<<"account", Skip, "authority", "new_authority">>, <<"authorize">>)]
parse_stake_authorize(instruction) ==
  {Joined(info, [custodian |-> OptionalAccount(
              Remaining(StakeAuthorizeLayouts[instruction.kind], instruction))]) :
     info \in {info \in Switch(StakeAuthorizeLayouts, instruction) :
                 info.authorize \in {"Staker", "Withdrawer"}}}

\* The new lockup of a checked instruction has its custodian among the accounts.
StakeLockupLayouts ==
  [SetLockup        |-> Layout(<<"account", "custodian">>, <<"timestamp", "epoch", "new">>),
   SetLockupChecked |-> Layout(<<"account", "custodian">>, <<"timestamp", "epoch">>)]

\* parse_stake_lockupargs: an option is a sequence of one value or of none.
parse_stake_lockupargs(timestamp, epoch, custodian) ==
  LET Value(option) == IF option = <<>> THEN 0 ELSE option[1]
  IN  [present |-> {part \in {"Timestamp", "Epoch", "Custodian"} :
                      CASE part = "Timestamp" -> timestamp # <<>>
                        [] part = "Epoch" -> epoch # <<>>
                        [] part = "Custodian" -> custodian # NoKey},
       unix_timestamp |-> Value(timestamp), epoch |-> Value(epoch), custodian |-> custodian]
parse_stake_set_lockup(instruction) ==
  {[account   |-> info.account,
    custodian |-> info.custodian,
    lockup    |-> parse_stake_lockupargs(info.timestamp, info.epoch,
                    IF instruction.kind = "SetLockup" THEN info.new
                    ELSE OptionalAccount(Remaining(StakeLockupLayouts.SetLockupChecked,
                                                   instruction)))] :
     info \in Switch(StakeLockupLayouts, instruction)}

parse_stake_instructions(instruction) ==
  Switch(StakeMoveLayouts, instruction) \cup
  parse_stake_initialize(instruction) \cup
  parse_stake_authorize(instruction) \cup
  parse_stake_set_lockup(instruction)

-----------------------------------------------------------------------------
(* Vote program; votes themselves are unsupported. *)

VoteLayouts ==
  [Initialize       |-> Layout(<<"account", Skip, Skip>>,
                               <<"validator_id", "vote_authority", "withdraw_authority",
                                 "commission">>),
   Withdraw         |-> Layout(<<"account", "to", "authority">>, <<"lamports">>),
   Authorize        |-> Layout(<<"account", Skip, "authority">>, <<"new_authority", "authorize">>),
   AuthorizeChecked |-> Layout(<<"account", Skip, "authority", "new_authority">>, <<"authorize">>),
   UpdateCommission |-> Layout(<<"account", "authority">>, <<"commission">>)]

\* The number of bytes says which of two formats the instruction has: the data is
\* just the kind, or the kind and a key.
parse_vote_update_validator_id_instruction(instruction) ==
  IF instruction.kind # "UpdateValidatorId" THEN {}
  ELSE CASE Len(instruction.data) = 0 ->
              ReadLayout(Layout(<<"account", "new_validator_id", "authority">>, <<>>), instruction)
         [] Len(instruction.data) = 1 ->
              ReadLayout(Layout(<<"account", Skip, "authority">>, <<"new_validator_id">>),
                         instruction)
         [] OTHER -> {}

parse_vote_instructions(instruction) ==
  {info \in Switch(VoteLayouts, instruction) :
     "authorize" \in DOMAIN info => info.authorize \in {"Voter", "Withdrawer"}} \cup
  parse_vote_update_validator_id_instruction(instruction)

-----------------------------------------------------------------------------
(* Token programs; the kinds without a check of the decimals are deprecated. *)

\* parse_rpl_token_multisigners
parse_rpl_token_multisigners(accounts) ==
  IF Len(accounts) \in 1..Token_MAX_SIGNERS THEN {[count |-> Len(accounts)]} ELSE {}

\* parse_rpl_token_sign with the owner among the signers.
CountOwner(accounts) ==
  CASE Len(accounts) = 0 -> {}
    [] Len(accounts) = 1 -> {[kind |-> "Single", account |-> accounts[1]]}
    [] OTHER -> Both({[kind |-> "Multi", account |-> accounts[1]]},
                     parse_rpl_token_multisigners(accounts))

\* parse_rpl_token_sign: a lone account signs itself, others sign for the first.
parse_rpl_token_sign(accounts) ==
  CASE Len(accounts) = 0 -> {}
    [] Len(accounts) = 1 -> {[kind |-> "Single", account |-> accounts[1]]}
    [] OTHER -> Both({[kind |-> "Multi", account |-> accounts[1]]},
                     parse_rpl_token_multisigners(Tail(accounts)))

TokenSignedLayouts ==
  [TransferChecked |-> Layout(<<"src_account", "mint_account", "dest_account">>,
                              <<"amount", "decimals">>),
   ApproveChecked  |-> Layout(<<"token_account", "mint_account", "delegate">>,
                              <<"amount", "decimals">>),
   MintToChecked   |-> Layout(<<"mint_account", "token_account">>, <<"amount", "decimals">>),
   BurnChecked     |-> Layout(<<"token_account", "mint_account">>, <<"amount", "decimals">>),
   Revoke          |-> Layout(<<"token_account">>, <<>>),
   SetAuthority    |-> Layout(<<"account">>, <<"authority_type", "new_authority">>),
   CloseAccount    |-> Layout(<<"token_account", "dest_account">>, <<>>),
   FreezeAccount   |-> Layout(<<"token_account", "mint_account">>, <<>>),
   ThawAccount     |-> Layout(<<"token_account", "mint_account">>, <<>>)]
AuthorityTypes == {"Mint_tokens", "Freeze_account", "Owner", "Close_acct"}

\* The accounts that follow those of the layout sign.
parse_signed(instruction) ==
  {Joined(info, [sign |-> sign]) :
     info \in {info \in Switch(TokenSignedLayouts, instruction) :
                 "authority_type" \in DOMAIN info => info.authority_type \in AuthorityTypes},
     sign \in parse_rpl_token_sign(Remaining(TokenSignedLayouts[instruction.kind], instruction))}

TokenInitializeLayouts ==
  [InitializeMint     |-> Layout(<<"mint_account", Skip>>,
                                 <<"decimals", "mint_authority", "freeze_authority">>),
   InitializeAccount  |-> Layout(<<"token_account", "mint_account", "owner", Skip>>, <<>>),
   InitializeAccount2 |-> Layout(<<"token_account", "mint_account", Skip>>, <<"owner">>),
   SyncNative         |-> Layout(<<"token_account">>, <<>>)]

\* The signers are the accounts after the second one, and their number is the n of
\* the "m of n" they are reviewed as.
InitializeMultisig == Layout(<<"multisig_account", Skip>>, <<"m">>)
parse_initialize_multisig_rpl_token_instruction(instruction) ==
  Both({info \in ReadLayout(InitializeMultisig, instruction) : info.m <= Token_MAX_SIGNERS},
       parse_rpl_token_multisigners(Remaining(InitializeMultisig, instruction)))

parse_rpl_token_instructions(instruction) ==
  CASE instruction.kind \in DOMAIN TokenSignedLayouts -> parse_signed(instruction)
    [] instruction.kind = "InitializeMultisig" ->
         parse_initialize_multisig_rpl_token_instruction(instruction)
    [] instruction.kind = "InitializeAccount" /\ Len(instruction.accounts) # 4 -> {}
    [] OTHER -> Switch(TokenInitializeLayouts, instruction)

\* No kind, no data; the rent account at the end may be missing.
parse_rpl_associated_token_account_instructions(instruction) ==
  ReadLayout(Layout(<<"funder", "address", "owner", "mint", Skip, Skip>>, <<>>), instruction)

-----------------------------------------------------------------------------

\* The info of an instruction in process_message_body: its program if a parser for
\* it succeeds, Unknown if it does not or there is none.  A memo is not read.
Info(instruction) ==
  LET parsed ==
        CASE instruction.program = "System" -> parse_system_instructions(instruction)
          [] instruction.program = "Stake" -> parse_stake_instructions(instruction)
          [] instruction.program = "Vote" -> parse_vote_instructions(instruction)
          [] instruction.program = "RplToken" -> parse_rpl_token_instructions(instruction)
          [] instruction.program = "RplAssociatedTokenAccount" ->
               parse_rpl_associated_token_account_instructions(instruction)
          [] instruction.program = "RplMemo" -> {<<>>}
          [] OTHER -> {}
  IN  IF parsed = {} THEN [program |-> "Unknown"]
      ELSE Joined([program |-> instruction.program, kind |-> instruction.kind],
                  CHOOSE info \in parsed : TRUE)
=============================================================================
