----------------------- MODULE PrintedContentsProofs ------------------------
(***************************************************************************)
(* What the items that the printers put in the summary show: nothing that  *)
(* looks like a transfer but a transfer, every amount, the key that acts,  *)
(* and how many sign for a token account; and of what is printed at all.   *)
(* Then all that is said of an instruction, and how its fields are read    *)
(* back from what is said.                                                 *)
(***************************************************************************)
EXTENDS PrintersProofs

-----------------------------------------------------------------------------
(* What no print function but that of a transfer prints. *)

\* The first item is not titled as one of a transfer of lamports.
SwapTitles == {"Transfer", "Recipient"}
Other(items) == IsSeq(items) /\ Len(items) >= 1 /\ items[1].item.title \notin SwapTitles

\* The first item decides whether what is printed could be a transfer's.
LEMMA OtherFirst ==
  ASSUME NEW a, NEW b, Other(a), IsSeq(b)
  PROVE  Other(a \o b)
<1>1. PICK k \in Nat, l \in Nat : k = Len(a) /\ l = Len(b)
  BY Concatenation DEF Other
<1>2. IsSeq(a \o b) /\ Len(a \o b) = k + l /\ \A i \in 1..k : (a \o b)[i] = a[i]
  BY <1>1, Concatenation DEF Other
<1>3. 1 \in 1..k
  BY <1>1 DEF Other
<1> QED BY <1>1, <1>2, <1>3 DEF Other

\* An item with another title than a transfer's is no transfer's.
LEMMA OtherPut ==
  ASSUME NEW slot, NEW kind \in ItemKinds, NEW title, title \notin SwapTitles, NEW value
  PROVE  Other(PrintTo(slot, kind, title, value))
<1>1. PICK puts : puts = PrintTo(slot, kind, title, value)
  OBVIOUS
<1>2. IsSeq(puts) /\ Len(puts) = 1 /\ puts[1].item = Item(kind, title, value)
  BY <1>1, OnePut
<1>3. Item(kind, title, value).title = title
  BY DEF Item
<1> QED BY <1>1, <1>2, <1>3 DEF Other

\* The same of a primary item.
LEMMA OtherPrimary ==
  ASSUME NEW kind \in ItemKinds, NEW title, title \notin SwapTitles, NEW value
  PROVE  Other(Primary(kind, title, value))
BY OtherPut DEF Primary

\* The same of an item whose title is a parameter.
LEMMA OtherTitle ==
  ASSUME NEW title, title \notin SwapTitles, title # NoTitle, NEW key
  PROVE  Other(OptionalPrimary(title, key))
BY OtherPrimary, PrintersKinds DEF OptionalPrimary

\* All that print functions put besides the primary item is sequences.
LEMMA Seqs ==
  /\ \A title, key : IsSeq(Pubkey(title, key))
  /\ \A kind \in ItemKinds : \A title, value : IsSeq(General(kind, title, value))
  /\ \A config, title, key : IsSeq(Authority(config, title, key))
  /\ \A sign, config : IsSeq(Owner(sign, config))
  /\ \A info, config : IsSeq(Seeded(info, config))
  /\ \A condition, items : IsSeq(items) => IsSeq(When(condition, items))
  /\ \A lockup, config : IsSeq(Lockup(lockup, config))
  /\ \A same, staker, withdrawer, same_title, staker_title :
       IsSeq(NewAuthorities(same, staker, withdrawer, same_title, staker_title))
  /\ \A m, n : IsSeq(summary_item_set_multisig_m_of_n(m, n))
  /\ \A title, info : IsSeq(TokenAmount("general", title, info))
<1>1. \A title, key : IsSeq(Pubkey(title, key))
  BY OnePubkey DEF UpTo
<1>2. \A kind \in ItemKinds : \A title, value : IsSeq(General(kind, title, value))
  BY OneGeneral DEF UpTo
<1>3. \A config, title, key : IsSeq(Authority(config, title, key))
  BY OneAuthority DEF UpTo
<1>4. \A sign, config : IsSeq(Owner(sign, config))
  BY OwnerUpTo DEF UpTo
<1>5. \A info, config : IsSeq(Seeded(info, config))
  BY SeededUpTo DEF UpTo
<1>6. \A condition, items : IsSeq(items) => IsSeq(When(condition, items))
  BY NoItem DEF When, UpTo
<1>7. \A lockup, config : IsSeq(Lockup(lockup, config))
  BY LockupUpTo DEF UpTo
<1>8. \A same, staker, withdrawer, same_title, staker_title :
       IsSeq(NewAuthorities(same, staker, withdrawer, same_title, staker_title))
  BY NewAuthoritiesUpTo DEF UpTo
<1>9. \A m, n : IsSeq(summary_item_set_multisig_m_of_n(m, n))
  BY MultisigUpTo DEF UpTo
<1>10. \A title, info : IsSeq(TokenAmount("general", title, info))
  BY TokenAmountPut DEF UpTo
<1> QED BY <1>1, <1>2, <1>3, <1>4, <1>5, <1>6, <1>7, <1>8, <1>9, <1>10

\* No instruction of the system program but Transfer is titled like a transfer.
LEMMA OtherSystem ==
  ASSUME NEW info, NEW config, info.kind \in SystemKinds \ {"Transfer"}
  PROVE  Other(print_system_info(info, config))
<1> USE OtherPrimary, OtherTitle, OtherFirst, Seqs, PrintersKinds DEF print_system_info, SwapTitles
<1>0. /\ Other(print_system_create_account_info("Create_account", info, config))
      /\ Other(print_system_create_account_with_seed_info("Create_account", info, config))
  BY DEF print_system_create_account_info, print_system_create_account_with_seed_info, NoTitle
<1>2. CASE info.kind = "AdvanceNonceAccount"
  BY <1>2
<1>3. CASE info.kind = "CreateAccount"
  BY <1>3, <1>0
<1>4. CASE info.kind = "CreateAccountWithSeed"
  BY <1>4, <1>0
<1>5. CASE info.kind = "InitializeNonceAccount"
  BY <1>5 DEF print_system_initialize_nonce_info, NoTitle
<1>6. CASE info.kind = "WithdrawNonceAccount"
  BY <1>6
<1>7. CASE info.kind = "AuthorizeNonceAccount"
  BY <1>7
<1>8. CASE info.kind = "Assign"
  BY <1>8
<1>9. CASE info.kind = "Allocate"
  BY <1>9
<1>10. CASE info.kind = "AllocateWithSeed"
  BY <1>10
<1> QED
  BY <1>2, <1>3, <1>4, <1>5, <1>6, <1>7, <1>8, <1>9, <1>10
     DEF SystemKinds, SystemNonceLayouts, SystemAccountLayouts

\* No instruction of the stake program is.
LEMMA OtherStake ==
  ASSUME NEW info, NEW config, info.kind \in StakeKinds
  PROVE  Other(print_stake_info(info, config))
<1> USE OtherPrimary, OtherTitle, OtherFirst, Seqs, PrintersKinds DEF print_stake_info, SwapTitles
<1>1. CASE info.kind = "Delegate"
  BY <1>1 DEF print_delegate_stake_info, NoTitle
<1>2. CASE info.kind \in {"Initialize", "InitializeChecked"}
  BY <1>2 DEF print_stake_initialize_info, NoTitle
<1>3. CASE info.kind = "Withdraw"
  BY <1>3
<1>4. CASE info.kind \in {"Authorize", "AuthorizeChecked"}
  BY <1>4
<1>5. CASE info.kind = "Deactivate"
  BY <1>5
<1>6. CASE info.kind \in {"SetLockup", "SetLockupChecked"}
  BY <1>6
<1>7. CASE info.kind = "Split"
  BY <1>7 DEF print_stake_split_info1, print_stake_split_info2
<1>8. CASE info.kind = "Merge"
  BY <1>8
<1> QED
  BY <1>1, <1>2, <1>3, <1>4, <1>5, <1>6, <1>7, <1>8
     DEF StakeKinds, StakeMoveLayouts, StakeInitializeLayouts, StakeAuthorizeLayouts,
         StakeLockupLayouts

\* No instruction of the vote program is.
LEMMA OtherVote ==
  ASSUME NEW info, NEW config, info.kind \in VoteKinds
  PROVE  Other(print_vote_info(info, config))
<1> USE OtherPrimary, OtherTitle, OtherFirst, Seqs, PrintersKinds DEF print_vote_info, SwapTitles
<1>1. CASE info.kind = "Initialize"
  BY <1>1 DEF print_vote_initialize_info, NoTitle
<1>2. CASE info.kind = "Withdraw"
  BY <1>2
<1>3. CASE info.kind \in {"Authorize", "AuthorizeChecked"}
  BY <1>3
<1>4. CASE info.kind = "UpdateValidatorId"
  BY <1>4
<1>5. CASE info.kind = "UpdateCommission"
  BY <1>5
<1> QED
  BY <1>1, <1>2, <1>3, <1>4, <1>5 DEF VoteKinds, VoteLayouts

\* No instruction of the token program is: tokens are not lamports on the screen.
LEMMA OtherToken ==
  ASSUME NEW info, NEW config, info.kind \in TokenKinds
  PROVE  Other(print_rpl_token_info(info, config))
<1> USE OtherPrimary, OtherPut, OtherFirst, Seqs, PrintersKinds DEF print_rpl_token_info, SwapTitles
<1>1. CASE info.kind = "InitializeMint"
  BY <1>1
<1>2. CASE info.kind \in {"InitializeAccount", "InitializeAccount2"}
  BY <1>2
<1>3. CASE info.kind = "InitializeMultisig"
  BY <1>3
<1>4. CASE info.kind = "Revoke"
  BY <1>4
<1>5. CASE info.kind = "SetAuthority"
  BY <1>5
<1>6. CASE info.kind = "CloseAccount"
  BY <1>6
<1>7. CASE info.kind = "FreezeAccount"
  BY <1>7
<1>8. CASE info.kind = "ThawAccount"
  BY <1>8
<1>9. CASE info.kind = "TransferChecked"
  BY <1>9 DEF print_rpl_token_transfer_info, TokenAmount
<1>10. CASE info.kind = "ApproveChecked"
  BY <1>10
<1>11. CASE info.kind = "MintToChecked"
  BY <1>11 DEF TokenAmount
<1>12. CASE info.kind = "BurnChecked"
  BY <1>12 DEF TokenAmount
<1>13. CASE info.kind = "SyncNative"
  BY <1>13
<1> QED
  BY <1>1, <1>2, <1>3, <1>4, <1>5, <1>6, <1>7, <1>8, <1>9, <1>10, <1>11, <1>12, <1>13
     DEF TokenKinds, TokenSignedLayouts, TokenInitializeLayouts

\* Nor is a new associated account.
LEMMA OtherAssociated ==
  ASSUME NEW info
  PROVE  Other(print_rpl_associated_token_account_create_info(info))
BY OtherPrimary, OtherFirst, Seqs, PrintersKinds
   DEF print_rpl_associated_token_account_create_info, SwapTitles

\* Nor is a new account, which moves lamports.
LEMMA OtherCreateAccount ==
  ASSUME NEW title, title \notin SwapTitles, NEW infos, NEW config, NEW initialize,
         IsSeq(initialize)
  PROVE  Other(print_create_account(title, infos, config, initialize))
<1> DEFINE create == IF infos[1].kind = "CreateAccount"
                     THEN print_system_create_account_info(NoTitle, infos[1], config)
                     ELSE print_system_create_account_with_seed_info(NoTitle, infos[1], config)
<1>1. IsSeq(create)
  BY CreateInfoUpTo DEF UpTo
<1>2. Other(Primary("Pubkey", title, infos[1].to))
  BY OtherPrimary, PrintersKinds
<1> HIDE DEF create
<1>3. Other(Primary("Pubkey", title, infos[1].to) \o create \o initialize)
  BY <1>1, <1>2, OtherFirst
<1> QED BY <1>3 DEF print_create_account, create

OtherIfPrinted(result) == result.printed => Other(result.items)

\* What is printed has the first item of its items.
LEMMA OtherPrinted ==
  ASSUME NEW items, Other(items)
  PROVE  OtherIfPrinted(Printed(items))
BY DEF OtherIfPrinted, Printed

\* What is not printed claims nothing.
LEMMA OtherNotPrinted == OtherIfPrinted(NotPrinted)
BY DEF OtherIfPrinted, NotPrinted

\* Two authorities replaced together are no transfer.
LEMMA OtherAuthorizeBoth ==
  ASSUME NEW infos, NEW config, NEW account_title, account_title \notin SwapTitles,
         NEW new_title, NEW expected
  PROVE  OtherIfPrinted(print_authorize_both(infos, config, account_title, new_title, expected))
<1> DEFINE same == /\ infos[1].kind = "AuthorizeChecked"
                   /\ infos[1].new_authority = infos[2].new_authority
           authorities == NewAuthorities(same, infos[1].new_authority, infos[2].new_authority,
                                         "New_authorities", new_title)
           custodian == When(infos[1].program = "Stake" /\ infos[2].custodian # NoKey,
                             Pubkey("Custodian", infos[2].custodian))
           items == Primary("Pubkey", account_title, infos[1].account) \o authorities \o
                    custodian \o Authority(config, "Authorized_by", infos[2].authority)
<1>1. IsSeq(authorities) /\ IsSeq(custodian)
  BY Seqs
<1> HIDE DEF authorities, custodian
<1>2. Other(items)
  BY <1>1, OtherPrimary, OtherFirst, Seqs, PrintersKinds
<1> HIDE DEF items
<1>3. OtherIfPrinted(Printed(items))
  BY <1>2, OtherPrinted
<1> QED
  BY <1>3, OtherNotPrinted DEF print_authorize_both, items, authorities, custodian

\* No combination of two instructions is titled like a transfer.
LEMMA OtherTwo ==
  ASSUME NEW infos, NEW config
  PROVE  OtherIfPrinted(PrintTwo(infos, config))
<1> DEFINE create == infos[1]
           info == infos[2]
<1> USE DEF SwapTitles
<1>1. OtherIfPrinted(Printed(print_create_account("Create_stake_acct", infos, config,
              print_stake_initialize_info(NoTitle, info, config))))
  <2>1. IsSeq(print_stake_initialize_info(NoTitle, info, config))
    BY StakeInitializeInfo DEF UpTo
  <2> QED BY <2>1, OtherCreateAccount, OtherPrinted
<1>2. OtherIfPrinted(Printed(print_create_account("Create_nonce_acct", infos, config,
              print_system_initialize_nonce_info(NoTitle, info))))
  <2>1. UpTo(OptionalPrimary(NoTitle, info.account), 0)
    BY NoItem DEF OptionalPrimary
  <2>2. UpTo(print_system_initialize_nonce_info(NoTitle, info), 1)
    BY <2>1, OnePubkey, Together DEF print_system_initialize_nonce_info
  <2>3. IsSeq(print_system_initialize_nonce_info(NoTitle, info))
    BY <2>2 DEF UpTo
  <2> QED BY <2>3, OtherCreateAccount, OtherPrinted
<1>3. OtherIfPrinted(Printed(print_create_account("Create_vote_acct", infos, config,
              print_vote_initialize_info(NoTitle, info))))
  <2>1. IsSeq(print_vote_initialize_info(NoTitle, info))
    BY VoteInitializeInfo DEF UpTo
  <2> QED BY <2>1, OtherCreateAccount, OtherPrinted
<1>4. OtherIfPrinted(Printed(print_stake_split_with_seed(infos, config)))
  <2>1. Other(print_stake_split_info1(infos[2]))
    BY OtherPrimary, OtherFirst, Seqs, PrintersKinds DEF print_stake_split_info1
  <2>2. Other(print_stake_split_with_seed(infos, config))
    BY <2>1, OtherFirst, Seqs DEF print_stake_split_with_seed, print_stake_split_info2
  <2> QED BY <2>2, OtherPrinted
<1>5. ASSUME is_stake_split_v1_2(infos) PROVE OtherIfPrinted(Printed(print_stake_info(info, config)))
  <2>1. info.kind \in StakeKinds
    BY <1>5 DEF is_stake_split_v1_2, SystemThen, Match, StakeKinds, StakeMoveLayouts
  <2> QED BY <2>1, OtherStake, OtherPrinted
<1>6. /\ OtherIfPrinted(Printed(print_rpl_token_create_mint(create, info, config)))
      /\ OtherIfPrinted(Printed(print_rpl_token_create_account(create, info, config)))
      /\ OtherIfPrinted(Printed(print_rpl_token_create_multisig(create, info, config)))
  <2>1. IsSeq(Funded(create, config))
    BY Concatenation, Seqs, PrintersKinds DEF Funded
  <2>2. Other(print_rpl_token_create_mint(create, info, config))
    BY <2>1, OtherPrimary, OtherFirst, Seqs, PrintersKinds DEF print_rpl_token_create_mint
  <2>3. Other(print_rpl_token_create_account(create, info, config))
    BY <2>1, OtherPrimary, OtherFirst, Seqs, PrintersKinds DEF print_rpl_token_create_account
  <2>4. Other(print_rpl_token_create_multisig(create, info, config))
    BY <2>1, OtherPrimary, OtherFirst, Seqs, PrintersKinds DEF print_rpl_token_create_multisig
  <2> QED BY <2>2, <2>3, <2>4, OtherPrinted
<1>7. OtherIfPrinted(Printed(print_rpl_associated_token_account_create_info(create) \o
                             print_rpl_token_transfer_info("general", info, config)))
  <2>1. IsSeq(print_rpl_token_transfer_info("general", info, config))
    BY TransferInfo DEF UpTo
  <2> QED BY <2>1, OtherAssociated, OtherFirst, OtherPrinted
<1>8. /\ OtherIfPrinted(print_authorize_both(infos, config, "Set_stake_auth", "New_stake_auth",
                                             <<"Staker", "Withdrawer">>))
      /\ OtherIfPrinted(print_authorize_both(infos, config, "Set_vote_auth", "New_vote_auth",
                                             <<"Voter", "Withdrawer">>))
  BY OtherAuthorizeBoth
<1> QED
  BY <1>1, <1>2, <1>3, <1>4, <1>5, <1>6, <1>7, <1>8, OtherNotPrinted DEF PrintTwo

\* No combination of three instructions is.
LEMMA OtherThree ==
  ASSUME NEW infos, NEW config
  PROVE  OtherIfPrinted(PrintThree(infos, config))
<1> USE DEF SwapTitles
<1>1. OtherIfPrinted(Printed(print_create_account("Delegate_from", infos, config,
           print_stake_initialize_info(NoTitle, infos[2], config) \o
           print_delegate_stake_info(NoTitle, infos[3], config))))
  <2>1. IsSeq(print_stake_initialize_info(NoTitle, infos[2], config) \o
              print_delegate_stake_info(NoTitle, infos[3], config))
    BY StakeInitializeInfo, DelegateInfo, Concatenation DEF UpTo
  <2> QED BY <2>1, OtherCreateAccount, OtherPrinted
<1>2. ASSUME is_stake_split_v1_1(infos)
      PROVE  OtherIfPrinted(Printed(print_stake_info(infos[3], config)))
  <2>1. infos[3].kind \in StakeKinds
    BY <1>2 DEF is_stake_split_v1_1, Match, StakeKinds, StakeMoveLayouts
  <2> QED BY <2>1, OtherStake, OtherPrinted
<1> QED
  BY <1>1, <1>2, OtherNotPrinted DEF PrintThree

IsTransfer(info) == info.program = "System" /\ info.kind = "Transfer"

\* No single instruction but a transfer of lamports is.
LEMMA OtherOne ==
  ASSUME NEW info, NEW config, KnownInfo(info), ~IsTransfer(info)
  PROVE  OtherIfPrinted(PrintOne(info, config))
<1>1. CASE info.program = "System"
  BY <1>1, OtherSystem, OtherPrinted DEF KnownInfo, PrintOne, IsTransfer
<1>2. CASE info.program = "Stake"
  BY <1>2, OtherStake, OtherPrinted DEF KnownInfo, PrintOne
<1>3. CASE info.program = "Vote"
  BY <1>3, OtherVote, OtherPrinted DEF KnownInfo, PrintOne
<1>4. CASE info.program = "RplToken"
  BY <1>4, OtherToken, OtherPrinted DEF KnownInfo, PrintOne
<1>5. CASE info.program = "RplAssociatedTokenAccount"
  BY <1>5, OtherAssociated, OtherPrinted DEF PrintOne
<1> QED
  BY <1>1, <1>2, <1>3, <1>4, <1>5 DEF KnownInfo

\* So, behind a nonce, only a lone transfer is.
LEMMA OtherNonceProcessed ==
  ASSUME NEW infos, NEW config, Len(infos) = 1 => KnownInfo(infos[1]) /\ ~IsTransfer(infos[1])
  PROVE  OtherIfPrinted(print_transaction_nonce_processed(infos, config))
BY OtherOne, OtherTwo, OtherThree, OtherNotPrinted DEF print_transaction_nonce_processed

\* The puts of a sequence.
Elements(items) == {items[i] : i \in 1..Len(items)}

\* The puts of two sequences are those of the one and those of the other.
LEMMA ElementsTogether ==
  ASSUME NEW a, NEW b, IsSeq(a), IsSeq(b)
  PROVE  Elements(a \o b) = Elements(a) \cup Elements(b)
<1>1. PICK k \in Nat, l \in Nat : k = Len(a) /\ l = Len(b)
  BY Concatenation
<1>2. /\ Len(a \o b) = k + l
      /\ \A i \in 1..k : (a \o b)[i] = a[i]
      /\ \A i \in 1..l : (a \o b)[k + i] = b[i]
  BY <1>1, Concatenation
<1>3. \A i \in 1..(k + l) : i \in 1..k \/ (i - k \in 1..l /\ i = k + (i - k))
  OBVIOUS
<1>4. \A i \in 1..k : i \in 1..(k + l)
  OBVIOUS
<1>5. \A i \in 1..l : k + i \in 1..(k + l)
  OBVIOUS
<1>6. Elements(a) = {a[i] : i \in 1..k} /\ Elements(b) = {b[i] : i \in 1..l}
  BY <1>1 DEF Elements
<1>7. PICK c : c = a \o b
  OBVIOUS
<1>8. Elements(c) = {c[i] : i \in 1..(k + l)}
  BY <1>2, <1>7 DEF Elements
<1>9. {c[i] : i \in 1..(k + l)} = {a[i] : i \in 1..k} \cup {b[i] : i \in 1..l}
  <2>1. ASSUME NEW i \in 1..(k + l) PROVE c[i] \in {a[j] : j \in 1..k} \cup {b[j] : j \in 1..l}
    <3>1. CASE i \in 1..k
      BY <1>2, <1>7, <3>1
    <3>2. CASE i - k \in 1..l /\ i = k + (i - k)
      <4>1. c[i] = b[i - k]
        BY <1>2, <1>7, <3>2
      <4> QED BY <3>2, <4>1
    <3> QED BY <1>3, <3>1, <3>2
  <2>2. ASSUME NEW i \in 1..k PROVE a[i] \in {c[j] : j \in 1..(k + l)}
    BY <1>2, <1>4, <1>7
  <2>3. ASSUME NEW i \in 1..l PROVE b[i] \in {c[j] : j \in 1..(k + l)}
    BY <1>2, <1>5, <1>7
  <2> QED BY <2>1, <2>2, <2>3
<1> QED BY <1>6, <1>7, <1>8, <1>9

\* A print function of one item puts it.
LEMMA ElementOfPut ==
  ASSUME NEW slot, NEW kind \in ItemKinds, NEW title, NEW value
  PROVE  /\ IsSeq(PrintTo(slot, kind, title, value))
         /\ \E put \in Elements(PrintTo(slot, kind, title, value)) :
              put.item = Item(kind, title, value)
<1>1. PICK puts : puts = PrintTo(slot, kind, title, value)
  OBVIOUS
<1>2. IsSeq(puts) /\ Len(puts) = 1 /\ puts[1].item = Item(kind, title, value)
  BY <1>1, OnePut
<1>3. puts[1] \in Elements(puts)
  BY <1>2 DEF Elements
<1> QED BY <1>1, <1>2, <1>3

\* The items put.
Puts(items, item) == IsSeq(items) /\ \E put \in Elements(items) : put.item = item

\* What a part puts, the whole puts.
LEMMA PutsFirst ==
  ASSUME NEW a, NEW b, NEW item, Puts(a, item), IsSeq(b)
  PROVE  Puts(a \o b, item)
BY ElementsTogether, Concatenation DEF Puts

\* The same of the part behind.
LEMMA PutsSecond ==
  ASSUME NEW a, NEW b, NEW item, IsSeq(a), Puts(b, item)
  PROVE  Puts(a \o b, item)
BY ElementsTogether, Concatenation DEF Puts

\* A print function of one item puts that item.
LEMMA PutsOne ==
  ASSUME NEW slot, NEW kind \in ItemKinds, NEW title, NEW value
  PROVE  Puts(PrintTo(slot, kind, title, value), Item(kind, title, value))
BY ElementOfPut DEF Puts

\* An authority that is to be shown is put.
LEMMA PutsAuthority ==
  ASSUME NEW config, NEW title, NEW key, print_config_show_authority(config, key)
  PROVE  Puts(Authority(config, title, key), Item("Pubkey", title, key))
BY PutsOne, PrintersKinds DEF Authority, When, Pubkey, General

\* All that is put agrees with an offer.
Agrees(items, offer) == \A put \in Elements(items) : SwapItemMatches(put.item, offer)

\* Only an item titled like a transfer's matches an offer of the Exchange application.
LEMMA AgreesTitles ==
  ASSUME NEW item, NEW offer, SwapItemMatches(item, offer)
  PROVE  item.title \in SwapTitles
BY DEF SwapItemMatches, SwapTitles

\* So what is titled otherwise agrees with no offer.
LEMMA OtherDisagrees ==
  ASSUME NEW items, NEW offer, Other(items)
  PROVE  ~Agrees(items, offer)
<1>1. PICK n \in Nat : n = Len(items)
  BY LenProperties DEF Other, IsSeq
<1>2. items[1] \in Elements(items)
  BY <1>1 DEF Other, Elements
<1> QED BY <1>2, AgreesTitles DEF Agrees, Other

\* A transfer whose items agree with an offer is the one that the offer is about.
LEMMA AgreedTransfer ==
  ASSUME NEW info, IsTransfer(info), NEW config, NEW offer,
         Agrees(print_system_info(info, config), offer)
  PROVE  /\ ~print_config_show_authority(config, info.from)
         /\ info.lamports = offer.amount
         /\ info.to = offer.recipient
<1>1. print_system_info(info, config) =
        (Primary("Amount", "Transfer", info.lamports) \o
         Authority(config, "Sender", info.from)) \o
        Pubkey("Recipient", info.to)
  BY DEF print_system_info, IsTransfer
<1> DEFINE amount == Item("Amount", "Transfer", info.lamports)
           recipient == Item("Pubkey", "Recipient", info.to)
           sender == Item("Pubkey", "Sender", info.from)
<1>2. Puts(Primary("Amount", "Transfer", info.lamports), amount)
  BY PutsOne, PrintersKinds DEF Primary
<1>3. Puts(Pubkey("Recipient", info.to), recipient)
  BY PutsOne, PrintersKinds DEF Pubkey, General
<1>4. /\ IsSeq(Primary("Amount", "Transfer", info.lamports))
      /\ IsSeq(Authority(config, "Sender", info.from))
      /\ IsSeq(Pubkey("Recipient", info.to))
      /\ IsSeq(Primary("Amount", "Transfer", info.lamports) \o Authority(config, "Sender", info.from))
  BY <1>2, Seqs, Concatenation DEF Puts
<1>5. ASSUME NEW item, Puts(print_system_info(info, config), item)
      PROVE  SwapItemMatches(item, offer)
  BY <1>5 DEF Puts, Agrees
<1> HIDE DEF amount, recipient, sender
<1>6. SwapItemMatches(amount, offer)
  BY <1>1, <1>2, <1>4, <1>5, PutsFirst
<1>7. SwapItemMatches(recipient, offer)
  BY <1>1, <1>3, <1>4, <1>5, PutsSecond
<1>8. ASSUME print_config_show_authority(config, info.from) PROVE FALSE
  <2>1. Puts(Authority(config, "Sender", info.from), sender)
    BY <1>8, PutsAuthority DEF sender
  <2>2. Puts(Primary("Amount", "Transfer", info.lamports) \o Authority(config, "Sender", info.from),
             sender)
    BY <1>4, <2>1, PutsSecond
  <2>3. SwapItemMatches(sender, offer)
    BY <1>1, <1>4, <1>5, <2>2, PutsFirst
  <2> QED BY <2>3 DEF SwapItemMatches, Item, sender
<1>9. info.lamports = offer.amount
  BY <1>6 DEF SwapItemMatches, Item, amount
<1>10. info.to = offer.recipient
  BY <1>7 DEF SwapItemMatches, Item, recipient
<1> QED BY <1>8, <1>9, <1>10
\* The first elements of a sequence.
LEMMA FirstTwo ==
  ASSUME NEW s
  PROVE  SubSeq(s, 1, 2) = <<s[1], s[2]>>
<1>1. PICK a, b : a = s[1] /\ b = s[2]
  OBVIOUS
<1>2. SubSeq(s, 1, 2) = [i \in 1..2 |-> s[i]]
  OBVIOUS
<1>3. \A i \in 1..2 : i = 1 \/ i = 2
  OBVIOUS
<1>4. PICK q : q = SubSeq(s, 1, 2)
  OBVIOUS
<1>5. q = [i \in 1..2 |-> IF i = 1 THEN a ELSE b]
  BY <1>1, <1>2, <1>3, <1>4
<1>6. q = <<a, b>>
  BY <1>5
<1> QED BY <1>1, <1>4, <1>6

\* The values read under one name.
LEMMA NamedOne ==
  ASSUME NEW name, name # Skip, NEW values
  PROVE  /\ DOMAIN Named(<<name>>, values) = {name}
         /\ Named(<<name>>, values)[name] = values[1]
<1>1. PICK names : names = <<name>>
  OBVIOUS
<1>2. DOMAIN names = {1} /\ names[1] = name
  BY <1>1
<1>3. {names[i] : i \in DOMAIN names} \ {Skip} = {name}
  BY <1>2
<1>4. (CHOOSE i \in DOMAIN names : names[i] = name) = 1
  BY <1>2
<1> QED BY <1>1, <1>3, <1>4 DEF Named

\* The values read under two names.
LEMMA NamedTwo ==
  ASSUME NEW name, NEW other, name # other, name # Skip, other # Skip, NEW values
  PROVE  /\ DOMAIN Named(<<name, other>>, values) = {name, other}
         /\ Named(<<name, other>>, values)[name] = values[1]
         /\ Named(<<name, other>>, values)[other] = values[2]
<1>1. PICK names : names = <<name, other>>
  OBVIOUS
<1>2. DOMAIN names = {1, 2} /\ names[1] = name /\ names[2] = other
  BY <1>1
<1>3. {names[i] : i \in DOMAIN names} \ {Skip} = {name, other}
  BY <1>2
<1>4. (CHOOSE i \in DOMAIN names : names[i] = name) = 1
  BY <1>2
<1>5. (CHOOSE i \in DOMAIN names : names[i] = other) = 2
  BY <1>2
<1> QED BY <1>1, <1>3, <1>4, <1>5 DEF Named

\* What is read is complete, and each value stands under its name.
LEMMA ReadOne ==
  ASSUME NEW names, NEW values, NEW info \in Read(names, values)
  PROVE  Len(values) >= Len(names) /\ info = Named(names, values)
BY DEF Read

\* The accounts and the amount of a transfer are those of the instruction.
LEMMA TransferInstruction ==
  ASSUME NEW instruction, IsSequence(instruction.accounts), IsTransfer(Info(instruction))
  PROVE  LET info == Info(instruction)
         IN  /\ instruction.program = "System" /\ instruction.kind = "Transfer"
             /\ SubSeq(instruction.accounts, 1, 2) = <<info.from, info.to>>
             /\ instruction.data[1] = info.lamports
<1> DEFINE info == Info(instruction)
           layouts == Joined(SystemNonceLayouts, SystemAccountLayouts)
           accounts == Iterate(instruction)
<1>1. instruction.program = "System" /\ instruction.kind = "Transfer" /\ info # [program |-> "Unknown"]
  BY InfoOfInstruction DEF IsTransfer
<1>2. layouts["Transfer"] = Layout(<<"from", "to">>, <<"lamports">>)
  <2>1. "Transfer" \notin DOMAIN SystemNonceLayouts /\ "Transfer" \in DOMAIN SystemAccountLayouts
    BY DEF SystemNonceLayouts, SystemAccountLayouts
  <2>2. PICK a, b : a = SystemNonceLayouts /\ b = SystemAccountLayouts
    OBVIOUS
  <2>3. layouts["Transfer"] = b["Transfer"]
    BY <2>1, <2>2 DEF Joined
  <2>4. b["Transfer"] = Layout(<<"from", "to">>, <<"lamports">>)
    BY <2>2 DEF SystemAccountLayouts
  <2> QED BY <2>3, <2>4
<1>3. PICK parsed : parsed = Switch(layouts, instruction)
  OBVIOUS
<1> HIDE DEF layouts
<1>4. PICK names, fields : names = <<"from", "to">> /\ fields = <<"lamports">>
  OBVIOUS
<1>5. Len(names) = 2 /\ Len(fields) = 1
  BY <1>4
<1>6. \A other \in parsed :
        /\ Len(accounts) >= 2
        /\ Len(instruction.data) >= 1
        /\ other = Joined(Named(names, accounts), Named(fields, instruction.data))
  <2>1. PICK layout : layout = Layout(names, fields)
    OBVIOUS
  <2>2. layout.accounts = names /\ layout.data = fields
    BY <2>1 DEF Layout
  <2>3. \A other \in parsed : other \in ReadLayout(layout, instruction)
    BY <1>1, <1>2, <1>3, <1>4, <2>1 DEF Switch
  <2>4. ReadLayout(layout, instruction) =
          Both(Read(names, accounts), Read(fields, instruction.data))
    BY <2>2 DEF ReadLayout
  <2> HIDE DEF accounts
  <2> SUFFICES ASSUME NEW other \in parsed
               PROVE  /\ Len(accounts) >= 2
                      /\ Len(instruction.data) >= 1
                      /\ other = Joined(Named(names, accounts), Named(fields, instruction.data))
    OBVIOUS
  <2>5. PICK a \in Read(names, accounts), b \in Read(fields, instruction.data) :
          other = Joined(a, b)
    BY <2>3, <2>4 DEF Both
  <2> QED BY <1>5, <2>5, ReadOne
<1>7. PICK other \in parsed :
        info = Joined([program |-> "System", kind |-> "Transfer"], other)
  BY <1>1, <1>3 DEF Info, parse_system_instructions, layouts
<1>8. /\ DOMAIN Named(names, accounts) = {"from", "to"}
      /\ Named(names, accounts)["from"] = accounts[1]
      /\ Named(names, accounts)["to"] = accounts[2]
  BY <1>4, NamedTwo DEF Skip
<1>9. /\ DOMAIN Named(fields, instruction.data) = {"lamports"}
      /\ Named(fields, instruction.data)["lamports"] = instruction.data[1]
  BY <1>4, NamedOne DEF Skip
<1>10. PICK named, data : named = Named(names, accounts) /\ data = Named(fields, instruction.data)
  OBVIOUS
<1>11. /\ DOMAIN other = {"from", "to", "lamports"}
       /\ other["from"] = accounts[1] /\ other["to"] = accounts[2]
       /\ other["lamports"] = instruction.data[1]
  <2>1. other = Joined(named, data)
    BY <1>6, <1>10
  <2> QED BY <1>8, <1>9, <1>10, <2>1 DEF Joined
<1>12. info.from = accounts[1] /\ info.to = accounts[2] /\ info.lamports = instruction.data[1]
  BY <1>7, <1>11 DEF Joined
<1>13. accounts[1] = instruction.accounts[1] /\ accounts[2] = instruction.accounts[2]
  <2>1. PICK n \in Nat : n = Len(instruction.accounts)
    BY DEF IsSequence
  <2>2. PICK m \in Nat : m = n % 256
    OBVIOUS
  <2>3. accounts = SubSeq(instruction.accounts, 1, m)
    BY <2>1, <2>2 DEF Iterate
  <2>4. accounts = [i \in 1..m |-> instruction.accounts[i]]
    BY <2>3
  <2>5. m >= 2
    <3>1. Len(accounts) = m
      BY <2>4
    <3> QED BY <1>6, <1>7, <3>1
  <2> QED BY <2>4, <2>5
<1> QED BY <1>1, <1>12, <1>13, FirstTwo

\* Instructions that agree with an offer are a lone transfer that does.
LEMMA AgreedInfos ==
  ASSUME NEW infos, Len(infos) = 1 => KnownInfo(infos[1]), NEW config, NEW offer,
         print_transaction_nonce_processed(infos, config).printed,
         Agrees(print_transaction_nonce_processed(infos, config).items, offer)
  PROVE  /\ Len(infos) = 1
         /\ IsTransfer(infos[1])
         /\ Agrees(print_system_info(infos[1], config), offer)
<1> DEFINE result == print_transaction_nonce_processed(infos, config)
<1>1. ~OtherIfPrinted(result)
  BY OtherDisagrees DEF OtherIfPrinted
<1>2. Len(infos) = 1 /\ IsTransfer(infos[1])
  BY <1>1, OtherNonceProcessed
<1>3. result = Printed(print_system_info(infos[1], config))
  BY <1>2 DEF print_transaction_nonce_processed, PrintOne, IsTransfer
<1> QED BY <1>2, <1>3 DEF Printed

\* Of what is displayed, one instruction is a transfer that agrees, and any other
\* advances a nonce.
IsAgreedTransfer(infos, j, config, offer) ==
  /\ IsTransfer(infos[j])
  /\ Agrees(print_system_info(infos[j], config), offer)
  /\ \A k \in 1..Len(infos) : k # j => is_advance_nonce_account(infos[k])

\* With a nonce or memos around it: one transfer of the transaction agrees with the offer.
LEMMA AgreedTransaction ==
  ASSUME NEW infos, IsSeq(infos), \A j \in 1..Len(infos) : KnownInfo(infos[j]),
         NEW config, NEW offer,
         print_transaction(infos, config).printed,
         Agrees(print_transaction(infos, config).items, offer)
  PROVE  \E j \in 1..Len(infos) : IsAgreedTransfer(infos, j, config, offer)
<1>1. PICK S : infos \in Seq(S)
  BY DEF IsSeq
<1>2. CASE Len(infos) > 1 /\ is_advance_nonce_account(infos[1])
  <2> DEFINE rest == Tail(infos)
             printed == print_transaction_nonce_processed(rest, config)
  <2>1. PICK n \in Nat : n = Len(infos) /\ n > 1
    BY <1>1, <1>2, LenProperties
  <2>2. Len(rest) = n - 1 /\ \A i \in 1..(n - 1) : rest[i] = infos[i + 1]
    <3>1. infos # <<>>
      BY <2>1
    <3> QED BY <1>1, <2>1, <3>1, HeadTailProperties
  <2>3. Len(rest) = 1 => n = 2 /\ rest[1] = infos[2] /\ KnownInfo(rest[1])
    <3>1. ASSUME Len(rest) = 1 PROVE n = 2 /\ rest[1] = infos[2]
      BY <3>1, <2>1, <2>2
    <3>2. n = 2 => KnownInfo(infos[2])
      BY <2>1
    <3> QED BY <3>1, <3>2
  <2>4. PrintedWell(printed)
    BY <2>3, NonceProcessedWell
  <2>5. print_transaction(infos, config) =
          [printed EXCEPT !.items = Sentinel(infos[1], config) \o @]
    BY <1>2 DEF print_transaction
  <2> HIDE DEF printed, rest
  <2>6. /\ printed.printed
        /\ print_transaction(infos, config).items = Sentinel(infos[1], config) \o printed.items
    BY <2>4, <2>5 DEF PrintedWell
  <2>7. IsSeq(printed.items) /\ IsSeq(Sentinel(infos[1], config))
    BY <2>4, <2>6, SentinelItems DEF PrintedWell, Led, NonceItems
  <2>8. Elements(Sentinel(infos[1], config) \o printed.items) =
          Elements(Sentinel(infos[1], config)) \cup Elements(printed.items)
    BY <2>7, ElementsTogether
  <2>9. Agrees(printed.items, offer)
    BY <2>6, <2>8 DEF Agrees
  <2>10. Len(rest) = 1 /\ IsTransfer(rest[1]) /\ Agrees(print_system_info(rest[1], config), offer)
    BY <2>3, <2>6, <2>9, AgreedInfos DEF printed
  <2>11. 2 \in 1..Len(infos) /\ IsAgreedTransfer(infos, 2, config, offer)
    <3>1. n = 2 /\ rest[1] = infos[2]
      BY <2>3, <2>10
    <3>2. \A k \in 1..n : k # 2 => k = 1
      BY <3>1
    <3> QED BY <1>2, <2>1, <2>10, <3>1, <3>2 DEF IsAgreedTransfer
  <2> QED BY <2>11
<1>3. CASE ~(Len(infos) > 1 /\ is_advance_nonce_account(infos[1]))
  <2>1. Len(infos) = 1 => KnownInfo(infos[1])
    OBVIOUS
  <2>2. print_transaction(infos, config) = print_transaction_nonce_processed(infos, config)
    BY <1>3 DEF print_transaction
  <2>3. /\ Len(infos) = 1 /\ IsTransfer(infos[1])
        /\ Agrees(print_system_info(infos[1], config), offer)
    BY <2>1, <2>2, AgreedInfos
  <2>4. 1 \in 1..Len(infos) /\ IsAgreedTransfer(infos, 1, config, offer)
    <3>1. \A k \in 1..Len(infos) : k = 1
      BY <2>3
    <3> QED BY <2>3, <3>1 DEF IsAgreedTransfer
  <2> QED BY <2>4
<1> QED BY <1>2, <1>3

\* Every place that is to be kept is.
LEMMA KeptPlace ==
  ASSUME NEW at, NEW kept, NEW s, NEW places, NEW n, KeptAt(at, kept, s, places, n),
         NEW i \in places \cap (1..n)
  PROVE  \E k \in 1..Len(kept) : at[k] = i /\ kept[k] = s[i]
<1>1. PICK k \in 1..Len(kept) : at[k] = i
  BY DEF KeptAt
<1> QED BY <1>1 DEF KeptAt

\* One place kept of a sequence is its element.
LEMMA KeptOne ==
  ASSUME NEW s, NEW n \in Nat, n = Len(s), NEW i \in 1..n
  PROVE  Len(Kept(s, {i})) = 1 /\ Kept(s, {i})[1] = s[i]
<1>1. PICK kept : kept = Kept(s, {i})
  OBVIOUS
<1>2. PICK at : KeptAt(at, kept, s, {i}, n)
  BY <1>1, KeptProperties
<1>3. PICK m \in Nat : m = Len(kept)
  BY <1>2, LenProperties DEF KeptAt
<1>4. /\ \A j \in 1..m : at[j] = i /\ kept[j] = s[i]
      /\ \A j, k \in 1..m : j < k => at[j] < at[k]
      /\ \E j \in 1..m : at[j] = i
  BY <1>2, <1>3 DEF KeptAt
<1>5. m >= 1
  BY <1>4
<1>6. ~(m >= 2)
  <2> SUFFICES ASSUME m >= 2 PROVE FALSE
    OBVIOUS
  <2>1. 1 \in 1..m /\ 2 \in 1..m
    OBVIOUS
  <2>2. at[1] < at[2] /\ at[1] = i /\ at[2] = i
    BY <1>4, <2>1
  <2> QED BY <2>2
<1>7. m = 1
  BY <1>5, <1>6
<1>8. kept[1] = s[i]
  BY <1>4, <1>7
<1> QED BY <1>1, <1>3, <1>7, <1>8

-----------------------------------------------------------------------------
(* The fields that the parsers give an info. *)

-----------------------------------------------------------------------------
(* Which fields the parsers fill in. *)

FieldsOf(names) == {names[i] : i \in DOMAIN names}
FieldsOfLayout(layout) == FieldsOf(layout.accounts) \cup FieldsOf(layout.data)

Lacks(layout, fields) == \A field \in fields : field \notin FieldsOfLayout(layout)

\* An info has no field but those of the layout it was read by.
LEMMA ReadFields ==
  ASSUME NEW layout, NEW instruction, NEW info \in ReadLayout(layout, instruction)
  PROVE  DOMAIN info \subseteq FieldsOfLayout(layout)
<1>1. PICK a \in Read(layout.accounts, Iterate(instruction)), b \in Read(layout.data, instruction.data) :
        info = Joined(a, b)
  BY DEF ReadLayout, Both
<1>2. a = Named(layout.accounts, Iterate(instruction)) /\ b = Named(layout.data, instruction.data)
  BY ReadOne
<1>3. DOMAIN a \subseteq FieldsOf(layout.accounts) /\ DOMAIN b \subseteq FieldsOf(layout.data)
  BY <1>2 DEF Named, FieldsOf
<1>4. DOMAIN info = DOMAIN a \cup DOMAIN b
  BY <1>1 DEF Joined
<1> QED BY <1>3, <1>4 DEF FieldsOfLayout

\* The layout is that of the instruction's kind.
LEMMA SwitchFields ==
  ASSUME NEW layouts, NEW instruction, NEW info \in Switch(layouts, instruction)
  PROVE  /\ instruction.kind \in DOMAIN layouts
         /\ DOMAIN info \subseteq FieldsOfLayout(layouts[instruction.kind])
BY ReadFields DEF Switch

\* The amounts in an instruction of the system program, and who acts in it.
LEMMA SystemFields ==
  ASSUME NEW instruction, NEW info \in parse_system_instructions(instruction)
  PROVE  /\ instruction.kind \in SystemKinds
         /\ DOMAIN info \cap {"amount", "authorized_pubkey", "sign"} = {}
         /\ "lamports" \in DOMAIN info =>
              instruction.kind \in {"Transfer", "CreateAccount", "CreateAccountWithSeed",
                                    "WithdrawNonceAccount"}
         /\ "from" \in DOMAIN info =>
              instruction.kind \in {"Transfer", "CreateAccount", "CreateAccountWithSeed"}
         /\ "authority" \in DOMAIN info =>
              instruction.kind \in {"AdvanceNonceAccount", "InitializeNonceAccount",
                                    "WithdrawNonceAccount", "AuthorizeNonceAccount"}
<1>1. PICK layouts : layouts = Joined(SystemNonceLayouts, SystemAccountLayouts)
  OBVIOUS
<1>2. PICK kind : kind = instruction.kind
  OBVIOUS
<1>3. kind \in DOMAIN layouts /\ DOMAIN info \subseteq FieldsOfLayout(layouts[kind])
  BY <1>1, <1>2, SwitchFields DEF parse_system_instructions
<1>4. kind \in SystemKinds
  BY <1>1, <1>3, JoinedFields DEF SystemKinds
<1>5. CASE kind \in DOMAIN SystemNonceLayouts
  <2>1. layouts[kind] = SystemNonceLayouts[kind]
    BY <1>1, <1>5 DEF Joined
  <2>2. Lacks(layouts[kind], {"amount", "authorized_pubkey", "sign", "from"})
    BY <1>5, <2>1 DEF SystemNonceLayouts, Skip, FieldsOfLayout, FieldsOf, Layout, Lacks
  <2>3. kind # "WithdrawNonceAccount" => "lamports" \notin FieldsOfLayout(layouts[kind])
    BY <1>5, <2>1 DEF SystemNonceLayouts, Skip, FieldsOfLayout, FieldsOf, Layout
  <2> QED BY <1>2, <1>3, <1>4, <1>5, <2>2, <2>3 DEF SystemNonceLayouts, Lacks
<1>6. CASE kind \in DOMAIN SystemAccountLayouts
  <2>1. layouts[kind] = SystemAccountLayouts[kind]
    BY <1>1, <1>6 DEF Joined, SystemAccountLayouts, SystemNonceLayouts
  <2>2. Lacks(layouts[kind], {"amount", "authorized_pubkey", "sign", "authority"})
    BY <1>6, <2>1 DEF SystemAccountLayouts, AllocateWithSeed, Skip, FieldsOfLayout, FieldsOf, Layout, Lacks
  <2>3. "lamports" \in FieldsOfLayout(layouts[kind]) \/ "from" \in FieldsOfLayout(layouts[kind]) =>
           kind \in {"Transfer", "CreateAccount", "CreateAccountWithSeed"}
    BY <1>6, <2>1 DEF SystemAccountLayouts, AllocateWithSeed, Skip, FieldsOfLayout, FieldsOf, Layout
  <2> QED BY <1>2, <1>3, <1>4, <2>2, <2>3 DEF Lacks
<1> QED BY <1>4, <1>5, <1>6 DEF SystemKinds

\* The fields of stake instructions: amounts and authorities of some kinds only.
LEMMA StakeFields ==
  ASSUME NEW instruction, NEW info \in parse_stake_instructions(instruction)
  PROVE  /\ \A field \in {"amount", "sign", "from"} : field \notin DOMAIN info
         /\ "lamports" \in DOMAIN info => instruction.kind \in {"Withdraw", "Split"}
         /\ "authorized_pubkey" \in DOMAIN info => instruction.kind = "Delegate"
         /\ "authority" \in DOMAIN info =>
              instruction.kind \in {"Withdraw", "Deactivate", "Split", "Merge", "Authorize",
                                    "AuthorizeChecked"}
<1>1. PICK kind : kind = instruction.kind
  OBVIOUS
<1>2. CASE info \in Switch(StakeMoveLayouts, instruction)
  <2>1. /\ kind \in DOMAIN StakeMoveLayouts
        /\ DOMAIN info \subseteq FieldsOfLayout(StakeMoveLayouts[kind])
    BY <1>1, <1>2, SwitchFields
  <2>2. Lacks(StakeMoveLayouts[kind], {"amount", "sign", "from"})
    BY <2>1 DEF StakeMoveLayouts, Skip, FieldsOfLayout, FieldsOf, Layout, Lacks
  <2>3. kind \in {"Delegate", "Deactivate", "Merge"} => Lacks(StakeMoveLayouts[kind], {"lamports"})
    <3> USE DEF StakeMoveLayouts, Skip, FieldsOfLayout, FieldsOf, Layout, Lacks
    <3>1. CASE kind = "Delegate"
      BY <3>1
    <3>2. CASE kind = "Deactivate"
      BY <3>2
    <3>3. CASE kind = "Merge"
      BY <3>3
    <3> QED BY <3>1, <3>2, <3>3
  <2>4. kind # "Delegate" => Lacks(StakeMoveLayouts[kind], {"authorized_pubkey"})
    BY <2>1 DEF StakeMoveLayouts, Skip, FieldsOfLayout, FieldsOf, Layout, Lacks
  <2>5. kind \notin {"Withdraw", "Deactivate", "Split", "Merge"} =>
          Lacks(StakeMoveLayouts[kind], {"authority"})
    BY <2>1 DEF StakeMoveLayouts, Skip, FieldsOfLayout, FieldsOf, Layout, Lacks
  <2>6. kind \in {"Delegate", "Withdraw", "Deactivate", "Split", "Merge"}
    BY <2>1 DEF StakeMoveLayouts
  <2> QED BY <1>1, <2>1, <2>2, <2>3, <2>4, <2>5, <2>6 DEF Lacks
<1>3. CASE info \in parse_stake_initialize(instruction)
  <2>1. DOMAIN info = {"account", "stake_authority", "withdraw_authority", "lockup"}
    BY <1>3 DEF parse_stake_initialize
  <2> QED BY <2>1
<1>4. CASE info \in parse_stake_authorize(instruction)
  <2>1. PICK other \in Switch(StakeAuthorizeLayouts, instruction) :
          \E key : info = Joined(other, [custodian |-> key])
    BY <1>4 DEF parse_stake_authorize
  <2>2. /\ kind \in DOMAIN StakeAuthorizeLayouts
        /\ DOMAIN other \subseteq FieldsOfLayout(StakeAuthorizeLayouts[kind])
    BY <1>1, SwitchFields
  <2>3. Lacks(StakeAuthorizeLayouts[kind], {"amount", "sign", "from", "lamports", "authorized_pubkey"})
    BY <2>2 DEF StakeAuthorizeLayouts, Skip, FieldsOfLayout, FieldsOf, Layout, Lacks
  <2>4. DOMAIN info = DOMAIN other \cup {"custodian"}
    BY <2>1 DEF Joined
  <2> QED BY <1>1, <2>2, <2>3, <2>4 DEF Lacks, StakeAuthorizeLayouts
<1>5. CASE info \in parse_stake_set_lockup(instruction)
  <2>1. DOMAIN info = {"account", "custodian", "lockup"}
    BY <1>5 DEF parse_stake_set_lockup
  <2> QED BY <2>1
<1> QED BY <1>2, <1>3, <1>4, <1>5 DEF parse_stake_instructions

\* The fields of vote instructions.
LEMMA VoteFields ==
  ASSUME NEW instruction, NEW info \in parse_vote_instructions(instruction)
  PROVE  /\ \A field \in {"amount", "sign", "from", "authorized_pubkey"} : field \notin DOMAIN info
         /\ "lamports" \in DOMAIN info => instruction.kind = "Withdraw"
         /\ "authority" \in DOMAIN info =>
              instruction.kind \in {"Withdraw", "Authorize", "AuthorizeChecked",
                                    "UpdateCommission", "UpdateValidatorId"}
<1>1. PICK kind : kind = instruction.kind
  OBVIOUS
<1>2. CASE info \in Switch(VoteLayouts, instruction)
  <2>1. kind \in DOMAIN VoteLayouts /\ DOMAIN info \subseteq FieldsOfLayout(VoteLayouts[kind])
    BY <1>1, <1>2, SwitchFields
  <2>2. Lacks(VoteLayouts[kind], {"amount", "sign", "from", "authorized_pubkey"})
    BY <2>1 DEF VoteLayouts, Skip, FieldsOfLayout, FieldsOf, Layout, Lacks
  <2>3. kind # "Withdraw" => Lacks(VoteLayouts[kind], {"lamports"})
    BY <2>1 DEF VoteLayouts, Skip, FieldsOfLayout, FieldsOf, Layout, Lacks
  <2>4. kind = "Initialize" => Lacks(VoteLayouts[kind], {"authority"})
    BY <2>1 DEF VoteLayouts, Skip, FieldsOfLayout, FieldsOf, Layout, Lacks
  <2>5. kind \in {"Initialize", "Withdraw", "Authorize", "AuthorizeChecked", "UpdateCommission"}
    BY <2>1 DEF VoteLayouts
  <2> QED BY <1>1, <2>1, <2>2, <2>3, <2>4, <2>5 DEF Lacks
<1>3. CASE info \in parse_vote_update_validator_id_instruction(instruction)
  <2>1. kind = "UpdateValidatorId"
    BY <1>1, <1>3 DEF parse_vote_update_validator_id_instruction
  <2>2. PICK plain, keyed :
          /\ plain = Layout(<<"account", "new_validator_id", "authority">>, <<>>)
          /\ keyed = Layout(<<"account", Skip, "authority">>, <<"new_validator_id">>)
    OBVIOUS
  <2>3. \/ info \in ReadLayout(plain, instruction)
        \/ info \in ReadLayout(keyed, instruction)
    BY <1>3, <2>2 DEF parse_vote_update_validator_id_instruction
  <2>4. DOMAIN info \subseteq FieldsOfLayout(plain) \/ DOMAIN info \subseteq FieldsOfLayout(keyed)
    BY <2>3, ReadFields
  <2>5. Lacks(plain, {"amount", "sign", "from", "authorized_pubkey", "lamports"})
    BY <2>2 DEF Skip, FieldsOfLayout, FieldsOf, Layout, Lacks
  <2>6. Lacks(keyed, {"amount", "sign", "from", "authorized_pubkey", "lamports"})
    BY <2>2 DEF Skip, FieldsOfLayout, FieldsOf, Layout, Lacks
  <2> QED BY <1>1, <2>1, <2>4, <2>5, <2>6 DEF Lacks
<1> QED BY <1>2, <1>3 DEF parse_vote_instructions

AmountKinds == {"TransferChecked", "ApproveChecked", "MintToChecked", "BurnChecked"}

\* The fields of token instructions: amounts in the four checked kinds, signers in the
\* signed ones.
LEMMA TokenFields ==
  ASSUME NEW instruction, NEW info \in parse_rpl_token_instructions(instruction)
  PROVE  /\ \A field \in {"lamports", "from", "authority", "authorized_pubkey"} : field \notin DOMAIN info
         /\ "amount" \in DOMAIN info => instruction.kind \in AmountKinds
         /\ "sign" \in DOMAIN info => instruction.kind \in DOMAIN TokenSignedLayouts
<1>1. PICK kind : kind = instruction.kind
  OBVIOUS
<1>2. CASE kind \in DOMAIN TokenSignedLayouts
  <2>0. kind \notin {"InitializeMultisig", "InitializeAccount"}
    BY <1>2 DEF TokenSignedLayouts
  <2>1. info \in parse_signed(instruction)
    BY <1>1, <1>2, <2>0 DEF parse_rpl_token_instructions
  <2> DEFINE others == {other \in Switch(TokenSignedLayouts, instruction) :
                          "authority_type" \in DOMAIN other => other.authority_type \in AuthorityTypes}
             signs == parse_rpl_token_sign(Remaining(TokenSignedLayouts[instruction.kind], instruction))
  <2>7. info \in {Joined(other, [sign |-> sign]) : other \in others, sign \in signs}
    BY <2>1 DEF parse_signed
  <2> HIDE DEF signs
  <2>2. PICK other \in others, sign \in signs : info = Joined(other, [sign |-> sign])
    BY <2>7
  <2>3. DOMAIN other \subseteq FieldsOfLayout(TokenSignedLayouts[kind])
    BY <1>1, SwitchFields
  <2>4. Lacks(TokenSignedLayouts[kind], {"lamports", "from", "authority", "authorized_pubkey"})
    BY <1>2 DEF TokenSignedLayouts, FieldsOfLayout, FieldsOf, Layout, Lacks
  <2>5. kind \notin AmountKinds => Lacks(TokenSignedLayouts[kind], {"amount"})
    BY <1>2 DEF TokenSignedLayouts, AmountKinds, FieldsOfLayout, FieldsOf, Layout, Lacks
  <2>6. DOMAIN info = DOMAIN other \cup {"sign"}
    BY <2>2 DEF Joined
  <2> QED BY <1>1, <1>2, <2>3, <2>4, <2>5, <2>6 DEF Lacks
<1>3. CASE kind = "InitializeMultisig"
  <2>1. info \in parse_initialize_multisig_rpl_token_instruction(instruction)
    BY <1>1, <1>3 DEF parse_rpl_token_instructions, TokenSignedLayouts
  <2> DEFINE others == {other \in ReadLayout(InitializeMultisig, instruction) :
                          other.m <= Token_MAX_SIGNERS}
             counts == parse_rpl_token_multisigners(Remaining(InitializeMultisig, instruction))
  <2>7. info \in Both(others, counts)
    BY <2>1 DEF parse_initialize_multisig_rpl_token_instruction
  <2> HIDE DEF counts
  <2>8. PICK other \in others, count \in counts : info = Joined(other, count)
    BY <2>7 DEF Both
  <2>2. PICK n : info = Joined(other, [count |-> n])
    BY <2>8 DEF parse_rpl_token_multisigners, counts
  <2>3. DOMAIN other \subseteq FieldsOfLayout(InitializeMultisig)
    BY ReadFields
  <2>4. Lacks(InitializeMultisig, {"lamports", "from", "authority", "authorized_pubkey", "amount", "sign"})
    BY DEF InitializeMultisig, Skip, FieldsOfLayout, FieldsOf, Layout, Lacks
  <2>5. DOMAIN info = DOMAIN other \cup {"count"}
    BY <2>2 DEF Joined
  <2> QED BY <2>3, <2>4, <2>5 DEF Lacks
<1>4. CASE kind \notin DOMAIN TokenSignedLayouts /\ kind # "InitializeMultisig"
  <2>1. info \in Switch(TokenInitializeLayouts, instruction)
    BY <1>1, <1>4 DEF parse_rpl_token_instructions
  <2>2. /\ kind \in DOMAIN TokenInitializeLayouts
        /\ DOMAIN info \subseteq FieldsOfLayout(TokenInitializeLayouts[kind])
    BY <1>1, <2>1, SwitchFields
  <2>3. Lacks(TokenInitializeLayouts[kind],
              {"lamports", "from", "authority", "authorized_pubkey", "amount", "sign"})
    BY <2>2 DEF TokenInitializeLayouts, Skip, FieldsOfLayout, FieldsOf, Layout, Lacks
  <2> QED BY <2>2, <2>3 DEF Lacks
<1> QED BY <1>2, <1>3, <1>4

\* A new associated account has neither amount nor authority.
LEMMA AssociatedFields ==
  ASSUME NEW instruction, NEW info \in parse_rpl_associated_token_account_instructions(instruction)
  PROVE  \A field \in {"lamports", "from", "authority", "authorized_pubkey", "amount", "sign"} :
           field \notin DOMAIN info
<1>1. PICK layout : layout = Layout(<<"funder", "address", "owner", "mint", Skip, Skip>>, <<>>)
  OBVIOUS
<1>2. DOMAIN info \subseteq FieldsOfLayout(layout)
  BY <1>1, ReadFields DEF parse_rpl_associated_token_account_instructions
<1>3. Lacks(layout, {"lamports", "from", "authority", "authorized_pubkey", "amount", "sign"})
  BY <1>1 DEF Skip, FieldsOfLayout, FieldsOf, Layout, Lacks
<1> QED BY <1>2, <1>3 DEF Lacks

\* What the fields of an info say of its program and kind.
FieldsAre(info) ==
  /\ "lamports" \in DOMAIN info =>
       \/ info.program = "System" /\ info.kind \in {"Transfer", "CreateAccount", "CreateAccountWithSeed",
                                                    "WithdrawNonceAccount"}
       \/ info.program = "Stake" /\ info.kind \in {"Withdraw", "Split"}
       \/ info.program = "Vote" /\ info.kind = "Withdraw"
  /\ "amount" \in DOMAIN info => info.program = "RplToken" /\ info.kind \in AmountKinds
  /\ "from" \in DOMAIN info =>
       info.program = "System" /\ info.kind \in {"Transfer", "CreateAccount", "CreateAccountWithSeed"}
  /\ "authority" \in DOMAIN info =>
       \/ info.program = "System" /\ info.kind \in {"AdvanceNonceAccount", "InitializeNonceAccount",
                                                    "WithdrawNonceAccount", "AuthorizeNonceAccount"}
       \/ info.program = "Stake" /\ info.kind \in {"Withdraw", "Deactivate", "Split", "Merge",
                                                   "Authorize", "AuthorizeChecked"}
       \/ info.program = "Vote" /\ info.kind \in {"Withdraw", "Authorize", "AuthorizeChecked",
                                                  "UpdateCommission", "UpdateValidatorId"}
  /\ "authorized_pubkey" \in DOMAIN info => info.program = "Stake" /\ info.kind = "Delegate"
  /\ "sign" \in DOMAIN info => info.program = "RplToken" /\ info.kind \in DOMAIN TokenSignedLayouts

\* So whatever info an instruction gives, its amounts and keys are of its kind.
LEMMA InfoFields ==
  ASSUME NEW instruction, Info(instruction).program \notin {"Unknown", "RplMemo"}
  PROVE  FieldsAre(Info(instruction))
<1> DEFINE parsed ==
        CASE instruction.program = "System" -> parse_system_instructions(instruction)
          [] instruction.program = "Stake" -> parse_stake_instructions(instruction)
          [] instruction.program = "Vote" -> parse_vote_instructions(instruction)
          [] instruction.program = "RplToken" -> parse_rpl_token_instructions(instruction)
          [] instruction.program = "RplAssociatedTokenAccount" ->
               parse_rpl_associated_token_account_instructions(instruction)
          [] instruction.program = "RplMemo" -> {<<>>}
          [] OTHER -> {}
<1>1. PICK info : info = Info(instruction)
  OBVIOUS
<1>2. PICK brief : brief = [program |-> instruction.program, kind |-> instruction.kind]
  OBVIOUS
<1>3. parsed # {} /\ info = Joined(brief, CHOOSE other \in parsed : TRUE)
  BY <1>1, <1>2 DEF Info
<1>4. PICK other \in parsed : info = Joined(brief, other)
  BY <1>3
<1>5. /\ DOMAIN info = {"program", "kind"} \cup DOMAIN other
      /\ info.program = instruction.program /\ info.kind = instruction.kind
  BY <1>2, <1>4 DEF Joined
<1>6. instruction.program # "RplMemo"
  BY <1>1, <1>5
<1>7. \A field \in {"lamports", "from", "authority", "authorized_pubkey", "amount", "sign"} :
        field \in DOMAIN info => field \in DOMAIN other
  BY <1>5
<1>8. CASE instruction.program = "System"
  <2>1. other \in parse_system_instructions(instruction)
    BY <1>4, <1>8
  <2> QED BY <1>1, <1>5, <1>7, <1>8, <2>1, SystemFields DEF FieldsAre
<1>9. CASE instruction.program = "Stake"
  <2>1. other \in parse_stake_instructions(instruction)
    BY <1>4, <1>9
  <2> QED BY <1>1, <1>5, <1>7, <1>9, <2>1, StakeFields DEF FieldsAre
<1>10. CASE instruction.program = "Vote"
  <2>1. other \in parse_vote_instructions(instruction)
    BY <1>4, <1>10
  <2> QED BY <1>1, <1>5, <1>7, <1>10, <2>1, VoteFields DEF FieldsAre
<1>11. CASE instruction.program = "RplToken"
  <2>1. other \in parse_rpl_token_instructions(instruction)
    BY <1>4, <1>11
  <2> QED BY <1>1, <1>5, <1>7, <1>11, <2>1, TokenFields DEF FieldsAre
<1>12. CASE instruction.program = "RplAssociatedTokenAccount"
  <2>1. other \in parse_rpl_associated_token_account_instructions(instruction)
    BY <1>4, <1>12
  <2> QED BY <1>1, <1>5, <1>7, <1>12, <2>1, AssociatedFields DEF FieldsAre
<1>13. instruction.program \in {"System", "Stake", "Vote", "RplToken", "RplAssociatedTokenAccount"}
  BY <1>3, <1>6
<1> HIDE DEF parsed
<1> QED BY <1>8, <1>9, <1>10, <1>11, <1>12, <1>13

-----------------------------------------------------------------------------
(* The amounts. *)

ShowsThat(item, amount) ==
  \/ item.kind = "Amount" /\ item.value = amount
  \/ item.kind = "TokenAmount" /\ item.value.amount = amount
AmountPut(items, amount) == \E item : Puts(items, item) /\ ShowsThat(item, amount)

\* An amount put by a part is put by the whole.
LEMMA AmountFirst ==
  ASSUME NEW a, NEW b, NEW amount, AmountPut(a, amount), IsSeq(b)
  PROVE  AmountPut(a \o b, amount)
BY PutsFirst DEF AmountPut

\* The same of the part behind.
LEMMA AmountSecond ==
  ASSUME NEW a, NEW b, NEW amount, IsSeq(a), AmountPut(b, amount)
  PROVE  AmountPut(a \o b, amount)
BY PutsSecond DEF AmountPut

\* Each item of an amount puts it.
LEMMA AmountOne ==
  /\ \A title, amount : AmountPut(Primary("Amount", title, amount), amount)
  /\ \A title, amount : AmountPut(General("Amount", title, amount), amount)
  /\ \A slot, title, info : AmountPut(TokenAmount(slot, title, info), info.amount)
<1>1. ASSUME NEW slot, NEW title, NEW amount PROVE AmountPut(PrintTo(slot, "Amount", title, amount), amount)
  <2>1. PICK item : item = Item("Amount", title, amount)
    OBVIOUS
  <2>2. Puts(PrintTo(slot, "Amount", title, amount), item)
    BY <2>1, PutsOne, PrintersKinds
  <2>3. ShowsThat(item, amount)
    BY <2>1 DEF ShowsThat, Item
  <2> QED BY <2>2, <2>3 DEF AmountPut
<1>2. ASSUME NEW slot, NEW title, NEW info PROVE AmountPut(TokenAmount(slot, title, info), info.amount)
  <2>1. PICK value : value = [amount |-> info.amount, symbol |-> get_token_symbol(info.mint_account),
                              decimals |-> info.decimals]
    OBVIOUS
  <2>2. PICK item : item = Item("TokenAmount", title, value)
    OBVIOUS
  <2>3. Puts(PrintTo(slot, "TokenAmount", title, value), item)
    BY <2>2, PutsOne, PrintersKinds
  <2>4. ShowsThat(item, info.amount)
    BY <2>1, <2>2 DEF ShowsThat, Item
  <2> QED BY <2>1, <2>3, <2>4 DEF AmountPut, TokenAmount
<1> QED BY <1>1, <1>2 DEF Primary, General

\* Primary items are sequences too.
LEMMA SeqPrimary ==
  /\ \A kind \in ItemKinds : \A title, value : IsSeq(Primary(kind, title, value))
  /\ \A title, key : IsSeq(OptionalPrimary(title, key))
<1>1. \A kind \in ItemKinds : \A title, value : IsSeq(Primary(kind, title, value))
  BY ElementOfPut DEF Primary
<1> QED BY <1>1, NoItem, PrintersKinds DEF OptionalPrimary, UpTo

\* The deposit of a new account.
LEMMA DepositPut ==
  ASSUME NEW title, NEW info, NEW config
  PROVE  /\ AmountPut(print_system_create_account_info(title, info, config), info.lamports)
         /\ AmountPut(print_system_create_account_with_seed_info(title, info, config), info.lamports)
<1>1. AmountPut(print_system_create_account_info(title, info, config), info.lamports)
  BY AmountOne, AmountFirst, AmountSecond, SeqPrimary, Seqs DEF print_system_create_account_info
<1> QED BY <1>1, AmountFirst, Seqs DEF print_system_create_account_with_seed_info

\* The system program's instructions that move lamports put them.
LEMMA SystemAmount ==
  ASSUME NEW info, NEW config,
         info.kind \in {"Transfer", "CreateAccount", "CreateAccountWithSeed", "WithdrawNonceAccount"}
  PROVE  AmountPut(print_system_info(info, config), info.lamports)
<1> USE AmountOne, AmountFirst, Seqs DEF print_system_info
<1>1. CASE info.kind = "Transfer"
  BY <1>1
<1>2. CASE info.kind = "CreateAccount"
  BY <1>2, DepositPut
<1>3. CASE info.kind = "CreateAccountWithSeed"
  BY <1>3, DepositPut
<1>4. CASE info.kind = "WithdrawNonceAccount"
  BY <1>4
<1> QED BY <1>1, <1>2, <1>3, <1>4

\* So do the stake program's.
LEMMA StakeAmount ==
  ASSUME NEW info, NEW config, info.kind \in {"Withdraw", "Split"}
  PROVE  AmountPut(print_stake_info(info, config), info.lamports)
<1> USE AmountOne, AmountFirst, Seqs DEF print_stake_info
<1>1. CASE info.kind = "Withdraw"
  BY <1>1
<1>2. CASE info.kind = "Split"
  BY <1>2 DEF print_stake_split_info1, print_stake_split_info2
<1> QED BY <1>1, <1>2

\* So does a withdrawal from a vote account.
LEMMA VoteAmount ==
  ASSUME NEW info, NEW config, info.kind = "Withdraw"
  PROVE  AmountPut(print_vote_info(info, config), info.lamports)
BY AmountOne, AmountFirst, Seqs DEF print_vote_info

\* A transfer of tokens puts its amount, as primary item or behind one.
LEMMA TransferAmount ==
  ASSUME NEW slot, NEW info, NEW config
  PROVE  AmountPut(print_rpl_token_transfer_info(slot, info, config), info.amount)
BY AmountOne, AmountFirst, Seqs DEF print_rpl_token_transfer_info

\* The token program's instructions that have an amount put it.
LEMMA TokensAmount ==
  ASSUME NEW info, NEW config, info.kind \in AmountKinds
  PROVE  AmountPut(print_rpl_token_info(info, config), info.amount)
<1> USE AmountOne, AmountFirst, AmountSecond, Seqs, SeqPrimary, PrintersKinds DEF print_rpl_token_info
<1>1. CASE info.kind = "TransferChecked"
  BY <1>1, TransferAmount
<1>2. CASE info.kind = "ApproveChecked"
  <2>1. AmountPut(Primary("Pubkey", "Approve_delegate", info.delegate) \o
                  TokenAmount("general", "Allowance", info), info.amount)
    OBVIOUS
  <2> QED BY <1>2, <2>1
<1>3. CASE info.kind = "MintToChecked"
  BY <1>3
<1>4. CASE info.kind = "BurnChecked"
  BY <1>4
<1> QED BY <1>1, <1>2, <1>3, <1>4 DEF AmountKinds

AmountsPut(items, info) == \A amount \in AmountsOf(info) : AmountPut(items, amount)

\* An info whose only amount is its lamports has put its amounts when it has put them.
LEMMA LamportsPut ==
  ASSUME NEW info, NEW items, "amount" \notin DOMAIN info,
         "lamports" \in DOMAIN info => AmountPut(items, info.lamports)
  PROVE  AmountsPut(items, info)
BY DEF AmountsPut, AmountsOf, AmountFields

\* An info whose only amount is one of tokens, likewise.
LEMMA TokensPut ==
  ASSUME NEW info, NEW items, "lamports" \notin DOMAIN info,
         "amount" \in DOMAIN info => AmountPut(items, info.amount)
  PROVE  AmountsPut(items, info)
BY DEF AmountsPut, AmountsOf, AmountFields

\* An instruction on its own puts its amounts.
LEMMA OneAmounts ==
  ASSUME NEW info, FieldsAre(info), KnownInfo(info), NEW config
  PROVE  AmountsPut(PrintOne(info, config).items, info)
<1> USE DEF FieldsAre, PrintOne, Printed
<1>1. CASE info.program = "System"
  BY <1>1, SystemAmount, LamportsPut
<1>2. CASE info.program = "Stake"
  BY <1>2, StakeAmount, LamportsPut
<1>3. CASE info.program = "Vote"
  BY <1>3, VoteAmount, LamportsPut
<1>4. CASE info.program = "RplToken"
  BY <1>4, TokensAmount, TokensPut
<1>5. CASE info.program = "RplAssociatedTokenAccount"
  BY <1>5, LamportsPut
<1> QED BY <1>1, <1>2, <1>3, <1>4, <1>5 DEF KnownInfo

\* A created account puts its lamports whatever is behind it.
LEMMA CreatedAmount ==
  ASSUME NEW title, NEW infos, NEW config, NEW initialize, IsSeq(initialize)
  PROVE  AmountPut(print_create_account(title, infos, config, initialize), infos[1].lamports)
<1> DEFINE create == IF infos[1].kind = "CreateAccount"
                     THEN print_system_create_account_info(NoTitle, infos[1], config)
                     ELSE print_system_create_account_with_seed_info(NoTitle, infos[1], config)
<1>1. AmountPut(create, infos[1].lamports)
  BY DepositPut
<1> HIDE DEF create
<1>2. AmountPut(Primary("Pubkey", title, infos[1].to) \o create \o initialize, infos[1].lamports)
  BY <1>1, AmountFirst, AmountSecond, SeqPrimary, PrintersKinds
<1> QED BY <1>2 DEF print_create_account, create

\* The funder and the deposit of an account for tokens put the deposit.
LEMMA FundedAmount ==
  ASSUME NEW create, NEW config
  PROVE  IsSeq(Funded(create, config)) /\ AmountPut(Funded(create, config), create.lamports)
<1>1. AmountPut(Funded(create, config), create.lamports)
  BY AmountOne, AmountSecond, Seqs DEF Funded
<1>2. IsSeq(Funded(create, config))
  BY <1>1 DEF AmountPut, Puts
<1> QED BY <1>1, <1>2

\* What the items of two instructions show, if they are printed.
TwoShown(result, infos) ==
  result.printed =>
    /\ AmountsPut(result.items, infos[2])
    /\ AmountsPut(result.items, infos[1]) \/ SplitInto(infos)

\* A created account and its initialization: the amounts of both are those of the first.
LEMMA CreatedShown ==
  ASSUME NEW infos, FieldsAre(infos[1]), FieldsAre(infos[2]), infos[1].program = "System",
         "lamports" \notin DOMAIN infos[2], "amount" \notin DOMAIN infos[2],
         NEW items, AmountPut(items, infos[1].lamports)
  PROVE  TwoShown(Printed(items), infos)
<1>1. AmountsPut(items, infos[1])
  BY LamportsPut DEF FieldsAre
<1>2. AmountsPut(items, infos[2])
  BY LamportsPut
<1> QED BY <1>1, <1>2 DEF TwoShown, Printed

\* Two instructions put the amounts of both, but for an account a stake is split into.
LEMMA TwoAmounts ==
  ASSUME NEW infos, FieldsAre(infos[1]), FieldsAre(infos[2]), NEW config
  PROVE  TwoShown(PrintTwo(infos, config), infos)
<1> DEFINE create == infos[1]
           info == infos[2]
<1> USE DEF SystemThen, Match
<1>1. ASSUME is_create_stake_account(infos)
      PROVE  TwoShown(Printed(print_create_account("Create_stake_acct", infos, config,
                                print_stake_initialize_info(NoTitle, info, config))), infos)
  <2>1. IsSeq(print_stake_initialize_info(NoTitle, info, config))
    BY StakeInitializeInfo DEF UpTo
  <2>2. create.program = "System" /\ info.program = "Stake" /\ info.kind \in {"Initialize", "InitializeChecked"}
    BY <1>1 DEF is_create_stake_account
  <2>3. "lamports" \notin DOMAIN info /\ "amount" \notin DOMAIN info
    BY <2>2 DEF FieldsAre
  <2> QED BY <2>1, <2>2, <2>3, CreatedAmount, CreatedShown
<1>2. ASSUME is_create_nonce_account(infos)
      PROVE  TwoShown(Printed(print_create_account("Create_nonce_acct", infos, config,
                                print_system_initialize_nonce_info(NoTitle, info))), infos)
  <2>1. IsSeq(print_system_initialize_nonce_info(NoTitle, info))
    BY SeqPrimary, Seqs, Concatenation DEF print_system_initialize_nonce_info
  <2>2. create.program = "System" /\ info.program = "System" /\ info.kind = "InitializeNonceAccount"
    BY <1>2 DEF is_create_nonce_account
  <2>3. "lamports" \notin DOMAIN info /\ "amount" \notin DOMAIN info
    BY <2>2 DEF FieldsAre
  <2> QED BY <2>1, <2>2, <2>3, CreatedAmount, CreatedShown
<1>3. ASSUME is_create_vote_account(infos)
      PROVE  TwoShown(Printed(print_create_account("Create_vote_acct", infos, config,
                                print_vote_initialize_info(NoTitle, info))), infos)
  <2>1. IsSeq(print_vote_initialize_info(NoTitle, info))
    BY VoteInitializeInfo DEF UpTo
  <2>2. create.program = "System" /\ info.program = "Vote" /\ info.kind = "Initialize"
    BY <1>3 DEF is_create_vote_account
  <2>3. "lamports" \notin DOMAIN info /\ "amount" \notin DOMAIN info
    BY <2>2 DEF FieldsAre
  <2> QED BY <2>1, <2>2, <2>3, CreatedAmount, CreatedShown
<1>4. ASSUME NEW items, NEW printed, NEW program \in {"Stake", "Vote"},
             NEW kind \in {"Authorize", "AuthorizeChecked"}, Twice(program, kind, infos)
      PROVE  TwoShown([printed |-> printed, items |-> items], infos)
  <2>1. /\ create.program = program /\ create.kind = kind
        /\ info.program = program /\ info.kind = kind
    BY <1>4 DEF Twice
  <2>2. /\ "lamports" \notin DOMAIN info /\ "amount" \notin DOMAIN info
        /\ "lamports" \notin DOMAIN create /\ "amount" \notin DOMAIN create
    BY <2>1 DEF FieldsAre
  <2>3. AmountsPut(items, info) /\ AmountsPut(items, create)
    BY <2>2, LamportsPut
  <2> QED BY <2>3 DEF TwoShown
<1>5. ASSUME NEW account_title, NEW new_title, NEW expected, NEW program \in {"Stake", "Vote"},
             NEW kind \in {"Authorize", "AuthorizeChecked"}, Twice(program, kind, infos)
      PROVE  TwoShown(print_authorize_both(infos, config, account_title, new_title, expected), infos)
  <2>1. PICK result : result = print_authorize_both(infos, config, account_title, new_title, expected)
    OBVIOUS
  <2>2. result = [printed |-> result.printed, items |-> result.items]
    BY <2>1 DEF print_authorize_both, Printed, NotPrinted
  <2> QED BY <1>4, <1>5, <2>1, <2>2
<1>6. ASSUME is_stake_split_with_seed(infos)
      PROVE  TwoShown(Printed(print_stake_split_with_seed(infos, config)), infos)
  <2>1. /\ create.program = "System" /\ create.kind \in {"AllocateWithSeed", "CreateAccountWithSeed"}
        /\ info.program = "Stake" /\ info.kind = "Split" /\ Len(infos) = 2
    BY <1>6 DEF is_stake_split_with_seed
  <2>2. AmountPut(print_stake_split_with_seed(infos, config), info.lamports)
    BY AmountOne, AmountFirst, Seqs
       DEF print_stake_split_with_seed, print_stake_split_info1, print_stake_split_info2
  <2>3. AmountsPut(print_stake_split_with_seed(infos, config), info)
    BY <2>1, <2>2, LamportsPut DEF FieldsAre
  <2>4. AmountsPut(print_stake_split_with_seed(infos, config), create) \/ SplitInto(infos)
    BY <2>1, LamportsPut DEF FieldsAre, SplitInto, Creates
  <2> QED BY <2>3, <2>4 DEF TwoShown, Printed
<1>7. ASSUME is_stake_split_v1_2(infos)
      PROVE  TwoShown(Printed(print_stake_info(info, config)), infos)
  <2>1. /\ create.program = "System" /\ create.kind = "CreateAccount"
        /\ info.program = "Stake" /\ info.kind = "Split" /\ Len(infos) = 2
    BY <1>7 DEF is_stake_split_v1_2
  <2>2. AmountsPut(print_stake_info(info, config), info)
    BY <2>1, StakeAmount, LamportsPut DEF FieldsAre
  <2> QED BY <2>1, <2>2 DEF TwoShown, Printed, SplitInto, Creates
<1>8. ASSUME create.program = "System", info.program = "RplToken",
             info.kind \in {"InitializeMint", "InitializeAccount", "InitializeAccount2",
                            "InitializeMultisig"},
             NEW items, IsSeq(items)
      PROVE  TwoShown(Printed(items \o Funded(create, config)), infos)
  <2>1. "lamports" \notin DOMAIN info /\ "amount" \notin DOMAIN info
    BY <1>8 DEF FieldsAre, AmountKinds
  <2>2. AmountPut(items \o Funded(create, config), create.lamports)
    BY <1>8, FundedAmount, AmountSecond
  <2> QED BY <1>8, <2>1, <2>2, CreatedShown
<1>9. ASSUME is_rpl_token_create_mint(infos)
      PROVE  TwoShown(Printed(print_rpl_token_create_mint(create, info, config)), infos)
  <2>1. create.program = "System" /\ info.program = "RplToken" /\ info.kind = "InitializeMint"
    BY <1>9 DEF is_rpl_token_create_mint
  <2> DEFINE items == Primary("Pubkey", "Create_token_mint", info.mint_account) \o
                      Pubkey("Mint_authority", info.mint_authority) \o
                      General("U64", "Mint_decimals", info.decimals) \o
                      When(info.freeze_authority # NoKey, Pubkey("Freeze_authority", info.freeze_authority))
  <2>2. IsSeq(items)
    BY SeqPrimary, Seqs, Concatenation, PrintersKinds
  <2> HIDE DEF items
  <2>3. TwoShown(Printed(items \o Funded(create, config)), infos)
    BY <1>8, <2>1, <2>2
  <2> QED BY <2>3 DEF print_rpl_token_create_mint, items
<1>10. ASSUME is_rpl_token_create_account(infos)
       PROVE  TwoShown(Printed(print_rpl_token_create_account(create, info, config)), infos)
  <2>1. /\ create.program = "System" /\ info.program = "RplToken"
        /\ info.kind \in {"InitializeAccount", "InitializeAccount2"}
    BY <1>10 DEF is_rpl_token_create_account
  <2> DEFINE items == Primary("Pubkey", "Create_token_acct", info.token_account) \o
                      Pubkey("From_mint", info.mint_account) \o Pubkey("Owned_by", info.owner)
  <2>2. IsSeq(items)
    BY SeqPrimary, Seqs, Concatenation, PrintersKinds
  <2> HIDE DEF items
  <2>3. TwoShown(Printed(items \o Funded(create, config)), infos)
    BY <1>8, <2>1, <2>2
  <2> QED BY <2>3 DEF print_rpl_token_create_account, items
<1>11. ASSUME is_rpl_token_create_multisig(infos)
       PROVE  TwoShown(Printed(print_rpl_token_create_multisig(create, info, config)), infos)
  <2>1. create.program = "System" /\ info.program = "RplToken" /\ info.kind = "InitializeMultisig"
    BY <1>11 DEF is_rpl_token_create_multisig
  <2> DEFINE items == Primary("Pubkey", "Create_multisig", info.multisig_account) \o
                      summary_item_set_multisig_m_of_n(info.m, info.count)
  <2>2. IsSeq(items)
    BY SeqPrimary, Seqs, Concatenation, PrintersKinds
  <2> HIDE DEF items
  <2>3. TwoShown(Printed(items \o Funded(create, config)), infos)
    BY <1>8, <2>1, <2>2
  <2> QED BY <2>3 DEF print_rpl_token_create_multisig, items
<1>12. ASSUME is_rpl_associated_token_account_create_with_transfer(infos)
       PROVE  TwoShown(Printed(print_rpl_associated_token_account_create_info(create) \o
                               print_rpl_token_transfer_info("general", info, config)), infos)
  <2> DEFINE items == print_rpl_associated_token_account_create_info(create) \o
                      print_rpl_token_transfer_info("general", info, config)
  <2>1. /\ create.program = "RplAssociatedTokenAccount"
        /\ info.program = "RplToken" /\ info.kind = "TransferChecked"
    BY <1>12 DEF is_rpl_associated_token_account_create_with_transfer
  <2>2. AmountPut(items, info.amount)
    BY OtherAssociated, TransferAmount, AmountSecond DEF Other
  <2> HIDE DEF items
  <2>3. AmountsPut(items, info) /\ AmountsPut(items, create)
    BY <2>1, <2>2, TokensPut DEF FieldsAre
  <2> QED BY <2>3 DEF TwoShown, Printed, items
<1>13. TwoShown(NotPrinted, infos)
  BY DEF TwoShown, NotPrinted
<1>14. ASSUME is_stake_authorize_both(infos)
       PROVE  TwoShown(print_authorize_both(infos, config, "Set_stake_auth", "New_stake_auth",
                                            <<"Staker", "Withdrawer">>), infos)
  BY <1>5, <1>14 DEF is_stake_authorize_both
<1>15. ASSUME is_vote_authorize_both(infos)
       PROVE  TwoShown(print_authorize_both(infos, config, "Set_vote_auth", "New_vote_auth",
                                            <<"Voter", "Withdrawer">>), infos)
  BY <1>5, <1>15 DEF is_vote_authorize_both
<1> QED
  BY <1>1, <1>2, <1>3, <1>6, <1>7, <1>9, <1>10, <1>11, <1>12, <1>13, <1>14, <1>15 DEF PrintTwo

\* What the items of three instructions show, if they are printed.
AllShown(result, infos) ==
  result.printed =>
    \A i \in 1..Len(infos) : AmountsPut(result.items, infos[i]) \/ (SplitInto(infos) /\ i = 1)

\* Three instructions put the amounts of all of them.
LEMMA ThreeAmounts ==
  ASSUME NEW infos, Len(infos) = 3, \A i \in 1..3 : FieldsAre(infos[i]), NEW config
  PROVE  AllShown(PrintThree(infos, config), infos)
<1> DEFINE initialize == print_stake_initialize_info(NoTitle, infos[2], config)
           delegate == print_delegate_stake_info(NoTitle, infos[3], config)
           created == print_create_account("Delegate_from", infos, config, initialize \o delegate)
<1>1. ASSUME is_create_stake_account_and_delegate(infos)
      PROVE  AllShown(Printed(created), infos)
  <2>1. /\ infos[1].program = "System"
        /\ infos[2].program = "Stake" /\ infos[2].kind = "Initialize"
        /\ infos[3].program = "Stake" /\ infos[3].kind = "Delegate"
    BY <1>1 DEF is_create_stake_account_and_delegate, Match
  <2>2. IsSeq(initialize \o delegate)
    BY StakeInitializeInfo, DelegateInfo, Concatenation DEF UpTo
  <2>3. AmountPut(created, infos[1].lamports)
    BY <2>2, CreatedAmount
  <2> HIDE DEF created
  <2>4. AmountsPut(created, infos[1])
    BY <2>1, <2>3, LamportsPut DEF FieldsAre
  <2>5. AmountsPut(created, infos[2]) /\ AmountsPut(created, infos[3])
    BY <2>1, LamportsPut DEF FieldsAre
  <2> QED BY <2>4, <2>5 DEF AllShown, Printed
<1>2. ASSUME is_stake_split_v1_1(infos)
      PROVE  AllShown(Printed(print_stake_info(infos[3], config)), infos)
  <2> DEFINE items == print_stake_info(infos[3], config)
  <2>1. /\ infos[1].program = "System" /\ infos[1].kind = "Allocate"
        /\ infos[2].program = "System" /\ infos[2].kind = "Assign"
        /\ infos[3].program = "Stake" /\ infos[3].kind = "Split"
    BY <1>2 DEF is_stake_split_v1_1, Match
  <2>2. AmountsPut(items, infos[3])
    BY <2>1, StakeAmount, LamportsPut DEF FieldsAre
  <2> HIDE DEF items
  <2>3. AmountsPut(items, infos[1]) /\ AmountsPut(items, infos[2])
    BY <2>1, LamportsPut DEF FieldsAre
  <2>4. AllShown(Printed(items), infos)
    BY <2>2, <2>3 DEF AllShown, Printed
  <2> QED BY <2>4 DEF items
<1>3. AllShown(NotPrinted, infos)
  BY DEF AllShown, NotPrinted
<1> QED BY <1>1, <1>2, <1>3 DEF PrintThree

\* Whatever is recognised puts all its amounts.
LEMMA ToldAmounts ==
  ASSUME NEW infos, \A i \in 1..Len(infos) : FieldsAre(infos[i]) /\ KnownInfo(infos[i]), NEW config
  PROVE  AllShown(print_transaction_nonce_processed(infos, config), infos)
<1>1. CASE Len(infos) = 1
  <2>1. AmountsPut(PrintOne(infos[1], config).items, infos[1])
    BY <1>1, OneAmounts
  <2> QED BY <1>1, <2>1 DEF AllShown, print_transaction_nonce_processed
<1>2. CASE Len(infos) = 2
  <2>1. TwoShown(PrintTwo(infos, config), infos)
    BY <1>2, TwoAmounts
  <2> QED BY <1>2, <2>1 DEF AllShown, TwoShown, print_transaction_nonce_processed
<1>3. CASE Len(infos) = 3
  BY <1>3, ThreeAmounts DEF print_transaction_nonce_processed
<1>4. CASE Len(infos) \notin {1, 2, 3}
  BY <1>4 DEF AllShown, print_transaction_nonce_processed, NotPrinted
<1> QED BY <1>1, <1>2, <1>3, <1>4

\* What is true of every info displayed of a transaction that is recognised.
LEMMA DisplayedFields ==
  ASSUME NEW transaction, IsTransaction(transaction), NEW config,
         process_message_body(transaction, config).printed
  PROVE  LET infos == Displayed(Infos(transaction))
         IN  /\ process_message_body(transaction, config) = print_transaction(infos, config)
             /\ IsSeq(infos)
             /\ \A j \in 1..Len(infos) : FieldsAre(infos[j]) /\ KnownInfo(infos[j])
<1> DEFINE infos == Infos(transaction)
           told == Displayed(infos)
<1>1. PICK n \in Nat : n = Len(transaction.instructions) /\ DOMAIN transaction.instructions = 1..n
  BY DEF IsTransaction, IsSequence
<1>2. /\ process_message_body(transaction, config) = print_transaction(told, config)
      /\ \A i \in DOMAIN infos : infos[i].program # "Unknown"
  BY DEF process_message_body, NotPrinted
<1>3. /\ Len(infos) = n /\ DOMAIN infos = 1..n
      /\ IsSeq(told)
      /\ \A j \in 1..Len(told) : KnownInfo(told[j])
  BY <1>1, <1>2, DisplayedAreKnown DEF IsTransaction
<1>4. \A i \in 1..n : infos[i] = Info(transaction.instructions[i])
  BY <1>1 DEF Infos
<1> HIDE DEF infos
<1>5. ASSUME NEW j \in 1..Len(told) PROVE FieldsAre(told[j])
  <2>1. PICK i \in 1..n : told[j] = infos[i] /\ infos[i].program # "RplMemo"
    BY <1>3, DisplayedElements
  <2>2. infos[i].program # "Unknown" /\ infos[i] = Info(transaction.instructions[i])
    BY <1>2, <1>3, <1>4
  <2> QED BY <2>1, <2>2, InfoFields
<1> QED BY <1>2, <1>3, <1>5 DEF infos

\* What is printed after the nonce is printed of the infos the user is told about.
ToldOf(transaction) == WithoutNonce(Displayed(Infos(transaction)))
\* What a recognised message puts has the items of its instructions without nonce and
\* memos.
LEMMA ToldPrinted ==
  ASSUME NEW transaction, IsTransaction(transaction), NEW config,
         process_message_body(transaction, config).printed
  PROVE  LET told == ToldOf(transaction)
             printed == print_transaction_nonce_processed(told, config)
         IN  /\ Len(told) \in 1..3 /\ DOMAIN told = 1..Len(told)
             /\ \A j \in 1..Len(told) : FieldsAre(told[j]) /\ KnownInfo(told[j])
             /\ printed.printed
             /\ \A item : Puts(printed.items, item) =>
                            Puts(process_message_body(transaction, config).items, item)
<1> DEFINE infos == Displayed(Infos(transaction))
           told == ToldOf(transaction)
           printed == print_transaction_nonce_processed(told, config)
           body == process_message_body(transaction, config)
<1>1. /\ body = print_transaction(infos, config)
      /\ IsSeq(infos)
      /\ \A j \in 1..Len(infos) : FieldsAre(infos[j]) /\ KnownInfo(infos[j])
  BY DisplayedFields
<1>2. told = WithoutNonce(infos)
  BY DEF ToldOf
<1> HIDE DEF infos, body, told
<1>3. PICK S : infos \in Seq(S)
  BY <1>1 DEF IsSeq
<1>4. Len(told) \in Nat /\ DOMAIN told = 1..Len(told)
      /\ \A j \in 1..Len(told) : FieldsAre(told[j]) /\ KnownInfo(told[j])
  <2>1. CASE HasNonce(infos)
    <3>1. PICK n \in Nat : n = Len(infos) /\ n > 1
      BY <1>3, <2>1, LenProperties DEF HasNonce
    <3>2. told = Tail(infos) /\ infos # <<>>
      BY <1>2, <2>1, <3>1 DEF WithoutNonce
    <3>3. /\ told \in Seq(S) /\ Len(told) = n - 1
          /\ \A i \in 1..(n - 1) : told[i] = infos[i + 1]
      BY <1>3, <3>1, <3>2, HeadTailProperties
    <3>4. ASSUME NEW j \in 1..(n - 1) PROVE FieldsAre(told[j]) /\ KnownInfo(told[j])
      <4>1. j + 1 \in 1..n
        BY <3>1
      <4> QED BY <1>1, <3>1, <3>3, <4>1
    <3> QED BY <3>1, <3>3, <3>4, LenProperties
  <2>2. CASE ~HasNonce(infos)
    BY <1>1, <1>2, <1>3, <2>2, LenProperties DEF WithoutNonce
  <2> QED BY <2>1, <2>2
<1>5. PrintedWell(printed)
  BY <1>4, NonceProcessedWell
<1>6. body.printed
  BY DEF body
<1>7. printed.printed /\ \A item : Puts(printed.items, item) => Puts(body.items, item)
  <2>1. CASE HasNonce(infos)
    <3>1. body = [printed EXCEPT !.items = Sentinel(infos[1], config) \o @]
      BY <1>1, <1>2, <2>1 DEF print_transaction, HasNonce, WithoutNonce
    <3>2. printed.printed /\ body.items = Sentinel(infos[1], config) \o printed.items
      BY <1>5, <1>6, <3>1 DEF PrintedWell
    <3>3. IsSeq(Sentinel(infos[1], config))
      BY SentinelItems DEF NonceItems
    <3> QED BY <3>2, <3>3, PutsSecond
  <2>2. CASE ~HasNonce(infos)
    BY <1>1, <1>2, <1>6, <2>2 DEF print_transaction, HasNonce, WithoutNonce
  <2> QED BY <2>1, <2>2
<1>8. Len(told) \in 1..3
  BY <1>4, <1>7 DEF print_transaction_nonce_processed, NotPrinted
<1> QED BY <1>4, <1>7, <1>8 DEF told, body

-----------------------------------------------------------------------------
(* The keys that act. *)

\* Some item shows a key.
KeyPut(items, key) == \E item : Puts(items, item) /\ item.kind = "Pubkey" /\ item.value = key

\* A key put by a part is put by the whole.
LEMMA KeyFirst ==
  ASSUME NEW a, NEW b, NEW key, KeyPut(a, key), IsSeq(b)
  PROVE  KeyPut(a \o b, key)
BY PutsFirst DEF KeyPut

\* The same of the part behind.
LEMMA KeySecond ==
  ASSUME NEW a, NEW b, NEW key, IsSeq(a), KeyPut(b, key)
  PROVE  KeyPut(a \o b, key)
BY PutsSecond DEF KeyPut

\* An authority other than the user is put, whatever the settings.
LEMMA AuthorityKey ==
  ASSUME NEW config, NEW title, NEW key, key # config.signer
  PROVE  KeyPut(Authority(config, title, key), key)
<1>1. print_config_show_authority(config, key)
  BY DEF print_config_show_authority
<1>2. Puts(Authority(config, title, key), Item("Pubkey", title, key))
  BY <1>1, PutsAuthority
<1> QED BY <1>2 DEF KeyPut, Item

\* The same at the end of a longer text.
LEMMA AuthorityLast ==
  ASSUME NEW a, IsSeq(a), NEW config, NEW title, NEW key, key # config.signer
  PROVE  KeyPut(a \o Authority(config, title, key), key)
BY AuthorityKey, KeySecond

\* An owner or multisig account other than the user's is put.
LEMMA OwnerKey ==
  ASSUME NEW sign, NEW config, sign.account # config.signer
  PROVE  KeyPut(Owner(sign, config), sign.account)
<1>1. CASE sign.kind = "Single"
  BY <1>1, AuthorityKey DEF Owner
<1>2. CASE sign.kind # "Single"
  <2>1. Puts(Pubkey("Owner", sign.account), Item("Pubkey", "Owner", sign.account))
    BY PutsOne, PrintersKinds DEF Pubkey, General
  <2>2. KeyPut(Pubkey("Owner", sign.account), sign.account)
    BY <2>1 DEF KeyPut, Item
  <2>3. IsSeq(General("U64", "Signers", sign.count))
    BY Seqs, PrintersKinds
  <2> QED BY <1>2, <2>2, <2>3, KeyFirst DEF Owner
<1> QED BY <1>1, <1>2

\* Who acts in an instruction, by its kind.
Funder(info, key) ==
  /\ info.program = "System" /\ info.kind \in {"Transfer", "CreateAccount", "CreateAccountWithSeed"}
  /\ key = info.from
NonceAuthority(info, key) ==
  /\ info.program = "System"
  /\ info.kind \in {"AdvanceNonceAccount", "WithdrawNonceAccount", "AuthorizeNonceAccount"}
  /\ key = info.authority
StakeAuthority(info, key) ==
  /\ info.program = "Stake"
  /\ \/ info.kind \in {"Withdraw", "Deactivate", "Split", "Merge", "Authorize", "AuthorizeChecked"}
        /\ key = info.authority
     \/ info.kind = "Delegate" /\ key = info.authorized_pubkey
     \/ info.kind \in {"SetLockup", "SetLockupChecked"} /\ key = info.custodian
VoteAuthority(info, key) ==
  /\ info.program = "Vote"
  /\ info.kind \in {"Withdraw", "Authorize", "AuthorizeChecked", "UpdateCommission",
                    "UpdateValidatorId"}
  /\ key = info.authority
TokenOwner(info, key) ==
  /\ info.program = "RplToken" /\ info.kind \in DOMAIN TokenSignedLayouts
  /\ key = info.sign.account
Acts(info, key) ==
  \/ Funder(info, key)
  \/ NonceAuthority(info, key)
  \/ StakeAuthority(info, key)
  \/ VoteAuthority(info, key)
  \/ TokenOwner(info, key)

\* The key an instruction acts under stands in the field that its program and kind have
\* for it.
LEMMA ActingIn ==
  ASSUME NEW info, FieldsAre(info), NEW key \in ActingKeys(info)
  PROVE  Acts(info, key)
<1>1. CASE "from" \in DOMAIN info
  BY <1>1 DEF ActingKeys, FieldsAre, Acts, Funder
<1>2. CASE "from" \notin DOMAIN info /\ info.program = "Stake" /\ info.kind \in {"SetLockup", "SetLockupChecked"}
  BY <1>2 DEF ActingKeys, Acts, StakeAuthority
<1>3. CASE /\ "from" \notin DOMAIN info
           /\ ~(info.program = "Stake" /\ info.kind \in {"SetLockup", "SetLockupChecked"})
  <2>1. /\ ~(info.program \in {"System", "Stake"} /\ info.kind \in
               {"InitializeNonceAccount", "Initialize", "InitializeChecked"})
        /\ \/ "authority" \in DOMAIN info /\ key = info.authority
           \/ "authorized_pubkey" \in DOMAIN info /\ key = info.authorized_pubkey
           \/ "sign" \in DOMAIN info /\ key = info.sign.account
    BY <1>3 DEF ActingKeys, AuthorityFields
  <2>2. CASE "authority" \in DOMAIN info /\ key = info.authority
    BY <2>1, <2>2 DEF FieldsAre, Acts, NonceAuthority, StakeAuthority, VoteAuthority
  <2>3. CASE "authorized_pubkey" \in DOMAIN info /\ key = info.authorized_pubkey
    BY <2>3 DEF FieldsAre, Acts, StakeAuthority
  <2>4. CASE "sign" \in DOMAIN info /\ key = info.sign.account
    BY <2>4 DEF FieldsAre, Acts, TokenOwner
  <2> QED BY <2>1, <2>2, <2>3, <2>4
<1> QED BY <1>1, <1>2, <1>3

\* Who funds a new account is put unless it is the user.
LEMMA FunderShown ==
  ASSUME NEW title, NEW info, NEW config, info.from # config.signer
  PROVE  /\ KeyPut(print_system_create_account_info(title, info, config), info.from)
         /\ KeyPut(print_system_create_account_with_seed_info(title, info, config), info.from)
<1>1. IsSeq(OptionalPrimary(title, info.to) \o General("Amount", "Deposit", info.lamports))
  BY SeqPrimary, Seqs, Concatenation, PrintersKinds
<1>2. KeyPut(print_system_create_account_info(title, info, config), info.from)
  BY <1>1, AuthorityLast DEF print_system_create_account_info
<1>3. KeyPut(print_system_create_account_info(title, info, config) \o Seeded(info, config), info.from)
  BY <1>2, KeyFirst, Seqs
<1> QED BY <1>2, <1>3 DEF print_system_create_account_with_seed_info

\* The key a system instruction acts under is put.
LEMMA SystemKeys ==
  ASSUME NEW info, NEW config, NEW key, Funder(info, key) \/ NonceAuthority(info, key),
         key # config.signer
  PROVE  KeyPut(print_system_info(info, config), key)
<1> DEFINE authorized == Authority(config, "Authorized_by", info.authority)
<1>1. ASSUME NEW items, IsSeq(items), key = info.authority
      PROVE  KeyPut(items \o authorized, key)
  BY <1>1, AuthorityLast
<1> HIDE DEF authorized
<1>2. CASE info.kind = "Transfer" /\ key = info.from
  <2>1. IsSeq(Primary("Amount", "Transfer", info.lamports))
    BY SeqPrimary, PrintersKinds
  <2>2. KeyPut(Primary("Amount", "Transfer", info.lamports) \o
               Authority(config, "Sender", info.from), key)
    BY <1>2, <2>1, AuthorityLast
  <2>3. IsSeq(Pubkey("Recipient", info.to))
    BY Seqs
  <2> QED BY <1>2, <2>2, <2>3, KeyFirst DEF print_system_info
<1>3. CASE info.kind \in {"CreateAccount", "CreateAccountWithSeed"} /\ key = info.from
  BY <1>3, FunderShown DEF print_system_info
<1>4. CASE info.kind = "AdvanceNonceAccount" /\ key = info.authority
  <2>1. IsSeq(Primary("Pubkey", "Advance_nonce", info.account))
    BY SeqPrimary, PrintersKinds
  <2> QED BY <1>1, <1>4, <2>1 DEF print_system_info, authorized
<1>5. CASE info.kind = "WithdrawNonceAccount" /\ key = info.authority
  <2>1. IsSeq(Primary("Amount", "Nonce_withdraw", info.lamports) \o
              Pubkey("From", info.account) \o Pubkey("To", info.to))
    BY SeqPrimary, Seqs, Concatenation, PrintersKinds
  <2> QED BY <1>1, <1>5, <2>1 DEF print_system_info, authorized
<1>6. CASE info.kind = "AuthorizeNonceAccount" /\ key = info.authority
  <2>1. IsSeq(Primary("Pubkey", "Set_nonce_auth", info.account) \o
              Pubkey("New_authority", info.new_authority))
    BY SeqPrimary, Seqs, Concatenation, PrintersKinds
  <2> QED BY <1>1, <1>6, <2>1 DEF print_system_info, authorized
<1> QED BY <1>2, <1>3, <1>4, <1>5, <1>6 DEF Funder, NonceAuthority

\* So is the authority of a delegation.
LEMMA DelegateShown ==
  ASSUME NEW title, NEW info, NEW config, info.authorized_pubkey # config.signer
  PROVE  KeyPut(print_delegate_stake_info(title, info, config), info.authorized_pubkey)
<1>1. KeyPut(OptionalPrimary(title, info.stake_pubkey) \o
             Authority(config, "Authorized_by", info.authorized_pubkey), info.authorized_pubkey)
  BY SeqPrimary, AuthorityLast
<1> QED BY <1>1, KeyFirst, Seqs DEF print_delegate_stake_info

\* So is that of every stake instruction.
LEMMA StakeKeys ==
  ASSUME NEW info, NEW config, NEW key, StakeAuthority(info, key), key # config.signer
  PROVE  KeyPut(print_stake_info(info, config), key)
<1> DEFINE authorized == Authority(config, "Authorized_by", info.authority)
<1>1. ASSUME NEW items, IsSeq(items), key = info.authority
      PROVE  KeyPut(items \o authorized, key)
  BY <1>1, AuthorityLast
<1> HIDE DEF authorized
<1>2. CASE info.kind = "Delegate" /\ key = info.authorized_pubkey
  BY <1>2, DelegateShown DEF print_stake_info
<1>3. CASE info.kind = "Withdraw" /\ key = info.authority
  <2>1. IsSeq(Primary("Amount", "Stake_withdraw", info.lamports) \o
              Pubkey("From", info.account) \o Pubkey("To", info.to))
    BY SeqPrimary, Seqs, Concatenation, PrintersKinds
  <2> QED BY <1>1, <1>3, <2>1 DEF print_stake_info, authorized
<1>4. CASE info.kind \in {"Authorize", "AuthorizeChecked"} /\ key = info.authority
  <2> DEFINE items == Primary("Pubkey", "Set_stake_auth", info.account) \o
                      Pubkey(IF info.authorize = "Staker" THEN "New_stake_auth"
                             ELSE "New_withdraw_auth", info.new_authority)
             custodian == When(info.custodian # NoKey, Authority(config, "Custodian", info.custodian))
  <2>1. IsSeq(items) /\ IsSeq(custodian)
    BY SeqPrimary, Seqs, Concatenation, PrintersKinds
  <2> HIDE DEF items, custodian
  <2>2. KeyPut((items \o authorized) \o custodian, key)
    BY <1>1, <1>4, <2>1, KeyFirst
  <2> QED BY <1>4, <2>2 DEF print_stake_info, authorized, items, custodian
<1>5. CASE info.kind = "Deactivate" /\ key = info.authority
  <2>1. IsSeq(Primary("Pubkey", "Deactivate_stake", info.account))
    BY SeqPrimary, PrintersKinds
  <2> QED BY <1>1, <1>5, <2>1 DEF print_stake_info, authorized
<1>6. CASE info.kind \in {"SetLockup", "SetLockupChecked"} /\ key = info.custodian
  <2> DEFINE items == Primary("Pubkey", "Set_lockup", info.account) \o
                      When("Timestamp" \in info.lockup.present,
                           General("Timestamp", "Time", info.lockup.unix_timestamp)) \o
                      When("Epoch" \in info.lockup.present,
                           General("U64", "Epoch", info.lockup.epoch)) \o
                      When("Custodian" \in info.lockup.present,
                           Pubkey("New_authority", info.lockup.custodian))
  <2>1. IsSeq(items)
    BY SeqPrimary, Seqs, Concatenation, PrintersKinds
  <2> HIDE DEF items
  <2>2. KeyPut(items \o Authority(config, "Authorized_by", info.custodian), key)
    BY <1>6, <2>1, AuthorityLast
  <2> QED BY <1>6, <2>2 DEF print_stake_info, items
<1>7. CASE info.kind = "Split" /\ key = info.authority
  <2>1. IsSeq(print_stake_split_info1(info))
    BY SeqPrimary, Seqs, Concatenation, PrintersKinds DEF print_stake_split_info1
  <2>2. KeyPut(print_stake_split_info1(info) \o print_stake_split_info2(info, config), key)
    BY <1>1, <1>7, <2>1 DEF print_stake_split_info2, authorized
  <2> QED BY <1>7, <2>2 DEF print_stake_info
<1>8. CASE info.kind = "Merge" /\ key = info.authority
  <2>1. IsSeq(Primary("Pubkey", "Merge", info.source) \o Pubkey("Into", info.destination))
    BY SeqPrimary, Seqs, Concatenation, PrintersKinds
  <2> QED BY <1>1, <1>8, <2>1 DEF print_stake_info, authorized
<1> QED BY <1>2, <1>3, <1>4, <1>5, <1>6, <1>7, <1>8 DEF StakeAuthority

\* So is that of every vote instruction.
LEMMA VoteKeys ==
  ASSUME NEW info, NEW config, NEW key, VoteAuthority(info, key), key # config.signer
  PROVE  KeyPut(print_vote_info(info, config), key)
<1> DEFINE authorized == Authority(config, "Authorized_by", info.authority)
<1>1. ASSUME NEW items, IsSeq(items)
      PROVE  KeyPut(items \o authorized, key)
  BY <1>1, AuthorityLast DEF VoteAuthority
<1> HIDE DEF authorized
<1>2. CASE info.kind = "Withdraw"
  <2>1. IsSeq(Primary("Amount", "Vote_withdraw", info.lamports) \o
              Pubkey("From", info.account) \o Pubkey("To", info.to))
    BY SeqPrimary, Seqs, Concatenation, PrintersKinds
  <2> QED BY <1>1, <1>2, <2>1 DEF print_vote_info, authorized
<1>3. CASE info.kind \in {"Authorize", "AuthorizeChecked"}
  <2>1. IsSeq(Primary("Pubkey", "Set_vote_auth", info.account) \o
              Pubkey(IF info.authorize = "Voter" THEN "New_vote_auth"
                     ELSE "New_withdraw_auth", info.new_authority))
    BY SeqPrimary, Seqs, Concatenation, PrintersKinds
  <2> QED BY <1>1, <1>3, <2>1 DEF print_vote_info, authorized
<1>4. CASE info.kind = "UpdateValidatorId"
  <2>1. IsSeq(Primary("Pubkey", "Update_validator", info.account) \o
              Pubkey("New_validator_ID", info.new_validator_id))
    BY SeqPrimary, Seqs, Concatenation, PrintersKinds
  <2> QED BY <1>1, <1>4, <2>1 DEF print_vote_info, authorized
<1>5. CASE info.kind = "UpdateCommission"
  <2>1. IsSeq(Primary("Pubkey", "Update_commission", info.account) \o
              General("U64", "Commission", info.commission))
    BY SeqPrimary, Seqs, Concatenation, PrintersKinds
  <2> QED BY <1>1, <1>5, <2>1 DEF print_vote_info, authorized
<1> QED BY <1>2, <1>3, <1>4, <1>5 DEF VoteAuthority

\* An amount of tokens as primary item is a sequence.
LEMMA SeqToken ==
  \A title, info : IsSeq(TokenAmount("primary", title, info))
BY TokenAmountPut DEF Led, UpTo

\* An owner at the end of what is printed is put.
LEMMA OwnerLast ==
  ASSUME NEW a, IsSeq(a), NEW sign, NEW config, sign.account # config.signer
  PROVE  KeyPut(a \o Owner(sign, config), sign.account)
BY OwnerKey, KeySecond

\* So is the owner of the tokens that are transferred.
LEMMA TransferKey ==
  ASSUME NEW slot \in {"primary", "general"}, NEW info, NEW config, info.sign.account # config.signer
  PROVE  KeyPut(print_rpl_token_transfer_info(slot, info, config), info.sign.account)
<1>1. IsSeq(TokenAmount(slot, "Transfer_tokens", info) \o
            Pubkey("From", info.src_account) \o Pubkey("To", info.dest_account))
  BY SeqToken, Seqs, Concatenation
<1> QED BY <1>1, OwnerLast DEF print_rpl_token_transfer_info

\* So is that of every signed token instruction.
LEMMA TokenKeys ==
  ASSUME NEW info, NEW config, NEW key, TokenOwner(info, key), key # config.signer
  PROVE  KeyPut(print_rpl_token_info(info, config), key)
<1> USE SeqPrimary, SeqToken, Seqs, Concatenation, PrintersKinds
<1> DEFINE owner == Owner(info.sign, config)
           mint == When(config.expert, Pubkey("Mint", info.mint_account))
<1>1. key = info.sign.account
  BY DEF TokenOwner
<1>2. info.kind \in {"TransferChecked", "ApproveChecked", "MintToChecked", "BurnChecked", "Revoke",
                     "SetAuthority", "CloseAccount", "FreezeAccount", "ThawAccount"}
  BY DEF TokenOwner, TokenSignedLayouts
<1>3. ASSUME NEW items, IsSeq(items)
      PROVE  KeyPut(items \o owner, key)
  BY <1>1, <1>3, OwnerLast
<1> HIDE DEF owner, mint
<1>4. CASE info.kind = "TransferChecked"
  BY <1>1, <1>4, TransferKey DEF print_rpl_token_info
<1>5. CASE info.kind = "ApproveChecked"
  <2>1. IsSeq(Primary("Pubkey", "Approve_delegate", info.delegate) \o
              TokenAmount("general", "Allowance", info) \o Pubkey("From", info.token_account))
    OBVIOUS
  <2> QED BY <1>3, <1>5, <2>1 DEF print_rpl_token_info, owner
<1>6. CASE info.kind = "MintToChecked"
  <2>1. IsSeq(TokenAmount("primary", "Mint_tokens", info) \o
              When(config.expert, Pubkey("From", info.mint_account)) \o
              Pubkey("To", info.token_account))
    OBVIOUS
  <2> QED BY <1>3, <1>6, <2>1 DEF print_rpl_token_info, owner
<1>7. CASE info.kind = "BurnChecked"
  <2>1. IsSeq(TokenAmount("primary", "Burn_tokens", info) \o Pubkey("From", info.token_account))
    OBVIOUS
  <2> QED BY <1>3, <1>7, <2>1 DEF print_rpl_token_info, owner
<1>8. CASE info.kind = "Revoke"
  BY <1>3, <1>8 DEF print_rpl_token_info, owner
<1>9. CASE info.kind = "SetAuthority"
  <2>1. IsSeq(Primary("Pubkey", IF info.new_authority = NoKey THEN "Clear_authority"
                                ELSE "Set_authority", info.account) \o
              General("String", "Type", info.authority_type) \o
              When(info.new_authority # NoKey, Pubkey("Authority", info.new_authority)))
    OBVIOUS
  <2> QED BY <1>3, <1>9, <2>1 DEF print_rpl_token_info, owner
<1>10. CASE info.kind = "CloseAccount"
  <2>1. IsSeq(Primary("Pubkey", "Close_acct", info.token_account) \o
              Pubkey("Withdraw_to", info.dest_account))
    OBVIOUS
  <2> QED BY <1>3, <1>10, <2>1 DEF print_rpl_token_info, owner
<1>11. CASE info.kind = "FreezeAccount"
  <2>1. IsSeq(Primary("Pubkey", "Freeze_acct", info.token_account) \o mint)
    BY DEF mint
  <2> QED BY <1>3, <1>11, <2>1 DEF print_rpl_token_info, owner, mint
<1>12. CASE info.kind = "ThawAccount"
  <2>1. IsSeq(Primary("Pubkey", "Thaw_acct", info.token_account) \o mint)
    BY DEF mint
  <2> QED BY <1>3, <1>12, <2>1 DEF print_rpl_token_info, owner, mint
<1> QED BY <1>2, <1>4, <1>5, <1>6, <1>7, <1>8, <1>9, <1>10, <1>11, <1>12

\* A result that is printed shows every key but the signer's under which an instruction acts.
KeysShown(result, info, config) ==
  result.printed =>
    \A key \in ActingKeys(info) \ {config.signer} : KeyPut(result.items, key)

\* An instruction on its own shows the key it acts under.
LEMMA OneKeys ==
  ASSUME NEW info, FieldsAre(info), NEW config
  PROVE  KeysShown(PrintOne(info, config), info, config)
<1> SUFFICES ASSUME NEW key \in ActingKeys(info), key # config.signer
             PROVE  KeyPut(PrintOne(info, config).items, key)
  BY DEF KeysShown
<1> USE DEF PrintOne, Printed
<1>1. CASE Funder(info, key) \/ NonceAuthority(info, key)
  BY <1>1, SystemKeys DEF Funder, NonceAuthority
<1>2. CASE StakeAuthority(info, key)
  BY <1>2, StakeKeys DEF StakeAuthority
<1>3. CASE VoteAuthority(info, key)
  BY <1>3, VoteKeys DEF VoteAuthority
<1>4. CASE TokenOwner(info, key)
  BY <1>4, TokenKeys DEF TokenOwner
<1> QED BY <1>1, <1>2, <1>3, <1>4, ActingIn DEF Acts

\* An account is created for an instruction in which no one acts, and no one acts where
\* one is made ready for a stake, or one for tokens is made.
LEMMA NobodyActs ==
  ASSUME NEW info, FieldsAre(info),
         \/ info.program = "System" /\ info.kind \in {"Allocate", "AllocateWithSeed", "Assign"}
         \/ info.program = "RplAssociatedTokenAccount"
         \/ info.program = "Stake" /\ info.kind \in {"Initialize", "InitializeChecked"}
         \/ info.program = "System" /\ info.kind = "InitializeNonceAccount"
         \/ info.program = "Vote" /\ info.kind = "Initialize"
         \/ info.program = "RplToken" /\ info.kind \in {"InitializeMint", "InitializeAccount",
                                                        "InitializeAccount2", "InitializeMultisig"}
  PROVE  ActingKeys(info) = {}
<1> SUFFICES ASSUME NEW key \in ActingKeys(info) PROVE FALSE
  OBVIOUS
<1>1. Acts(info, key)
  BY ActingIn
<1>2. DOMAIN TokenSignedLayouts = {"TransferChecked", "ApproveChecked", "MintToChecked", "BurnChecked",
        "Revoke", "SetAuthority", "CloseAccount", "FreezeAccount", "ThawAccount"}
  BY DEF TokenSignedLayouts
<1> QED BY <1>1, <1>2 DEF Acts, Funder, NonceAuthority, StakeAuthority, VoteAuthority, TokenOwner

\* An instruction that acts under no key has none to show.
LEMMA NobodyShown ==
  ASSUME NEW info, ActingKeys(info) = {}, NEW config, NEW result
  PROVE  KeysShown(result, info, config)
BY DEF KeysShown

\* Who acts where an account is created is its funder.
LEMMA FunderActs ==
  ASSUME NEW info, FieldsAre(info), info.program = "System", info.kind \in Creates,
         NEW key \in ActingKeys(info)
  PROVE  key = info.from
BY ActingIn DEF Acts, Funder, NonceAuthority, StakeAuthority, VoteAuthority, TokenOwner, Creates

\* The funder of a created account is put, unless it is the user, whatever is behind it.
LEMMA CreatedKey ==
  ASSUME NEW title, NEW infos, NEW config, NEW initialize, IsSeq(initialize),
         infos[1].from # config.signer
  PROVE  KeyPut(print_create_account(title, infos, config, initialize), infos[1].from)
<1> DEFINE create == IF infos[1].kind = "CreateAccount"
                     THEN print_system_create_account_info(NoTitle, infos[1], config)
                     ELSE print_system_create_account_with_seed_info(NoTitle, infos[1], config)
<1>1. KeyPut(create, infos[1].from)
  BY FunderShown
<1>2. IsSeq(Primary("Pubkey", title, infos[1].to))
  BY SeqPrimary, PrintersKinds
<1> HIDE DEF create
<1>3. KeyPut(Primary("Pubkey", title, infos[1].to) \o create, infos[1].from)
  BY <1>1, <1>2, KeySecond
<1>4. KeyPut(Primary("Pubkey", title, infos[1].to) \o create \o initialize, infos[1].from)
  BY <1>3, KeyFirst
<1> QED BY <1>4 DEF print_create_account, create

\* So is that of an account for tokens, behind its own items.
LEMMA FundedKey ==
  ASSUME NEW items, IsSeq(items), NEW create, NEW config, create.from # config.signer
  PROVE  KeyPut(items \o Funded(create, config), create.from)
<1>1. KeyPut(Authority(config, "Funded_by", create.from), create.from)
  BY AuthorityKey
<1>2. KeyPut(Funded(create, config), create.from)
  BY <1>1, KeyFirst, Seqs, PrintersKinds DEF Funded
<1> QED BY <1>2, KeySecond

\* What puts the funder of a created account shows all that act in its creation.
LEMMA CreationKeys ==
  ASSUME NEW info, FieldsAre(info), info.program = "System", info.kind \in Creates,
         NEW config, NEW items, info.from # config.signer => KeyPut(items, info.from)
  PROVE  KeysShown(Printed(items), info, config)
<1>1. ASSUME NEW key \in ActingKeys(info), key # config.signer PROVE KeyPut(items, key)
  BY <1>1, FunderActs
<1> QED BY <1>1 DEF KeysShown, Printed

\* Two authorities replaced together: the key the second acts under is put.
LEMMA AuthorizedBoth ==
  ASSUME NEW infos, NEW program \in {"Stake", "Vote"}, NEW kind \in {"Authorize", "AuthorizeChecked"},
         Twice(program, kind, infos), FieldsAre(infos[2]),
         NEW config, NEW account_title, NEW new_title, NEW expected
  PROVE  KeysShown(print_authorize_both(infos, config, account_title, new_title, expected),
                   infos[2], config)
<1> USE SeqPrimary, Seqs, Concatenation, PrintersKinds
<1> DEFINE result == print_authorize_both(infos, config, account_title, new_title, expected)
           same == /\ infos[1].kind = "AuthorizeChecked"
                   /\ infos[1].new_authority = infos[2].new_authority
           items == Primary("Pubkey", account_title, infos[1].account) \o
                    NewAuthorities(same, infos[1].new_authority, infos[2].new_authority,
                                   "New_authorities", new_title) \o
                    When(infos[1].program = "Stake" /\ infos[2].custodian # NoKey,
                         Pubkey("Custodian", infos[2].custodian))
<1>1. result \in {NotPrinted,
                  Printed(items \o Authority(config, "Authorized_by", infos[2].authority))}
  BY DEF print_authorize_both
<1>2. IsSeq(items)
  OBVIOUS
<1>3. infos[2].program = program /\ infos[2].kind = kind
  BY DEF Twice, Match
<1> HIDE DEF result, items
<1>0. PICK shown_items : shown_items = items \o Authority(config, "Authorized_by", infos[2].authority)
  OBVIOUS
<1> SUFFICES ASSUME result.printed, NEW key \in ActingKeys(infos[2]), key # config.signer
             PROVE  KeyPut(result.items, key)
  BY DEF KeysShown, result
<1>4. key = infos[2].authority
  BY <1>3, ActingIn DEF Acts, Funder, NonceAuthority, StakeAuthority, VoteAuthority, TokenOwner
<1>5. KeyPut(shown_items, key)
  BY <1>0, <1>2, <1>4, AuthorityLast
<1>6. result = Printed(shown_items)
  BY <1>0, <1>1 DEF NotPrinted
<1>7. result.items = shown_items
  BY <1>6 DEF Printed
<1> QED BY <1>5, <1>7

\* The last of two instructions shows the key it acts under.
LEMMA TwoKeys ==
  ASSUME NEW infos, Len(infos) = 2, FieldsAre(infos[2]), NEW config
  PROVE  KeysShown(PrintTwo(infos, config), infos[2], config)
<1> DEFINE create == infos[1]
           info == infos[2]
<1> USE DEF SystemThen, Match
<1>1. ASSUME is_create_stake_account(infos) PROVE ActingKeys(info) = {}
  BY <1>1, NobodyActs DEF is_create_stake_account
<1>2. ASSUME is_create_nonce_account(infos) PROVE ActingKeys(info) = {}
  BY <1>2, NobodyActs DEF is_create_nonce_account
<1>3. ASSUME is_create_vote_account(infos) PROVE ActingKeys(info) = {}
  BY <1>3, NobodyActs DEF is_create_vote_account
<1>4. ASSUME is_stake_authorize_both(infos)
      PROVE  KeysShown(print_authorize_both(infos, config, "Set_stake_auth", "New_stake_auth",
                                            <<"Staker", "Withdrawer">>), info, config)
  BY <1>4, AuthorizedBoth DEF is_stake_authorize_both
<1>5. ASSUME is_vote_authorize_both(infos)
      PROVE  KeysShown(print_authorize_both(infos, config, "Set_vote_auth", "New_vote_auth",
                                            <<"Voter", "Withdrawer">>), info, config)
  BY <1>5, AuthorizedBoth DEF is_vote_authorize_both
<1>6. ASSUME info.program = "Stake", info.kind = "Split", NEW key \in ActingKeys(info)
      PROVE  StakeAuthority(info, key) /\ key = info.authority
  BY <1>6, ActingIn DEF Acts, Funder, NonceAuthority, StakeAuthority, VoteAuthority, TokenOwner
<1>7. ASSUME is_stake_split_with_seed(infos)
      PROVE  KeysShown(Printed(print_stake_split_with_seed(infos, config)), info, config)
  <2>1. info.program = "Stake" /\ info.kind = "Split"
    BY <1>7 DEF is_stake_split_with_seed
  <2>2. ASSUME NEW key \in ActingKeys(info), key # config.signer
        PROVE  KeyPut(print_stake_split_with_seed(infos, config), key)
    <3>1. IsSeq(print_stake_split_info1(info) \o Seeded(create, config))
      BY SeqPrimary, Seqs, Concatenation, PrintersKinds DEF print_stake_split_info1
    <3>2. key = info.authority
      BY <1>6, <2>1
    <3> QED BY <2>2, <3>1, <3>2, AuthorityLast DEF print_stake_split_with_seed, print_stake_split_info2
  <2> QED BY <2>2 DEF KeysShown, Printed
<1>8. ASSUME is_stake_split_v1_2(infos)
      PROVE  KeysShown(Printed(print_stake_info(info, config)), info, config)
  <2>1. info.program = "Stake" /\ info.kind = "Split"
    BY <1>8 DEF is_stake_split_v1_2
  <2>2. ASSUME NEW key \in ActingKeys(info), key # config.signer
        PROVE  KeyPut(print_stake_info(info, config), key)
    BY <1>6, <2>1, <2>2, StakeKeys
  <2> QED BY <2>2 DEF KeysShown, Printed
<1>9. ASSUME is_rpl_token_create_mint(infos) PROVE ActingKeys(info) = {}
  BY <1>9, NobodyActs DEF is_rpl_token_create_mint
<1>10. ASSUME is_rpl_token_create_account(infos) PROVE ActingKeys(info) = {}
  BY <1>10, NobodyActs DEF is_rpl_token_create_account
<1>11. ASSUME is_rpl_token_create_multisig(infos) PROVE ActingKeys(info) = {}
  BY <1>11, NobodyActs DEF is_rpl_token_create_multisig
<1>12. ASSUME is_rpl_associated_token_account_create_with_transfer(infos)
       PROVE  KeysShown(Printed(print_rpl_associated_token_account_create_info(create) \o
                                print_rpl_token_transfer_info("general", info, config)), info, config)
  <2> DEFINE items == print_rpl_associated_token_account_create_info(create) \o
                      print_rpl_token_transfer_info("general", info, config)
  <2>1. info.program = "RplToken"
    BY <1>12 DEF is_rpl_associated_token_account_create_with_transfer
  <2>2. ASSUME NEW key \in ActingKeys(info), key # config.signer
        PROVE  KeyPut(items, key)
    <3>1. key = info.sign.account
      BY <2>1, ActingIn DEF Acts, Funder, NonceAuthority, StakeAuthority, VoteAuthority, TokenOwner
    <3>2. IsSeq(print_rpl_associated_token_account_create_info(create))
      BY OtherAssociated DEF Other
    <3>3. KeyPut(print_rpl_token_transfer_info("general", info, config), key)
      BY <2>2, <3>1, TransferKey
    <3> QED BY <3>2, <3>3, KeySecond
  <2> HIDE DEF items
  <2>3. KeysShown(Printed(items), info, config)
    BY <2>2 DEF KeysShown, Printed
  <2> QED BY <2>3 DEF items
<1>13. KeysShown(NotPrinted, info, config)
  BY DEF KeysShown, NotPrinted
<1>14. CASE ActingKeys(info) = {}
  BY <1>14, NobodyShown
<1>15. CASE ActingKeys(info) # {}
  BY <1>1, <1>2, <1>3, <1>4, <1>5, <1>7, <1>8, <1>9, <1>10, <1>11, <1>12, <1>13, <1>15 DEF PrintTwo
<1> QED BY <1>14, <1>15

\* So does the first, but for those that act unseen.
LEMMA TwoFirstKeys ==
  ASSUME NEW infos, Len(infos) = 2, FieldsAre(infos[1]), NEW config, ~ActsUnseen(infos, 1)
  PROVE  KeysShown(PrintTwo(infos, config), infos[1], config)
<1> DEFINE create == infos[1]
           info == infos[2]
<1> USE DEF SystemThen, Match
<1>1. ASSUME is_create_stake_account(infos)
      PROVE  KeysShown(Printed(print_create_account("Create_stake_acct", infos, config,
                                 print_stake_initialize_info(NoTitle, info, config))), create, config)
  <2>1. IsSeq(print_stake_initialize_info(NoTitle, info, config))
    BY StakeInitializeInfo DEF UpTo
  <2>2. create.program = "System" /\ create.kind \in Creates
    BY <1>1 DEF is_create_stake_account
  <2> QED BY <2>1, <2>2, CreatedKey, CreationKeys
<1>2. ASSUME is_create_nonce_account(infos)
      PROVE  KeysShown(Printed(print_create_account("Create_nonce_acct", infos, config,
                                 print_system_initialize_nonce_info(NoTitle, info))), create, config)
  <2>1. IsSeq(print_system_initialize_nonce_info(NoTitle, info))
    BY SeqPrimary, Seqs, Concatenation DEF print_system_initialize_nonce_info
  <2>2. create.program = "System" /\ create.kind \in Creates
    BY <1>2 DEF is_create_nonce_account
  <2> QED BY <2>1, <2>2, CreatedKey, CreationKeys
<1>3. ASSUME is_create_vote_account(infos)
      PROVE  KeysShown(Printed(print_create_account("Create_vote_acct", infos, config,
                                 print_vote_initialize_info(NoTitle, info))), create, config)
  <2>1. IsSeq(print_vote_initialize_info(NoTitle, info))
    BY VoteInitializeInfo DEF UpTo
  <2>2. create.program = "System" /\ create.kind \in Creates
    BY <1>3 DEF is_create_vote_account
  <2> QED BY <2>1, <2>2, CreatedKey, CreationKeys
<1>4. ~is_stake_authorize_both(infos) /\ ~is_vote_authorize_both(infos) /\ ~SplitInto(infos)
  BY DEF ActsUnseen
<1>5. ~is_stake_split_v1_2(infos)
  BY <1>4 DEF is_stake_split_v1_2, SplitInto, Creates
<1>6. ASSUME is_stake_split_with_seed(infos) PROVE ActingKeys(create) = {}
  <2>1. create.program = "System" /\ create.kind = "AllocateWithSeed"
    BY <1>4, <1>6 DEF is_stake_split_with_seed, SplitInto, Creates
  <2> QED BY <2>1, NobodyActs
<1>7. ASSUME is_rpl_token_create_mint(infos)
      PROVE  KeysShown(Printed(print_rpl_token_create_mint(create, info, config)), create, config)
  <2> DEFINE items == Primary("Pubkey", "Create_token_mint", info.mint_account) \o
                      Pubkey("Mint_authority", info.mint_authority) \o
                      General("U64", "Mint_decimals", info.decimals) \o
                      When(info.freeze_authority # NoKey,
                           Pubkey("Freeze_authority", info.freeze_authority))
  <2>1. IsSeq(items)
    BY SeqPrimary, Seqs, Concatenation, PrintersKinds
  <2> HIDE DEF items
  <2>2. create.from # config.signer => KeyPut(items \o Funded(create, config), create.from)
    BY <2>1, FundedKey
  <2>3. create.program = "System" /\ create.kind \in Creates
    BY <1>7 DEF is_rpl_token_create_mint, Creates
  <2>4. KeysShown(Printed(items \o Funded(create, config)), create, config)
    BY <2>2, <2>3, CreationKeys
  <2> QED BY <2>4 DEF print_rpl_token_create_mint, items
<1>8. ASSUME is_rpl_token_create_account(infos)
      PROVE  KeysShown(Printed(print_rpl_token_create_account(create, info, config)), create, config)
  <2> DEFINE items == Primary("Pubkey", "Create_token_acct", info.token_account) \o
                      Pubkey("From_mint", info.mint_account) \o
                      Pubkey("Owned_by", info.owner)
  <2>1. IsSeq(items)
    BY SeqPrimary, Seqs, Concatenation, PrintersKinds
  <2> HIDE DEF items
  <2>2. create.from # config.signer => KeyPut(items \o Funded(create, config), create.from)
    BY <2>1, FundedKey
  <2>3. create.program = "System" /\ create.kind \in Creates
    BY <1>8 DEF is_rpl_token_create_account, Creates
  <2>4. KeysShown(Printed(items \o Funded(create, config)), create, config)
    BY <2>2, <2>3, CreationKeys
  <2> QED BY <2>4 DEF print_rpl_token_create_account, items
<1>9. ASSUME is_rpl_token_create_multisig(infos)
      PROVE  KeysShown(Printed(print_rpl_token_create_multisig(create, info, config)), create, config)
  <2> DEFINE items == Primary("Pubkey", "Create_multisig", info.multisig_account) \o
                      summary_item_set_multisig_m_of_n(info.m, info.count)
  <2>1. IsSeq(items)
    BY SeqPrimary, Seqs, Concatenation, PrintersKinds DEF summary_item_set_multisig_m_of_n
  <2> HIDE DEF items
  <2>2. create.from # config.signer => KeyPut(items \o Funded(create, config), create.from)
    BY <2>1, FundedKey
  <2>3. create.program = "System" /\ create.kind \in Creates
    BY <1>9 DEF is_rpl_token_create_multisig, Creates
  <2>4. KeysShown(Printed(items \o Funded(create, config)), create, config)
    BY <2>2, <2>3, CreationKeys
  <2> QED BY <2>4 DEF print_rpl_token_create_multisig, items
<1>10. ASSUME is_rpl_associated_token_account_create_with_transfer(infos)
       PROVE  ActingKeys(create) = {}
  BY <1>10, NobodyActs DEF is_rpl_associated_token_account_create_with_transfer
<1>11. KeysShown(NotPrinted, create, config)
  BY DEF KeysShown, NotPrinted
<1>12. CASE ActingKeys(create) = {}
  BY <1>12, NobodyShown
<1>13. CASE ActingKeys(create) # {}
  BY <1>1, <1>2, <1>3, <1>4, <1>5, <1>6, <1>7, <1>8, <1>9, <1>10, <1>11, <1>13 DEF PrintTwo
<1> QED BY <1>12, <1>13

\* The last of three instructions does.
LEMMA ThreeKeys ==
  ASSUME NEW infos, Len(infos) = 3, FieldsAre(infos[3]), NEW config
  PROVE  KeysShown(PrintThree(infos, config), infos[3], config)
<1> DEFINE initialize == print_stake_initialize_info(NoTitle, infos[2], config)
           delegate == print_delegate_stake_info(NoTitle, infos[3], config)
           created == print_create_account("Delegate_from", infos, config, initialize \o delegate)
<1>1. ASSUME infos[3].program = "Stake", NEW key \in ActingKeys(infos[3])
      PROVE  /\ infos[3].kind = "Delegate" => key = infos[3].authorized_pubkey
             /\ infos[3].kind = "Split" => StakeAuthority(infos[3], key)
  BY <1>1, ActingIn DEF Acts, Funder, NonceAuthority, StakeAuthority, VoteAuthority, TokenOwner
<1>2. ASSUME is_create_stake_account_and_delegate(infos)
      PROVE  KeysShown(Printed(created), infos[3], config)
  <2>1. infos[3].program = "Stake" /\ infos[3].kind = "Delegate"
    BY <1>2 DEF is_create_stake_account_and_delegate, Match
  <2>2. ASSUME NEW key \in ActingKeys(infos[3]), key # config.signer
        PROVE  KeyPut(created, key)
    <3> DEFINE creation == Primary("Pubkey", "Delegate_from", infos[1].to) \o
                 (IF infos[1].kind = "CreateAccount"
                  THEN print_system_create_account_info(NoTitle, infos[1], config)
                  ELSE print_system_create_account_with_seed_info(NoTitle, infos[1], config))
    <3>1. KeyPut(delegate, key)
      BY <1>1, <2>1, <2>2, DelegateShown
    <3>2. IsSeq(initialize)
      BY StakeInitializeInfo DEF UpTo
    <3>3. IsSeq(creation)
      <4>1. IsSeq(IF infos[1].kind = "CreateAccount"
                  THEN print_system_create_account_info(NoTitle, infos[1], config)
                  ELSE print_system_create_account_with_seed_info(NoTitle, infos[1], config))
        BY CreateInfoUpTo DEF UpTo
      <4> QED BY <4>1, SeqPrimary, Concatenation, PrintersKinds
    <3> HIDE DEF creation, initialize, delegate
    <3>4. KeyPut(creation \o (initialize \o delegate), key)
      BY <3>1, <3>2, <3>3, KeySecond
    <3> QED BY <3>4 DEF print_create_account, creation
  <2> HIDE DEF created
  <2>3. KeysShown(Printed(created), infos[3], config)
    BY <2>2 DEF KeysShown, Printed
  <2> QED BY <2>3
<1>3. ASSUME is_stake_split_v1_1(infos)
      PROVE  KeysShown(Printed(print_stake_info(infos[3], config)), infos[3], config)
  <2>1. infos[3].program = "Stake" /\ infos[3].kind = "Split"
    BY <1>3 DEF is_stake_split_v1_1, Match
  <2>2. ASSUME NEW key \in ActingKeys(infos[3]), key # config.signer
        PROVE  KeyPut(print_stake_info(infos[3], config), key)
    BY <1>1, <2>1, <2>2, StakeKeys
  <2> QED BY <2>2 DEF KeysShown, Printed
<1>4. KeysShown(NotPrinted, infos[3], config)
  BY DEF KeysShown, NotPrinted
<1> QED BY <1>2, <1>3, <1>4 DEF PrintThree

\* So do the two before it.
LEMMA ThreeFirstKeys ==
  ASSUME NEW infos, Len(infos) = 3, FieldsAre(infos[1]), FieldsAre(infos[2]), NEW config
  PROVE  /\ KeysShown(PrintThree(infos, config), infos[1], config)
         /\ KeysShown(PrintThree(infos, config), infos[2], config)
<1> DEFINE initialize == print_stake_initialize_info(NoTitle, infos[2], config)
           delegate == print_delegate_stake_info(NoTitle, infos[3], config)
           created == print_create_account("Delegate_from", infos, config, initialize \o delegate)
<1>1. ASSUME is_create_stake_account_and_delegate(infos)
      PROVE  /\ KeysShown(Printed(created), infos[1], config)
             /\ ActingKeys(infos[2]) = {}
  <2>1. /\ infos[1].program = "System" /\ infos[1].kind \in Creates
        /\ infos[2].program = "Stake" /\ infos[2].kind = "Initialize"
    BY <1>1 DEF is_create_stake_account_and_delegate, Match
  <2>2. IsSeq(initialize)
    BY StakeInitializeInfo DEF UpTo
  <2>3. IsSeq(delegate)
    BY SeqPrimary, Seqs, Concatenation, PrintersKinds DEF print_delegate_stake_info
  <2> HIDE DEF initialize, delegate
  <2>4. IsSeq(initialize \o delegate)
    BY <2>2, <2>3, Concatenation
  <2>5. KeysShown(Printed(created), infos[1], config)
    BY <2>1, <2>4, CreatedKey, CreationKeys
  <2>6. ActingKeys(infos[2]) = {}
    BY <2>1, NobodyActs
  <2> QED BY <2>5, <2>6
<1>2. ASSUME is_stake_split_v1_1(infos)
      PROVE  ActingKeys(infos[1]) = {} /\ ActingKeys(infos[2]) = {}
  <2>1. /\ infos[1].program = "System" /\ infos[1].kind = "Allocate"
        /\ infos[2].program = "System" /\ infos[2].kind = "Assign"
    BY <1>2 DEF is_stake_split_v1_1, Match
  <2> QED BY <2>1, NobodyActs
<1>3. CASE is_create_stake_account_and_delegate(infos)
  <2>1. PICK result : result = PrintThree(infos, config)
    OBVIOUS
  <2>a. ~is_stake_split_v1_1(infos)
    BY <1>3 DEF is_create_stake_account_and_delegate, is_stake_split_v1_1, Match, Creates
  <2>2. result = Printed(created)
    BY <1>3, <2>1, <2>a DEF PrintThree
  <2> HIDE DEF created
  <2>3. KeysShown(result, infos[1], config)
    BY <1>1, <1>3, <2>2
  <2>4. KeysShown(result, infos[2], config)
    BY <1>1, <1>3, NobodyShown
  <2> QED BY <2>1, <2>3, <2>4
<1>4. CASE ~is_create_stake_account_and_delegate(infos) /\ is_stake_split_v1_1(infos)
  BY <1>2, <1>4, NobodyShown
<1>5. CASE ~is_create_stake_account_and_delegate(infos) /\ ~is_stake_split_v1_1(infos)
  <2>1. PrintThree(infos, config) = NotPrinted
    BY <1>5 DEF PrintThree
  <2> QED BY <2>1 DEF KeysShown, NotPrinted
<1> QED BY <1>3, <1>4, <1>5

\* So do all of whatever is recognised, but for those that act unseen.
LEMMA ToldKeys ==
  ASSUME NEW infos, Len(infos) \in 1..3, \A j \in 1..Len(infos) : FieldsAre(infos[j]),
         NEW config, NEW i \in 1..Len(infos), ~ActsUnseen(infos, i)
  PROVE  KeysShown(print_transaction_nonce_processed(infos, config), infos[i], config)
<1>1. CASE Len(infos) = 1
  BY <1>1, OneKeys DEF print_transaction_nonce_processed
<1>2. CASE Len(infos) = 2
  BY <1>2, TwoKeys, TwoFirstKeys DEF print_transaction_nonce_processed
<1>3. CASE Len(infos) = 3
  BY <1>3, ThreeKeys, ThreeFirstKeys DEF print_transaction_nonce_processed
<1> QED BY <1>1, <1>2, <1>3

-----------------------------------------------------------------------------
(* The signers of token accounts. *)

\* What the parser of its program has made of an instruction that is known.
LEMMA TokenInfo ==
  ASSUME NEW instruction, instruction.program = "RplToken", Info(instruction).program # "Unknown"
  PROVE  \E info \in parse_rpl_token_instructions(instruction) :
           /\ DOMAIN Info(instruction) = {"program", "kind"} \cup DOMAIN info
           /\ \A field \in DOMAIN info \ {"program", "kind"} : Info(instruction)[field] = info[field]
<1> DEFINE parsed == parse_rpl_token_instructions(instruction)
           chosen == CHOOSE info \in parsed : TRUE
           head == [program |-> instruction.program, kind |-> instruction.kind]
<1>1. parsed # {} /\ Info(instruction) = Joined(head, chosen)
  BY DEF Info
<1>2. chosen \in parsed
  BY <1>1
<1>3. DOMAIN head = {"program", "kind"}
  OBVIOUS
<1> HIDE DEF parsed, chosen, head
<1>4. /\ DOMAIN Info(instruction) = {"program", "kind"} \cup DOMAIN chosen
      /\ \A field \in DOMAIN chosen \ {"program", "kind"} : Info(instruction)[field] = chosen[field]
  BY <1>1, <1>3 DEF Joined
<1> QED BY <1>2, <1>4 DEF parsed

\* The rest of a division by 256 is a natural number.
LEMMA Rests == \A n \in Nat : n % 256 \in Nat
OBVIOUS

\* The length of a sequence without its first elements.
LEMMA Lengths ==
  ASSUME NEW k \in Nat, NEW n \in Nat, k <= n
  PROVE  /\ n - k \in Nat
         /\ (IF k + 1 <= n THEN n - (k + 1) + 1 ELSE 0) = n - k
OBVIOUS

\* How many accounts the iterator goes through.
Taken(instruction) == Len(instruction.accounts) % 256

\* The iterator's byte takes the first accounts, their number modulo 256.
LEMMA TakenAccounts ==
  ASSUME NEW instruction, IsSequence(instruction.accounts)
  PROVE  /\ Taken(instruction) \in Nat
         /\ Iterate(instruction) = SubSeq(instruction.accounts, 1, Taken(instruction))
BY Rests DEF IsSequence, Iterate, Taken

\* The accounts that the iterator still has after those of a layout.
LEMMA RemainingLength ==
  ASSUME NEW instruction, IsSequence(instruction.accounts), NEW layout, NEW k \in Nat,
         k = Len(layout.accounts), NEW n \in Nat, n = Taken(instruction),
         ReadLayout(layout, instruction) # {},
         NEW left, left = Remaining(layout, instruction)
  PROVE  IsSeq(left) /\ Len(left) = n - k /\ k <= n
<1> DEFINE accounts == Iterate(instruction)
<1>1. PICK iterated : iterated = Iterate(instruction)
  OBVIOUS
<1>2. iterated = SubSeq(instruction.accounts, 1, n)
  BY <1>1, TakenAccounts
<1>3. Len(iterated) = n
  BY <1>2
<1>4. Read(layout.accounts, iterated) # {}
  BY <1>1 DEF ReadLayout, Both
<1>5. k <= n
  BY <1>3, <1>4 DEF Read
<1>6. left = SubSeq(iterated, k + 1, n)
  BY <1>1, <1>3 DEF Remaining
<1>7. PICK S : \A i \in (k + 1)..n : iterated[i] \in S
  <2>1. \A i \in (k + 1)..n : iterated[i] \in {iterated[j] : j \in (k + 1)..n}
    OBVIOUS
  <2> QED BY <2>1
<1>8. left \in Seq(S) /\ Len(left) = IF k + 1 <= n THEN n - (k + 1) + 1 ELSE 0
  BY <1>6, <1>7, SubSeqProperties
<1> QED BY <1>5, <1>8, Lengths DEF IsSeq

\* Whoever signs for a multisig is counted by the parser.
LEMMA SignedBy ==
  ASSUME NEW accounts, IsSeq(accounts), Len(accounts) > 1, NEW sign \in parse_rpl_token_sign(accounts)
  PROVE  sign.kind = "Multi" /\ sign.count = Len(accounts) - 1
<1>1. PICK S : accounts \in Seq(S)
  BY DEF IsSeq
<1>2. PICK n \in Nat : n = Len(accounts)
  BY <1>1, LenProperties
<1>3. Len(Tail(accounts)) = n - 1
  <2>1. accounts # <<>>
    BY <1>2
  <2> QED BY <1>1, <1>2, <2>1, HeadTailProperties
<1>4. PICK multi : multi = [kind |-> "Multi", account |-> accounts[1]]
  OBVIOUS
<1>5. sign \in Both({multi}, parse_rpl_token_multisigners(Tail(accounts)))
  BY <1>2, <1>4 DEF parse_rpl_token_sign
<1>6. PICK count \in parse_rpl_token_multisigners(Tail(accounts)) : sign = Joined(multi, count)
  BY <1>5 DEF Both
<1>7. count = [count |-> n - 1]
  BY <1>3 DEF parse_rpl_token_multisigners
<1>8. DOMAIN multi = {"kind", "account"} /\ multi.kind = "Multi"
  BY <1>4
<1>9. DOMAIN count = {"count"} /\ count["count"] = n - 1
  BY <1>7
<1>10. sign["kind"] = multi["kind"] /\ sign["count"] = count["count"]
  BY <1>6, <1>8, <1>9 DEF Joined
<1> QED BY <1>2, <1>8, <1>9, <1>10

\* A signed token instruction has the signers that its remaining accounts give.
LEMMA SignedInfo ==
  ASSUME NEW instruction,
         instruction.program = "RplToken", instruction.kind \in DOMAIN TokenSignedLayouts,
         Info(instruction).program # "Unknown"
  PROVE  LET layout == TokenSignedLayouts[instruction.kind]
         IN  /\ ReadLayout(layout, instruction) # {}
             /\ Info(instruction).sign \in parse_rpl_token_sign(Remaining(layout, instruction))
<1>1. PICK info \in parse_rpl_token_instructions(instruction) :
           /\ DOMAIN Info(instruction) = {"program", "kind"} \cup DOMAIN info
           /\ \A field \in DOMAIN info \ {"program", "kind"} : Info(instruction)[field] = info[field]
  BY TokenInfo
<1>2. PICK kind : kind = instruction.kind
  OBVIOUS
<1>3. info \in parse_signed(instruction)
  <2>1. kind \notin {"InitializeMultisig", "InitializeAccount"}
    BY <1>2 DEF TokenSignedLayouts
  <2> QED BY <1>1, <1>2, <2>1 DEF parse_rpl_token_instructions
<1>4. PICK layout : layout = TokenSignedLayouts[kind]
  OBVIOUS
<1> DEFINE others == {other \in Switch(TokenSignedLayouts, instruction) :
                        "authority_type" \in DOMAIN other => other.authority_type \in AuthorityTypes}
           signs == parse_rpl_token_sign(Remaining(TokenSignedLayouts[instruction.kind], instruction))
<1>5. signs = parse_rpl_token_sign(Remaining(layout, instruction))
  BY <1>2, <1>4
<1>6. info \in {Joined(other, [sign |-> sign]) : other \in others, sign \in signs}
  BY <1>3 DEF parse_signed
<1> HIDE DEF signs
<1>7. PICK other \in others, sign \in signs : info = Joined(other, [sign |-> sign])
  BY <1>6
<1>8. PICK last : last = [sign |-> sign]
  OBVIOUS
<1>9. other \in ReadLayout(layout, instruction) /\ DOMAIN other \subseteq FieldsOfLayout(layout)
  BY <1>2, <1>4, SwitchFields DEF Switch
<1>10. Lacks(layout, {"sign"})
  BY <1>2, <1>4 DEF TokenSignedLayouts, FieldsOfLayout, FieldsOf, Layout, Lacks
<1>11. "sign" \notin DOMAIN other
  BY <1>9, <1>10 DEF Lacks
<1>12. "sign" \in DOMAIN last /\ last["sign"] = sign
  BY <1>8
<1>13. "sign" \in DOMAIN info /\ info["sign"] = sign
  BY <1>7, <1>8, <1>11, <1>12 DEF Joined
<1>14. Info(instruction)["sign"] = sign
  BY <1>1, <1>13
<1> QED BY <1>2, <1>4, <1>5, <1>9, <1>14

\* The accounts that a signed instruction has before its signers are finitely many.
LEMMA SignedLengths ==
  ASSUME NEW kind \in DOMAIN TokenSignedLayouts
  PROVE  Len(TokenSignedLayouts[kind].accounts) \in Nat
<1>1. PICK three, two, other_two, other_three, last_two, one, other_one :
        /\ three = <<"src_account", "mint_account", "dest_account">>
        /\ other_three = <<"token_account", "mint_account", "delegate">>
        /\ two = <<"mint_account", "token_account">>
        /\ other_two = <<"token_account", "mint_account">>
        /\ last_two = <<"token_account", "dest_account">>
        /\ one = <<"token_account">>
        /\ other_one = <<"account">>
  OBVIOUS
<1>2. TokenSignedLayouts[kind].accounts \in {three, two, other_two, other_three, last_two, one, other_one}
  BY <1>1 DEF TokenSignedLayouts, Layout
<1>3. \A s \in {three, two, other_two, other_three, last_two, one, other_one} : Len(s) \in Nat
  BY <1>1
<1> QED BY <1>2, <1>3

\* The signers of an instruction that others sign are those after its own accounts and
\* the one they sign for.
LEMMA TokenSigners ==
  ASSUME NEW instruction, IsSequence(instruction.accounts),
         instruction.program = "RplToken", instruction.kind \in DOMAIN TokenSignedLayouts,
         Info(instruction).program # "Unknown",
         NEW signers,
         signers = Taken(instruction) - (Len(TokenSignedLayouts[instruction.kind].accounts) + 1),
         signers > 0
  PROVE  Info(instruction).sign.kind = "Multi" /\ Info(instruction).sign.count = signers
<1>1. PICK layout : layout = TokenSignedLayouts[instruction.kind]
  OBVIOUS
<1>2. PICK left : left = Remaining(layout, instruction)
  OBVIOUS
<1>3. PICK k \in Nat : k = Len(layout.accounts)
  BY <1>1, SignedLengths
<1>4. PICK n \in Nat : n = Taken(instruction)
  BY TakenAccounts
<1>5. ReadLayout(layout, instruction) # {}
  BY <1>1, SignedInfo
<1>6. IsSeq(left) /\ Len(left) = n - k /\ k <= n
  BY <1>2, <1>3, <1>4, <1>5, RemainingLength
<1>7. signers = n - (k + 1)
  BY <1>1, <1>3, <1>4
<1>8. Len(left) > 1 /\ Len(left) - 1 = signers
  BY <1>6, <1>7
<1>9. Info(instruction).sign \in parse_rpl_token_sign(left)
  BY <1>1, <1>2, SignedInfo
<1> QED BY <1>6, <1>8, <1>9, SignedBy

\* A new multisig account has its threshold, and as many signers as accounts behind the
\* first two.
LEMMA MultisigSigners ==
  ASSUME NEW instruction, IsSequence(instruction.accounts),
         instruction.program = "RplToken", instruction.kind = "InitializeMultisig",
         Info(instruction).program # "Unknown"
  PROVE  /\ Info(instruction).m = instruction.data[1]
         /\ Info(instruction).count = Taken(instruction) - 2
<1>1. PICK info \in parse_rpl_token_instructions(instruction) :
           /\ DOMAIN Info(instruction) = {"program", "kind"} \cup DOMAIN info
           /\ \A field \in DOMAIN info \ {"program", "kind"} : Info(instruction)[field] = info[field]
  BY TokenInfo
<1>2. info \in parse_initialize_multisig_rpl_token_instruction(instruction)
  <2>1. "InitializeMultisig" \notin DOMAIN TokenSignedLayouts
    BY DEF TokenSignedLayouts
  <2> QED BY <1>1, <2>1 DEF parse_rpl_token_instructions
<1>3. PICK layout : layout = InitializeMultisig
  OBVIOUS
<1>4. PICK counts : counts = parse_rpl_token_multisigners(Remaining(layout, instruction))
  OBVIOUS
<1>5. PICK other \in ReadLayout(layout, instruction), count \in counts : info = Joined(other, count)
  <2> DEFINE others == {other \in ReadLayout(layout, instruction) : other.m <= Token_MAX_SIGNERS}
  <2>1. info \in Both(others, counts)
    BY <1>2, <1>3, <1>4 DEF parse_initialize_multisig_rpl_token_instruction
  <2> QED BY <2>1 DEF Both
<1>6. PICK names, fields : names = <<"multisig_account", Skip>> /\ fields = <<"m">>
  OBVIOUS
<1>7. Len(names) = 2 /\ layout.accounts = names /\ layout.data = fields
  BY <1>3, <1>6 DEF InitializeMultisig, Layout
<1>8. PICK accounts, data : accounts = Named(names, Iterate(instruction)) /\ data = Named(fields, instruction.data)
  OBVIOUS
<1>9. other = Joined(accounts, data)
  <2>1. PICK a \in Read(names, Iterate(instruction)), b \in Read(fields, instruction.data) :
          other = Joined(a, b)
    BY <1>5, <1>7 DEF ReadLayout, Both
  <2> QED BY <1>8, <2>1, ReadOne
<1>10. DOMAIN data = {"m"} /\ data["m"] = instruction.data[1]
  BY <1>6, <1>8, NamedOne DEF Skip
<1>11. DOMAIN accounts = {"multisig_account"}
  <2>1. DOMAIN names = {1, 2} /\ names[1] = "multisig_account" /\ names[2] = Skip
    BY <1>6
  <2>2. {names[i] : i \in DOMAIN names} \ {Skip} = {"multisig_account"}
    BY <2>1 DEF Skip
  <2> QED BY <1>8, <2>2 DEF Named
<1>12. DOMAIN other = {"multisig_account", "m"} /\ other["m"] = instruction.data[1]
  BY <1>9, <1>10, <1>11 DEF Joined
<1>13. PICK left : left = Remaining(layout, instruction)
  OBVIOUS
<1>14. Len(left) = Taken(instruction) - 2
  <2>1. PICK n \in Nat : n = Taken(instruction)
    BY TakenAccounts
  <2>2. ReadLayout(layout, instruction) # {}
    BY <1>5
  <2>3. PICK k \in Nat : k = Len(layout.accounts)
    BY <1>7
  <2>4. Len(left) = n - k
    BY <1>13, <2>1, <2>2, <2>3, RemainingLength
  <2>5. k = 2
    BY <1>7, <2>3
  <2> QED BY <2>1, <2>4, <2>5
<1>15. count = [count |-> Len(left)]
  BY <1>4, <1>5, <1>13 DEF parse_rpl_token_multisigners
<1>16. DOMAIN count = {"count"} /\ count["count"] = Len(left)
  BY <1>15
<1>17. /\ "m" \in DOMAIN info /\ info["m"] = other["m"]
       /\ "count" \in DOMAIN info /\ info["count"] = count["count"]
  BY <1>5, <1>12, <1>16 DEF Joined
<1>18. Info(instruction)["m"] = info["m"] /\ Info(instruction)["count"] = info["count"]
  BY <1>1, <1>17
<1> QED BY <1>12, <1>14, <1>16, <1>17, <1>18

\* No item is a text, as the numbers of signers are.
NoText(items) == IsSeq(items) /\ \A put \in Elements(items) : put.item.kind # "String"

\* Two parts without a text are together without one.
LEMMA NoTextTogether ==
  ASSUME NEW a, NEW b, NoText(a), NoText(b)
  PROVE  NoText(a \o b)
BY ElementsTogether, Concatenation DEF NoText

\* An item of another kind is no text.
LEMMA NoTextPut ==
  ASSUME NEW slot, NEW kind \in ItemKinds \ {"String"}, NEW title, NEW value
  PROVE  NoText(PrintTo(slot, kind, title, value))
<1>1. PICK items : items = PrintTo(slot, kind, title, value)
  OBVIOUS
<1>2. IsSeq(items) /\ Len(items) = 1 /\ items[1].item = Item(kind, title, value)
  BY <1>1, OnePut
<1>3. \A put \in Elements(items) : put.item = Item(kind, title, value)
  BY <1>2 DEF Elements
<1> QED BY <1>1, <1>2, <1>3 DEF NoText, Item

\* Nothing has no text.
LEMMA NoTextNone == NoText(<<>>)
<1>1. IsSeq(<<>>)
  BY NoItem DEF UpTo
<1>2. Elements(<<>>) = {}
  BY DEF Elements
<1> QED BY <1>1, <1>2 DEF NoText

\* Keys and deposits are no texts.
LEMMA NoTextKeys ==
  /\ \A title, key : NoText(Pubkey(title, key))
  /\ \A config, title, key : NoText(Authority(config, title, key))
  /\ \A create, config : NoText(Funded(create, config))
<1>1. \A title, key : NoText(Pubkey(title, key))
  BY NoTextPut, PrintersKinds DEF Pubkey, General
<1>2. \A config, title, key : NoText(Authority(config, title, key))
  BY <1>1, NoTextNone DEF Authority, When
<1>3. \A title, amount : NoText(General("Amount", title, amount))
  BY NoTextPut, PrintersKinds DEF General
<1> QED BY <1>1, <1>2, <1>3, NoTextTogether DEF Funded

\* What a review says of the signers of an instruction of the token program.
CountText(info) == Item("String", "Required_signers", <<info.m, info.count>>)
Counted(result, info) ==
  result.printed =>
    /\ info.kind = "InitializeMultisig" =>
         IF info.m <= info.count THEN Puts(result.items, CountText(info)) ELSE NoText(result.items)
    /\ info.kind \in DOMAIN TokenSignedLayouts /\ info.sign.kind = "Multi" =>
         Puts(result.items, Item("U64", "Signers", info.sign.count))

\* The number of signers is an item wherever several sign.
LEMMA OwnerCounted ==
  ASSUME NEW a, IsSeq(a), NEW sign, sign.kind = "Multi", NEW config
  PROVE  Puts(a \o Owner(sign, config), Item("U64", "Signers", sign.count))
<1>1. Owner(sign, config) = Pubkey("Owner", sign.account) \o General("U64", "Signers", sign.count)
  BY DEF Owner
<1>2. Puts(General("U64", "Signers", sign.count), Item("U64", "Signers", sign.count))
  BY PutsOne, PrintersKinds DEF General
<1>3. IsSeq(Pubkey("Owner", sign.account))
  BY Seqs
<1>4. Puts(Owner(sign, config), Item("U64", "Signers", sign.count))
  BY <1>1, <1>2, <1>3, PutsSecond
<1> QED BY <1>4, PutsSecond

\* It is in a transfer of tokens.
LEMMA TransferCounted ==
  ASSUME NEW slot \in {"primary", "general"}, NEW info, NEW config, info.sign.kind = "Multi"
  PROVE  Puts(print_rpl_token_transfer_info(slot, info, config),
              Item("U64", "Signers", info.sign.count))
<1>1. IsSeq(TokenAmount(slot, "Transfer_tokens", info) \o
            Pubkey("From", info.src_account) \o Pubkey("To", info.dest_account))
  BY SeqToken, Seqs, Concatenation
<1> QED BY <1>1, OwnerCounted DEF print_rpl_token_transfer_info

\* It is in every signed token instruction.
LEMMA TokensCounted ==
  ASSUME NEW info, NEW config, info.kind \in DOMAIN TokenSignedLayouts, info.sign.kind = "Multi"
  PROVE  Puts(print_rpl_token_info(info, config), Item("U64", "Signers", info.sign.count))
<1> USE SeqPrimary, SeqToken, Seqs, Concatenation, PrintersKinds
<1> DEFINE owner == Owner(info.sign, config)
           mint == When(config.expert, Pubkey("Mint", info.mint_account))
<1>1. PICK count : count = Item("U64", "Signers", info.sign.count)
  OBVIOUS
<1>2. info.kind \in {"TransferChecked", "ApproveChecked", "MintToChecked", "BurnChecked", "Revoke",
                     "SetAuthority", "CloseAccount", "FreezeAccount", "ThawAccount"}
  BY DEF TokenSignedLayouts
<1>3. ASSUME NEW items, IsSeq(items)
      PROVE  Puts(items \o owner, count)
  BY <1>1, <1>3, OwnerCounted
<1> HIDE DEF owner, mint
<1> SUFFICES Puts(print_rpl_token_info(info, config), count)
  BY <1>1
<1>4. CASE info.kind = "TransferChecked"
  BY <1>1, <1>4, TransferCounted DEF print_rpl_token_info
<1>5. CASE info.kind = "ApproveChecked"
  <2>1. IsSeq(Primary("Pubkey", "Approve_delegate", info.delegate) \o
              TokenAmount("general", "Allowance", info) \o Pubkey("From", info.token_account))
    OBVIOUS
  <2> QED BY <1>3, <1>5, <2>1 DEF print_rpl_token_info, owner
<1>6. CASE info.kind = "MintToChecked"
  <2>1. IsSeq(TokenAmount("primary", "Mint_tokens", info) \o
              When(config.expert, Pubkey("From", info.mint_account)) \o
              Pubkey("To", info.token_account))
    OBVIOUS
  <2> QED BY <1>3, <1>6, <2>1 DEF print_rpl_token_info, owner
<1>7. CASE info.kind = "BurnChecked"
  <2>1. IsSeq(TokenAmount("primary", "Burn_tokens", info) \o Pubkey("From", info.token_account))
    OBVIOUS
  <2> QED BY <1>3, <1>7, <2>1 DEF print_rpl_token_info, owner
<1>8. CASE info.kind = "Revoke"
  BY <1>3, <1>8 DEF print_rpl_token_info, owner
<1>9. CASE info.kind = "SetAuthority"
  <2>1. IsSeq(Primary("Pubkey", IF info.new_authority = NoKey THEN "Clear_authority"
                                ELSE "Set_authority", info.account) \o
              General("String", "Type", info.authority_type) \o
              When(info.new_authority # NoKey, Pubkey("Authority", info.new_authority)))
    OBVIOUS
  <2> QED BY <1>3, <1>9, <2>1 DEF print_rpl_token_info, owner
<1>10. CASE info.kind = "CloseAccount"
  <2>1. IsSeq(Primary("Pubkey", "Close_acct", info.token_account) \o
              Pubkey("Withdraw_to", info.dest_account))
    OBVIOUS
  <2> QED BY <1>3, <1>10, <2>1 DEF print_rpl_token_info, owner
<1>11. CASE info.kind = "FreezeAccount"
  <2>1. IsSeq(Primary("Pubkey", "Freeze_acct", info.token_account) \o mint)
    BY DEF mint
  <2> QED BY <1>3, <1>11, <2>1 DEF print_rpl_token_info, owner, mint
<1>12. CASE info.kind = "ThawAccount"
  <2>1. IsSeq(Primary("Pubkey", "Thaw_acct", info.token_account) \o mint)
    BY DEF mint
  <2> QED BY <1>3, <1>12, <2>1 DEF print_rpl_token_info, owner, mint
<1> QED BY <1>2, <1>4, <1>5, <1>6, <1>7, <1>8, <1>9, <1>10, <1>11, <1>12

\* The items of a multisig: its number of signers with its threshold, or no text at all.
MultisigCounted(items, info) ==
  IF info.m <= info.count THEN Puts(items, CountText(info)) ELSE NoText(items)

\* The threshold has a text exactly if enough signers can be named.
LEMMA CountPut ==
  ASSUME NEW title, NEW info
  PROVE  MultisigCounted(Primary("Pubkey", title, info.multisig_account) \o
                         summary_item_set_multisig_m_of_n(info.m, info.count), info)
<1> DEFINE account == Primary("Pubkey", title, info.multisig_account)
           text == summary_item_set_multisig_m_of_n(info.m, info.count)
<1>1. NoText(account)
  BY NoTextPut, PrintersKinds DEF Primary
<1>2. IsSeq(account)
  BY <1>1 DEF NoText
<1>3. CASE info.m <= info.count
  <2>1. Puts(text, CountText(info))
    BY <1>3, PutsOne, PrintersKinds
       DEF summary_item_set_multisig_m_of_n, When, General, CountText
  <2> HIDE DEF account, text
  <2>2. Puts(account \o text, CountText(info))
    BY <1>2, <2>1, PutsSecond
  <2> QED BY <1>3, <2>2 DEF MultisigCounted, account, text
<1>4. CASE ~(info.m <= info.count)
  <2>1. NoText(text)
    BY <1>4, NoTextNone DEF summary_item_set_multisig_m_of_n, When
  <2> HIDE DEF account, text
  <2>2. NoText(account \o text)
    BY <1>1, <2>1, NoTextTogether
  <2> QED BY <1>4, <2>2 DEF MultisigCounted, account, text
<1> QED BY <1>3, <1>4

\* A token instruction on its own shows its numbers of signers.
LEMMA OneCounted ==
  ASSUME NEW info, info.program = "RplToken", NEW config
  PROVE  Counted(PrintOne(info, config), info)
<1>1. PrintOne(info, config) = Printed(print_rpl_token_info(info, config))
  BY DEF PrintOne
<1>2. CASE info.kind = "InitializeMultisig"
  <2>1. print_rpl_token_info(info, config) =
          Primary("Pubkey", "Init_multisig", info.multisig_account) \o
          summary_item_set_multisig_m_of_n(info.m, info.count)
    BY <1>2 DEF print_rpl_token_info
  <2>2. MultisigCounted(print_rpl_token_info(info, config), info)
    BY <2>1, CountPut
  <2>3. "InitializeMultisig" \notin DOMAIN TokenSignedLayouts
    BY DEF TokenSignedLayouts
  <2> QED BY <1>1, <1>2, <2>2, <2>3 DEF Counted, MultisigCounted, Printed
<1>3. CASE info.kind # "InitializeMultisig"
  BY <1>1, <1>3, TokensCounted DEF Counted, Printed
<1> QED BY <1>2, <1>3

\* So do the token instructions among two.
LEMMA TwoCounted ==
  ASSUME NEW infos, NEW j \in 1..2, infos[j].program = "RplToken", NEW config
  PROVE  Counted(PrintTwo(infos, config), infos[j])
<1> DEFINE create == infos[1]
           info == infos[2]
<1> USE DEF SystemThen, Match
<1>1. ASSUME NEW items, info.kind \in {"InitializeMint", "InitializeAccount", "InitializeAccount2"}
      PROVE  Counted(Printed(items), info)
  <2>1. info.kind \notin DOMAIN TokenSignedLayouts /\ info.kind # "InitializeMultisig"
    BY <1>1 DEF TokenSignedLayouts
  <2> QED BY <2>1 DEF Counted
<1>2. ASSUME is_create_stake_account(infos) \/ is_create_nonce_account(infos)
               \/ is_create_vote_account(infos) \/ is_stake_authorize_both(infos)
               \/ is_vote_authorize_both(infos) \/ is_stake_split_with_seed(infos)
               \/ is_stake_split_v1_2(infos)
      PROVE  FALSE
  <2>1. create.program # "RplToken" /\ info.program # "RplToken"
    <3>1. CASE is_create_stake_account(infos) \/ is_create_vote_account(infos)
      BY <3>1 DEF is_create_stake_account, is_create_vote_account
    <3>2. CASE is_create_nonce_account(infos)
      BY <3>2 DEF is_create_nonce_account
    <3>3. CASE is_stake_authorize_both(infos) \/ is_vote_authorize_both(infos)
      BY <3>3 DEF is_stake_authorize_both, is_vote_authorize_both, Twice
    <3>4. CASE is_stake_split_with_seed(infos) \/ is_stake_split_v1_2(infos)
      BY <3>4 DEF is_stake_split_with_seed, is_stake_split_v1_2
    <3> QED BY <1>2, <3>1, <3>2, <3>3, <3>4
  <2> QED BY <2>1
<1>3. ASSUME is_rpl_token_create_mint(infos)
      PROVE  j = 2 /\ Counted(Printed(print_rpl_token_create_mint(create, info, config)), info)
  BY <1>1, <1>3 DEF is_rpl_token_create_mint
<1>4. ASSUME is_rpl_token_create_account(infos)
      PROVE  j = 2 /\ Counted(Printed(print_rpl_token_create_account(create, info, config)), info)
  BY <1>1, <1>4 DEF is_rpl_token_create_account
<1>5. ASSUME is_rpl_token_create_multisig(infos)
      PROVE  j = 2 /\ Counted(Printed(print_rpl_token_create_multisig(create, info, config)), info)
  <2>1. j = 2 /\ info.kind = "InitializeMultisig"
    BY <1>5 DEF is_rpl_token_create_multisig
  <2>2. "InitializeMultisig" \notin DOMAIN TokenSignedLayouts
    BY DEF TokenSignedLayouts
  <2> DEFINE items == Primary("Pubkey", "Create_multisig", info.multisig_account) \o
                      summary_item_set_multisig_m_of_n(info.m, info.count)
             all == items \o Funded(create, config)
  <2>3. MultisigCounted(items, info)
    BY CountPut
  <2> HIDE DEF items
  <2>4. MultisigCounted(all, info)
    <3>1. NoText(Funded(create, config)) /\ IsSeq(Funded(create, config))
      BY NoTextKeys DEF NoText
    <3> QED BY <2>3, <3>1, PutsFirst, NoTextTogether DEF MultisigCounted
  <2>5. print_rpl_token_create_multisig(create, info, config) = all
    BY DEF print_rpl_token_create_multisig, items
  <2> HIDE DEF all
  <2>6. Counted(Printed(all), info)
    BY <2>1, <2>2, <2>4 DEF Counted, MultisigCounted, Printed
  <2> QED BY <2>1, <2>5, <2>6
<1>6. ASSUME is_rpl_associated_token_account_create_with_transfer(infos)
      PROVE  j = 2 /\ Counted(Printed(print_rpl_associated_token_account_create_info(create) \o
                                      print_rpl_token_transfer_info("general", info, config)), info)
  <2> DEFINE items == print_rpl_associated_token_account_create_info(create) \o
                      print_rpl_token_transfer_info("general", info, config)
  <2>1. j = 2 /\ info.kind = "TransferChecked"
    BY <1>6 DEF is_rpl_associated_token_account_create_with_transfer
  <2>2. ASSUME info.sign.kind = "Multi"
        PROVE  Puts(items, Item("U64", "Signers", info.sign.count))
    <3>1. IsSeq(print_rpl_associated_token_account_create_info(create))
      BY OtherAssociated DEF Other
    <3>2. Puts(print_rpl_token_transfer_info("general", info, config),
               Item("U64", "Signers", info.sign.count))
      BY <2>2, TransferCounted
    <3> QED BY <3>1, <3>2, PutsSecond
  <2> HIDE DEF items
  <2>3. Counted(Printed(items), info)
    BY <2>1, <2>2 DEF Counted, Printed
  <2> QED BY <2>1, <2>3 DEF items
<1>7. Counted(NotPrinted, infos[j])
  BY DEF Counted, NotPrinted
<1> QED BY <1>2, <1>3, <1>4, <1>5, <1>6, <1>7 DEF PrintTwo

\* So does every token instruction of what is recognised.
LEMMA ToldCounted ==
  ASSUME NEW infos, Len(infos) \in 1..3, NEW j \in 1..Len(infos), infos[j].program = "RplToken",
         NEW config
  PROVE  Counted(print_transaction_nonce_processed(infos, config), infos[j])
<1>1. CASE Len(infos) = 1
  BY <1>1, OneCounted DEF print_transaction_nonce_processed
<1>2. CASE Len(infos) = 2
  BY <1>2, TwoCounted DEF print_transaction_nonce_processed
<1>3. CASE Len(infos) = 3
  <2>1. \A i \in 1..3 : is_create_stake_account_and_delegate(infos) \/ is_stake_split_v1_1(infos)
                          => infos[i].program # "RplToken"
    BY DEF is_create_stake_account_and_delegate, is_stake_split_v1_1, Match
  <2>2. PrintThree(infos, config) = NotPrinted
    BY <1>3, <2>1 DEF PrintThree
  <2> QED BY <1>3, <2>2 DEF print_transaction_nonce_processed, Counted, NotPrinted
<1> QED BY <1>1, <1>2, <1>3

\* An instruction of the token program is among those the user is told about.
LEMMA ToldToken ==
  ASSUME NEW transaction \in Messages, NEW config,
         process_message_body(transaction, config).printed,
         NEW i \in DOMAIN transaction.instructions, transaction.instructions[i].program = "RplToken"
  PROVE  LET info == Info(transaction.instructions[i])
             told == ToldOf(transaction)
         IN  /\ info.program = "RplToken" /\ info.kind = transaction.instructions[i].kind
             /\ \E j \in 1..Len(told) : told[j] = info
<1> DEFINE infos == Infos(transaction)
           displayed == Displayed(infos)
           places == {l \in DOMAIN infos : infos[l].program # "RplMemo"}
<1>1. PICK n \in Nat : n = Len(transaction.instructions) /\ DOMAIN transaction.instructions = 1..n
  BY MessagesAssumption DEF MessagesAssumption, IsTransaction, IsSequence
<1>2. \A l \in DOMAIN infos : infos[l].program # "Unknown"
  BY DEF process_message_body, NotPrinted
<1>3. Len(infos) = n /\ DOMAIN infos = 1..n /\ IsSeq(displayed)
  BY <1>1, <1>2, DisplayedAreKnown, MessagesAssumption DEF MessagesAssumption, IsTransaction
<1>4. infos[i] = Info(transaction.instructions[i])
  BY <1>1 DEF Infos
<1>5. displayed = Kept(infos, places)
  BY DEF Displayed
<1>6. PICK told : told = ToldOf(transaction)
  OBVIOUS
<1>7. told = WithoutNonce(displayed)
  BY <1>6 DEF ToldOf
<1> HIDE DEF infos, displayed
<1>8. infos[i].program = "RplToken" /\ infos[i].kind = transaction.instructions[i].kind
  BY <1>1, <1>2, <1>3, <1>4, InfoOfInstruction
<1>9. PICK d : d = displayed
  OBVIOUS
<1>10. PICK at : KeptAt(at, d, infos, places, n)
  BY <1>3, <1>5, <1>9, KeptProperties
<1>11. PICK j \in 1..Len(d) : d[j] = infos[i]
  <2>1. i \in places \cap (1..n)
    BY <1>1, <1>3, <1>8
  <2> QED BY <1>10, <2>1, KeptPlace
<1>12. PICK S : d \in Seq(S)
  BY <1>3, <1>9 DEF IsSeq
<1>13. \E k \in 1..Len(told) : told[k] = infos[i]
  <2>1. CASE HasNonce(d)
    <3>1. PICK m \in Nat : m = Len(d) /\ m > 1
      BY <1>12, <2>1, LenProperties DEF HasNonce
    <3>2. told = Tail(d) /\ d # <<>>
      BY <1>7, <1>9, <2>1, <3>1 DEF WithoutNonce
    <3>3. Len(told) = m - 1 /\ \A k \in 1..(m - 1) : told[k] = d[k + 1]
      BY <1>12, <3>1, <3>2, HeadTailProperties
    <3>4. j # 1
      BY <1>8, <1>11, <2>1 DEF HasNonce, is_advance_nonce_account
    <3>5. j - 1 \in 1..(m - 1) /\ (j - 1) + 1 = j
      BY <3>1, <3>4
    <3> QED BY <1>11, <3>3, <3>5
  <2>2. CASE ~HasNonce(d)
    BY <1>7, <1>9, <1>11, <2>2 DEF WithoutNonce
  <2> QED BY <2>1, <2>2
<1> QED BY <1>4, <1>6, <1>8, <1>13

\* If no item of what follows the nonce is a text, none of the body is.
LEMMA BodyNoText ==
  ASSUME NEW transaction \in Messages, NEW config, process_message_body(transaction, config).printed,
         NoText(print_transaction_nonce_processed(ToldOf(transaction), config).items)
  PROVE  NoText(process_message_body(transaction, config).items)
<1> DEFINE infos == Displayed(Infos(transaction))
           told == ToldOf(transaction)
           printed == print_transaction_nonce_processed(told, config)
           body == process_message_body(transaction, config)
<1>1. body = print_transaction(infos, config)
  BY MessagesAssumption, DisplayedFields DEF MessagesAssumption
<1>2. told = WithoutNonce(infos)
  BY DEF ToldOf
<1>3. body.printed /\ NoText(printed.items)
  OBVIOUS
<1>4. PrintedWell(printed)
  BY MessagesAssumption, ToldPrinted, NonceProcessedWell DEF MessagesAssumption
<1> HIDE DEF infos, body, told
<1>5. CASE HasNonce(infos)
  <2>1. body = [printed EXCEPT !.items = Sentinel(infos[1], config) \o @]
    BY <1>1, <1>2, <1>5 DEF print_transaction, HasNonce, WithoutNonce
  <2>2. body.items = Sentinel(infos[1], config) \o printed.items
    BY <1>4, <2>1 DEF PrintedWell
  <2>3. NoText(Sentinel(infos[1], config))
    <3>1. NoText(PrintTo("nonce_account", "Pubkey", "Nonce_account", infos[1].account) \o
                 PrintTo("nonce_authority", "Pubkey", "Nonce_authority", infos[1].authority))
      BY NoTextPut, NoTextTogether, PrintersKinds
    <3> QED BY <3>1, NoTextNone DEF Sentinel, When
  <2> QED BY <1>3, <2>2, <2>3, NoTextTogether DEF body
<1>6. CASE ~HasNonce(infos)
  <2>1. body = printed
    BY <1>1, <1>2, <1>6 DEF print_transaction, HasNonce, WithoutNonce
  <2> QED BY <1>3, <2>1 DEF body
<1> QED BY <1>5, <1>6

-----------------------------------------------------------------------------
(* Instructions that are cut short are not printed. *)

\* A layout, with the accounts it must have behind it, asks for as many accounts and
\* fields as an instruction has at least.
Asks(layout, extra, least) ==
  /\ Len(layout.accounts) \in Nat /\ Len(layout.data) \in Nat
  /\ least[1] \in Nat /\ least[1] <= Len(layout.accounts) + extra
  /\ least[2] \in Nat /\ least[2] <= Len(layout.data)

AllAsk(layouts, extra, least) ==
  \A kind \in DOMAIN layouts :
    kind \in DOMAIN least /\ Asks(layouts[kind], extra, least[kind])

\* A rest is not more than what was divided.
LEMMA SmallRests == \A n \in Nat : n % 256 <= n
OBVIOUS

\* What is read by a layout has as many accounts and fields as it names.
LEMMA ReadLengths ==
  ASSUME NEW instruction, IsSequence(instruction.accounts), NEW layout,
         Len(layout.accounts) \in Nat, ReadLayout(layout, instruction) # {}
  PROVE  /\ Len(layout.accounts) <= Taken(instruction)
         /\ Taken(instruction) <= Len(instruction.accounts)
         /\ Len(layout.data) <= Len(instruction.data)
<1>1. Taken(instruction) \in Nat /\ Taken(instruction) <= Len(instruction.accounts)
  BY Rests, SmallRests DEF Taken, IsSequence
<1>2. Len(layout.accounts) <= Taken(instruction)
  BY <1>1, RemainingLength
<1>3. Read(layout.data, instruction.data) # {}
  BY DEF ReadLayout, Both
<1> QED BY <1>1, <1>2, <1>3 DEF Read

\* So is what a switch reads.
LEMMA SwitchLengths ==
  ASSUME NEW instruction, IsSequence(instruction.accounts), IsSequence(instruction.data),
         NEW layouts, NEW least,
         AllAsk(layouts, 0, least),
         Switch(layouts, instruction) # {}
  PROVE  instruction.kind \in DOMAIN least /\ HasLengths(instruction, least[instruction.kind])
<1>1. /\ instruction.kind \in DOMAIN layouts
      /\ ReadLayout(layouts[instruction.kind], instruction) # {}
  BY DEF Switch
<1>2. PICK layout, numbers : layout = layouts[instruction.kind] /\ numbers = least[instruction.kind]
  OBVIOUS
<1>3. Asks(layout, 0, numbers) /\ instruction.kind \in DOMAIN least
  BY <1>1, <1>2 DEF AllAsk
<1>4. /\ Len(layout.accounts) <= Taken(instruction)
      /\ Taken(instruction) <= Len(instruction.accounts)
      /\ Len(layout.data) <= Len(instruction.data)
  BY <1>1, <1>2, <1>3, ReadLengths DEF Asks
<1>5. Taken(instruction) \in Nat /\ Len(instruction.accounts) \in Nat /\ Len(instruction.data) \in Nat
  BY TakenAccounts DEF IsSequence
<1>6. HasLengths(instruction, numbers)
  BY <1>3, <1>4, <1>5 DEF HasLengths, Asks
<1> QED BY <1>2, <1>3, <1>6


\* What the parsers of the system program ask for: of a creation, no more than what
\* stands before its space and owner program.
SystemRead ==
  [CreateAccount |-> <<2, 1>>, CreateAccountWithSeed |-> <<2, 3>>, Transfer |-> <<2, 1>>,
   Allocate |-> <<1, 1>>, AllocateWithSeed |-> <<2, 4>>, Assign |-> <<1, 1>>,
   AdvanceNonceAccount |-> <<3, 0>>, InitializeNonceAccount |-> <<3, 1>>,
   WithdrawNonceAccount |-> <<5, 1>>, AuthorizeNonceAccount |-> <<2, 1>>]

\* The instructions about nonces.
LEMMA SystemNonceAsks == AllAsk(SystemNonceLayouts, 0, SystemRead)
<1>1. SUFFICES ASSUME NEW kind \in DOMAIN SystemNonceLayouts
                PROVE  /\ kind \in DOMAIN SystemRead
                       /\ Asks(SystemNonceLayouts[kind], 0, SystemRead[kind])
  BY DEF AllAsk
<1>2. PICK layout, least : layout = SystemNonceLayouts[kind] /\ least = SystemRead[kind]
  OBVIOUS
<1>3. kind \in DOMAIN SystemRead
  BY DEF SystemNonceLayouts, SystemRead
<1>4. \/ layout = Layout(<<"account", Skip, "authority">>, <<>>) /\ least = <<3, 0>>
      \/ layout = Layout(<<"account", Skip, Skip>>, <<"authority">>) /\ least = <<3, 1>>
      \/ layout = Layout(<<"account", "to", Skip, Skip, "authority">>, <<"lamports">>) /\ least = <<5, 1>>
      \/ layout = Layout(<<"account", "authority">>, <<"new_authority">>) /\ least = <<2, 1>>
  BY <1>2 DEF SystemNonceLayouts, SystemRead
<1>5. Asks(layout, 0, least)
  <2>1. CASE layout = Layout(<<"account", Skip, "authority">>, <<>>) /\ least = <<3, 0>>
    BY <2>1 DEF Asks, Layout
  <2>2. CASE layout = Layout(<<"account", Skip, Skip>>, <<"authority">>) /\ least = <<3, 1>>
    BY <2>2 DEF Asks, Layout
  <2>3. CASE layout = Layout(<<"account", "to", Skip, Skip, "authority">>, <<"lamports">>) /\ least = <<5, 1>>
    BY <2>3 DEF Asks, Layout
  <2>4. CASE layout = Layout(<<"account", "authority">>, <<"new_authority">>) /\ least = <<2, 1>>
    BY <2>4 DEF Asks, Layout
  <2> QED BY <1>4, <2>1, <2>2, <2>3, <2>4
<1> QED BY <1>2, <1>3, <1>5

\* Those that move lamports and make accounts.
LEMMA SystemAccountAsks == AllAsk(SystemAccountLayouts, 0, SystemRead)
<1>1. SUFFICES ASSUME NEW kind \in DOMAIN SystemAccountLayouts
                PROVE  /\ kind \in DOMAIN SystemRead
                       /\ Asks(SystemAccountLayouts[kind], 0, SystemRead[kind])
  BY DEF AllAsk
<1>2. PICK layout, least : layout = SystemAccountLayouts[kind] /\ least = SystemRead[kind]
  OBVIOUS
<1>3. kind \in DOMAIN SystemRead
  BY DEF SystemAccountLayouts, SystemRead
<1>4. \/ layout = Layout(<<"from", "to">>, <<"lamports">>) /\ least = <<2, 1>>
      \/ layout = Layout(<<"from", "to">>, <<"base", "seed", "lamports">>) /\ least = <<2, 3>>
      \/ layout = Layout(<<"account">>, <<"space">>) /\ least = <<1, 1>>
      \/ layout = Layout(<<"account">>, <<"program_id">>) /\ least = <<1, 1>>
      \/ layout = Layout(<<"account", Skip>>, <<"base", "seed", "space", "program_id">>) /\ least = <<2, 4>>
  BY <1>2 DEF SystemAccountLayouts, AllocateWithSeed, SystemRead
<1>5. Asks(layout, 0, least)
  <2>1. CASE layout = Layout(<<"from", "to">>, <<"lamports">>) /\ least = <<2, 1>>
    BY <2>1 DEF Asks, Layout
  <2>2. CASE layout = Layout(<<"from", "to">>, <<"base", "seed", "lamports">>) /\ least = <<2, 3>>
    BY <2>2 DEF Asks, Layout
  <2>3. CASE layout = Layout(<<"account">>, <<"space">>) /\ least = <<1, 1>>
    BY <2>3 DEF Asks, Layout
  <2>4. CASE layout = Layout(<<"account">>, <<"program_id">>) /\ least = <<1, 1>>
    BY <2>4 DEF Asks, Layout
  <2>5. CASE layout = Layout(<<"account", Skip>>, <<"base", "seed", "space", "program_id">>) /\ least = <<2, 4>>
    BY <2>5 DEF Asks, Layout
  <2> QED BY <1>4, <2>1, <2>2, <2>3, <2>4, <2>5
<1> QED BY <1>2, <1>3, <1>5

\* The instructions that move a stake.
LEMMA StakeMoveAsks == AllAsk(StakeMoveLayouts, 0, LeastLengths.Stake)
<1>1. SUFFICES ASSUME NEW kind \in DOMAIN StakeMoveLayouts
                PROVE  /\ kind \in DOMAIN LeastLengths.Stake
                       /\ Asks(StakeMoveLayouts[kind], 0, LeastLengths.Stake[kind])
  BY DEF AllAsk
<1>2. PICK layout, least : layout = StakeMoveLayouts[kind] /\ least = LeastLengths.Stake[kind]
  OBVIOUS
<1>3. kind \in DOMAIN LeastLengths.Stake
  BY DEF StakeMoveLayouts, LeastLengths
<1>4. \/ layout = Layout(<<"stake_pubkey", "vote_pubkey", Skip, Skip, Skip, "authorized_pubkey">>, <<>>) /\ least = <<6, 0>>
      \/ layout = Layout(<<"account", "to", Skip, Skip, "authority">>, <<"lamports">>) /\ least = <<5, 1>>
      \/ layout = Layout(<<"account", Skip, "authority">>, <<>>) /\ least = <<3, 0>>
      \/ layout = Layout(<<"account", "split_account", "authority">>, <<"lamports">>) /\ least = <<3, 1>>
      \/ layout = Layout(<<"destination", "source", Skip, Skip, "authority">>, <<>>) /\ least = <<5, 0>>
  BY <1>2 DEF StakeMoveLayouts, LeastLengths
<1>5. Asks(layout, 0, least)
  <2>1. CASE layout = Layout(<<"stake_pubkey", "vote_pubkey", Skip, Skip, Skip, "authorized_pubkey">>, <<>>) /\ least = <<6, 0>>
    BY <2>1 DEF Asks, Layout
  <2>2. CASE layout = Layout(<<"account", "to", Skip, Skip, "authority">>, <<"lamports">>) /\ least = <<5, 1>>
    BY <2>2 DEF Asks, Layout
  <2>3. CASE layout = Layout(<<"account", Skip, "authority">>, <<>>) /\ least = <<3, 0>>
    BY <2>3 DEF Asks, Layout
  <2>4. CASE layout = Layout(<<"account", "split_account", "authority">>, <<"lamports">>) /\ least = <<3, 1>>
    BY <2>4 DEF Asks, Layout
  <2>5. CASE layout = Layout(<<"destination", "source", Skip, Skip, "authority">>, <<>>) /\ least = <<5, 0>>
    BY <2>5 DEF Asks, Layout
  <2> QED BY <1>4, <2>1, <2>2, <2>3, <2>4, <2>5
<1> QED BY <1>2, <1>3, <1>5

\* Those that initialize one.
LEMMA StakeInitializeAsks == AllAsk(StakeInitializeLayouts, 0, LeastLengths.Stake)
<1>1. SUFFICES ASSUME NEW kind \in DOMAIN StakeInitializeLayouts
                PROVE  /\ kind \in DOMAIN LeastLengths.Stake
                       /\ Asks(StakeInitializeLayouts[kind], 0, LeastLengths.Stake[kind])
  BY DEF AllAsk
<1>2. PICK layout, least : layout = StakeInitializeLayouts[kind] /\ least = LeastLengths.Stake[kind]
  OBVIOUS
<1>3. kind \in DOMAIN LeastLengths.Stake
  BY DEF StakeInitializeLayouts, LeastLengths
<1>4. \/ layout = Layout(<<"account", Skip>>, <<"stake_authority", "withdraw_authority", "unix_timestamp", "epoch", "custodian">>) /\ least = <<2, 5>>
      \/ layout = Layout(<<"account", Skip, "stake_authority", "withdraw_authority">>, <<>>) /\ least = <<4, 0>>
  BY <1>2 DEF StakeInitializeLayouts, LeastLengths
<1>5. Asks(layout, 0, least)
  <2>1. CASE layout = Layout(<<"account", Skip>>, <<"stake_authority", "withdraw_authority", "unix_timestamp", "epoch", "custodian">>) /\ least = <<2, 5>>
    BY <2>1 DEF Asks, Layout
  <2>2. CASE layout = Layout(<<"account", Skip, "stake_authority", "withdraw_authority">>, <<>>) /\ least = <<4, 0>>
    BY <2>2 DEF Asks, Layout
  <2> QED BY <1>4, <2>1, <2>2
<1> QED BY <1>2, <1>3, <1>5

\* Those that give it a new authority.
LEMMA StakeAuthorizeAsks == AllAsk(StakeAuthorizeLayouts, 0, LeastLengths.Stake)
<1>1. SUFFICES ASSUME NEW kind \in DOMAIN StakeAuthorizeLayouts
                PROVE  /\ kind \in DOMAIN LeastLengths.Stake
                       /\ Asks(StakeAuthorizeLayouts[kind], 0, LeastLengths.Stake[kind])
  BY DEF AllAsk
<1>2. PICK layout, least : layout = StakeAuthorizeLayouts[kind] /\ least = LeastLengths.Stake[kind]
  OBVIOUS
<1>3. kind \in DOMAIN LeastLengths.Stake
  BY DEF StakeAuthorizeLayouts, LeastLengths
<1>4. \/ layout = Layout(<<"account", Skip, "authority">>, <<"new_authority", "authorize">>) /\ least = <<3, 2>>
      \/ layout = Layout(<<"account", Skip, "authority", "new_authority">>, <<"authorize">>) /\ least = <<4, 1>>
  BY <1>2 DEF StakeAuthorizeLayouts, LeastLengths
<1>5. Asks(layout, 0, least)
  <2>1. CASE layout = Layout(<<"account", Skip, "authority">>, <<"new_authority", "authorize">>) /\ least = <<3, 2>>
    BY <2>1 DEF Asks, Layout
  <2>2. CASE layout = Layout(<<"account", Skip, "authority", "new_authority">>, <<"authorize">>) /\ least = <<4, 1>>
    BY <2>2 DEF Asks, Layout
  <2> QED BY <1>4, <2>1, <2>2
<1> QED BY <1>2, <1>3, <1>5

\* Those that lock it.
LEMMA StakeLockupAsks == AllAsk(StakeLockupLayouts, 0, LeastLengths.Stake)
<1>1. SUFFICES ASSUME NEW kind \in DOMAIN StakeLockupLayouts
                PROVE  /\ kind \in DOMAIN LeastLengths.Stake
                       /\ Asks(StakeLockupLayouts[kind], 0, LeastLengths.Stake[kind])
  BY DEF AllAsk
<1>2. PICK layout, least : layout = StakeLockupLayouts[kind] /\ least = LeastLengths.Stake[kind]
  OBVIOUS
<1>3. kind \in DOMAIN LeastLengths.Stake
  BY DEF StakeLockupLayouts, LeastLengths
<1>4. \/ layout = Layout(<<"account", "custodian">>, <<"timestamp", "epoch", "new">>) /\ least = <<2, 3>>
      \/ layout = Layout(<<"account", "custodian">>, <<"timestamp", "epoch">>) /\ least = <<2, 2>>
  BY <1>2 DEF StakeLockupLayouts, LeastLengths
<1>5. Asks(layout, 0, least)
  <2>1. CASE layout = Layout(<<"account", "custodian">>, <<"timestamp", "epoch", "new">>) /\ least = <<2, 3>>
    BY <2>1 DEF Asks, Layout
  <2>2. CASE layout = Layout(<<"account", "custodian">>, <<"timestamp", "epoch">>) /\ least = <<2, 2>>
    BY <2>2 DEF Asks, Layout
  <2> QED BY <1>4, <2>1, <2>2
<1> QED BY <1>2, <1>3, <1>5

\* The instructions about votes.
LEMMA VoteAsks == AllAsk(VoteLayouts, 0, LeastLengths.Vote)
<1>1. SUFFICES ASSUME NEW kind \in DOMAIN VoteLayouts
                PROVE  /\ kind \in DOMAIN LeastLengths.Vote
                       /\ Asks(VoteLayouts[kind], 0, LeastLengths.Vote[kind])
  BY DEF AllAsk
<1>2. PICK layout, least : layout = VoteLayouts[kind] /\ least = LeastLengths.Vote[kind]
  OBVIOUS
<1>3. kind \in DOMAIN LeastLengths.Vote
  BY DEF VoteLayouts, LeastLengths
<1>4. \/ layout = Layout(<<"account", Skip, Skip>>, <<"validator_id", "vote_authority", "withdraw_authority", "commission">>) /\ least = <<3, 4>>
      \/ layout = Layout(<<"account", "to", "authority">>, <<"lamports">>) /\ least = <<3, 1>>
      \/ layout = Layout(<<"account", Skip, "authority">>, <<"new_authority", "authorize">>) /\ least = <<3, 2>>
      \/ layout = Layout(<<"account", Skip, "authority", "new_authority">>, <<"authorize">>) /\ least = <<4, 1>>
      \/ layout = Layout(<<"account", "authority">>, <<"commission">>) /\ least = <<2, 1>>
  BY <1>2 DEF VoteLayouts, LeastLengths
<1>5. Asks(layout, 0, least)
  <2>1. CASE layout = Layout(<<"account", Skip, Skip>>, <<"validator_id", "vote_authority", "withdraw_authority", "commission">>) /\ least = <<3, 4>>
    BY <2>1 DEF Asks, Layout
  <2>2. CASE layout = Layout(<<"account", "to", "authority">>, <<"lamports">>) /\ least = <<3, 1>>
    BY <2>2 DEF Asks, Layout
  <2>3. CASE layout = Layout(<<"account", Skip, "authority">>, <<"new_authority", "authorize">>) /\ least = <<3, 2>>
    BY <2>3 DEF Asks, Layout
  <2>4. CASE layout = Layout(<<"account", Skip, "authority", "new_authority">>, <<"authorize">>) /\ least = <<4, 1>>
    BY <2>4 DEF Asks, Layout
  <2>5. CASE layout = Layout(<<"account", "authority">>, <<"commission">>) /\ least = <<2, 1>>
    BY <2>5 DEF Asks, Layout
  <2> QED BY <1>4, <2>1, <2>2, <2>3, <2>4, <2>5
<1> QED BY <1>2, <1>3, <1>5

\* The token instructions that are signed by accounts behind those of their layout.
LEMMA TokenSignedAsks == AllAsk(TokenSignedLayouts, 1, LeastLengths.RplToken)
<1>1. SUFFICES ASSUME NEW kind \in DOMAIN TokenSignedLayouts
                PROVE  /\ kind \in DOMAIN LeastLengths.RplToken
                       /\ Asks(TokenSignedLayouts[kind], 1, LeastLengths.RplToken[kind])
  BY DEF AllAsk
<1>2. PICK layout, least : layout = TokenSignedLayouts[kind] /\ least = LeastLengths.RplToken[kind]
  OBVIOUS
<1>3. kind \in DOMAIN LeastLengths.RplToken
  BY DEF TokenSignedLayouts, LeastLengths
<1>4. \/ layout = Layout(<<"src_account", "mint_account", "dest_account">>, <<"amount", "decimals">>) /\ least = <<4, 2>>
      \/ layout = Layout(<<"token_account", "mint_account", "delegate">>, <<"amount", "decimals">>) /\ least = <<4, 2>>
      \/ layout = Layout(<<"mint_account", "token_account">>, <<"amount", "decimals">>) /\ least = <<3, 2>>
      \/ layout = Layout(<<"token_account", "mint_account">>, <<"amount", "decimals">>) /\ least = <<3, 2>>
      \/ layout = Layout(<<"token_account">>, <<>>) /\ least = <<2, 0>>
      \/ layout = Layout(<<"account">>, <<"authority_type", "new_authority">>) /\ least = <<2, 2>>
      \/ layout = Layout(<<"token_account", "dest_account">>, <<>>) /\ least = <<3, 0>>
      \/ layout = Layout(<<"token_account", "mint_account">>, <<>>) /\ least = <<3, 0>>
  BY <1>2 DEF TokenSignedLayouts, LeastLengths
<1>5. Asks(layout, 1, least)
  <2>1. CASE layout = Layout(<<"src_account", "mint_account", "dest_account">>, <<"amount", "decimals">>) /\ least = <<4, 2>>
    BY <2>1 DEF Asks, Layout
  <2>2. CASE layout = Layout(<<"token_account", "mint_account", "delegate">>, <<"amount", "decimals">>) /\ least = <<4, 2>>
    BY <2>2 DEF Asks, Layout
  <2>3. CASE layout = Layout(<<"mint_account", "token_account">>, <<"amount", "decimals">>) /\ least = <<3, 2>>
    BY <2>3 DEF Asks, Layout
  <2>4. CASE layout = Layout(<<"token_account", "mint_account">>, <<"amount", "decimals">>) /\ least = <<3, 2>>
    BY <2>4 DEF Asks, Layout
  <2>5. CASE layout = Layout(<<"token_account">>, <<>>) /\ least = <<2, 0>>
    BY <2>5 DEF Asks, Layout
  <2>6. CASE layout = Layout(<<"account">>, <<"authority_type", "new_authority">>) /\ least = <<2, 2>>
    BY <2>6 DEF Asks, Layout
  <2>7. CASE layout = Layout(<<"token_account", "dest_account">>, <<>>) /\ least = <<3, 0>>
    BY <2>7 DEF Asks, Layout
  <2>8. CASE layout = Layout(<<"token_account", "mint_account">>, <<>>) /\ least = <<3, 0>>
    BY <2>8 DEF Asks, Layout
  <2> QED BY <1>4, <2>1, <2>2, <2>3, <2>4, <2>5, <2>6, <2>7, <2>8
<1> QED BY <1>2, <1>3, <1>5

\* Those that nobody signs.
LEMMA TokenInitializeAsks == AllAsk(TokenInitializeLayouts, 0, LeastLengths.RplToken)
<1>1. SUFFICES ASSUME NEW kind \in DOMAIN TokenInitializeLayouts
                PROVE  /\ kind \in DOMAIN LeastLengths.RplToken
                       /\ Asks(TokenInitializeLayouts[kind], 0, LeastLengths.RplToken[kind])
  BY DEF AllAsk
<1>2. PICK layout, least : layout = TokenInitializeLayouts[kind] /\ least = LeastLengths.RplToken[kind]
  OBVIOUS
<1>3. kind \in DOMAIN LeastLengths.RplToken
  BY DEF TokenInitializeLayouts, LeastLengths
<1>4. \/ layout = Layout(<<"mint_account", Skip>>, <<"decimals", "mint_authority", "freeze_authority">>) /\ least = <<2, 3>>
      \/ layout = Layout(<<"token_account", "mint_account", "owner", Skip>>, <<>>) /\ least = <<4, 0>>
      \/ layout = Layout(<<"token_account", "mint_account", Skip>>, <<"owner">>) /\ least = <<3, 1>>
      \/ layout = Layout(<<"token_account">>, <<>>) /\ least = <<1, 0>>
  BY <1>2 DEF TokenInitializeLayouts, LeastLengths
<1>5. Asks(layout, 0, least)
  <2>1. CASE layout = Layout(<<"mint_account", Skip>>, <<"decimals", "mint_authority", "freeze_authority">>) /\ least = <<2, 3>>
    BY <2>1 DEF Asks, Layout
  <2>2. CASE layout = Layout(<<"token_account", "mint_account", "owner", Skip>>, <<>>) /\ least = <<4, 0>>
    BY <2>2 DEF Asks, Layout
  <2>3. CASE layout = Layout(<<"token_account", "mint_account", Skip>>, <<"owner">>) /\ least = <<3, 1>>
    BY <2>3 DEF Asks, Layout
  <2>4. CASE layout = Layout(<<"token_account">>, <<>>) /\ least = <<1, 0>>
    BY <2>4 DEF Asks, Layout
  <2> QED BY <1>4, <2>1, <2>2, <2>3, <2>4
<1> QED BY <1>2, <1>3, <1>5

\* Two switches in one ask for no less than each.
LEMMA JoinedAsk ==
  ASSUME NEW layouts, NEW others, NEW least, AllAsk(layouts, 0, least), AllAsk(others, 0, least)
  PROVE  AllAsk(Joined(layouts, others), 0, least)
<1>1. SUFFICES ASSUME NEW kind \in DOMAIN Joined(layouts, others)
               PROVE  kind \in DOMAIN least /\ Asks(Joined(layouts, others)[kind], 0, least[kind])
  BY DEF AllAsk
<1>2. \/ kind \in DOMAIN layouts /\ Joined(layouts, others)[kind] = layouts[kind]
      \/ kind \in DOMAIN others /\ Joined(layouts, others)[kind] = others[kind]
  <2>1. CASE kind \in DOMAIN layouts
    BY <2>1 DEF Joined
  <2>2. CASE kind \notin DOMAIN layouts
    BY <1>1, <2>2 DEF Joined
  <2> QED BY <2>1, <2>2
<1> QED BY <1>2 DEF AllAsk

\* An instruction of the system program that has an info is whole, or a creation with
\* all up to its lamports.
LEMMA SystemUncut ==
  ASSUME NEW instruction, IsSequence(instruction.accounts), IsSequence(instruction.data),
         parse_system_instructions(instruction) # {}
  PROVE  /\ instruction.kind \in DOMAIN LeastLengths.System
         /\ \/ HasLengths(instruction, LeastLengths.System[instruction.kind])
            \/ /\ instruction.kind \in DOMAIN ToLamports
               /\ HasLengths(instruction, ToLamports[instruction.kind])
<1>1. AllAsk(Joined(SystemNonceLayouts, SystemAccountLayouts), 0, SystemRead)
  BY SystemNonceAsks, SystemAccountAsks, JoinedAsk
<1>2. Switch(Joined(SystemNonceLayouts, SystemAccountLayouts), instruction) # {}
  BY DEF parse_system_instructions
<1>3. instruction.kind \in DOMAIN SystemRead /\ HasLengths(instruction, SystemRead[instruction.kind])
  BY <1>1, <1>2, SwitchLengths
<1>4. DOMAIN SystemRead = DOMAIN LeastLengths.System
  BY DEF SystemRead, LeastLengths
<1>5. \/ SystemRead[instruction.kind] = LeastLengths.System[instruction.kind]
      \/ /\ instruction.kind \in DOMAIN ToLamports
         /\ SystemRead[instruction.kind] = ToLamports[instruction.kind]
  BY <1>3 DEF SystemRead, LeastLengths, ToLamports
<1> QED BY <1>3, <1>4, <1>5

\* So is one of the stake program.
LEMMA StakeUncut ==
  ASSUME NEW instruction, IsSequence(instruction.accounts), IsSequence(instruction.data),
         parse_stake_instructions(instruction) # {}
  PROVE  /\ instruction.kind \in DOMAIN LeastLengths.Stake
         /\ HasLengths(instruction, LeastLengths.Stake[instruction.kind])
<1>1. \/ Switch(StakeMoveLayouts, instruction) # {}
      \/ Switch(StakeInitializeLayouts, instruction) # {}
      \/ Switch(StakeAuthorizeLayouts, instruction) # {}
      \/ Switch(StakeLockupLayouts, instruction) # {}
  BY DEF parse_stake_instructions, parse_stake_initialize, parse_stake_authorize,
         parse_stake_set_lockup
<1> QED BY <1>1, StakeMoveAsks, StakeInitializeAsks, StakeAuthorizeAsks, StakeLockupAsks, SwitchLengths

\* What is read by a layout has the lengths the layout asks for.
LEMMA AskedLengths ==
  ASSUME NEW instruction, IsSequence(instruction.accounts), IsSequence(instruction.data),
         NEW layout, NEW least, Asks(layout, 0, least), ReadLayout(layout, instruction) # {}
  PROVE  HasLengths(instruction, least)
<1>1. /\ Len(layout.accounts) <= Taken(instruction)
      /\ Taken(instruction) <= Len(instruction.accounts)
      /\ Len(layout.data) <= Len(instruction.data)
  BY ReadLengths DEF Asks
<1>2. /\ Taken(instruction) \in Nat
      /\ Len(instruction.accounts) \in Nat /\ Len(instruction.data) \in Nat
  BY TakenAccounts DEF IsSequence
<1> QED BY <1>1, <1>2 DEF HasLengths, Asks

\* So is one of the vote program, in either format of a new identity.
LEMMA VoteUncut ==
  ASSUME NEW instruction, IsSequence(instruction.accounts), IsSequence(instruction.data),
         parse_vote_instructions(instruction) # {}
  PROVE  /\ instruction.kind \in DOMAIN LeastLengths.Vote
         /\ HasLengths(instruction, LeastLengths.Vote[instruction.kind])
<1>1. CASE Switch(VoteLayouts, instruction) # {}
  BY <1>1, VoteAsks, SwitchLengths
<1>2. CASE parse_vote_update_validator_id_instruction(instruction) # {}
  <2>1. instruction.kind = "UpdateValidatorId"
    BY <1>2 DEF parse_vote_update_validator_id_instruction
  <2>2. PICK keyless, keyed, least :
          /\ keyless = Layout(<<"account", "new_validator_id", "authority">>, <<>>)
          /\ keyed = Layout(<<"account", Skip, "authority">>, <<"new_validator_id">>)
          /\ least = LeastLengths.Vote[instruction.kind]
    OBVIOUS
  <2>3. ReadLayout(keyless, instruction) # {} \/ ReadLayout(keyed, instruction) # {}
    BY <1>2, <2>2 DEF parse_vote_update_validator_id_instruction
  <2>4. least = <<3, 0>> /\ instruction.kind \in DOMAIN LeastLengths.Vote
    BY <2>1, <2>2 DEF LeastLengths
  <2>5. Asks(keyless, 0, least)
    BY <2>2, <2>4 DEF Asks, Layout
  <2>6. Asks(keyed, 0, least)
    BY <2>2, <2>4 DEF Asks, Layout
  <2>7. HasLengths(instruction, least)
    BY <2>3, <2>5, <2>6, AskedLengths
  <2> QED BY <2>2, <2>4, <2>7
<1>3. \/ Switch(VoteLayouts, instruction) # {}
      \/ parse_vote_update_validator_id_instruction(instruction) # {}
  BY DEF parse_vote_instructions
<1> QED BY <1>1, <1>2, <1>3

\* One that is signed has an account more than its layout.
LEMMA SignedUncut ==
  ASSUME NEW instruction, IsSequence(instruction.accounts), IsSequence(instruction.data),
         parse_signed(instruction) # {}
  PROVE  /\ instruction.kind \in DOMAIN LeastLengths.RplToken
         /\ HasLengths(instruction, LeastLengths.RplToken[instruction.kind])
<1>1. PICK layout, least, left :
        /\ layout = TokenSignedLayouts[instruction.kind]
        /\ least = LeastLengths.RplToken[instruction.kind]
        /\ left = Remaining(layout, instruction)
  OBVIOUS
<1>2. Switch(TokenSignedLayouts, instruction) # {} /\ parse_rpl_token_sign(left) # {}
  <2> DEFINE others == {other \in Switch(TokenSignedLayouts, instruction) :
                          "authority_type" \in DOMAIN other => other.authority_type \in AuthorityTypes}
             signs == parse_rpl_token_sign(Remaining(TokenSignedLayouts[instruction.kind], instruction))
  <2>1. signs = parse_rpl_token_sign(left)
    BY <1>1
  <2>2. PICK info : info \in parse_signed(instruction)
    OBVIOUS
  <2>3. info \in {Joined(other, [sign |-> sign]) : other \in others, sign \in signs}
    BY <2>2 DEF parse_signed
  <2> HIDE DEF signs
  <2>4. PICK other \in others, sign \in signs : info = Joined(other, [sign |-> sign])
    BY <2>3
  <2> QED BY <2>1, <2>4
<1>3. instruction.kind \in DOMAIN TokenSignedLayouts /\ ReadLayout(layout, instruction) # {}
  BY <1>1, <1>2 DEF Switch
<1>4. Asks(layout, 1, least) /\ instruction.kind \in DOMAIN LeastLengths.RplToken
  BY <1>1, <1>3, TokenSignedAsks DEF AllAsk
<1>5. PICK k \in Nat, n \in Nat : k = Len(layout.accounts) /\ n = Taken(instruction)
  BY <1>4, TakenAccounts DEF Asks
<1>6. IsSeq(left) /\ Len(left) = n - k /\ k <= n
  BY <1>1, <1>3, <1>5, RemainingLength
<1>7. Len(left) # 0
  BY <1>2 DEF parse_rpl_token_sign
<1>8. n <= Len(instruction.accounts) /\ Len(layout.data) <= Len(instruction.data)
  BY <1>3, <1>4, <1>5, ReadLengths
<1>9. Len(instruction.accounts) \in Nat /\ Len(instruction.data) \in Nat
  BY DEF IsSequence
<1>10. PICK d : d = Len(layout.data) /\ d \in Nat
  BY <1>4 DEF Asks
<1>11. PICK a, b : /\ a = least[1] /\ a \in Nat /\ a <= k + 1
                   /\ b = least[2] /\ b \in Nat /\ b <= d
  BY <1>4, <1>5, <1>10 DEF Asks
<1>12. k + 1 <= n
  BY <1>5, <1>6, <1>7
<1>13. a <= Len(instruction.accounts) /\ b <= Len(instruction.data)
  BY <1>5, <1>8, <1>9, <1>10, <1>11, <1>12
<1>14. HasLengths(instruction, least)
  BY <1>11, <1>13 DEF HasLengths
<1> QED BY <1>1, <1>4, <1>14

\* A multisig has a signer.
LEMMA MultisigUncut ==
  ASSUME NEW instruction, IsSequence(instruction.accounts), IsSequence(instruction.data),
         parse_initialize_multisig_rpl_token_instruction(instruction) # {}
  PROVE  HasLengths(instruction, <<3, 1>>)
<1>1. PICK layout, left :
        layout = InitializeMultisig /\ left = Remaining(layout, instruction)
  OBVIOUS
<1>2. ReadLayout(layout, instruction) # {} /\ parse_rpl_token_multisigners(left) # {}
  BY <1>1 DEF parse_initialize_multisig_rpl_token_instruction, Both
<1>3. PICK k \in Nat : k = Len(layout.accounts)
  BY <1>1 DEF InitializeMultisig, Layout
<1>9. Len(layout.accounts) = 2 /\ Len(layout.data) = 1
  BY <1>1 DEF InitializeMultisig, Layout
<1>4. PICK n \in Nat : n = Taken(instruction)
  BY TakenAccounts
<1>5. IsSeq(left) /\ Len(left) = n - k /\ k <= n
  BY <1>1, <1>2, <1>3, <1>4, RemainingLength
<1>6. Len(left) # 0
  BY <1>2 DEF parse_rpl_token_multisigners
<1>7. n <= Len(instruction.accounts) /\ Len(layout.data) <= Len(instruction.data)
  BY <1>2, <1>3, <1>4, ReadLengths
<1>8. Len(instruction.accounts) \in Nat /\ Len(instruction.data) \in Nat
  BY DEF IsSequence
<1> QED BY <1>3, <1>4, <1>5, <1>6, <1>7, <1>8, <1>9 DEF HasLengths

\* So is one of a token program.
LEMMA TokenUncut ==
  ASSUME NEW instruction, IsSequence(instruction.accounts), IsSequence(instruction.data),
         parse_rpl_token_instructions(instruction) # {}
  PROVE  /\ instruction.kind \in DOMAIN LeastLengths.RplToken
         /\ HasLengths(instruction, LeastLengths.RplToken[instruction.kind])
<1>1. CASE instruction.kind \in DOMAIN TokenSignedLayouts
  <2>1. instruction.kind \notin {"InitializeMultisig", "InitializeAccount"}
    BY <1>1 DEF TokenSignedLayouts
  <2>2. parse_signed(instruction) # {}
    BY <1>1, <2>1 DEF parse_rpl_token_instructions
  <2> QED BY <2>2, SignedUncut
<1>2. CASE instruction.kind = "InitializeMultisig"
  <2>1. parse_initialize_multisig_rpl_token_instruction(instruction) # {}
    <3>1. instruction.kind \notin DOMAIN TokenSignedLayouts
      BY <1>2 DEF TokenSignedLayouts
    <3> QED BY <1>2, <3>1 DEF parse_rpl_token_instructions
  <2>2. PICK least : least = LeastLengths.RplToken[instruction.kind]
    OBVIOUS
  <2>3. least = <<3, 1>> /\ instruction.kind \in DOMAIN LeastLengths.RplToken
    BY <1>2, <2>2 DEF LeastLengths
  <2> QED BY <2>1, <2>2, <2>3, MultisigUncut
<1>3. CASE /\ instruction.kind \notin DOMAIN TokenSignedLayouts
           /\ instruction.kind # "InitializeMultisig"
  <2>1. Switch(TokenInitializeLayouts, instruction) # {}
    BY <1>3 DEF parse_rpl_token_instructions
  <2> QED BY <2>1, TokenInitializeAsks, SwitchLengths
<1> QED BY <1>1, <1>2, <1>3

\* A new associated account has six accounts.
LEMMA AssociatedUncut ==
  ASSUME NEW instruction, IsSequence(instruction.accounts), IsSequence(instruction.data),
         parse_rpl_associated_token_account_instructions(instruction) # {}
  PROVE  HasLengths(instruction, <<6, 0>>)
<1>1. PICK layout : layout = Layout(<<"funder", "address", "owner", "mint", Skip, Skip>>, <<>>)
  OBVIOUS
<1>2. ReadLayout(layout, instruction) # {}
  BY <1>1 DEF parse_rpl_associated_token_account_instructions
<1>3. Asks(layout, 0, <<6, 0>>)
  BY <1>1 DEF Asks, Layout
<1> QED BY <1>2, <1>3, AskedLengths

\* An instruction that has an info of its program is whole, creations apart.
LEMMA KnownUncut ==
  ASSUME NEW instruction, IsSequence(instruction.accounts), IsSequence(instruction.data),
         Info(instruction).program # "Unknown"
  PROVE  IsUncut(instruction) \/ IsCreationToLamports(instruction)
<1>1. \/ instruction.program = "RplMemo"
      \/ instruction.program = "System" /\ parse_system_instructions(instruction) # {}
      \/ instruction.program = "Stake" /\ parse_stake_instructions(instruction) # {}
      \/ instruction.program = "Vote" /\ parse_vote_instructions(instruction) # {}
      \/ instruction.program = "RplToken" /\ parse_rpl_token_instructions(instruction) # {}
      \/ /\ instruction.program = "RplAssociatedTokenAccount"
         /\ parse_rpl_associated_token_account_instructions(instruction) # {}
  <2>1. Info(instruction) # [program |-> "Unknown"]
    OBVIOUS
  <2> QED BY <2>1 DEF Info
<1>2. DOMAIN LeastLengths = {"System", "Stake", "Vote", "RplToken"}
  BY DEF LeastLengths
<1> QED BY <1>1, <1>2, SystemUncut, StakeUncut, VoteUncut, TokenUncut, AssociatedUncut
        DEF IsUncut, IsCreationToLamports

-----------------------------------------------------------------------------
(* What an expert can read off the items: their titles and values. *)

Said(items) == {<<put.item.title, put.item.value>> : put \in Elements(items)}
Line(title, value) == {<<title, value>>}

\* An item says its title and value.
LEMMA SaidPut ==
  ASSUME NEW slot, NEW kind \in ItemKinds, NEW title, NEW value
  PROVE  /\ IsSeq(PrintTo(slot, kind, title, value))
         /\ Said(PrintTo(slot, kind, title, value)) = Line(title, value)
<1>1. PICK puts : puts = PrintTo(slot, kind, title, value)
  OBVIOUS
<1>2. IsSeq(puts) /\ Len(puts) = 1 /\ puts[1].item = Item(kind, title, value)
  BY <1>1, OnePut
<1>a. puts[1].item.title = title /\ puts[1].item.value = value
  BY <1>2 DEF Item
<1>3. Elements(puts) = {puts[1]}
  BY <1>2 DEF Elements
<1>4. Said(puts) = {<<puts[1].item.title, puts[1].item.value>>}
  BY <1>3 DEF Said
<1> QED BY <1>1, <1>2, <1>a, <1>4 DEF Line

\* Two parts say what each of them says.
LEMMA SaidTogether ==
  \A a, b : IsSeq(a) /\ IsSeq(b) => IsSeq(a \o b) /\ Said(a \o b) = Said(a) \cup Said(b)
<1>1. SUFFICES ASSUME NEW a, NEW b, IsSeq(a), IsSeq(b)
               PROVE  IsSeq(a \o b) /\ Said(a \o b) = Said(a) \cup Said(b)
  OBVIOUS
<1>2. PICK c : c = a \o b
  OBVIOUS
<1>3. IsSeq(c) /\ Elements(c) = Elements(a) \cup Elements(b)
  BY <1>1, <1>2, Concatenation, ElementsTogether
<1>4. Said(c) = Said(a) \cup Said(b)
  BY <1>3 DEF Said
<1> QED BY <1>2, <1>3, <1>4

\* Nothing says nothing.
LEMMA SaidNone == IsSeq(<<>>) /\ Said(<<>>) = {}
<1>1. PICK none : none = <<>>
  OBVIOUS
<1>2. Len(none) = 0
  BY <1>1
<1>3. Elements(none) = {}
  BY <1>2 DEF Elements
<1>4. Said(none) = {}
  BY <1>3 DEF Said
<1>5. IsSeq(<<>>)
  BY NoItem DEF UpTo
<1> QED BY <1>1, <1>4, <1>5

\* What is printed under a condition is said under it.
If(condition, said) == IF condition THEN said ELSE {}

\* What is printed under a condition is said if the condition holds.
LEMMA SaidWhen ==
  \A condition, items :
    IsSeq(items) => /\ IsSeq(When(condition, items))
                    /\ Said(When(condition, items)) = If(condition, Said(items))
BY SaidNone DEF When, If

\* What the smallest print functions say when experts read it.
Experts(config) == config.expert = TRUE

\* Each of the smallest print functions says its title and value, and no more.
LEMMA SaidParts ==
  /\ \A kind \in ItemKinds : \A title, value :
       /\ IsSeq(Primary(kind, title, value)) /\
            Said(Primary(kind, title, value)) = Line(title, value)
       /\ IsSeq(General(kind, title, value)) /\
            Said(General(kind, title, value)) = Line(title, value)
  /\ \A title, key :
       IsSeq(Pubkey(title, key)) /\ Said(Pubkey(title, key)) = Line(title, key)
  /\ \A config, title, key : Experts(config) =>
       IsSeq(Authority(config, title, key)) /\
         Said(Authority(config, title, key)) = Line(title, key)
  /\ \A title, key : title # NoTitle =>
       IsSeq(OptionalPrimary(title, key)) /\ Said(OptionalPrimary(title, key)) = Line(title, key)
  /\ \A key : IsSeq(OptionalPrimary(NoTitle, key)) /\ Said(OptionalPrimary(NoTitle, key)) = {}
<1>1. \A kind \in ItemKinds : \A title, value :
       /\ IsSeq(Primary(kind, title, value)) /\
            Said(Primary(kind, title, value)) = Line(title, value)
       /\ IsSeq(General(kind, title, value)) /\
            Said(General(kind, title, value)) = Line(title, value)
  BY SaidPut DEF Primary, General
<1>2. \A title, key : IsSeq(Pubkey(title, key)) /\ Said(Pubkey(title, key)) = Line(title, key)
  BY <1>1, PrintersKinds DEF Pubkey
<1>3. \A config, title, key : Experts(config) =>
       IsSeq(Authority(config, title, key)) /\
         Said(Authority(config, title, key)) = Line(title, key)
  BY <1>2 DEF Authority, When, print_config_show_authority, Experts
<1>4. \A title, key : title # NoTitle =>
       IsSeq(OptionalPrimary(title, key)) /\ Said(OptionalPrimary(title, key)) = Line(title, key)
  BY <1>1, PrintersKinds DEF OptionalPrimary
<1>5. \A key : IsSeq(OptionalPrimary(NoTitle, key)) /\ Said(OptionalPrimary(NoTitle, key)) = {}
  BY SaidNone DEF OptionalPrimary
<1> QED BY <1>1, <1>2, <1>3, <1>4, <1>5

\* The seed is said to experts.
LEMMA SaidSeed ==
  ASSUME NEW info, NEW config, Experts(config)
  PROVE  /\ IsSeq(Seeded(info, config))
         /\ Said(Seeded(info, config)) = Line("Base", info.base) \cup Line("Seed", info.seed)
BY SaidParts, SaidTogether, PrintersKinds DEF Seeded, When, Experts

\* What is said of an account that is created.
SaidCreate(info) ==
  Line("Deposit", info.lamports) \cup Line("From", info.from)
SaidSeedOf(info) == Line("Base", info.base) \cup Line("Seed", info.seed)

\* An account that is created is said with its deposit, its funder and its seed.
LEMMA SaidCreated ==
  ASSUME NEW info, NEW config, Experts(config)
  PROVE  LET plain(title) == print_system_create_account_info(title, info, config)
             seeded(title) == print_system_create_account_with_seed_info(title, info, config)
         IN  /\ IsSeq(plain(NoTitle)) /\ Said(plain(NoTitle)) = SaidCreate(info)
             /\ IsSeq(seeded(NoTitle)) /\
                  Said(seeded(NoTitle)) = SaidCreate(info) \cup SaidSeedOf(info)
             /\ IsSeq(plain("Create_account"))
             /\ Said(plain("Create_account")) = Line("Create_account", info.to) \cup
                  SaidCreate(info)
             /\ IsSeq(seeded("Create_account"))
             /\ Said(seeded("Create_account")) =
                  Line("Create_account", info.to) \cup SaidCreate(info) \cup SaidSeedOf(info)
<1> USE SaidParts, SaidTogether, SaidSeed, PrintersKinds
<1>1. /\ IsSeq(print_system_create_account_info(NoTitle, info, config))
      /\ Said(print_system_create_account_info(NoTitle, info, config)) = SaidCreate(info)
  BY DEF print_system_create_account_info, SaidCreate
<1>2. /\ IsSeq(print_system_create_account_info("Create_account", info, config))
      /\ Said(print_system_create_account_info("Create_account", info, config)) =
           Line("Create_account", info.to) \cup SaidCreate(info)
  BY DEF print_system_create_account_info, SaidCreate, NoTitle
<1> QED BY <1>1, <1>2 DEF print_system_create_account_with_seed_info, SaidSeedOf

\* What is said of an instruction of the system program, by its kind.
LEMMA SaidSystem ==
  ASSUME NEW info, NEW config, Experts(config)
  PROVE  LET said == Said(print_system_info(info, config))
         IN  /\ info.kind = "Transfer" => said =
                  Line("Transfer", info.lamports) \cup Line("Sender", info.from) \cup
                  Line("Recipient", info.to)
             /\ info.kind = "AdvanceNonceAccount" => said =
                  Line("Advance_nonce", info.account) \cup Line("Authorized_by", info.authority)
             /\ info.kind = "CreateAccount" => said =
                  Line("Create_account", info.to) \cup SaidCreate(info)
             /\ info.kind = "CreateAccountWithSeed" => said =
                  Line("Create_account", info.to) \cup SaidCreate(info) \cup SaidSeedOf(info)
             /\ info.kind = "InitializeNonceAccount" => said =
                  Line("Init_nonce_acct", info.account) \cup Line("New_authority", info.authority)
             /\ info.kind = "WithdrawNonceAccount" => said =
                  Line("Nonce_withdraw", info.lamports) \cup Line("From", info.account) \cup
                  Line("To", info.to) \cup Line("Authorized_by", info.authority)
             /\ info.kind = "AuthorizeNonceAccount" => said =
                  Line("Set_nonce_auth", info.account) \cup
                  Line("New_authority", info.new_authority) \cup
                  Line("Authorized_by", info.authority)
             /\ info.kind = "Assign" => said =
                  Line("Assign_acct", info.account) \cup Line("To_program", info.program_id)
             /\ info.kind = "Allocate" => said =
                  Line("Allocate_acct", info.account) \cup Line("Data_size", info.space)
             /\ info.kind = "AllocateWithSeed" => said =
                  Line("Allocate_acct", info.account) \cup Line("Data_size", info.space) \cup
                  SaidSeedOf(info)
<1> USE SaidParts, SaidTogether, PrintersKinds
<1>1. CASE info.kind = "Transfer"
  BY <1>1 DEF print_system_info
<1>2. CASE info.kind = "AdvanceNonceAccount"
  BY <1>2 DEF print_system_info
<1>3. CASE info.kind = "CreateAccount"
  BY <1>3, SaidCreated DEF print_system_info
<1>4. CASE info.kind = "CreateAccountWithSeed"
  BY <1>4, SaidCreated DEF print_system_info
<1>5. CASE info.kind = "InitializeNonceAccount"
  BY <1>5 DEF print_system_info, print_system_initialize_nonce_info, NoTitle
<1>6. CASE info.kind = "WithdrawNonceAccount"
  BY <1>6 DEF print_system_info
<1>7. CASE info.kind = "AuthorizeNonceAccount"
  BY <1>7 DEF print_system_info
<1>8. CASE info.kind = "Assign"
  BY <1>8 DEF print_system_info
<1>9. CASE info.kind = "Allocate"
  BY <1>9 DEF print_system_info
<1>10. CASE info.kind = "AllocateWithSeed"
  BY <1>10, SaidSeed DEF print_system_info, SaidSeedOf
<1> QED BY <1>1, <1>2, <1>3, <1>4, <1>5, <1>6, <1>7, <1>8, <1>9, <1>10

\* What is said of the parts of an initialized stake account.
SaidAuthorities(same, staker, withdrawer, same_title, staker_title) ==
  IF same THEN Line(same_title, staker)
  ELSE Line(staker_title, staker) \cup Line("New_withdraw_auth", withdrawer)
SaidLockup(lockup) ==
  LET locked == lockup.unix_timestamp > 0 \/ lockup.epoch > 0
  IN  If(lockup.unix_timestamp > 0, Line("Lockup_time", lockup.unix_timestamp)) \cup
      If(lockup.epoch > 0, Line("Lockup_epoch", lockup.epoch)) \cup
      If(locked, Line("Lockup_authority", lockup.custodian)) \cup
      If(~locked, Line("Lockup", "None"))
SaidInitialize(info) ==
  SaidAuthorities(info.stake_authority = info.withdraw_authority, info.stake_authority,
                  info.withdraw_authority, "New_authority", "New_stake_auth") \cup
  SaidLockup(info.lockup)
SaidDelegate(info) ==
  Line("Authorized_by", info.authorized_pubkey) \cup Line("Vote_account", info.vote_pubkey)

\* Two authorities are said, or one for both.
LEMMA SaidNewAuthorities ==
  \A same, staker, withdrawer, same_title, staker_title :
    LET items == NewAuthorities(same, staker, withdrawer, same_title, staker_title)
    IN  /\ IsSeq(items)
        /\ Said(items) = SaidAuthorities(same, staker, withdrawer, same_title, staker_title)
BY SaidParts, SaidTogether DEF NewAuthorities, SaidAuthorities

\* A lockup is said as far as it locks.
LEMMA SaidOfLockup ==
  ASSUME NEW lockup, NEW config, Experts(config)
  PROVE  IsSeq(Lockup(lockup, config)) /\ Said(Lockup(lockup, config)) = SaidLockup(lockup)
BY SaidParts, SaidTogether, SaidWhen, PrintersKinds DEF Lockup, SaidLockup, Experts

\* What is said of an initialized and of a delegated stake, alone or after its creation.
LEMMA SaidStakeParts ==
  ASSUME NEW info, NEW config, Experts(config)
  PROVE  LET initialize(title) == print_stake_initialize_info(title, info, config)
             delegate(title) == print_delegate_stake_info(title, info, config)
         IN  /\ IsSeq(initialize(NoTitle)) /\ Said(initialize(NoTitle)) = SaidInitialize(info)
             /\ IsSeq(initialize("Init_stake_acct"))
             /\ Said(initialize("Init_stake_acct")) =
                  Line("Init_stake_acct", info.account) \cup SaidInitialize(info)
             /\ IsSeq(delegate(NoTitle)) /\ Said(delegate(NoTitle)) = SaidDelegate(info)
             /\ IsSeq(delegate("Delegate_from"))
             /\ Said(delegate("Delegate_from")) =
                  Line("Delegate_from", info.stake_pubkey) \cup SaidDelegate(info)
<1>0. PICK lockup : lockup = info.lockup
  OBVIOUS
<1> USE SaidParts, SaidTogether
<1>1. /\ IsSeq(print_stake_initialize_info(NoTitle, info, config))
      /\ Said(print_stake_initialize_info(NoTitle, info, config)) = SaidInitialize(info)
  BY <1>0, SaidNewAuthorities, SaidOfLockup DEF print_stake_initialize_info, SaidInitialize
<1>2. /\ IsSeq(print_stake_initialize_info("Init_stake_acct", info, config))
      /\ Said(print_stake_initialize_info("Init_stake_acct", info, config)) =
           Line("Init_stake_acct", info.account) \cup SaidInitialize(info)
  BY <1>0, SaidNewAuthorities, SaidOfLockup DEF print_stake_initialize_info, SaidInitialize, NoTitle
<1>3. /\ IsSeq(print_delegate_stake_info(NoTitle, info, config))
      /\ Said(print_delegate_stake_info(NoTitle, info, config)) = SaidDelegate(info)
  BY DEF print_delegate_stake_info, SaidDelegate
<1>4. /\ IsSeq(print_delegate_stake_info("Delegate_from", info, config))
      /\ Said(print_delegate_stake_info("Delegate_from", info, config)) =
           Line("Delegate_from", info.stake_pubkey) \cup SaidDelegate(info)
  BY DEF print_delegate_stake_info, SaidDelegate, NoTitle
<1> QED BY <1>1, <1>2, <1>3, <1>4

\* What is said of an instruction of the stake program, by its kind.
SaidSplit(info) ==
  Line("Split_stake", info.lamports) \cup Line("From", info.account) \cup
  Line("To", info.split_account) \cup Line("Authorized_by", info.authority)
SaidAuthorize(title, new_title, info) ==
  Line(title, info.account) \cup Line(new_title, info.new_authority) \cup
  Line("Authorized_by", info.authority)
SaidSetLockup(info) ==
  Line("Set_lockup", info.account) \cup
  If("Timestamp" \in info.lockup.present, Line("Time", info.lockup.unix_timestamp)) \cup
  If("Epoch" \in info.lockup.present, Line("Epoch", info.lockup.epoch)) \cup
  If("Custodian" \in info.lockup.present, Line("New_authority", info.lockup.custodian)) \cup
  Line("Authorized_by", info.custodian)

\* What the stake printers put in the summary says, kind by kind, to experts.
LEMMA SaidStake ==
  ASSUME NEW info, NEW config, Experts(config)
  PROVE  LET said == Said(print_stake_info(info, config))
         IN  /\ info.kind = "Delegate" => said =
                  Line("Delegate_from", info.stake_pubkey) \cup SaidDelegate(info)
             /\ info.kind \in {"Initialize", "InitializeChecked"} => said =
                  Line("Init_stake_acct", info.account) \cup SaidInitialize(info)
             /\ info.kind = "Withdraw" => said =
                  Line("Stake_withdraw", info.lamports) \cup Line("From", info.account) \cup
                  Line("To", info.to) \cup Line("Authorized_by", info.authority)
             /\ info.kind \in {"Authorize", "AuthorizeChecked"} => said =
                  SaidAuthorize("Set_stake_auth",
                    IF info.authorize = "Staker" THEN "New_stake_auth" ELSE "New_withdraw_auth",
                    info) \cup
                  If(info.custodian # NoKey, Line("Custodian", info.custodian))
             /\ info.kind = "Deactivate" => said =
                  Line("Deactivate_stake", info.account) \cup Line("Authorized_by", info.authority)
             /\ info.kind \in {"SetLockup", "SetLockupChecked"} => said = SaidSetLockup(info)
             /\ info.kind = "Split" => said = SaidSplit(info)
             /\ info.kind = "Merge" => said =
                  Line("Merge", info.source) \cup Line("Into", info.destination) \cup
                  Line("Authorized_by", info.authority)
<1> USE SaidParts, SaidTogether, PrintersKinds
<1>1. CASE info.kind = "Delegate"
  BY <1>1, SaidStakeParts DEF print_stake_info
<1>2. CASE info.kind \in {"Initialize", "InitializeChecked"}
  BY <1>2, SaidStakeParts DEF print_stake_info
<1>3. CASE info.kind = "Withdraw"
  BY <1>3 DEF print_stake_info
<1>4. CASE info.kind \in {"Authorize", "AuthorizeChecked"}
  BY <1>4, SaidWhen DEF print_stake_info, SaidAuthorize
<1>5. CASE info.kind = "Deactivate"
  BY <1>5 DEF print_stake_info
<1>6. CASE info.kind \in {"SetLockup", "SetLockupChecked"}
  BY <1>6, SaidWhen DEF print_stake_info, SaidSetLockup
<1>7. CASE info.kind = "Split"
  BY <1>7 DEF print_stake_info, print_stake_split_info1, print_stake_split_info2, SaidSplit
<1>8. CASE info.kind = "Merge"
  BY <1>8 DEF print_stake_info
<1> QED BY <1>1, <1>2, <1>3, <1>4, <1>5, <1>6, <1>7, <1>8

\* What is said of an instruction of the vote program, by its kind.
SaidVoteInitialize(info) ==
  Line("Validator_ID", info.validator_id) \cup Line("New_vote_auth", info.vote_authority) \cup
  Line("New_withdraw_auth", info.withdraw_authority) \cup Line("Commission", info.commission)

\* What is said of a vote account that is initialized.
LEMMA SaidVoteParts ==
  ASSUME NEW info
  PROVE  LET initialize(title) == print_vote_initialize_info(title, info)
         IN  /\ IsSeq(initialize(NoTitle)) /\ Said(initialize(NoTitle)) = SaidVoteInitialize(info)
             /\ IsSeq(initialize("Init_vote_acct"))
             /\ Said(initialize("Init_vote_acct")) =
                  Line("Init_vote_acct", info.account) \cup SaidVoteInitialize(info)
<1> USE SaidParts, SaidTogether, PrintersKinds
<1>1. /\ IsSeq(print_vote_initialize_info(NoTitle, info))
      /\ Said(print_vote_initialize_info(NoTitle, info)) = SaidVoteInitialize(info)
  BY DEF print_vote_initialize_info, SaidVoteInitialize
<1>2. /\ IsSeq(print_vote_initialize_info("Init_vote_acct", info))
      /\ Said(print_vote_initialize_info("Init_vote_acct", info)) =
           Line("Init_vote_acct", info.account) \cup SaidVoteInitialize(info)
  BY DEF print_vote_initialize_info, SaidVoteInitialize, NoTitle
<1> QED BY <1>1, <1>2

\* What the vote printers put in the summary says, kind by kind, to experts.
LEMMA SaidVote ==
  ASSUME NEW info, NEW config, Experts(config)
  PROVE  LET said == Said(print_vote_info(info, config))
         IN  /\ info.kind = "Initialize" => said =
                  Line("Init_vote_acct", info.account) \cup SaidVoteInitialize(info)
             /\ info.kind = "Withdraw" => said =
                  Line("Vote_withdraw", info.lamports) \cup Line("From", info.account) \cup
                  Line("To", info.to) \cup Line("Authorized_by", info.authority)
             /\ info.kind \in {"Authorize", "AuthorizeChecked"} => said =
                  SaidAuthorize("Set_vote_auth",
                    IF info.authorize = "Voter" THEN "New_vote_auth" ELSE "New_withdraw_auth", info)
             /\ info.kind = "UpdateValidatorId" => said =
                  Line("Update_validator", info.account) \cup
                  Line("New_validator_ID", info.new_validator_id) \cup
                  Line("Authorized_by", info.authority)
             /\ info.kind = "UpdateCommission" => said =
                  Line("Update_commission", info.account) \cup
                  Line("Commission", info.commission) \cup Line("Authorized_by", info.authority)
<1> USE SaidParts, SaidTogether, PrintersKinds
<1>1. CASE info.kind = "Initialize"
  BY <1>1, SaidVoteParts DEF print_vote_info
<1>2. CASE info.kind = "Withdraw"
  BY <1>2 DEF print_vote_info
<1>3. CASE info.kind \in {"Authorize", "AuthorizeChecked"}
  BY <1>3 DEF print_vote_info, SaidAuthorize
<1>4. CASE info.kind = "UpdateValidatorId"
  BY <1>4 DEF print_vote_info
<1>5. CASE info.kind = "UpdateCommission"
  BY <1>5 DEF print_vote_info
<1> QED BY <1>1, <1>2, <1>3, <1>4, <1>5

\* What is said of tokens: an owner, an amount, a transfer, a threshold.
SaidOwner(sign) ==
  Line("Owner", sign.account) \cup If(sign.kind # "Single", Line("Signers", sign.count))
TokenValue(info) ==
  [amount |-> info.amount, symbol |-> get_token_symbol(info.mint_account),
   decimals |-> info.decimals]
SaidTransfer(info) ==
  Line("Transfer_tokens", TokenValue(info)) \cup Line("From", info.src_account) \cup
  Line("To", info.dest_account) \cup SaidOwner(info.sign)
SaidThreshold(info) ==
  If(info.m <= info.count, Line("Required_signers", <<info.m, info.count>>))

\* What is said of owners, of amounts of tokens and of thresholds.
LEMMA SaidTokenParts ==
  /\ \A sign, config : Experts(config) =>
       IsSeq(Owner(sign, config)) /\ Said(Owner(sign, config)) = SaidOwner(sign)
  /\ \A slot, title, info :
       /\ IsSeq(TokenAmount(slot, title, info))
       /\ Said(TokenAmount(slot, title, info)) = Line(title, TokenValue(info))
  /\ \A info : LET items == summary_item_set_multisig_m_of_n(info.m, info.count)
               IN  IsSeq(items) /\ Said(items) = SaidThreshold(info)
<1>1. ASSUME NEW sign, NEW config, Experts(config)
      PROVE  IsSeq(Owner(sign, config)) /\ Said(Owner(sign, config)) = SaidOwner(sign)
  BY <1>1, SaidParts, SaidTogether, PrintersKinds DEF Owner, SaidOwner, If
<1>2. ASSUME NEW slot, NEW title, NEW info
      PROVE  /\ IsSeq(TokenAmount(slot, title, info))
             /\ Said(TokenAmount(slot, title, info)) = Line(title, TokenValue(info))
  <2>1. PICK value : value = TokenValue(info)
    OBVIOUS
  <2>2. TokenAmount(slot, title, info) = PrintTo(slot, "TokenAmount", title, value)
    BY <2>1 DEF TokenAmount, TokenValue
  <2> QED BY <2>1, <2>2, SaidPut, PrintersKinds
<1>3. ASSUME NEW info
      PROVE  LET items == summary_item_set_multisig_m_of_n(info.m, info.count)
             IN  IsSeq(items) /\ Said(items) = SaidThreshold(info)
  BY SaidParts, SaidWhen, PrintersKinds DEF summary_item_set_multisig_m_of_n, SaidThreshold
<1> QED BY <1>1, <1>2, <1>3

\* What is said of a transfer of tokens, alone or after another instruction.
LEMMA SaidOfTransfer ==
  ASSUME NEW slot, NEW info, NEW config, Experts(config)
  PROVE  LET items == print_rpl_token_transfer_info(slot, info, config)
         IN  IsSeq(items) /\ Said(items) = SaidTransfer(info)
<1>1. PICK sign : sign = info.sign
  OBVIOUS
<1> QED BY <1>1, SaidTokenParts, SaidParts, SaidTogether
       DEF print_rpl_token_transfer_info, SaidTransfer

\* What is said of an instruction of the token program, by its kind.
LEMMA SaidToken ==
  ASSUME NEW info, NEW config, Experts(config)
  PROVE  LET said == Said(print_rpl_token_info(info, config))
         IN  /\ info.kind = "InitializeMint" => said =
                  Line("Init_mint", info.mint_account) \cup
                  Line("Mint_authority", info.mint_authority) \cup
                  Line("Decimals", info.decimals) \cup
                  If(info.freeze_authority # NoKey, Line("Freeze_authority", info.freeze_authority))
             /\ info.kind \in {"InitializeAccount", "InitializeAccount2"} => said =
                  Line("Init_acct", info.token_account) \cup Line("Owner", info.owner) \cup
                  Line("Mint", info.mint_account)
             /\ info.kind = "InitializeMultisig" => said =
                  Line("Init_multisig", info.multisig_account) \cup SaidThreshold(info)
             /\ info.kind = "Revoke" => said =
                  Line("Revoke_delegate", info.token_account) \cup SaidOwner(info.sign)
             /\ info.kind = "SetAuthority" => said =
                  Line(IF info.new_authority = NoKey THEN "Clear_authority" ELSE "Set_authority",
                       info.account) \cup
                  Line("Type", info.authority_type) \cup
                  If(info.new_authority # NoKey, Line("Authority", info.new_authority)) \cup
                  SaidOwner(info.sign)
             /\ info.kind = "CloseAccount" => said =
                  Line("Close_acct", info.token_account) \cup
                  Line("Withdraw_to", info.dest_account) \cup SaidOwner(info.sign)
             /\ info.kind = "FreezeAccount" => said =
                  Line("Freeze_acct", info.token_account) \cup Line("Mint", info.mint_account) \cup
                  SaidOwner(info.sign)
             /\ info.kind = "ThawAccount" => said =
                  Line("Thaw_acct", info.token_account) \cup Line("Mint", info.mint_account) \cup
                  SaidOwner(info.sign)
             /\ info.kind = "TransferChecked" => said = SaidTransfer(info)
             /\ info.kind = "ApproveChecked" => said =
                  Line("Approve_delegate", info.delegate) \cup
                  Line("Allowance", TokenValue(info)) \cup
                  Line("From", info.token_account) \cup SaidOwner(info.sign)
             /\ info.kind = "MintToChecked" => said =
                  Line("Mint_tokens", TokenValue(info)) \cup Line("From", info.mint_account) \cup
                  Line("To", info.token_account) \cup SaidOwner(info.sign)
             /\ info.kind = "BurnChecked" => said =
                  Line("Burn_tokens", TokenValue(info)) \cup
                  Line("From", info.token_account) \cup SaidOwner(info.sign)
             /\ info.kind = "SyncNative" => said = Line("Sync_native_acct", info.token_account)
<1>0. PICK sign : sign = info.sign
  OBVIOUS
<1>a. \A items : When(config.expert, items) = items
  BY DEF When, Experts
<1> USE <1>0, SaidTokenParts, SaidParts, SaidTogether, PrintersKinds
<1>1. CASE info.kind = "InitializeMint"
  BY <1>1, SaidWhen DEF print_rpl_token_info
<1>2. CASE info.kind \in {"InitializeAccount", "InitializeAccount2"}
  BY <1>2 DEF print_rpl_token_info
<1>3. CASE info.kind = "InitializeMultisig"
  BY <1>3 DEF print_rpl_token_info
<1>4. CASE info.kind = "Revoke"
  BY <1>4 DEF print_rpl_token_info
<1>5. CASE info.kind = "SetAuthority"
  BY <1>5, SaidWhen DEF print_rpl_token_info
<1>6. CASE info.kind = "CloseAccount"
  BY <1>6 DEF print_rpl_token_info
<1>7. CASE info.kind = "FreezeAccount"
  BY <1>7, <1>a DEF print_rpl_token_info
<1>8. CASE info.kind = "ThawAccount"
  BY <1>8, <1>a DEF print_rpl_token_info
<1>9. CASE info.kind = "TransferChecked"
  BY <1>9, SaidOfTransfer DEF print_rpl_token_info
<1>10. CASE info.kind = "ApproveChecked"
  BY <1>10 DEF print_rpl_token_info
<1>11. CASE info.kind = "MintToChecked"
  BY <1>11, <1>a DEF print_rpl_token_info
<1>12. CASE info.kind = "BurnChecked"
  BY <1>12 DEF print_rpl_token_info
<1>13. CASE info.kind = "SyncNative"
  BY <1>13 DEF print_rpl_token_info
<1> QED BY <1>1, <1>2, <1>3, <1>4, <1>5, <1>6, <1>7, <1>8, <1>9, <1>10, <1>11, <1>12, <1>13

\* What is said of an associated account.
SaidAssociated(info) ==
  Line("Create_token_acct", info.address) \cup Line("From_mint", info.mint) \cup
  Line("Owned_by", info.owner) \cup Line("Funded_by", info.funder)

\* All its fields are said of an associated account.
LEMMA SaidOfAssociated ==
  ASSUME NEW info
  PROVE  LET items == print_rpl_associated_token_account_create_info(info)
         IN  IsSeq(items) /\ Said(items) = SaidAssociated(info)
BY SaidParts, SaidTogether, PrintersKinds
   DEF print_rpl_associated_token_account_create_info, SaidAssociated

-----------------------------------------------------------------------------
(* What is said of several instructions. *)

SaidCreation(title, create) ==
  Line(title, create.to) \cup SaidCreate(create) \cup
  If(create.kind # "CreateAccount", SaidSeedOf(create))

\* Creating says where from and how much, and what is initialized is said after it.
LEMMA SaidOfCreation ==
  ASSUME NEW title, NEW infos, NEW config, Experts(config), NEW initialize, IsSeq(initialize)
  PROVE  Said(print_create_account(title, infos, config, initialize)) =
           SaidCreation(title, infos[1]) \cup Said(initialize)
<1>1. PICK create : create = infos[1]
  OBVIOUS
<1>2. PICK created : created =
        IF create.kind = "CreateAccount"
        THEN print_system_create_account_info(NoTitle, create, config)
        ELSE print_system_create_account_with_seed_info(NoTitle, create, config)
  OBVIOUS
<1>3. /\ IsSeq(created)
      /\ Said(created) = SaidCreate(create) \cup
           If(create.kind # "CreateAccount", SaidSeedOf(create))
  BY <1>2, SaidCreated DEF If
<1>4. print_create_account(title, infos, config, initialize) =
        Primary("Pubkey", title, create.to) \o created \o initialize
  BY <1>1, <1>2 DEF print_create_account
<1> QED BY <1>1, <1>3, <1>4, SaidParts, SaidTogether, PrintersKinds DEF SaidCreation

SaidFunded(create) == Line("Funded_by", create.from) \cup Line("Funded_with", create.lamports)
SaidBoth(title, new_title, infos) ==
  LET same == /\ infos[1].kind = "AuthorizeChecked"
              /\ infos[1].new_authority = infos[2].new_authority
  IN  Line(title, infos[1].account) \cup
      SaidAuthorities(same, infos[1].new_authority, infos[2].new_authority,
                      "New_authorities", new_title) \cup
      If(infos[1].program = "Stake" /\ infos[2].custodian # NoKey,
         Line("Custodian", infos[2].custodian)) \cup
      Line("Authorized_by", infos[2].authority)

\* Both authorities are said, as one if the printer finds them the same.
LEMMA SaidAuthorizeBoth ==
  ASSUME NEW infos, NEW config, Experts(config), NEW title, NEW new_title, NEW expected,
         print_authorize_both(infos, config, title, new_title, expected).printed
  PROVE  /\ <<infos[1].authorize, infos[2].authorize>> = expected
         /\ Said(print_authorize_both(infos, config, title, new_title, expected).items) =
              SaidBoth(title, new_title, infos)
<1>1. <<infos[1].authorize, infos[2].authorize>> = expected
  BY DEF print_authorize_both, NotPrinted
<1>2. PICK same : same = (/\ infos[1].kind = "AuthorizeChecked"
                         /\ infos[1].new_authority = infos[2].new_authority)
  OBVIOUS
<1>3. PICK authorities : authorities =
        NewAuthorities(same, infos[1].new_authority, infos[2].new_authority,
                       "New_authorities", new_title)
  OBVIOUS
<1>4. PICK custodian : custodian =
        When(infos[1].program = "Stake" /\ infos[2].custodian # NoKey,
             Pubkey("Custodian", infos[2].custodian))
  OBVIOUS
<1>5. print_authorize_both(infos, config, title, new_title, expected).items =
        Primary("Pubkey", title, infos[1].account) \o authorities \o custodian \o
        Authority(config, "Authorized_by", infos[2].authority)
  BY <1>1, <1>2, <1>3, <1>4 DEF print_authorize_both, Printed
<1>6. /\ IsSeq(authorities)
      /\ Said(authorities) = SaidAuthorities(same, infos[1].new_authority, infos[2].new_authority,
                                             "New_authorities", new_title)
  BY <1>3, SaidNewAuthorities
<1>7. /\ IsSeq(custodian)
      /\ Said(custodian) = If(infos[1].program = "Stake" /\ infos[2].custodian # NoKey,
                              Line("Custodian", infos[2].custodian))
  BY <1>4, SaidParts, SaidWhen
<1>8. PICK first, last :
        /\ first = Primary("Pubkey", title, infos[1].account)
        /\ last = Authority(config, "Authorized_by", infos[2].authority)
  OBVIOUS
<1>9. /\ IsSeq(first) /\ Said(first) = Line(title, infos[1].account)
      /\ IsSeq(last) /\ Said(last) = Line("Authorized_by", infos[2].authority)
  BY <1>8, SaidParts, PrintersKinds
<1>10. IsSeq(first \o authorities) /\
         Said(first \o authorities) = Said(first) \cup Said(authorities)
  BY <1>6, <1>9, SaidTogether
<1>11. /\ IsSeq(first \o authorities \o custodian)
       /\ Said(first \o authorities \o custodian) = Said(first) \cup Said(authorities) \cup
            Said(custodian)
  BY <1>7, <1>10, SaidTogether
<1>12. Said(first \o authorities \o custodian \o last) =
         Said(first) \cup Said(authorities) \cup Said(custodian) \cup Said(last)
  BY <1>9, <1>11, SaidTogether
<1>13. PICK new1, new2 : new1 = infos[1].new_authority /\ new2 = infos[2].new_authority
  OBVIOUS
<1>14. SaidBoth(title, new_title, infos) =
        Line(title, infos[1].account) \cup
        SaidAuthorities(same, new1, new2, "New_authorities", new_title) \cup
        If(infos[1].program = "Stake" /\ infos[2].custodian # NoKey,
           Line("Custodian", infos[2].custodian)) \cup
        Line("Authorized_by", infos[2].authority)
  BY <1>2, <1>13 DEF SaidBoth
<1>15. Said(first \o authorities \o custodian \o last) = SaidBoth(title, new_title, infos)
  BY <1>6, <1>7, <1>9, <1>12, <1>13, <1>14
<1> QED BY <1>1, <1>5, <1>8, <1>15

\* What is said of a token account, a mint or a multisig that is created.
LEMMA SaidOfFunded ==
  ASSUME NEW create, NEW config, Experts(config)
  PROVE  IsSeq(Funded(create, config)) /\ Said(Funded(create, config)) = SaidFunded(create)
BY SaidParts, SaidTogether, PrintersKinds DEF Funded, SaidFunded

\* The items of a token account, a mint or a multisig come before its funder.
LEMMA SaidOfTokenCreate ==
  ASSUME NEW create, NEW info, NEW config, Experts(config)
  PROVE  /\ Said(print_rpl_token_create_mint(create, info, config)) =
              Line("Create_token_mint", info.mint_account) \cup
              Line("Mint_authority", info.mint_authority) \cup
              Line("Mint_decimals", info.decimals) \cup
              If(info.freeze_authority # NoKey,
                 Line("Freeze_authority", info.freeze_authority)) \cup SaidFunded(create)
         /\ Said(print_rpl_token_create_account(create, info, config)) =
              Line("Create_token_acct", info.token_account) \cup
              Line("From_mint", info.mint_account) \cup Line("Owned_by", info.owner) \cup
              SaidFunded(create)
         /\ Said(print_rpl_token_create_multisig(create, info, config)) =
              Line("Create_multisig", info.multisig_account) \cup SaidThreshold(info) \cup
              SaidFunded(create)
<1> USE SaidParts, SaidTogether, SaidOfFunded, PrintersKinds
<1>1. Said(print_rpl_token_create_mint(create, info, config)) =
        Line("Create_token_mint", info.mint_account) \cup
        Line("Mint_authority", info.mint_authority) \cup
        Line("Mint_decimals", info.decimals) \cup
        If(info.freeze_authority # NoKey,
           Line("Freeze_authority", info.freeze_authority)) \cup SaidFunded(create)
  BY SaidWhen DEF print_rpl_token_create_mint
<1>2. Said(print_rpl_token_create_account(create, info, config)) =
        Line("Create_token_acct", info.token_account) \cup
        Line("From_mint", info.mint_account) \cup Line("Owned_by", info.owner) \cup
        SaidFunded(create)
  BY DEF print_rpl_token_create_account
<1>3. Said(print_rpl_token_create_multisig(create, info, config)) =
        Line("Create_multisig", info.multisig_account) \cup SaidThreshold(info) \cup
        SaidFunded(create)
  BY SaidTokenParts DEF print_rpl_token_create_multisig
<1> QED BY <1>1, <1>2, <1>3

\* What is said of the seed of an account a stake is split into.
LEMMA SaidOfSeededSplit ==
  ASSUME NEW infos, NEW config, Experts(config)
  PROVE  Said(print_stake_split_with_seed(infos, config)) =
           Line("Split_stake", infos[2].lamports) \cup Line("From", infos[2].account) \cup
           Line("To", infos[2].split_account) \cup SaidSeedOf(infos[1]) \cup
           Line("Authorized_by", infos[2].authority)
<1>1. PICK create, info : create = infos[1] /\ info = infos[2]
  OBVIOUS
<1>2. /\ IsSeq(print_stake_split_info1(info))
      /\ Said(print_stake_split_info1(info)) =
           Line("Split_stake", info.lamports) \cup Line("From", info.account) \cup
           Line("To", info.split_account)
  BY SaidParts, SaidTogether, PrintersKinds DEF print_stake_split_info1
<1>3. IsSeq(Seeded(create, config)) /\ Said(Seeded(create, config)) = SaidSeedOf(create)
  BY SaidSeed DEF SaidSeedOf
<1>4. /\ IsSeq(print_stake_split_info2(info, config))
      /\ Said(print_stake_split_info2(info, config)) = Line("Authorized_by", info.authority)
  BY SaidParts DEF print_stake_split_info2
<1> QED BY <1>1, <1>2, <1>3, <1>4, SaidTogether DEF print_stake_split_with_seed

\* What is said of two instructions that are printed together.
Authorizes(infos, expected) == <<infos[1].authorize, infos[2].authorize>> = expected
TwoSaid(infos, said) ==
  LET create == infos[1]
      info == infos[2]
  IN  \/ is_create_stake_account(infos) /\ said =
           SaidCreation("Create_stake_acct", create) \cup SaidInitialize(info)
      \/ is_create_nonce_account(infos) /\ said =
           SaidCreation("Create_nonce_acct", create) \cup
           Line("New_authority", info.authority)
      \/ is_create_vote_account(infos) /\ said =
           SaidCreation("Create_vote_acct", create) \cup SaidVoteInitialize(info)
      \/ is_stake_authorize_both(infos) /\ Authorizes(infos, <<"Staker", "Withdrawer">>) /\
           said = SaidBoth("Set_stake_auth", "New_stake_auth", infos)
      \/ is_vote_authorize_both(infos) /\ Authorizes(infos, <<"Voter", "Withdrawer">>) /\
           said = SaidBoth("Set_vote_auth", "New_vote_auth", infos)
      \/ is_stake_split_with_seed(infos) /\ said =
           Line("Split_stake", info.lamports) \cup Line("From", info.account) \cup
           Line("To", info.split_account) \cup SaidSeedOf(create) \cup
           Line("Authorized_by", info.authority)
      \/ is_stake_split_v1_2(infos) /\ said = SaidSplit(info)
      \/ is_rpl_token_create_mint(infos) /\ said =
           Line("Create_token_mint", info.mint_account) \cup
           Line("Mint_authority", info.mint_authority) \cup
           Line("Mint_decimals", info.decimals) \cup
           If(info.freeze_authority # NoKey,
              Line("Freeze_authority", info.freeze_authority)) \cup SaidFunded(create)
      \/ is_rpl_token_create_account(infos) /\ said =
           Line("Create_token_acct", info.token_account) \cup
           Line("From_mint", info.mint_account) \cup Line("Owned_by", info.owner) \cup
           SaidFunded(create)
      \/ is_rpl_token_create_multisig(infos) /\ said =
           Line("Create_multisig", info.multisig_account) \cup SaidThreshold(info) \cup
           SaidFunded(create)
      \/ is_rpl_associated_token_account_create_with_transfer(infos) /\ said =
           SaidAssociated(create) \cup SaidTransfer(info)

\* It is what is said of any two that are printed together.
LEMMA SaidTwo ==
  ASSUME NEW infos, NEW config, Experts(config), PrintTwo(infos, config).printed
  PROVE  TwoSaid(infos, Said(PrintTwo(infos, config).items))
<1>1. PICK create, info : create = infos[1] /\ info = infos[2]
  OBVIOUS
<1>2. PICK printed : printed = PrintTwo(infos, config)
  OBVIOUS
<1> USE <1>1, <1>2, TwoMatched
<1>3. CASE is_create_stake_account(infos)
  <2>1. PICK initialize : initialize = print_stake_initialize_info(NoTitle, info, config)
    OBVIOUS
  <2>2. IsSeq(initialize) /\ Said(initialize) = SaidInitialize(info)
    BY <2>1, SaidStakeParts
  <2>3. printed.items = print_create_account("Create_stake_acct", infos, config, initialize)
    BY <1>3, <2>1 DEF PrintTwo, Printed
  <2>4. Said(printed.items) = SaidCreation("Create_stake_acct", create) \cup SaidInitialize(info)
    BY <2>2, <2>3, SaidOfCreation
  <2> QED BY <1>3, <2>4 DEF TwoSaid
<1>4. CASE is_create_nonce_account(infos)
  <2>1. PICK initialize : initialize = print_system_initialize_nonce_info(NoTitle, info)
    OBVIOUS
  <2>2. IsSeq(initialize) /\ Said(initialize) = Line("New_authority", info.authority)
    <3>1. PICK none, key : /\ none = OptionalPrimary(NoTitle, info.account)
                           /\ key = Pubkey("New_authority", info.authority)
      OBVIOUS
    <3>2. initialize = none \o key
      BY <2>1, <3>1 DEF print_system_initialize_nonce_info
    <3>3. IsSeq(none) /\ Said(none) = {} /\ IsSeq(key) /\
            Said(key) = Line("New_authority", info.authority)
      BY <3>1, SaidParts
    <3>4. IsSeq(none \o key) /\ Said(none \o key) = Said(none) \cup Said(key)
      BY <3>3, SaidTogether
    <3> QED BY <3>2, <3>3, <3>4
  <2>3. printed.items = print_create_account("Create_nonce_acct", infos, config, initialize)
    BY <1>4, <2>1 DEF PrintTwo, Printed
  <2>4. Said(printed.items) = SaidCreation("Create_nonce_acct", create) \cup
                              Line("New_authority", info.authority)
    BY <2>2, <2>3, SaidOfCreation
  <2> QED BY <1>4, <2>4 DEF TwoSaid
<1>5. CASE is_create_vote_account(infos)
  <2>1. PICK initialize : initialize = print_vote_initialize_info(NoTitle, info)
    OBVIOUS
  <2>2. IsSeq(initialize) /\ Said(initialize) = SaidVoteInitialize(info)
    BY <2>1, SaidVoteParts
  <2>3. printed.items = print_create_account("Create_vote_acct", infos, config, initialize)
    BY <1>5, <2>1 DEF PrintTwo, Printed
  <2>4. Said(printed.items) = SaidCreation("Create_vote_acct", create) \cup SaidVoteInitialize(info)
    BY <2>2, <2>3, SaidOfCreation
  <2> QED BY <1>5, <2>4 DEF TwoSaid
<1>6. CASE is_stake_authorize_both(infos)
  <2>1. printed = print_authorize_both(infos, config, "Set_stake_auth", "New_stake_auth",
                                       <<"Staker", "Withdrawer">>)
    BY <1>6 DEF PrintTwo
  <2>2. PICK expected : expected = <<"Staker", "Withdrawer">>
    OBVIOUS
  <2>3. /\ <<infos[1].authorize, infos[2].authorize>> = expected
        /\ Said(printed.items) = SaidBoth("Set_stake_auth", "New_stake_auth", infos)
    BY <2>1, <2>2, SaidAuthorizeBoth
  <2> QED BY <1>6, <2>2, <2>3 DEF Authorizes, TwoSaid
<1>7. CASE is_vote_authorize_both(infos)
  <2>1. printed = print_authorize_both(infos, config, "Set_vote_auth", "New_vote_auth",
                                       <<"Voter", "Withdrawer">>)
    BY <1>7 DEF PrintTwo
  <2>2. PICK expected : expected = <<"Voter", "Withdrawer">>
    OBVIOUS
  <2>3. /\ <<infos[1].authorize, infos[2].authorize>> = expected
        /\ Said(printed.items) = SaidBoth("Set_vote_auth", "New_vote_auth", infos)
    BY <2>1, <2>2, SaidAuthorizeBoth
  <2> QED BY <1>7, <2>2, <2>3 DEF Authorizes, TwoSaid
<1>8. CASE is_stake_split_with_seed(infos)
  <2>1. printed.items = print_stake_split_with_seed(infos, config)
    BY <1>8 DEF PrintTwo, Printed
  <2> QED BY <1>8, <2>1, SaidOfSeededSplit DEF TwoSaid
<1>9. CASE is_stake_split_v1_2(infos)
  <2>1. printed.items = print_stake_info(info, config)
    BY <1>9 DEF PrintTwo, Printed
  <2>2. info.kind = "Split"
    BY <1>9
  <2> QED BY <1>9, <2>1, <2>2, SaidStake DEF TwoSaid
<1>10. CASE is_rpl_token_create_mint(infos)
  <2>1. printed.items = print_rpl_token_create_mint(create, info, config)
    BY <1>10 DEF PrintTwo, Printed
  <2> QED BY <1>10, <2>1, SaidOfTokenCreate DEF TwoSaid
<1>11. CASE is_rpl_token_create_account(infos)
  <2>1. printed.items = print_rpl_token_create_account(create, info, config)
    BY <1>11 DEF PrintTwo, Printed
  <2> QED BY <1>11, <2>1, SaidOfTokenCreate DEF TwoSaid
<1>12. CASE is_rpl_token_create_multisig(infos)
  <2>1. printed.items = print_rpl_token_create_multisig(create, info, config)
    BY <1>12 DEF PrintTwo, Printed
  <2> QED BY <1>12, <2>1, SaidOfTokenCreate DEF TwoSaid
<1>13. CASE is_rpl_associated_token_account_create_with_transfer(infos)
  <2>1. printed.items = print_rpl_associated_token_account_create_info(create) \o
                        print_rpl_token_transfer_info("general", info, config)
    BY <1>13 DEF PrintTwo, Printed
  <2> QED BY <1>13, <2>1, SaidOfAssociated, SaidOfTransfer, SaidTogether DEF TwoSaid
<1>14. CASE ~(is_create_stake_account(infos) \/ is_create_nonce_account(infos) \/
              is_create_vote_account(infos) \/ is_stake_authorize_both(infos) \/
              is_vote_authorize_both(infos) \/ is_stake_split_with_seed(infos) \/
              is_stake_split_v1_2(infos) \/ is_rpl_token_create_mint(infos) \/
              is_rpl_token_create_account(infos) \/ is_rpl_token_create_multisig(infos) \/
              is_rpl_associated_token_account_create_with_transfer(infos))
  BY <1>14 DEF PrintTwo, NotPrinted
<1> QED BY <1>3, <1>4, <1>5, <1>6, <1>7, <1>8, <1>9, <1>10, <1>11, <1>12, <1>13, <1>14

\* What is said of three.
LEMMA SaidThree ==
  ASSUME NEW infos, NEW config, Experts(config), PrintThree(infos, config).printed
  PROVE  LET said == Said(PrintThree(infos, config).items)
         IN  \/ is_create_stake_account_and_delegate(infos) /\ said =
                  SaidCreation("Delegate_from", infos[1]) \cup
                  (SaidInitialize(infos[2]) \cup SaidDelegate(infos[3]))
             \/ is_stake_split_v1_1(infos) /\ said = SaidSplit(infos[3])
<1>1. PICK initialize, delegate :
        /\ initialize = print_stake_initialize_info(NoTitle, infos[2], config)
        /\ delegate = print_delegate_stake_info(NoTitle, infos[3], config)
  OBVIOUS
<1>2. PICK printed : printed = PrintThree(infos, config)
  OBVIOUS
<1>3. CASE is_create_stake_account_and_delegate(infos)
  <2>1. ~is_stake_split_v1_1(infos)
    BY <1>3 DEF is_create_stake_account_and_delegate, is_stake_split_v1_1, Match, Creates
  <2>2. printed.items = print_create_account("Delegate_from", infos, config, initialize \o delegate)
    BY <1>1, <1>2, <1>3, <2>1 DEF PrintThree, Printed
  <2>3. PICK create, first, last : create = infos[1] /\ first = infos[2] /\ last = infos[3]
    OBVIOUS
  <2>4. /\ IsSeq(initialize) /\ Said(initialize) = SaidInitialize(first)
        /\ IsSeq(delegate) /\ Said(delegate) = SaidDelegate(last)
    BY <1>1, <2>3, SaidStakeParts
  <2>5. PICK both : both = initialize \o delegate
    OBVIOUS
  <2>6. IsSeq(both) /\ Said(both) = SaidInitialize(first) \cup SaidDelegate(last)
    BY <2>4, <2>5, SaidTogether
  <2>7. Said(printed.items) = SaidCreation("Delegate_from", create) \cup Said(both)
    BY <2>2, <2>3, <2>5, <2>6, SaidOfCreation
  <2> QED BY <1>2, <1>3, <2>3, <2>6, <2>7
<1>4. CASE ~is_create_stake_account_and_delegate(infos) /\ is_stake_split_v1_1(infos)
  <2>1. printed.items = print_stake_info(infos[3], config)
    BY <1>2, <1>4 DEF PrintThree, Printed
  <2>2. PICK info : info = infos[3]
    OBVIOUS
  <2>3. info.kind = "Split"
    BY <1>4, <2>2 DEF is_stake_split_v1_1, Match
  <2> QED BY <1>2, <1>4, <2>1, <2>2, <2>3, SaidStake
<1>5. CASE ~is_create_stake_account_and_delegate(infos) /\ ~is_stake_split_v1_1(infos)
  BY <1>2, <1>5 DEF PrintThree, NotPrinted
<1> QED BY <1>3, <1>4, <1>5

-----------------------------------------------------------------------------
(* What can be read back from what is said. *)

\* A title that is said with one value, and a title that is not said.
Says(said, title, value) == \A v : <<title, v>> \in said <=> v = value
Silent(said, title) == \A v : <<title, v>> \notin said

\* The titles that a transaction's instructions may have below the first.
GeneralTitles ==
  {"Allowance", "Authority", "Authorized_by", "Base", "Commission", "Custodian", "Data_size",
   "Decimals", "Deposit", "Epoch", "Freeze_authority", "From", "From_mint", "Funded_by",
   "Funded_with", "Into", "Lockup", "Lockup_authority", "Lockup_epoch", "Lockup_time", "Mint",
   "Mint_authority", "Mint_decimals", "New_authorities", "New_authority", "New_stake_auth",
   "New_validator_ID", "New_vote_auth", "New_withdraw_auth", "Owned_by", "Owner", "Recipient",
   "Required_signers", "Seed", "Sender", "Signers", "Time", "To", "To_program",
   "Transfer_tokens", "Type", "Validator_ID", "Vote_account", "Withdraw_to"}
Below(said, titles) == \A title, v : <<title, v>> \in said => title \in titles
Headed(said, title) ==
  /\ \E v : <<title, v>> \in said
  /\ Below(said, GeneralTitles \cup {title})
  /\ title \notin GeneralTitles \ {"Transfer_tokens"}

\* A title has one value, and what is said has one heading.
LEMMA SaysOnce ==
  /\ \A said, title, v, w : Says(said, title, v) /\ Says(said, title, w) => v = w
  /\ \A said, title, v : ~(Says(said, title, v) /\ Silent(said, title))
  /\ \A said, title, other : Headed(said, title) /\ Headed(said, other) => title = other
<1>1. \A said, title, v, w : Says(said, title, v) /\ Says(said, title, w) => v = w
  BY DEF Says
<1>2. \A said, title, v : ~(Says(said, title, v) /\ Silent(said, title))
  BY DEF Says, Silent
<1>3. \A said, title, other : Headed(said, title) /\ Headed(said, other) => title = other
  BY DEF Headed, Below
<1> QED BY <1>1, <1>2, <1>3

\* A title that is said under a condition.
SaysIf(condition, said, title, value) ==
  IF condition THEN Says(said, title, value) ELSE Silent(said, title)

\* What can be read back of new authorities and a lockup, and of an owner.
InitializeTells(info, said) ==
  LET same   == info.stake_authority = info.withdraw_authority
      lockup == info.lockup
      locked == lockup.unix_timestamp > 0 \/ lockup.epoch > 0
  IN  /\ SaysIf(same, said, "New_authority", info.stake_authority)
      /\ SaysIf(~same, said, "New_stake_auth", info.stake_authority)
      /\ SaysIf(~same, said, "New_withdraw_auth", info.withdraw_authority)
      /\ SaysIf(lockup.unix_timestamp > 0, said, "Lockup_time", lockup.unix_timestamp)
      /\ SaysIf(lockup.epoch > 0, said, "Lockup_epoch", lockup.epoch)
      /\ SaysIf(locked, said, "Lockup_authority", lockup.custodian)
OwnerTells(sign, said) ==
  /\ Says(said, "Owner", sign.account)
  /\ SaysIf(sign.kind # "Single", said, "Signers", sign.count)

\* What can be read back of an instruction of the system program.
SystemTells(info, said) ==
  /\ info.kind = "Transfer" =>
       /\ Headed(said, "Transfer") /\ Says(said, "Transfer", info.lamports)
       /\ Says(said, "Sender", info.from) /\ Says(said, "Recipient", info.to)
  /\ info.kind = "AdvanceNonceAccount" =>
       /\ Headed(said, "Advance_nonce") /\ Says(said, "Advance_nonce", info.account)
       /\ Says(said, "Authorized_by", info.authority)
  /\ info.kind = "CreateAccount" =>
       /\ Headed(said, "Create_account") /\ Says(said, "Create_account", info.to)
       /\ Says(said, "Deposit", info.lamports) /\ Says(said, "From", info.from)
       /\ Silent(said, "Base")
  /\ info.kind = "CreateAccountWithSeed" =>
       /\ Headed(said, "Create_account") /\ Says(said, "Create_account", info.to)
       /\ Says(said, "Deposit", info.lamports) /\ Says(said, "From", info.from)
       /\ Says(said, "Base", info.base) /\ Says(said, "Seed", info.seed)
  /\ info.kind = "InitializeNonceAccount" =>
       /\ Headed(said, "Init_nonce_acct") /\ Says(said, "Init_nonce_acct", info.account)
       /\ Says(said, "New_authority", info.authority)
  /\ info.kind = "WithdrawNonceAccount" =>
       /\ Headed(said, "Nonce_withdraw") /\ Says(said, "Nonce_withdraw", info.lamports)
       /\ Says(said, "From", info.account) /\ Says(said, "To", info.to)
       /\ Says(said, "Authorized_by", info.authority)
  /\ info.kind = "AuthorizeNonceAccount" =>
       /\ Headed(said, "Set_nonce_auth") /\ Says(said, "Set_nonce_auth", info.account)
       /\ Says(said, "New_authority", info.new_authority)
       /\ Says(said, "Authorized_by", info.authority)
  /\ info.kind = "Assign" =>
       /\ Headed(said, "Assign_acct") /\ Says(said, "Assign_acct", info.account)
       /\ Says(said, "To_program", info.program_id)
  /\ info.kind = "Allocate" =>
       /\ Headed(said, "Allocate_acct") /\ Says(said, "Allocate_acct", info.account)
       /\ Says(said, "Data_size", info.space) /\ Silent(said, "Base")
  /\ info.kind = "AllocateWithSeed" =>
       /\ Headed(said, "Allocate_acct") /\ Says(said, "Allocate_acct", info.account)
       /\ Says(said, "Data_size", info.space) /\ Says(said, "Base", info.base)
       /\ Says(said, "Seed", info.seed)

\* All of that can be read back of what print_system_info puts.
LEMMA SystemReads ==
  ASSUME NEW info, NEW config, Experts(config), NEW said,
         said = Said(print_system_info(info, config))
  PROVE  SystemTells(info, said)
<1> USE DEF Line, Headed, Below, GeneralTitles, Says, Silent, SaysIf, InitializeTells, OwnerTells,
       SaidCreate, SaidSeedOf
<1>1. CASE info.kind = "Transfer"
  <2>1. said = Line("Transfer", info.lamports) \cup Line("Sender", info.from) \cup
          Line("Recipient", info.to)
    BY <1>1, SaidSystem
  <2> QED BY <1>1, <2>1 DEF SystemTells
<1>2. CASE info.kind = "AdvanceNonceAccount"
  <2>1. said = Line("Advance_nonce", info.account) \cup Line("Authorized_by", info.authority)
    BY <1>2, SaidSystem
  <2> QED BY <1>2, <2>1 DEF SystemTells
<1>3. CASE info.kind = "CreateAccount"
  <2>1. said = Line("Create_account", info.to) \cup SaidCreate(info)
    BY <1>3, SaidSystem
  <2> QED BY <1>3, <2>1 DEF SystemTells
<1>4. CASE info.kind = "CreateAccountWithSeed"
  <2>1. said = Line("Create_account", info.to) \cup SaidCreate(info) \cup SaidSeedOf(info)
    BY <1>4, SaidSystem
  <2> QED BY <1>4, <2>1 DEF SystemTells
<1>5. CASE info.kind = "InitializeNonceAccount"
  <2>1. said = Line("Init_nonce_acct", info.account) \cup Line("New_authority", info.authority)
    BY <1>5, SaidSystem
  <2> QED BY <1>5, <2>1 DEF SystemTells
<1>6. CASE info.kind = "WithdrawNonceAccount"
  <2>1. said = Line("Nonce_withdraw", info.lamports) \cup Line("From", info.account) \cup
          Line("To", info.to) \cup Line("Authorized_by", info.authority)
    BY <1>6, SaidSystem
  <2> QED BY <1>6, <2>1 DEF SystemTells
<1>7. CASE info.kind = "AuthorizeNonceAccount"
  <2>1. said = Line("Set_nonce_auth", info.account) \cup
          Line("New_authority", info.new_authority) \cup
          Line("Authorized_by", info.authority)
    BY <1>7, SaidSystem
  <2> QED BY <1>7, <2>1 DEF SystemTells
<1>8. CASE info.kind = "Assign"
  <2>1. said = Line("Assign_acct", info.account) \cup Line("To_program", info.program_id)
    BY <1>8, SaidSystem
  <2> QED BY <1>8, <2>1 DEF SystemTells
<1>9. CASE info.kind = "Allocate"
  <2>1. said = Line("Allocate_acct", info.account) \cup Line("Data_size", info.space)
    BY <1>9, SaidSystem
  <2> QED BY <1>9, <2>1 DEF SystemTells
<1>10. CASE info.kind = "AllocateWithSeed"
  <2>1. said = Line("Allocate_acct", info.account) \cup Line("Data_size", info.space) \cup
          SaidSeedOf(info)
    BY <1>10, SaidSystem
  <2> QED BY <1>10, <2>1 DEF SystemTells
<1>11. CASE info.kind \notin
            {"Transfer", "AdvanceNonceAccount", "CreateAccount", "CreateAccountWithSeed",
             "InitializeNonceAccount", "WithdrawNonceAccount", "AuthorizeNonceAccount",
             "Assign", "Allocate", "AllocateWithSeed"}
  BY <1>11 DEF SystemTells
<1> QED
  BY <1>1, <1>2, <1>3, <1>4, <1>5, <1>6, <1>7, <1>8, <1>9, <1>10, <1>11

\* What can be read back of an instruction of the stake program.
StakeTells(info, said) ==
  /\ info.kind = "Delegate" =>
       /\ Headed(said, "Delegate_from") /\ Says(said, "Delegate_from", info.stake_pubkey)
       /\ Says(said, "Authorized_by", info.authorized_pubkey)
       /\ Says(said, "Vote_account", info.vote_pubkey) /\ Silent(said, "Deposit")
  /\ info.kind \in {"Initialize", "InitializeChecked"} =>
       /\ Headed(said, "Init_stake_acct") /\ Says(said, "Init_stake_acct", info.account)
       /\ InitializeTells(info, said)
  /\ info.kind = "Withdraw" =>
       /\ Headed(said, "Stake_withdraw") /\ Says(said, "Stake_withdraw", info.lamports)
       /\ Says(said, "From", info.account) /\ Says(said, "To", info.to)
       /\ Says(said, "Authorized_by", info.authority)
  /\ info.kind \in {"Authorize", "AuthorizeChecked"} =>
       /\ Headed(said, "Set_stake_auth") /\ Says(said, "Set_stake_auth", info.account)
       /\ Says(said, "Authorized_by", info.authority)
       /\ SaysIf(info.authorize = "Staker", said, "New_stake_auth", info.new_authority)
       /\ SaysIf(info.authorize # "Staker", said, "New_withdraw_auth", info.new_authority)
       /\ SaysIf(info.custodian # NoKey, said, "Custodian", info.custodian)
       /\ Silent(said, "New_authorities")
  /\ info.kind = "Deactivate" =>
       /\ Headed(said, "Deactivate_stake") /\ Says(said, "Deactivate_stake", info.account)
       /\ Says(said, "Authorized_by", info.authority)
  /\ info.kind \in {"SetLockup", "SetLockupChecked"} =>
       /\ Headed(said, "Set_lockup") /\ Says(said, "Set_lockup", info.account)
       /\ Says(said, "Authorized_by", info.custodian)
       /\ SaysIf("Timestamp" \in info.lockup.present, said, "Time", info.lockup.unix_timestamp)
       /\ SaysIf("Epoch" \in info.lockup.present, said, "Epoch", info.lockup.epoch)
       /\ SaysIf("Custodian" \in info.lockup.present, said, "New_authority", info.lockup.custodian)
  /\ info.kind = "Split" =>
       /\ Headed(said, "Split_stake") /\ Says(said, "Split_stake", info.lamports)
       /\ Says(said, "From", info.account) /\ Says(said, "To", info.split_account)
       /\ Says(said, "Authorized_by", info.authority) /\ Silent(said, "Base")
  /\ info.kind = "Merge" =>
       /\ Headed(said, "Merge") /\ Says(said, "Merge", info.source)
       /\ Says(said, "Into", info.destination) /\ Says(said, "Authorized_by", info.authority)

\* All of that can be read back of what print_stake_info puts.
LEMMA StakeReads ==
  ASSUME NEW info, NEW config, Experts(config), NEW said,
         said = Said(print_stake_info(info, config))
  PROVE  StakeTells(info, said)
<1> USE DEF Line, Headed, Below, GeneralTitles, Says, Silent, SaysIf, InitializeTells, OwnerTells,
       SaidInitialize, SaidDelegate, SaidAuthorities, SaidLockup, SaidSplit, SaidAuthorize,
       SaidSetLockup, If
<1>1. CASE info.kind = "Delegate"
  <2>1. said = Line("Delegate_from", info.stake_pubkey) \cup SaidDelegate(info)
    BY <1>1, SaidStake
  <2> QED BY <1>1, <2>1 DEF StakeTells
<1>2. CASE info.kind \in {"Initialize", "InitializeChecked"}
  <2>1. said = Line("Init_stake_acct", info.account) \cup SaidInitialize(info)
    BY <1>2, SaidStake
  <2> QED BY <1>2, <2>1 DEF StakeTells
<1>3. CASE info.kind = "Withdraw"
  <2>1. said = Line("Stake_withdraw", info.lamports) \cup Line("From", info.account) \cup
          Line("To", info.to) \cup Line("Authorized_by", info.authority)
    BY <1>3, SaidStake
  <2> QED BY <1>3, <2>1 DEF StakeTells
<1>4. CASE info.kind \in {"Authorize", "AuthorizeChecked"}
  <2>1. said = SaidAuthorize("Set_stake_auth",
          IF info.authorize = "Staker" THEN "New_stake_auth" ELSE "New_withdraw_auth",
          info) \cup
          If(info.custodian # NoKey, Line("Custodian", info.custodian))
    BY <1>4, SaidStake
  <2> QED BY <1>4, <2>1 DEF StakeTells
<1>5. CASE info.kind = "Deactivate"
  <2>1. said = Line("Deactivate_stake", info.account) \cup Line("Authorized_by", info.authority)
    BY <1>5, SaidStake
  <2> QED BY <1>5, <2>1 DEF StakeTells
<1>6. CASE info.kind \in {"SetLockup", "SetLockupChecked"}
  <2>1. said = SaidSetLockup(info)
    BY <1>6, SaidStake
  <2> QED BY <1>6, <2>1 DEF StakeTells
<1>7. CASE info.kind = "Split"
  <2>1. said = SaidSplit(info)
    BY <1>7, SaidStake
  <2> QED BY <1>7, <2>1 DEF StakeTells
<1>8. CASE info.kind = "Merge"
  <2>1. said = Line("Merge", info.source) \cup Line("Into", info.destination) \cup
          Line("Authorized_by", info.authority)
    BY <1>8, SaidStake
  <2> QED BY <1>8, <2>1 DEF StakeTells
<1>9. CASE info.kind \notin
            {"Delegate", "Initialize", "InitializeChecked", "Withdraw", "Authorize",
             "AuthorizeChecked", "Deactivate", "SetLockup", "SetLockupChecked", "Split",
             "Merge"}
  BY <1>9 DEF StakeTells
<1> QED
  BY <1>1, <1>2, <1>3, <1>4, <1>5, <1>6, <1>7, <1>8, <1>9

\* What can be read back of an instruction of the vote program.
VoteTells(info, said) ==
  /\ info.kind = "Initialize" =>
       /\ Headed(said, "Init_vote_acct") /\ Says(said, "Init_vote_acct", info.account)
       /\ Says(said, "Validator_ID", info.validator_id)
       /\ Says(said, "New_vote_auth", info.vote_authority)
       /\ Says(said, "New_withdraw_auth", info.withdraw_authority)
       /\ Says(said, "Commission", info.commission)
  /\ info.kind = "Withdraw" =>
       /\ Headed(said, "Vote_withdraw") /\ Says(said, "Vote_withdraw", info.lamports)
       /\ Says(said, "From", info.account) /\ Says(said, "To", info.to)
       /\ Says(said, "Authorized_by", info.authority)
  /\ info.kind \in {"Authorize", "AuthorizeChecked"} =>
       /\ Headed(said, "Set_vote_auth") /\ Says(said, "Set_vote_auth", info.account)
       /\ Says(said, "Authorized_by", info.authority)
       /\ SaysIf(info.authorize = "Voter", said, "New_vote_auth", info.new_authority)
       /\ SaysIf(info.authorize # "Voter", said, "New_withdraw_auth", info.new_authority)
       /\ Silent(said, "New_authorities")
  /\ info.kind = "UpdateValidatorId" =>
       /\ Headed(said, "Update_validator") /\ Says(said, "Update_validator", info.account)
       /\ Says(said, "New_validator_ID", info.new_validator_id)
       /\ Says(said, "Authorized_by", info.authority)
  /\ info.kind = "UpdateCommission" =>
       /\ Headed(said, "Update_commission") /\ Says(said, "Update_commission", info.account)
       /\ Says(said, "Commission", info.commission)
       /\ Says(said, "Authorized_by", info.authority)

\* All of that can be read back of what print_vote_info puts.
LEMMA VoteReads ==
  ASSUME NEW info, NEW config, Experts(config), NEW said, said = Said(print_vote_info(info, config))
  PROVE  VoteTells(info, said)
<1> USE DEF Line, Headed, Below, GeneralTitles, Says, Silent, SaysIf, InitializeTells, OwnerTells,
       SaidVoteInitialize, SaidAuthorize
<1>1. CASE info.kind = "Initialize"
  <2>1. said = Line("Init_vote_acct", info.account) \cup SaidVoteInitialize(info)
    BY <1>1, SaidVote
  <2> QED BY <1>1, <2>1 DEF VoteTells
<1>2. CASE info.kind = "Withdraw"
  <2>1. said = Line("Vote_withdraw", info.lamports) \cup Line("From", info.account) \cup
          Line("To", info.to) \cup Line("Authorized_by", info.authority)
    BY <1>2, SaidVote
  <2> QED BY <1>2, <2>1 DEF VoteTells
<1>3. CASE info.kind \in {"Authorize", "AuthorizeChecked"}
  <2>1. said = SaidAuthorize("Set_vote_auth",
          IF info.authorize = "Voter" THEN "New_vote_auth" ELSE "New_withdraw_auth", info)
    BY <1>3, SaidVote
  <2> QED BY <1>3, <2>1 DEF VoteTells
<1>4. CASE info.kind = "UpdateValidatorId"
  <2>1. said = Line("Update_validator", info.account) \cup
          Line("New_validator_ID", info.new_validator_id) \cup
          Line("Authorized_by", info.authority)
    BY <1>4, SaidVote
  <2> QED BY <1>4, <2>1 DEF VoteTells
<1>5. CASE info.kind = "UpdateCommission"
  <2>1. said = Line("Update_commission", info.account) \cup
          Line("Commission", info.commission) \cup Line("Authorized_by", info.authority)
    BY <1>5, SaidVote
  <2> QED BY <1>5, <2>1 DEF VoteTells
<1>6. CASE info.kind \notin
            {"Initialize", "Withdraw", "Authorize", "AuthorizeChecked", "UpdateValidatorId",
             "UpdateCommission"}
  BY <1>6 DEF VoteTells
<1> QED
  BY <1>1, <1>2, <1>3, <1>4, <1>5, <1>6

\* What can be read back of an instruction of the token program.
TokenTells(info, said) ==
  /\ info.kind = "InitializeMint" =>
       /\ Headed(said, "Init_mint") /\ Says(said, "Init_mint", info.mint_account)
       /\ Says(said, "Mint_authority", info.mint_authority)
       /\ Says(said, "Decimals", info.decimals)
       /\ SaysIf(info.freeze_authority # NoKey, said, "Freeze_authority", info.freeze_authority)
  /\ info.kind \in {"InitializeAccount", "InitializeAccount2"} =>
       /\ Headed(said, "Init_acct") /\ Says(said, "Init_acct", info.token_account)
       /\ Says(said, "Owner", info.owner) /\ Says(said, "Mint", info.mint_account)
  /\ info.kind = "InitializeMultisig" =>
       /\ Headed(said, "Init_multisig") /\ Says(said, "Init_multisig", info.multisig_account)
       /\ SaysIf(info.m <= info.count, said, "Required_signers", <<info.m, info.count>>)
  /\ info.kind = "Revoke" =>
       /\ Headed(said, "Revoke_delegate") /\ Says(said, "Revoke_delegate", info.token_account)
       /\ OwnerTells(info.sign, said)
  /\ info.kind = "CloseAccount" =>
       /\ Headed(said, "Close_acct") /\ Says(said, "Close_acct", info.token_account)
       /\ Says(said, "Withdraw_to", info.dest_account) /\ OwnerTells(info.sign, said)
  /\ info.kind = "FreezeAccount" =>
       /\ Headed(said, "Freeze_acct") /\ Says(said, "Freeze_acct", info.token_account)
       /\ Says(said, "Mint", info.mint_account) /\ OwnerTells(info.sign, said)
  /\ info.kind = "ThawAccount" =>
       /\ Headed(said, "Thaw_acct") /\ Says(said, "Thaw_acct", info.token_account)
       /\ Says(said, "Mint", info.mint_account) /\ OwnerTells(info.sign, said)
  /\ info.kind = "TransferChecked" =>
       /\ Headed(said, "Transfer_tokens") /\ Says(said, "Transfer_tokens", TokenValue(info))
       /\ Says(said, "From", info.src_account) /\ Says(said, "To", info.dest_account)
       /\ OwnerTells(info.sign, said)
  /\ info.kind = "ApproveChecked" =>
       /\ Headed(said, "Approve_delegate") /\ Says(said, "Approve_delegate", info.delegate)
       /\ Says(said, "Allowance", TokenValue(info)) /\ Says(said, "From", info.token_account)
       /\ OwnerTells(info.sign, said)
  /\ info.kind = "MintToChecked" =>
       /\ Headed(said, "Mint_tokens") /\ Says(said, "Mint_tokens", TokenValue(info))
       /\ Says(said, "From", info.mint_account) /\ Says(said, "To", info.token_account)
       /\ OwnerTells(info.sign, said)
  /\ info.kind = "BurnChecked" =>
       /\ Headed(said, "Burn_tokens") /\ Says(said, "Burn_tokens", TokenValue(info))
       /\ Says(said, "From", info.token_account) /\ OwnerTells(info.sign, said)
  /\ info.kind = "SyncNative" =>
       /\ Headed(said, "Sync_native_acct") /\ Says(said, "Sync_native_acct", info.token_account)
  /\ info.kind = "SetAuthority" =>
       /\ (LET title == IF info.new_authority = NoKey THEN "Clear_authority" ELSE "Set_authority"
           IN  Headed(said, title) /\ Says(said, title, info.account))
       /\ Says(said, "Type", info.authority_type)
       /\ SaysIf(info.new_authority # NoKey, said, "Authority", info.new_authority)
       /\ OwnerTells(info.sign, said)

\* All of that can be read back of what print_rpl_token_info puts.
LEMMA TokenReads ==
  ASSUME NEW info, NEW config, Experts(config), NEW said,
         said = Said(print_rpl_token_info(info, config))
  PROVE  TokenTells(info, said)
<1> USE DEF Line, Headed, Below, GeneralTitles, Says, Silent, SaysIf, InitializeTells, OwnerTells,
       SaidThreshold, SaidOwner, SaidTransfer, If
<1>1. CASE info.kind = "InitializeMint"
  <2>1. said = Line("Init_mint", info.mint_account) \cup
          Line("Mint_authority", info.mint_authority) \cup
          Line("Decimals", info.decimals) \cup
          If(info.freeze_authority # NoKey, Line("Freeze_authority", info.freeze_authority))
    BY <1>1, SaidToken
  <2> QED BY <1>1, <2>1 DEF TokenTells
<1>2. CASE info.kind \in {"InitializeAccount", "InitializeAccount2"}
  <2>1. said = Line("Init_acct", info.token_account) \cup Line("Owner", info.owner) \cup
          Line("Mint", info.mint_account)
    BY <1>2, SaidToken
  <2> QED BY <1>2, <2>1 DEF TokenTells
<1>3. CASE info.kind = "InitializeMultisig"
  <2>1. said = Line("Init_multisig", info.multisig_account) \cup SaidThreshold(info)
    BY <1>3, SaidToken
  <2> QED BY <1>3, <2>1 DEF TokenTells
<1>4. CASE info.kind = "Revoke"
  <2>1. said = Line("Revoke_delegate", info.token_account) \cup SaidOwner(info.sign)
    BY <1>4, SaidToken
  <2> QED BY <1>4, <2>1 DEF TokenTells
<1>5. CASE info.kind = "CloseAccount"
  <2>1. said = Line("Close_acct", info.token_account) \cup
          Line("Withdraw_to", info.dest_account) \cup SaidOwner(info.sign)
    BY <1>5, SaidToken
  <2> QED BY <1>5, <2>1 DEF TokenTells
<1>6. CASE info.kind = "FreezeAccount"
  <2>1. said = Line("Freeze_acct", info.token_account) \cup Line("Mint", info.mint_account) \cup
          SaidOwner(info.sign)
    BY <1>6, SaidToken
  <2> QED BY <1>6, <2>1 DEF TokenTells
<1>7. CASE info.kind = "ThawAccount"
  <2>1. said = Line("Thaw_acct", info.token_account) \cup Line("Mint", info.mint_account) \cup
          SaidOwner(info.sign)
    BY <1>7, SaidToken
  <2> QED BY <1>7, <2>1 DEF TokenTells
<1>8. CASE info.kind = "TransferChecked"
  <2>1. said = SaidTransfer(info)
    BY <1>8, SaidToken
  <2> QED BY <1>8, <2>1 DEF TokenTells
<1>9. CASE info.kind = "ApproveChecked"
  <2>1. said = Line("Approve_delegate", info.delegate) \cup
          Line("Allowance", TokenValue(info)) \cup
          Line("From", info.token_account) \cup SaidOwner(info.sign)
    BY <1>9, SaidToken
  <2> QED BY <1>9, <2>1 DEF TokenTells
<1>10. CASE info.kind = "MintToChecked"
  <2>1. said = Line("Mint_tokens", TokenValue(info)) \cup Line("From", info.mint_account) \cup
          Line("To", info.token_account) \cup SaidOwner(info.sign)
    BY <1>10, SaidToken
  <2> QED BY <1>10, <2>1 DEF TokenTells
<1>11. CASE info.kind = "BurnChecked"
  <2>1. said = Line("Burn_tokens", TokenValue(info)) \cup
          Line("From", info.token_account) \cup SaidOwner(info.sign)
    BY <1>11, SaidToken
  <2> QED BY <1>11, <2>1 DEF TokenTells
<1>12. CASE info.kind = "SyncNative"
  <2>1. said = Line("Sync_native_acct", info.token_account)
    BY <1>12, SaidToken
  <2> QED BY <1>12, <2>1 DEF TokenTells
<1>13. CASE info.kind = "SetAuthority"
  <2>1. said = Line(IF info.new_authority = NoKey THEN "Clear_authority" ELSE "Set_authority",
          info.account) \cup
          Line("Type", info.authority_type) \cup
          If(info.new_authority # NoKey, Line("Authority", info.new_authority)) \cup
          SaidOwner(info.sign)
    BY <1>13, SaidToken
  <2> QED BY <1>13, <2>1 DEF TokenTells
<1>14. CASE info.kind \notin
            {"InitializeMint", "InitializeAccount", "InitializeAccount2", "InitializeMultisig",
             "Revoke", "CloseAccount", "FreezeAccount", "ThawAccount", "TransferChecked",
             "ApproveChecked", "MintToChecked", "BurnChecked", "SyncNative", "SetAuthority"}
  BY <1>14 DEF TokenTells
<1> QED
  BY <1>1, <1>2, <1>3, <1>4, <1>5, <1>6, <1>7, <1>8, <1>9, <1>10, <1>11, <1>12, <1>13, <1>14

\* What can be read back of an account's creation.
CreationTells(create, said) ==
  /\ Says(said, "Deposit", create.lamports) /\ Says(said, "From", create.from)
  /\ SaysIf(create.kind # "CreateAccount", said, "Base", create.base)
  /\ SaysIf(create.kind # "CreateAccount", said, "Seed", create.seed)

StakeCreatedTells(create, info, said) ==
  /\ Headed(said, "Create_stake_acct") /\ Says(said, "Create_stake_acct", create.to)
  /\ CreationTells(create, said) /\ InitializeTells(info, said)

NonceCreatedTells(create, info, said) ==
  /\ Headed(said, "Create_nonce_acct") /\ Says(said, "Create_nonce_acct", create.to)
  /\ CreationTells(create, said) /\ Says(said, "New_authority", info.authority)

VoteCreatedTells(create, info, said) ==
  /\ Headed(said, "Create_vote_acct") /\ Says(said, "Create_vote_acct", create.to)
  /\ CreationTells(create, said) /\ Says(said, "Validator_ID", info.validator_id)
  /\ Says(said, "New_vote_auth", info.vote_authority)
  /\ Says(said, "New_withdraw_auth", info.withdraw_authority)
  /\ Says(said, "Commission", info.commission)

SplitSeededTells(create, info, said) ==
  /\ Headed(said, "Split_stake") /\ Says(said, "Split_stake", info.lamports)
  /\ Says(said, "From", info.account) /\ Says(said, "To", info.split_account)
  /\ Says(said, "Authorized_by", info.authority) /\ Says(said, "Base", create.base)
  /\ Says(said, "Seed", create.seed)

MintCreatedTells(create, info, said) ==
  /\ Headed(said, "Create_token_mint") /\ Says(said, "Create_token_mint", info.mint_account)
  /\ Says(said, "Mint_authority", info.mint_authority)
  /\ Says(said, "Mint_decimals", info.decimals)
  /\ SaysIf(info.freeze_authority # NoKey, said, "Freeze_authority", info.freeze_authority)
  /\ Says(said, "Funded_by", create.from) /\ Says(said, "Funded_with", create.lamports)

AccountCreatedTells(create, info, said) ==
  /\ Headed(said, "Create_token_acct") /\ Says(said, "Create_token_acct", info.token_account)
  /\ Says(said, "From_mint", info.mint_account) /\ Says(said, "Owned_by", info.owner)
  /\ Says(said, "Funded_by", create.from) /\ Says(said, "Funded_with", create.lamports)
  /\ Silent(said, "Transfer_tokens")

MultisigCreatedTells(create, info, said) ==
  /\ Headed(said, "Create_multisig") /\ Says(said, "Create_multisig", info.multisig_account)
  /\ SaysIf(info.m <= info.count, said, "Required_signers", <<info.m, info.count>>)
  /\ Says(said, "Funded_by", create.from) /\ Says(said, "Funded_with", create.lamports)

AssociatedTells(create, said) ==
  /\ Headed(said, "Create_token_acct") /\ Says(said, "Create_token_acct", create.address)
  /\ Says(said, "From_mint", create.mint) /\ Says(said, "Owned_by", create.owner)
  /\ Says(said, "Funded_by", create.funder) /\ Silent(said, "Funded_with")
  /\ Silent(said, "Transfer_tokens")

AssociatedTransferTells(create, info, said) ==
  /\ Headed(said, "Create_token_acct") /\ Says(said, "Create_token_acct", create.address)
  /\ Says(said, "From_mint", create.mint) /\ Says(said, "Owned_by", create.owner)
  /\ Says(said, "Funded_by", create.funder) /\ Says(said, "Transfer_tokens", TokenValue(info))
  /\ Says(said, "From", info.src_account) /\ Says(said, "To", info.dest_account)
  /\ OwnerTells(info.sign, said) /\ Silent(said, "Funded_with")

StakeDelegatedTells(create, info, delegate, said) ==
  /\ Headed(said, "Delegate_from") /\ Says(said, "Delegate_from", create.to)
  /\ CreationTells(create, said) /\ InitializeTells(info, said)
  /\ Says(said, "Authorized_by", delegate.authorized_pubkey)
  /\ Says(said, "Vote_account", delegate.vote_pubkey)

\* It is what is said of them.
LEMMA CreatedReads ==
  ASSUME NEW create, NEW info, NEW delegate, NEW said
  PROVE  /\ said = SaidCreation("Create_stake_acct", create) \cup SaidInitialize(info) =>
              StakeCreatedTells(create, info, said)
         /\ said = SaidCreation("Create_nonce_acct", create) \cup
              Line("New_authority", info.authority) =>
              NonceCreatedTells(create, info, said)
         /\ said = SaidCreation("Create_vote_acct", create) \cup SaidVoteInitialize(info) =>
              VoteCreatedTells(create, info, said)
         /\ said = Line("Split_stake", info.lamports) \cup Line("From", info.account) \cup
           Line("To", info.split_account) \cup SaidSeedOf(create) \cup
           Line("Authorized_by", info.authority) =>
              SplitSeededTells(create, info, said)
         /\ said = Line("Create_token_mint", info.mint_account) \cup
           Line("Mint_authority", info.mint_authority) \cup
           Line("Mint_decimals", info.decimals) \cup
           If(info.freeze_authority # NoKey,
              Line("Freeze_authority", info.freeze_authority)) \cup SaidFunded(create) =>
              MintCreatedTells(create, info, said)
         /\ said = Line("Create_token_acct", info.token_account) \cup
           Line("From_mint", info.mint_account) \cup Line("Owned_by", info.owner) \cup
           SaidFunded(create) =>
              AccountCreatedTells(create, info, said)
         /\ said = Line("Create_multisig", info.multisig_account) \cup SaidThreshold(info) \cup
           SaidFunded(create) =>
              MultisigCreatedTells(create, info, said)
         /\ said = SaidAssociated(create) =>
              AssociatedTells(create, said)
         /\ said = SaidAssociated(create) \cup SaidTransfer(info) =>
              AssociatedTransferTells(create, info, said)
         /\ said = SaidCreation("Delegate_from", create) \cup
           (SaidInitialize(info) \cup SaidDelegate(delegate)) =>
              StakeDelegatedTells(create, info, delegate, said)
<1> USE DEF Line, Headed, Below, GeneralTitles, Says, Silent, SaysIf, If,
       SaidCreation, SaidCreate, SaidSeedOf, SaidFunded, SaidInitialize, SaidAuthorities,
       SaidLockup,
       SaidDelegate, SaidVoteInitialize, SaidThreshold, SaidAssociated, SaidTransfer, SaidOwner,
       CreationTells, InitializeTells, OwnerTells
<1>1. ASSUME said = SaidCreation("Create_stake_acct", create) \cup SaidInitialize(info)
      PROVE  StakeCreatedTells(create, info, said)
  BY <1>1 DEF StakeCreatedTells
<1>2. ASSUME said = SaidCreation("Create_nonce_acct", create) \cup
        Line("New_authority", info.authority)
      PROVE  NonceCreatedTells(create, info, said)
  BY <1>2 DEF NonceCreatedTells
<1>3. ASSUME said = SaidCreation("Create_vote_acct", create) \cup SaidVoteInitialize(info)
      PROVE  VoteCreatedTells(create, info, said)
  BY <1>3 DEF VoteCreatedTells
<1>4. ASSUME said = Line("Split_stake", info.lamports) \cup Line("From", info.account) \cup
               Line("To", info.split_account) \cup SaidSeedOf(create) \cup
               Line("Authorized_by", info.authority)
      PROVE  SplitSeededTells(create, info, said)
  BY <1>4 DEF SplitSeededTells
<1>5. ASSUME said = Line("Create_token_mint", info.mint_account) \cup
               Line("Mint_authority", info.mint_authority) \cup
               Line("Mint_decimals", info.decimals) \cup
               If(info.freeze_authority # NoKey,
                  Line("Freeze_authority", info.freeze_authority)) \cup SaidFunded(create)
      PROVE  MintCreatedTells(create, info, said)
  BY <1>5 DEF MintCreatedTells
<1>6. ASSUME said = Line("Create_token_acct", info.token_account) \cup
               Line("From_mint", info.mint_account) \cup Line("Owned_by", info.owner) \cup
               SaidFunded(create)
      PROVE  AccountCreatedTells(create, info, said)
  BY <1>6 DEF AccountCreatedTells
<1>7. ASSUME said = Line("Create_multisig", info.multisig_account) \cup SaidThreshold(info) \cup
               SaidFunded(create)
      PROVE  MultisigCreatedTells(create, info, said)
  BY <1>7 DEF MultisigCreatedTells
<1>8. ASSUME said = SaidAssociated(create)
      PROVE  AssociatedTells(create, said)
  BY <1>8 DEF AssociatedTells
<1>9. ASSUME said = SaidAssociated(create) \cup SaidTransfer(info)
      PROVE  AssociatedTransferTells(create, info, said)
  BY <1>9 DEF AssociatedTransferTells
<1>10. ASSUME said = SaidCreation("Delegate_from", create) \cup
               (SaidInitialize(info) \cup SaidDelegate(delegate))
      PROVE  StakeDelegatedTells(create, info, delegate, said)
  BY <1>10 DEF StakeDelegatedTells
<1> HIDE DEF Line, Headed, Below, GeneralTitles, Says, Silent, SaysIf, If,
       SaidCreation, SaidCreate, SaidSeedOf, SaidFunded, SaidInitialize, SaidAuthorities,
       SaidLockup,
       SaidDelegate, SaidVoteInitialize, SaidThreshold, SaidAssociated, SaidTransfer, SaidOwner,
       CreationTells, InitializeTells, OwnerTells
<1> QED
  BY <1>1, <1>2, <1>3, <1>4, <1>5, <1>6, <1>7, <1>8, <1>9, <1>10

\* What can be read back of two authorities replaced together.
BothAlike(infos) ==
  infos[1].kind = "AuthorizeChecked" /\ infos[1].new_authority = infos[2].new_authority
BothTells(infos, said, title, new_title) ==
  /\ Headed(said, title) /\ Says(said, title, infos[1].account)
  /\ Says(said, "Authorized_by", infos[2].authority)
  /\ SaysIf(BothAlike(infos), said, "New_authorities", infos[1].new_authority)
  /\ SaysIf(~BothAlike(infos), said, new_title, infos[1].new_authority)
  /\ SaysIf(~BothAlike(infos), said, "New_withdraw_auth", infos[2].new_authority)
  /\ SaysIf(infos[1].program = "Stake" /\ infos[2].custodian # NoKey, said,
            "Custodian", infos[2].custodian)

\* What is said of two authorities says all of that.
LEMMA BothReads ==
  ASSUME NEW infos, NEW said,
         NEW title \in {"Set_stake_auth", "Set_vote_auth"},
         NEW new_title \in {"New_stake_auth", "New_vote_auth"},
         said = SaidBoth(title, new_title, infos)
  PROVE  BothTells(infos, said, title, new_title)
<1>1. PICK same, first, second, key, custodian, locked, authority :
        /\ same = BothAlike(infos)
        /\ first = infos[1].new_authority /\ second = infos[2].new_authority
        /\ key = infos[1].account /\ custodian = infos[2].custodian
        /\ locked = (infos[1].program = "Stake" /\ infos[2].custodian # NoKey)
        /\ authority = infos[2].authority
  OBVIOUS
<1>2. said = Line(title, key) \cup
             SaidAuthorities(same, first, second, "New_authorities", new_title) \cup
             If(locked, Line("Custodian", custodian)) \cup Line("Authorized_by", authority)
  BY <1>1 DEF SaidBoth, BothAlike
<1> USE DEF Line, Headed, Below, GeneralTitles, Says, Silent, SaysIf, If, SaidAuthorities
<1>3. Headed(said, title) /\ Says(said, title, key) /\ Says(said, "Authorized_by", authority)
  BY <1>2
<1>4. SaysIf(same, said, "New_authorities", first)
  BY <1>2
<1>5. SaysIf(~same, said, new_title, first)
  BY <1>2
<1>6. SaysIf(~same, said, "New_withdraw_auth", second)
  BY <1>2
<1>7. SaysIf(locked, said, "Custodian", custodian)
  BY <1>2
<1> HIDE DEF Line, Headed, Below, GeneralTitles, Says, Silent, SaysIf, If, SaidAuthorities
<1> QED BY <1>1, <1>3, <1>4, <1>5, <1>6, <1>7 DEF BothTells

-----------------------------------------------------------------------------
(* All the fields of an info. *)

SystemNames ==
  [AdvanceNonceAccount    |-> {"account", "authority"},
   InitializeNonceAccount |-> {"account", "authority"},
   WithdrawNonceAccount   |-> {"account", "to", "authority", "lamports"},
   AuthorizeNonceAccount  |-> {"account", "authority", "new_authority"},
   Transfer               |-> {"from", "to", "lamports"},
   CreateAccount          |-> {"from", "to", "lamports"},
   CreateAccountWithSeed  |-> {"from", "to", "base", "seed", "lamports"},
   Allocate               |-> {"account", "space"},
   Assign                 |-> {"account", "program_id"},
   AllocateWithSeed       |-> {"account", "base", "seed", "space", "program_id"}]
StakeNames ==
  [Delegate          |-> {"stake_pubkey", "vote_pubkey", "authorized_pubkey"},
   Withdraw          |-> {"account", "to", "authority", "lamports"},
   Deactivate        |-> {"account", "authority"},
   Split             |-> {"account", "split_account", "authority", "lamports"},
   Merge             |-> {"destination", "source", "authority"},
   Initialize        |-> {"account", "stake_authority", "withdraw_authority", "lockup"},
   InitializeChecked |-> {"account", "stake_authority", "withdraw_authority", "lockup"},
   Authorize         |-> {"account", "authority", "new_authority", "authorize", "custodian"},
   AuthorizeChecked  |-> {"account", "authority", "new_authority", "authorize", "custodian"},
   SetLockup         |-> {"account", "custodian", "lockup"},
   SetLockupChecked  |-> {"account", "custodian", "lockup"}]
VoteNames ==
  [Initialize        |-> {"account", "validator_id", "vote_authority", "withdraw_authority",
                          "commission"},
   Withdraw          |-> {"account", "to", "authority", "lamports"},
   Authorize         |-> {"account", "authority", "new_authority", "authorize"},
   AuthorizeChecked  |-> {"account", "authority", "new_authority", "authorize"},
   UpdateCommission  |-> {"account", "authority", "commission"},
   UpdateValidatorId |-> {"account", "new_validator_id", "authority"}]
TokenNames ==
  [TransferChecked    |-> {"src_account", "mint_account", "dest_account", "amount", "decimals",
                           "sign"},
   ApproveChecked     |-> {"token_account", "mint_account", "delegate", "amount", "decimals",
                           "sign"},
   MintToChecked      |-> {"mint_account", "token_account", "amount", "decimals", "sign"},
   BurnChecked        |-> {"token_account", "mint_account", "amount", "decimals", "sign"},
   Revoke             |-> {"token_account", "sign"},
   SetAuthority       |-> {"account", "authority_type", "new_authority", "sign"},
   CloseAccount       |-> {"token_account", "dest_account", "sign"},
   FreezeAccount      |-> {"token_account", "mint_account", "sign"},
   ThawAccount        |-> {"token_account", "mint_account", "sign"},
   InitializeMint     |-> {"mint_account", "decimals", "mint_authority", "freeze_authority"},
   InitializeAccount  |-> {"token_account", "mint_account", "owner"},
   InitializeAccount2 |-> {"token_account", "mint_account", "owner"},
   InitializeMultisig |-> {"multisig_account", "m", "count"},
   SyncNative         |-> {"token_account"}]

\* A record has these fields and no other.
IsRecord(info, names) == DOMAIN info = names /\ info = [name \in names |-> info[name]]

\* What a layout reads is the fields it names.
LEMMA ReadRecord ==
  ASSUME NEW layout, NEW instruction, NEW info \in ReadLayout(layout, instruction)
  PROVE  IsRecord(info, FieldsOfLayout(layout) \ {Skip})
<1>1. PICK a \in Read(layout.accounts, Iterate(instruction)),
        b \in Read(layout.data, instruction.data) :
        info = Joined(a, b)
  BY DEF ReadLayout, Both
<1>2. a = Named(layout.accounts, Iterate(instruction)) /\ b = Named(layout.data, instruction.data)
  BY ReadOne
<1>3. DOMAIN a = FieldsOf(layout.accounts) \ {Skip} /\ DOMAIN b = FieldsOf(layout.data) \ {Skip}
  BY <1>2 DEF Named, FieldsOf
<1>4. IsRecord(info, DOMAIN a \cup DOMAIN b)
  BY <1>1 DEF Joined, IsRecord
<1>5. DOMAIN a \cup DOMAIN b = FieldsOfLayout(layout) \ {Skip}
  BY <1>3 DEF FieldsOfLayout
<1> QED BY <1>4, <1>5

\* The fields of a table of layouts.
Naming(layouts, names) ==
  \A kind \in DOMAIN layouts :
    kind \in DOMAIN names /\ FieldsOfLayout(layouts[kind]) \ {Skip} = names[kind]

\* The layouts of the system program for nonces read the fields named.
LEMMA SystemNonceNaming == Naming(SystemNonceLayouts, SystemNames)
<1> USE DEF SystemNonceLayouts, SystemNames, Skip, FieldsOfLayout, FieldsOf, Layout
<1>1. FieldsOfLayout(SystemNonceLayouts.AdvanceNonceAccount) \ {Skip} =
        SystemNames.AdvanceNonceAccount
  OBVIOUS
<1>2. FieldsOfLayout(SystemNonceLayouts.InitializeNonceAccount) \ {Skip} =
        SystemNames.InitializeNonceAccount
  OBVIOUS
<1>3. FieldsOfLayout(SystemNonceLayouts.WithdrawNonceAccount) \ {Skip} =
        SystemNames.WithdrawNonceAccount
  OBVIOUS
<1>4. FieldsOfLayout(SystemNonceLayouts.AuthorizeNonceAccount) \ {Skip} =
        SystemNames.AuthorizeNonceAccount
  OBVIOUS
<1>5. DOMAIN SystemNonceLayouts = {"AdvanceNonceAccount", "InitializeNonceAccount",
                                  "WithdrawNonceAccount", "AuthorizeNonceAccount"}
  OBVIOUS
<1>6. DOMAIN SystemNonceLayouts \subseteq DOMAIN SystemNames
  OBVIOUS
<1> HIDE DEF SystemNonceLayouts, SystemNames, Skip, FieldsOfLayout, FieldsOf, Layout
<1> QED BY <1>1, <1>2, <1>3, <1>4, <1>5, <1>6 DEF Naming

\* So do those of other accounts of the system program.
LEMMA SystemAccountNaming == Naming(SystemAccountLayouts, SystemNames)
<1> USE DEF SystemAccountLayouts, SystemNames, Skip, FieldsOfLayout, FieldsOf, Layout,
       AllocateWithSeed
<1>1. FieldsOfLayout(SystemAccountLayouts.Transfer) \ {Skip} = SystemNames.Transfer
  OBVIOUS
<1>2. FieldsOfLayout(SystemAccountLayouts.CreateAccount) \ {Skip} = SystemNames.CreateAccount
  OBVIOUS
<1>3. FieldsOfLayout(SystemAccountLayouts.CreateAccountWithSeed) \ {Skip} =
        SystemNames.CreateAccountWithSeed
  OBVIOUS
<1>4. FieldsOfLayout(SystemAccountLayouts.Allocate) \ {Skip} = SystemNames.Allocate
  OBVIOUS
<1>5. FieldsOfLayout(SystemAccountLayouts.Assign) \ {Skip} = SystemNames.Assign
  OBVIOUS
<1>6. FieldsOfLayout(SystemAccountLayouts.AllocateWithSeed) \ {Skip} = SystemNames.AllocateWithSeed
  OBVIOUS
<1>7. DOMAIN SystemAccountLayouts = {"Transfer", "CreateAccount", "CreateAccountWithSeed",
                                     "Allocate", "Assign", "AllocateWithSeed"}
  OBVIOUS
<1>8. DOMAIN SystemAccountLayouts \subseteq DOMAIN SystemNames
  OBVIOUS
<1> HIDE DEF SystemAccountLayouts, SystemNames, Skip, FieldsOfLayout, FieldsOf, Layout,
       AllocateWithSeed
<1> QED BY <1>1, <1>2, <1>3, <1>4, <1>5, <1>6, <1>7, <1>8 DEF Naming

\* So do those of the stake program that need no more than their layouts.
LEMMA StakeMoveNaming == Naming(StakeMoveLayouts, StakeNames)
<1> USE DEF StakeMoveLayouts, StakeNames, Skip, FieldsOfLayout, FieldsOf, Layout
<1>1. FieldsOfLayout(StakeMoveLayouts.Delegate) \ {Skip} = StakeNames.Delegate
  OBVIOUS
<1>2. FieldsOfLayout(StakeMoveLayouts.Withdraw) \ {Skip} = StakeNames.Withdraw
  OBVIOUS
<1>3. FieldsOfLayout(StakeMoveLayouts.Deactivate) \ {Skip} = StakeNames.Deactivate
  OBVIOUS
<1>4. FieldsOfLayout(StakeMoveLayouts.Split) \ {Skip} = StakeNames.Split
  OBVIOUS
<1>5. FieldsOfLayout(StakeMoveLayouts.Merge) \ {Skip} = StakeNames.Merge
  OBVIOUS
<1>6. DOMAIN StakeMoveLayouts = {"Delegate", "Withdraw", "Deactivate", "Split", "Merge"}
  OBVIOUS
<1>7. DOMAIN StakeMoveLayouts \subseteq DOMAIN StakeNames
  OBVIOUS
<1> HIDE DEF StakeMoveLayouts, StakeNames, Skip, FieldsOfLayout, FieldsOf, Layout
<1> QED BY <1>1, <1>2, <1>3, <1>4, <1>5, <1>6, <1>7 DEF Naming

\* So do those of the vote program.
LEMMA VoteNaming == Naming(VoteLayouts, VoteNames)
<1> USE DEF VoteLayouts, VoteNames, Skip, FieldsOfLayout, FieldsOf, Layout
<1>1. FieldsOfLayout(VoteLayouts.Initialize) \ {Skip} = VoteNames.Initialize
  OBVIOUS
<1>2. FieldsOfLayout(VoteLayouts.Withdraw) \ {Skip} = VoteNames.Withdraw
  OBVIOUS
<1>3. FieldsOfLayout(VoteLayouts.Authorize) \ {Skip} = VoteNames.Authorize
  OBVIOUS
<1>4. FieldsOfLayout(VoteLayouts.AuthorizeChecked) \ {Skip} = VoteNames.AuthorizeChecked
  OBVIOUS
<1>5. FieldsOfLayout(VoteLayouts.UpdateCommission) \ {Skip} = VoteNames.UpdateCommission
  OBVIOUS
<1>6. DOMAIN VoteLayouts = {"Initialize", "Withdraw", "Authorize", "AuthorizeChecked",
                            "UpdateCommission"}
  OBVIOUS
<1>7. DOMAIN VoteLayouts \subseteq DOMAIN VoteNames
  OBVIOUS
<1> HIDE DEF VoteLayouts, VoteNames, Skip, FieldsOfLayout, FieldsOf, Layout
<1> QED BY <1>1, <1>2, <1>3, <1>4, <1>5, <1>6, <1>7 DEF Naming

\* So do those of the token program that nobody signs.
LEMMA TokenInitializeNaming == Naming(TokenInitializeLayouts, TokenNames)
<1> USE DEF TokenInitializeLayouts, TokenNames, Skip, FieldsOfLayout, FieldsOf, Layout
<1>1. FieldsOfLayout(TokenInitializeLayouts.InitializeMint) \ {Skip} = TokenNames.InitializeMint
  OBVIOUS
<1>2. FieldsOfLayout(TokenInitializeLayouts.InitializeAccount) \ {Skip} =
        TokenNames.InitializeAccount
  OBVIOUS
<1>3. FieldsOfLayout(TokenInitializeLayouts.InitializeAccount2) \ {Skip} =
        TokenNames.InitializeAccount2
  OBVIOUS
<1>4. FieldsOfLayout(TokenInitializeLayouts.SyncNative) \ {Skip} = TokenNames.SyncNative
  OBVIOUS
<1>5. DOMAIN TokenInitializeLayouts = {"InitializeMint", "InitializeAccount", "InitializeAccount2",
                                       "SyncNative"}
  OBVIOUS
<1>6. DOMAIN TokenInitializeLayouts \subseteq DOMAIN TokenNames
  OBVIOUS
<1> HIDE DEF TokenInitializeLayouts, TokenNames, Skip, FieldsOfLayout, FieldsOf, Layout
<1> QED BY <1>1, <1>2, <1>3, <1>4, <1>5, <1>6 DEF Naming

\* Those that somebody signs have the signer besides.
LEMMA TokenSignedNaming ==
  \A kind \in DOMAIN TokenSignedLayouts :
    /\ kind \in DOMAIN TokenNames
    /\ (FieldsOfLayout(TokenSignedLayouts[kind]) \ {Skip}) \cup {"sign"} = TokenNames[kind]
<1> USE DEF TokenSignedLayouts, TokenNames, Skip, FieldsOfLayout, FieldsOf, Layout
<1>1. (FieldsOfLayout(TokenSignedLayouts.TransferChecked) \ {Skip}) \cup {"sign"} =
        TokenNames.TransferChecked
  OBVIOUS
<1>2. (FieldsOfLayout(TokenSignedLayouts.ApproveChecked) \ {Skip}) \cup {"sign"} =
        TokenNames.ApproveChecked
  OBVIOUS
<1>3. (FieldsOfLayout(TokenSignedLayouts.MintToChecked) \ {Skip}) \cup {"sign"} =
        TokenNames.MintToChecked
  OBVIOUS
<1>4. (FieldsOfLayout(TokenSignedLayouts.BurnChecked) \ {Skip}) \cup {"sign"} =
        TokenNames.BurnChecked
  OBVIOUS
<1>5. (FieldsOfLayout(TokenSignedLayouts.Revoke) \ {Skip}) \cup {"sign"} = TokenNames.Revoke
  OBVIOUS
<1>6. (FieldsOfLayout(TokenSignedLayouts.SetAuthority) \ {Skip}) \cup {"sign"} =
        TokenNames.SetAuthority
  OBVIOUS
<1>7. (FieldsOfLayout(TokenSignedLayouts.CloseAccount) \ {Skip}) \cup {"sign"} =
        TokenNames.CloseAccount
  OBVIOUS
<1>8. (FieldsOfLayout(TokenSignedLayouts.FreezeAccount) \ {Skip}) \cup {"sign"} =
        TokenNames.FreezeAccount
  OBVIOUS
<1>9. (FieldsOfLayout(TokenSignedLayouts.ThawAccount) \ {Skip}) \cup {"sign"} =
        TokenNames.ThawAccount
  OBVIOUS
<1>10. DOMAIN TokenSignedLayouts = {"TransferChecked", "ApproveChecked", "MintToChecked",
                                    "BurnChecked", "Revoke", "SetAuthority", "CloseAccount",
                                    "FreezeAccount", "ThawAccount"}
  OBVIOUS
<1>11. DOMAIN TokenSignedLayouts \subseteq DOMAIN TokenNames
  OBVIOUS
<1> HIDE DEF TokenSignedLayouts, TokenNames, Skip, FieldsOfLayout, FieldsOf, Layout
<1> QED BY <1>1, <1>2, <1>3, <1>4, <1>5, <1>6, <1>7, <1>8, <1>9, <1>10, <1>11

\* What a switch reads is the fields its table names.
LEMMA SwitchRecord ==
  ASSUME NEW layouts, NEW names, Naming(layouts, names),
         NEW instruction, NEW info \in Switch(layouts, instruction)
  PROVE  instruction.kind \in DOMAIN names /\ IsRecord(info, names[instruction.kind])
<1>1. PICK kind, layout : kind = instruction.kind /\ layout = layouts[kind]
  OBVIOUS
<1>2. kind \in DOMAIN layouts /\ info \in ReadLayout(layout, instruction)
  BY <1>1 DEF Switch
<1>3. IsRecord(info, FieldsOfLayout(layout) \ {Skip})
  BY <1>2, ReadRecord
<1>4. kind \in DOMAIN names /\ FieldsOfLayout(layout) \ {Skip} = names[kind]
  BY <1>1, <1>2 DEF Naming
<1> QED BY <1>1, <1>3, <1>4

\* Two tables name what each of them names.
LEMMA JoinedNaming ==
  ASSUME NEW layouts, NEW others, NEW names, Naming(layouts, names), Naming(others, names)
  PROVE  Naming(Joined(layouts, others), names)
<1>1. SUFFICES ASSUME NEW kind \in DOMAIN Joined(layouts, others)
               PROVE  /\ kind \in DOMAIN names
                      /\ FieldsOfLayout(Joined(layouts, others)[kind]) \ {Skip} = names[kind]
  BY DEF Naming
<1>2. \/ kind \in DOMAIN layouts /\ Joined(layouts, others)[kind] = layouts[kind]
      \/ kind \in DOMAIN others /\ Joined(layouts, others)[kind] = others[kind]
  <2>1. CASE kind \in DOMAIN layouts
    BY <2>1 DEF Joined
  <2>2. CASE kind \notin DOMAIN layouts
    BY <1>1, <2>2 DEF Joined
  <2> QED BY <2>1, <2>2
<1> QED BY <1>2 DEF Naming

\* Two records in one are a record of the fields of both.
LEMMA JoinedRecord ==
  ASSUME NEW a, NEW b
  PROVE  IsRecord(Joined(a, b), DOMAIN a \cup DOMAIN b)
BY DEF IsRecord, Joined

\* All that the parser of a program fills in, by the kind of the instruction.
SystemWhole(kind, info) == kind \in DOMAIN SystemNames /\ IsRecord(info, SystemNames[kind])
StakeWhole(kind, info) ==
  /\ kind \in DOMAIN StakeNames /\ IsRecord(info, StakeNames[kind])
  /\ kind \in {"Authorize", "AuthorizeChecked"} => info.authorize \in {"Staker", "Withdrawer"}
  /\ kind \in {"SetLockup", "SetLockupChecked"} =>
       \E timestamp, epoch, custodian :
         info.lockup = parse_stake_lockupargs(timestamp, epoch, custodian)
VoteWhole(kind, info) ==
  /\ kind \in DOMAIN VoteNames /\ IsRecord(info, VoteNames[kind])
  /\ kind \in {"Authorize", "AuthorizeChecked"} => info.authorize \in {"Voter", "Withdrawer"}
IsSigner(sign) ==
  \/ sign.kind = "Single" /\ IsRecord(sign, {"kind", "account"})
  \/ sign.kind = "Multi" /\ IsRecord(sign, {"kind", "account", "count"})
TokenWhole(kind, info) ==
  /\ kind \in DOMAIN TokenNames /\ IsRecord(info, TokenNames[kind])
  /\ "sign" \in TokenNames[kind] => IsSigner(info.sign)

\* The parser of the system program fills in all fields.
LEMMA SystemFilled ==
  ASSUME NEW instruction, NEW info \in parse_system_instructions(instruction)
  PROVE  SystemWhole(instruction.kind, info)
BY SystemNonceNaming, SystemAccountNaming, JoinedNaming, SwitchRecord
   DEF parse_system_instructions, SystemWhole

\* So does that of the stake program.
LEMMA StakeFilled ==
  ASSUME NEW instruction, NEW info \in parse_stake_instructions(instruction)
  PROVE  StakeWhole(instruction.kind, info)
<1>1. PICK kind : kind = instruction.kind
  OBVIOUS
<1>2. CASE info \in Switch(StakeMoveLayouts, instruction)
  <2>1. kind \in DOMAIN StakeNames /\ IsRecord(info, StakeNames[kind])
    BY <1>1, <1>2, StakeMoveNaming, SwitchRecord
  <2>2. kind \in DOMAIN StakeMoveLayouts
    BY <1>1, <1>2 DEF Switch
  <2>3. kind \in {"Delegate", "Withdraw", "Deactivate", "Split", "Merge"}
    BY <2>2 DEF StakeMoveLayouts
  <2> QED BY <1>1, <2>1, <2>3 DEF StakeWhole
<1>3. CASE info \in parse_stake_initialize(instruction)
  <2>0. PICK other \in Switch(StakeInitializeLayouts, instruction) :
          \E lockup :
            info = [account |-> other.account, stake_authority |-> other.stake_authority,
                    withdraw_authority |-> other.withdraw_authority, lockup |-> lockup]
    BY <1>3 DEF parse_stake_initialize
  <2>1. PICK lockup :
          info = [account |-> other.account, stake_authority |-> other.stake_authority,
                  withdraw_authority |-> other.withdraw_authority, lockup |-> lockup]
    BY <2>0
  <2>2. kind \in DOMAIN StakeInitializeLayouts
    BY <1>1 DEF Switch
  <2>3. kind \in {"Initialize", "InitializeChecked"}
    BY <2>2 DEF StakeInitializeLayouts
  <2>4. IsRecord(info, {"account", "stake_authority", "withdraw_authority", "lockup"})
    BY <2>1 DEF IsRecord
  <2>5. kind \in DOMAIN StakeNames
        /\ StakeNames[kind] = {"account", "stake_authority", "withdraw_authority", "lockup"}
    BY <2>3 DEF StakeNames
  <2> QED BY <1>1, <2>3, <2>4, <2>5 DEF StakeWhole
<1>4. CASE info \in parse_stake_authorize(instruction)
  <2>0. PICK other \in Switch(StakeAuthorizeLayouts, instruction) :
          \E key : /\ info = Joined(other, [custodian |-> key])
                   /\ other.authorize \in {"Staker", "Withdrawer"}
    BY <1>4 DEF parse_stake_authorize
  <2>1. PICK key : /\ info = Joined(other, [custodian |-> key])
                   /\ other.authorize \in {"Staker", "Withdrawer"}
    BY <2>0
  <2>2. kind \in DOMAIN StakeAuthorizeLayouts
        /\ other \in ReadLayout(StakeAuthorizeLayouts[kind], instruction)
    BY <1>1 DEF Switch
  <2>3. kind \in {"Authorize", "AuthorizeChecked"}
    BY <2>2 DEF StakeAuthorizeLayouts
  <2>4. FieldsOfLayout(StakeAuthorizeLayouts[kind]) \ {Skip} =
          {"account", "authority", "new_authority", "authorize"}
    BY <2>3 DEF StakeAuthorizeLayouts, Skip, FieldsOfLayout, FieldsOf, Layout
  <2>5. IsRecord(other, {"account", "authority", "new_authority", "authorize"})
    BY <2>2, <2>4, ReadRecord
  <2>6. PICK last : last = [custodian |-> key]
    OBVIOUS
  <2>7. DOMAIN last = {"custodian"}
    BY <2>6
  <2>8. IsRecord(info, DOMAIN other \cup DOMAIN last) /\ info["authorize"] = other["authorize"]
    BY <2>1, <2>5, <2>6, JoinedRecord DEF Joined, IsRecord
  <2>9. DOMAIN other \cup DOMAIN last = {"account", "authority", "new_authority", "authorize",
                                         "custodian"}
    BY <2>5, <2>7 DEF IsRecord
  <2>10. kind \in DOMAIN StakeNames
         /\ StakeNames[kind] = {"account", "authority", "new_authority", "authorize", "custodian"}
    BY <2>3 DEF StakeNames
  <2> QED BY <1>1, <2>1, <2>3, <2>8, <2>9, <2>10 DEF StakeWhole
<1>5. CASE info \in parse_stake_set_lockup(instruction)
  <2>0. PICK other \in Switch(StakeLockupLayouts, instruction) :
          \E timestamp, epoch, custodian :
            info = [account |-> other.account, custodian |-> other.custodian,
                    lockup |-> parse_stake_lockupargs(timestamp, epoch, custodian)]
    BY <1>5 DEF parse_stake_set_lockup
  <2>1. PICK timestamp, epoch, custodian :
          info = [account |-> other.account, custodian |-> other.custodian,
                  lockup |-> parse_stake_lockupargs(timestamp, epoch, custodian)]
    BY <2>0
  <2>2. kind \in DOMAIN StakeLockupLayouts
    BY <1>1 DEF Switch
  <2>3. kind \in {"SetLockup", "SetLockupChecked"}
    BY <2>2 DEF StakeLockupLayouts
  <2>4. IsRecord(info, {"account", "custodian", "lockup"})
    BY <2>1 DEF IsRecord
  <2>5. kind \in DOMAIN StakeNames /\ StakeNames[kind] = {"account", "custodian", "lockup"}
    BY <2>3 DEF StakeNames
  <2>6. info.lockup = parse_stake_lockupargs(timestamp, epoch, custodian)
    BY <2>1
  <2> QED BY <1>1, <2>3, <2>4, <2>5, <2>6 DEF StakeWhole
<1> QED BY <1>2, <1>3, <1>4, <1>5 DEF parse_stake_instructions

\* So does that of the vote program.
LEMMA VoteFilled ==
  ASSUME NEW instruction, NEW info \in parse_vote_instructions(instruction)
  PROVE  VoteWhole(instruction.kind, info)
<1>1. PICK kind : kind = instruction.kind
  OBVIOUS
<1>2. CASE /\ info \in Switch(VoteLayouts, instruction)
           /\ "authorize" \in DOMAIN info => info.authorize \in {"Voter", "Withdrawer"}
  <2>1. kind \in DOMAIN VoteNames /\ IsRecord(info, VoteNames[kind])
    BY <1>1, <1>2, VoteNaming, SwitchRecord
  <2>2. kind \in {"Authorize", "AuthorizeChecked"} => "authorize" \in DOMAIN info
    BY <2>1 DEF VoteNames, IsRecord
  <2> QED BY <1>1, <1>2, <2>1, <2>2 DEF VoteWhole
<1>3. CASE info \in parse_vote_update_validator_id_instruction(instruction)
  <2>1. kind = "UpdateValidatorId"
    BY <1>1, <1>3 DEF parse_vote_update_validator_id_instruction
  <2>2. PICK plain, keyed :
          /\ plain = Layout(<<"account", "new_validator_id", "authority">>, <<>>)
          /\ keyed = Layout(<<"account", Skip, "authority">>, <<"new_validator_id">>)
    OBVIOUS
  <2>3. \/ info \in ReadLayout(plain, instruction)
        \/ info \in ReadLayout(keyed, instruction)
    BY <1>3, <2>2 DEF parse_vote_update_validator_id_instruction
  <2>4. PICK names : names = {"account", "new_validator_id", "authority"}
    OBVIOUS
  <2>5. FieldsOfLayout(plain) \ {Skip} = names
    BY <2>2, <2>4 DEF Skip, FieldsOfLayout, FieldsOf, Layout
  <2>6. FieldsOfLayout(keyed) \ {Skip} = names
    BY <2>2, <2>4 DEF Skip, FieldsOfLayout, FieldsOf, Layout
  <2>7. IsRecord(info, names)
    BY <2>3, <2>5, <2>6, ReadRecord
  <2>8. kind \in DOMAIN VoteNames /\ VoteNames[kind] = names
    BY <2>1, <2>4 DEF VoteNames
  <2> QED BY <1>1, <2>1, <2>7, <2>8 DEF VoteWhole
<1> QED BY <1>2, <1>3 DEF parse_vote_instructions

\* Whoever signs is one account, or one with a number of others.
LEMMA SignerFilled ==
  ASSUME NEW accounts, NEW sign \in parse_rpl_token_sign(accounts)
  PROVE  IsSigner(sign)
<1>1. CASE Len(accounts) = 0
  BY <1>1 DEF parse_rpl_token_sign
<1>2. CASE Len(accounts) = 1
  <2>1. sign = [kind |-> "Single", account |-> accounts[1]]
    BY <1>2 DEF parse_rpl_token_sign
  <2>2. sign.kind = "Single" /\ IsRecord(sign, {"kind", "account"})
    BY <2>1 DEF IsRecord
  <2> QED BY <2>2 DEF IsSigner
<1>3. CASE Len(accounts) # 0 /\ Len(accounts) # 1
  <2>1. PICK multi : multi = [kind |-> "Multi", account |-> accounts[1]]
    OBVIOUS
  <2>2. sign \in Both({multi}, parse_rpl_token_multisigners(Tail(accounts)))
    BY <1>3, <2>1 DEF parse_rpl_token_sign
  <2>3. PICK count \in parse_rpl_token_multisigners(Tail(accounts)) : sign = Joined(multi, count)
    BY <2>2 DEF Both
  <2>4. DOMAIN count = {"count"}
    BY DEF parse_rpl_token_multisigners
  <2>5. DOMAIN multi = {"kind", "account"} /\ multi["kind"] = "Multi"
    BY <2>1
  <2>6. IsRecord(sign, DOMAIN multi \cup DOMAIN count) /\ sign["kind"] = multi["kind"]
    BY <2>3, <2>5, JoinedRecord DEF Joined
  <2>7. DOMAIN multi \cup DOMAIN count = {"kind", "account", "count"}
    BY <2>4, <2>5
  <2> QED BY <2>5, <2>6, <2>7 DEF IsSigner
<1> QED BY <1>1, <1>2, <1>3

\* The parser of a token program fills in all fields.
LEMMA TokenFilled ==
  ASSUME NEW instruction, NEW info \in parse_rpl_token_instructions(instruction)
  PROVE  TokenWhole(instruction.kind, info)
<1>1. PICK kind : kind = instruction.kind
  OBVIOUS
<1>2. CASE kind \in DOMAIN TokenSignedLayouts
  <2>0. kind \notin {"InitializeMultisig", "InitializeAccount"}
    BY <1>2 DEF TokenSignedLayouts
  <2>1. info \in parse_signed(instruction)
    BY <1>1, <1>2, <2>0 DEF parse_rpl_token_instructions
  <2> DEFINE others == {other \in Switch(TokenSignedLayouts, instruction) :
                          "authority_type" \in DOMAIN other =>
                            other.authority_type \in AuthorityTypes}
             signs == parse_rpl_token_sign(Remaining(TokenSignedLayouts[instruction.kind], instruction))
  <2>2. info \in {Joined(other, [sign |-> sign]) : other \in others, sign \in signs}
    BY <2>1 DEF parse_signed
  <2>3. \A sign \in signs : IsSigner(sign)
    BY SignerFilled
  <2> HIDE DEF signs
  <2>4. PICK other \in others, sign \in signs : info = Joined(other, [sign |-> sign])
    BY <2>2
  <2>5. PICK last : last = [sign |-> sign]
    OBVIOUS
  <2>6. DOMAIN last = {"sign"} /\ last["sign"] = sign
    BY <2>5
  <2>7. PICK layout : layout = TokenSignedLayouts[kind]
    OBVIOUS
  <2>8. IsRecord(other, FieldsOfLayout(layout) \ {Skip})
    BY <1>1, <1>2, <2>7, ReadRecord DEF Switch
  <2>9. Lacks(layout, {"sign"})
    BY <1>2, <2>7 DEF TokenSignedLayouts, FieldsOfLayout, FieldsOf, Layout, Lacks
  <2>10. "sign" \notin DOMAIN other
    BY <2>8, <2>9 DEF Lacks, IsRecord
  <2>11. IsRecord(info, DOMAIN other \cup DOMAIN last) /\ info["sign"] = sign
    BY <2>4, <2>5, <2>6, <2>10, JoinedRecord DEF Joined
  <2>12. DOMAIN other \cup DOMAIN last = TokenNames[kind] /\ kind \in DOMAIN TokenNames
    BY <1>2, <2>6, <2>7, <2>8, TokenSignedNaming DEF IsRecord
  <2> QED BY <1>1, <2>3, <2>4, <2>11, <2>12 DEF TokenWhole
<1>3. CASE kind = "InitializeMultisig"
  <2>1. info \in parse_initialize_multisig_rpl_token_instruction(instruction)
    BY <1>1, <1>3 DEF parse_rpl_token_instructions, TokenSignedLayouts
  <2> DEFINE others == {other \in ReadLayout(InitializeMultisig, instruction) :
                          other.m <= Token_MAX_SIGNERS}
             counts == parse_rpl_token_multisigners(Remaining(InitializeMultisig, instruction))
  <2>2. info \in Both(others, counts)
    BY <2>1 DEF parse_initialize_multisig_rpl_token_instruction
  <2> HIDE DEF counts
  <2>3. PICK other \in others, count \in counts : info = Joined(other, count)
    BY <2>2 DEF Both
  <2>4. DOMAIN count = {"count"}
    BY DEF parse_rpl_token_multisigners, counts
  <2>5. IsRecord(other, FieldsOfLayout(InitializeMultisig) \ {Skip})
    BY ReadRecord
  <2>6. FieldsOfLayout(InitializeMultisig) \ {Skip} = {"multisig_account", "m"}
    BY DEF InitializeMultisig, Skip, FieldsOfLayout, FieldsOf, Layout
  <2>7. IsRecord(info, DOMAIN other \cup DOMAIN count)
    BY <2>3, JoinedRecord
  <2>8. DOMAIN other \cup DOMAIN count = {"multisig_account", "m", "count"}
    BY <2>4, <2>5, <2>6 DEF IsRecord
  <2>9. kind \in DOMAIN TokenNames /\ TokenNames[kind] = {"multisig_account", "m", "count"}
    BY <1>3 DEF TokenNames
  <2> QED BY <1>1, <2>7, <2>8, <2>9 DEF TokenWhole
<1>4. CASE kind \notin DOMAIN TokenSignedLayouts /\ kind # "InitializeMultisig"
  <2>1. info \in Switch(TokenInitializeLayouts, instruction)
    BY <1>1, <1>4 DEF parse_rpl_token_instructions
  <2>2. kind \in DOMAIN TokenNames /\ IsRecord(info, TokenNames[kind])
    BY <1>1, <2>1, TokenInitializeNaming, SwitchRecord
  <2>3. kind \in DOMAIN TokenInitializeLayouts
    BY <1>1, <2>1 DEF Switch
  <2>4. "sign" \notin TokenNames[kind]
    BY <2>3 DEF TokenInitializeLayouts, TokenNames
  <2> QED BY <1>1, <2>2, <2>4 DEF TokenWhole
<1> QED BY <1>2, <1>3, <1>4

\* So does that of associated accounts, whatever the kind.
AssociatedNames == {"funder", "address", "owner", "mint"}

\* A new associated account has its four fields, whatever the kind says.
LEMMA AssociatedFilled ==
  ASSUME NEW instruction, NEW info \in parse_rpl_associated_token_account_instructions(instruction)
  PROVE  IsRecord(info, AssociatedNames)
<1>1. PICK layout : layout = Layout(<<"funder", "address", "owner", "mint", Skip, Skip>>, <<>>)
  OBVIOUS
<1>2. IsRecord(info, FieldsOfLayout(layout) \ {Skip})
  BY <1>1, ReadRecord DEF parse_rpl_associated_token_account_instructions
<1>3. FieldsOfLayout(layout) \ {Skip} = AssociatedNames
  BY <1>1 DEF AssociatedNames, Skip, FieldsOfLayout, FieldsOf, Layout
<1> QED BY <1>2, <1>3
=============================================================================
