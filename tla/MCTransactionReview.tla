------------------------ MODULE MCTransactionReview ------------------------
(***************************************************************************)
(* TransactionReview on every kind of instruction the printers know, with  *)
(* every option that changes what they print: alone, in pairs, and in the  *)
(* longer combinations that fill the summary; whole, cut short and with    *)
(* more than they need.  Accounts and fields stand in the order the tests  *)
(* of the repository have them; a key is named for its part.               *)
(***************************************************************************)
EXTENDS TransactionReview

Keys == {"signer", "other"}
OptionalKeys == {NoKey, "other"}
Sysvar == "sysvar"

Ins(program, kind, accounts, data) ==
  [program |-> program, kind |-> kind, accounts |-> accounts, data |-> data]
System(kind, accounts, data) == Ins("System", kind, accounts, data)
Stake(kind, accounts, data) == Ins("Stake", kind, accounts, data)
Vote(kind, accounts, data) == Ins("Vote", kind, accounts, data)
Token(kind, accounts, data) == Ins("RplToken", kind, accounts, data)

Creations ==
  {System("CreateAccount", <<from, "new">>, <<lamports, 9, "program">>) :
     from \in Keys, lamports \in {0, 5}} \cup
  {System("CreateAccountWithSeed", <<from, "new">>, <<"base", "seed", 5, 9, "program">>) :
     from \in Keys}
Advances ==
  {System("AdvanceNonceAccount", <<"nonce", Sysvar, authority>>, <<>>) : authority \in Keys}
Transfers ==
  {System("Transfer", <<from, to>>, <<lamports>>) :
     from \in Keys, to \in {"to", "other"}, lamports \in {5, 6}}
AllocatesWithSeed ==
  {System("AllocateWithSeed", <<"new", "base">>, <<"base", "seed", 9, "program">>)}

Systems ==
  Creations \cup Advances \cup Transfers \cup AllocatesWithSeed \cup
  {System("InitializeNonceAccount", <<"nonce", Sysvar, Sysvar>>, <<"other">>),
   System("Allocate", <<"new">>, <<9>>), System("Allocate", <<"new">>, <<8>>),
   System("Assign", <<"new">>, <<"program">>), System("Assign", <<"new">>, <<"other">>)} \cup
  {System("WithdrawNonceAccount", <<"nonce", "to", Sysvar, Sysvar, authority>>, <<5>>) :
     authority \in Keys} \cup
  {System("AuthorizeNonceAccount", <<"nonce", authority>>, <<"new">>) : authority \in Keys}

StakeInitializes ==
  {Stake("Initialize", <<"new", Sysvar>>, <<"staker", withdrawer, time, epoch, "custodian">>) :
     withdrawer \in {"staker", "withdrawer"}, time \in {-1, 0, 7}, epoch \in {0, 8}} \cup
  {Stake("InitializeChecked", <<"new", Sysvar, "staker", withdrawer>>, <<>>) :
     withdrawer \in {"staker", "withdrawer"}}
Delegates ==
  {Stake("Delegate", <<"new", "vote", Sysvar, Sysvar, Sysvar, authorized>>, <<>>) :
     authorized \in Keys}
Splits ==
  {Stake("Split", <<"stake", "new", authority>>, <<6>>) : authority \in Keys}

Custodians == {<<>>, <<"custodian">>}
Stakes ==
  StakeInitializes \cup Delegates \cup Splits \cup
  {Stake("Withdraw", <<"stake", "to", Sysvar, Sysvar, authority>>, <<5>>) : authority \in Keys} \cup
  {Stake("Authorize", <<"stake", Sysvar, authority>> \o custodian, <<new, authorize>>) :
     authority \in Keys, custodian \in Custodians, new \in {"new", "other"},
     authorize \in {"Staker", "Withdrawer"}} \cup
  {Stake("AuthorizeChecked", <<"stake", Sysvar, authority, new>> \o custodian, <<authorize>>) :
     authority \in Keys, custodian \in Custodians, new \in {"new", "other"},
     authorize \in {"Staker", "Withdrawer"}} \cup
  {Stake("Deactivate", <<"stake", Sysvar, authority>>, <<>>) : authority \in Keys} \cup
  {Stake("SetLockup", <<"stake", custodian>>, <<time, epoch, new>>) :
     custodian \in Keys, time \in {<<>>, <<7>>}, epoch \in {<<>>, <<8>>},
     new \in {NoKey, "new"}} \cup
  {Stake("SetLockupChecked", <<"stake", custodian>> \o new, <<time, epoch>>) :
     custodian \in Keys, time \in {<<>>, <<7>>}, epoch \in {<<>>, <<8>>},
     new \in {<<>>, <<"new">>}} \cup
  {Stake("Merge", <<"into", "stake", Sysvar, Sysvar, authority>>, <<>>) : authority \in Keys}

Votes ==
  {Vote("Initialize", <<"new", Sysvar, Sysvar>>, <<"id", "voter", "withdrawer", 3>>)} \cup
  {Vote("Withdraw", <<"vote", "to", authority>>, <<5>>) : authority \in Keys} \cup
  {Vote("Authorize", <<"vote", Sysvar, authority>>, <<new, authorize>>) :
     authority \in Keys, new \in {"new", "other"}, authorize \in {"Voter", "Withdrawer"}} \cup
  {Vote("AuthorizeChecked", <<"vote", Sysvar, authority, new>>, <<authorize>>) :
     authority \in Keys, new \in {"new", "other"}, authorize \in {"Voter", "Withdrawer"}} \cup
  {Vote("UpdateValidatorId", <<"vote", "id", authority>>, <<>>) : authority \in Keys} \cup
  {Vote("UpdateValidatorId", <<"vote", Sysvar, authority>>, <<"id">>) : authority \in Keys} \cup
  {Vote("UpdateCommission", <<"vote", authority>>, <<commission>>) :
     authority \in Keys, commission \in {3, 4}}

\* A lone owner, or a multisig with some signers of the eleven it can have.
Repeat(key, n) == [i \in 1..n |-> key]
Signs == {<<owner>> : owner \in Keys} \cup {<<"multisig">> \o Repeat("s", n) : n \in {1, 2}}
TooManySigners == <<"multisig">> \o Repeat("s", 12)
TokenTransfers ==
  {Token("TransferChecked", <<"from", mint, "to">> \o sign, <<5, 9>>) :
     mint \in {"mint", WrappedMint}, sign \in Signs}
Multisigs ==
  {Token("InitializeMultisig", <<"new", Sysvar>> \o Repeat("s", n), <<m>>) :
     m \in {2, 11, 12}, n \in {1, 2, 3, 11, 12, 253, 254, 256, 258}}
Tokens ==
  TokenTransfers \cup Multisigs \cup
  {Token("InitializeMint", <<"mint", Sysvar>>, <<9, "new", freeze>>) :
     freeze \in OptionalKeys} \cup
  {Token("InitializeAccount", <<"new", "mint", "owner", Sysvar>>, <<>>),
   Token("InitializeAccount2", <<"new", "mint", Sysvar>>, <<"owner">>),
   Token("SyncNative", <<"from">>, <<>>)} \cup
  {Token("Revoke", <<"from">> \o sign, <<>>) : sign \in Signs \cup {TooManySigners}} \cup
  UNION {
    {Token("SetAuthority", <<"from">> \o sign, <<type, new>>) :
       type \in AuthorityTypes, new \in {NoKey, "new"}} \cup
    {Token("CloseAccount", <<"from", "to">> \o sign, <<>>),
     Token("FreezeAccount", <<"from", "mint">> \o sign, <<>>),
     Token("ThawAccount", <<"from", "mint">> \o sign, <<>>),
     Token("ApproveChecked", <<"from", "mint", "to">> \o sign, <<5, 9>>),
     Token("MintToChecked", <<"mint", "to">> \o sign, <<5, 9>>),
     Token("BurnChecked", <<"from", "mint">> \o sign, <<5, 9>>)} : sign \in Signs}

AssociatedAccounts ==
  {Ins("RplAssociatedTokenAccount", "Create",
       <<funder, "new", "owner", "mint", Sysvar, Sysvar>> \o rent, <<>>) :
     funder \in Keys, rent \in {<<>>, <<Sysvar>>}}
Memo == Ins("RplMemo", "Memo", <<>>, <<>>)

Whole == Systems \cup Stakes \cup Votes \cup Tokens \cup AssociatedAccounts \cup {Memo}

Kinds(instructions) == {instruction.kind : instruction \in instructions}
Representatives(instructions) ==
  {CHOOSE instruction \in instructions : instruction.kind = name : name \in Kinds(instructions)}
OneOfEach ==
  UNION {Representatives(instructions) :
           instructions \in {Systems, Stakes, Votes, Tokens, AssociatedAccounts}}

\* Without the last account or field, creations with their data cut anywhere, with one
\* account or field more, and with a value that an enumeration does not have or a kind
\* that a program does not support.
WithoutLast(values) == IF values = <<>> THEN <<>> ELSE SubSeq(values, 1, Len(values) - 1)
Altered ==
  {[instruction EXCEPT !.accounts = WithoutLast(@)] : instruction \in Whole} \cup
  {[instruction EXCEPT !.data = WithoutLast(@)] : instruction \in Whole} \cup
  UNION {{[creation EXCEPT !.data = SubSeq(@, 1, n)] : n \in DOMAIN creation.data} :
           creation \in Creations} \cup
  {[instruction EXCEPT !.accounts = Append(@, "other")] : instruction \in OneOfEach} \cup
  {[instruction EXCEPT !.data = Append(@, "more")] : instruction \in OneOfEach} \cup
  {Stake("Authorize", <<"stake", Sysvar, "other">>, <<"new", "neither">>),
   Vote("AuthorizeChecked", <<"vote", Sysvar, "other", "new">>, <<"neither">>),
   Token("SetAuthority", <<"from", "other">>, <<"neither", NoKey>>)}
UnknownInstructions ==
  {System("AssignWithSeed", <<"new", "base">>, <<"base", "seed", "program">>),
   Stake("AuthorizeWithSeed", <<"stake", "base">>, <<"new", "Staker", "seed", "owner">>),
   Vote("Vote", <<"vote", Sysvar, Sysvar, "other">>, <<>>),
   Token("Transfer", <<"from", "to", "signer">>, <<5>>),
   Ins("another_program", "Swap", <<"from", "to">>, <<5>>)}

Instructions == Whole \cup Altered \cup UnknownInstructions

-----------------------------------------------------------------------------

Message(instructions, well_formed, fee_payer) ==
  [instructions |-> instructions, well_formed |-> well_formed, fee_payer |-> fee_payer]

Singles == {<<instruction>> : instruction \in Instructions}

\* One instruction of each kind next to another, and all options of the pairs that
\* are recognised together.
Pairs ==
  LET some == OneOfEach \cup UnknownInstructions \cup {Memo}
      After(firsts, seconds) == {<<first, second>> : first \in firsts, second \in seconds}
      Of(instructions, names) == {one \in instructions : one.kind \in names}
      initialized == StakeInitializes \cup Splits \cup
                     Of(Systems, {"InitializeNonceAccount"}) \cup
                     Of(Votes, {"Initialize"}) \cup
                     Of(Tokens, {"InitializeMint", "InitializeAccount",
                                 "InitializeAccount2", "InitializeMultisig"})
  IN  After(some, some) \cup
      After(Creations \cup Of(Systems, {"AllocateWithSeed"}), initialized) \cup
      After(Of(Stakes, {"Authorize"}), Of(Stakes, {"Authorize"})) \cup
      After(Of(Stakes, {"AuthorizeChecked"}), Of(Stakes, {"AuthorizeChecked"})) \cup
      After(Of(Votes, {"Authorize"}), Of(Votes, {"Authorize"})) \cup
      After(Of(Votes, {"AuthorizeChecked"}), Of(Votes, {"AuthorizeChecked"})) \cup
      After(AssociatedAccounts, TokenTransfers) \cup
      After(Transfers, {Memo}) \cup After({Memo}, Transfers) \cup
      After(Advances, Transfers \cup TokenTransfers)
Advance == CHOOSE advance \in Advances : advance.accounts[3] = "other"

\* Pairs after a nonce or with a memo, and every way to three and four instructions
\* that create, initialize and delegate, or split.
Triples ==
  {<<first, second, third>> : first \in Creations, second \in StakeInitializes,
                              third \in Delegates} \cup
  {<<Advance, first, second>> : first \in Creations, second \in StakeInitializes} \cup
  {<<System("Allocate", <<"new">>, <<9>>), System("Assign", <<"new">>, <<"program">>),
     split>> : split \in Splits} \cup
  {<<first, Memo, transfer>> : first \in Advances \cup UnknownInstructions \cup {Memo},
                               transfer \in Transfers}
Quadruples ==
  {<<Advance>> \o triple : triple \in Triples} \cup
  {triple \o <<Memo>> : triple \in Triples}
TooMany == {<<Memo, Memo, Memo, Memo, transfer>> : transfer \in Transfers}

MCMessages ==
  {Message(instructions, TRUE, fee_payer) :
     instructions \in Singles \cup Triples \cup Quadruples \cup TooMany \cup {<<>>},
     fee_payer \in Keys} \cup
  {Message(instructions, TRUE, "signer") : instructions \in Pairs} \cup
  {Message(instructions, FALSE, "signer") : instructions \in Singles}

\* Recognised transactions, each with one key replaced.
Changed(instructions) ==
  UNION {{[instructions EXCEPT ![i].accounts[k] = "changed"] :
            k \in DOMAIN instructions[i].accounts} : i \in DOMAIN instructions}
MCAlternatives ==
  LET recognised ==
        {transaction \in MCMessages :
           /\ transaction.fee_payer = "signer"
           /\ \A i \in DOMAIN transaction.instructions :
                /\ transaction.instructions[i] \in Whole \ {Memo}
                /\ Len(transaction.instructions[i].accounts) < 20
           /\ process_message_body(transaction, Expert).printed}
  IN  recognised \cup
      UNION {{Message(instructions, TRUE, "signer") :
                instructions \in Changed(transaction.instructions)} :
               transaction \in recognised}

MCSwapOffers == {[amount |-> 5, recipient |-> "to"]}
=============================================================================
