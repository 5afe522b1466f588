--------------------------- MODULE MCRenecDevice ---------------------------
(***************************************************************************)
(* RenecDevice on a small instance: one byte per derivation index, bytes   *)
(* 0..2, a message buffer of three bytes, and a table of what librenec     *)
(* makes of the messages that fit in it.                                   *)
(***************************************************************************)
EXTENDS RenecDevice, FiniteSets

MCByte == 0..2

\* Path <<1>> and <<2>> are the app's own; BOLOS refuses <<0>>.
MCDerivable == {<<1>>, <<2>>}

Sign(ins, p1, p2, data) ==
  [frame : {"whole"}, cla : {"E0"}, ins : ins, p1 : p1, p2 : p2, data : data]

\* Whole first chunks of the signing instructions: no data, a bad number of paths,
\* no path, a path length out of range, a truncated path, a message one byte longer
\* than the buffer; then good heads.
MCBadFirst ==
  {<<>>, <<2, 1, 1>>, <<1>>, <<1, 0>>, <<1, 2, 1>>, <<1, 1, 1, 1, 1, 1, 1>>}
MCWholeFirst == {<<1, 1, 1, 1>>, <<1, 1, 1, 1, 2>>, <<1, 1, 1, 2, 1>>, <<1, 1, 0, 2>>}
MCOpenFirst == {<<1, 1, 1>>, <<1, 1, 1, 1>>, <<1, 1, 2, 1>>}

MCSignApdus ==
  Sign({"SignMessage"}, {"CONFIRM"}, {{}}, MCWholeFirst \cup MCBadFirst) \cup
  Sign({"SignMessage"}, {"CONFIRM"}, {{"MORE"}}, MCOpenFirst) \cup
  Sign({"SignOffchainMessage"}, {"CONFIRM"}, {{"MORE"}}, {<<1, 1, 1, 1>>, <<1, 1, 0, 1>>}) \cup
  Sign({"SignMessage"}, {"NON_CONFIRM"}, {{}}, {<<1, 1, 1, 1>>}) \cup
  Sign({"SignOffchainMessage"}, {"NON_CONFIRM"}, {{}, {"MORE"}}, {<<1, 1, 1, 1>>}) \cup
  Sign(SignInstructions, {"CONFIRM"}, {{"EXTEND"}}, {<<1>>, <<2>>}) \cup
  Sign(SignInstructions, {"CONFIRM"}, {{"EXTEND", "MORE"}}, {<<1>>}) \cup
  Sign({"SignMessage"}, {"CONFIRM"}, {{"EXTEND"}}, {<<>>, <<1, 1, 1, 2>>}) \cup
  Sign({"SignMessage"}, {"NON_CONFIRM"}, {{"EXTEND"}}, {<<1>>})

MCOtherApdus ==
  Sign({"GetPubkey"}, {"CONFIRM"}, {{}}, {<<>>, <<1, 0>>, <<1, 1>>}) \cup
  Sign({"GetPubkey"}, {"NON_CONFIRM"}, {{}}, {<<1, 2>>}) \cup
  Sign({"GetPubkey"}, {"CONFIRM"}, {{"MORE"}, {"EXTEND"}}, {<<1, 1>>}) \cup
  [frame : {"whole", "short", "bad_length"}, cla : {"E0"},
   ins : {"GetAppConfiguration"}, p1 : {"CONFIRM"}, p2 : {{}}, data : {<<>>}] \cup
  [frame : {"whole"}, cla : {"E0", "other"},
   ins : {"Unknown"}, p1 : {"CONFIRM"}, p2 : {{}}, data : {<<>>}]

MCApdus == MCSignApdus \cup MCOtherApdus

\* A transaction starts with its kind: 1 pays amount 1 to the key of its second
\* byte, 2 is not recognised (a nonce step may be left behind), 0 is no header.
\* A message of one byte 1 holds ignored instructions only: not recognised either.
MCMessageHeader(m) ==
  [parsed    |-> Len(m) > 0 /\ m[1] # 0,
   signers   |-> IF Len(m) = 3 THEN {<<1>>, <<2>>} ELSE {<<1>>},
   fee_payer |-> IF Len(m) = 3 THEN <<2>> ELSE <<1>>]

MCMessageBody(m, signer, expert) ==
  IF Len(m) > 1 /\ m[1] = 1
  THEN [processed |-> TRUE,
        primary   |-> <<Item("Amount", "Transfer", 1)>>,
        general   |-> <<Item("Pubkey", "Recipient", <<m[2]>>)>> \o
                      (IF expert THEN <<Item("Timestamp", "Lockup time", m[2])>> ELSE <<>>),
        nonce     |-> <<>>]
  ELSE [processed |-> FALSE, primary |-> <<>>, general |-> <<>>,
        nonce     |-> IF expert /\ Len(m) = 2
                      THEN <<Item("Pubkey", "Nonce account", <<2>>)>> ELSE <<>>]

MCDisplayable(item) == ~(item.kind = "Timestamp" /\ item.value = 2)

\* An off-chain message: two bytes of header (version and format), then text.
MCOffchainHeader(m) ==
  [parsed  |-> Len(m) >= 2,
   version |-> IF Len(m) >= 2 /\ m[1] = 1 THEN 0 ELSE 1,
   format  |-> IF Len(m) >= 2 THEN m[2] - 1 ELSE 0,
   length  |-> Len(m) - 2]
MCOffchainText(m) ==
  IF Len(m) < 3 \/ m[3] = 1 THEN "ascii" ELSE IF m[3] = 2 THEN "utf8" ELSE "binary"

MCSwapOffers == {[amount |-> 1, recipient |-> <<2>>]}
=============================================================================
