--------------------------- MODULE SigningDevice ---------------------------
(***************************************************************************)
(* What a hardware wallet promises about signatures, with no word on how   *)
(* it keeps its state: bytes are assembled in the order they are received, *)
(* a review shows the assembled item and nothing else can be received      *)
(* until the user has decided, and a signature is of the item reviewed.    *)
(* An offer of the Exchange application is good for one unattended         *)
(* signature, of a transaction that honours it.                            *)
(***************************************************************************)
EXTENDS Sequences

CONSTANTS
  Instruction,      \* what can be signed
  Transaction,      \* the instruction an offer is about
  Byte,
  Chunks,           \* the payloads a chunk may carry
  Offers,
  Honours(_, _, _)  \* Honours(message, path, offer)

VARIABLES
  assembled,   \* the item being received, or NoItem
  presented,   \* the item under review, or NoItem
  signed,      \* what the signature last sent is of, or NoSignature
  offer        \* the offer still open, or NoOffer

vars == <<assembled, presented, signed, offer>>

NoItem == [instruction |-> "None", path |-> <<>>, message |-> <<>>]
NoSignature == [path |-> <<>>, message |-> <<>>]
NoOffer == [amount |-> 0, recipient |-> <<>>]

Item == [instruction : Instruction, path : Seq(Byte), message : Seq(Byte)]
SignatureOf(item) == [path |-> item.path, message |-> item.message]

Reviewing == presented # NoItem

\* item is a first chunk, or the item being received and one more chunk.
Receives(item) ==
  /\ item \in Item
  /\ \E chunk \in Chunks :
       \/ item.message = chunk
       \/ /\ assembled # NoItem
          /\ item = [assembled EXCEPT !.message = @ \o chunk]

Init ==
  /\ assembled = NoItem
  /\ presented = NoItem
  /\ signed = NoSignature
  /\ offer = NoOffer

Assemble ==
  /\ ~Reviewing
  /\ Receives(assembled')
  /\ signed' = NoSignature
  /\ UNCHANGED <<presented, offer>>

\* Anything else the host sends ends the transfer.
Discard ==
  /\ ~Reviewing
  /\ assembled' = NoItem
  /\ signed' = NoSignature
  /\ UNCHANGED <<presented, offer>>

Present ==
  /\ ~Reviewing
  /\ Receives(presented')
  /\ assembled' = NoItem
  /\ signed' = NoSignature
  /\ UNCHANGED offer

Approve ==
  /\ Reviewing
  /\ signed' = SignatureOf(presented)
  /\ presented' = NoItem
  /\ UNCHANGED <<assembled, offer>>

Refuse ==
  /\ Reviewing
  /\ signed' = NoSignature
  /\ presented' = NoItem
  /\ UNCHANGED <<assembled, offer>>

\* The offer is used up, with a signature that honours it or with none.
SignForOffer ==
  /\ ~Reviewing
  /\ offer # NoOffer
  /\ Receives([instruction |-> Transaction, path |-> signed'.path,
               message |-> signed'.message])
  /\ Honours(signed'.message, signed'.path, offer)
  /\ assembled' = NoItem
  /\ offer' = NoOffer
  /\ UNCHANGED presented

DeclineOffer ==
  /\ ~Reviewing
  /\ offer # NoOffer
  /\ assembled' = NoItem
  /\ signed' = NoSignature
  /\ offer' = NoOffer
  /\ UNCHANGED presented

\* The device is started, with an offer or without one.
Start ==
  /\ presented = NoItem
  /\ offer = NoOffer
  /\ offer' \in Offers \cup {NoOffer}
  /\ assembled' = NoItem
  /\ signed' = NoSignature
  /\ UNCHANGED presented

\* It is stopped or reset, and nothing survives.
Stop ==
  /\ assembled' = NoItem
  /\ presented' = NoItem
  /\ offer' = NoOffer
  /\ UNCHANGED signed

Next ==
  \/ Assemble
  \/ Discard
  \/ Present
  \/ Approve
  \/ Refuse
  \/ SignForOffer
  \/ DeclineOffer
  \/ Start
  \/ Stop

Spec == Init /\ [][Next]_vars
=============================================================================
