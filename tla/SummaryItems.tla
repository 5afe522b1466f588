--------------------------- MODULE SummaryItems ---------------------------
(***************************************************************************)
(* The steps of a review, and what the app demands of them when it signs   *)
(* for the Exchange application: src/src/handle_sign_message.c and         *)
(* src/src/swap/handle_swap_sign_transaction.c.                            *)
(***************************************************************************)
EXTENDS Integers, Sequences

\* A SummaryItem; value is what the union holds or points to.
Item(kind, title, value) == [kind |-> kind, title |-> title, value |-> value]

\* check_swap_amount and check_swap_recipient without the titles.
AnyTitleMatches(item, offer) ==
  \/ item.kind = "Amount" /\ item.value = offer.amount
  \/ item.kind = "Pubkey" /\ item.value = offer.recipient

\* check_swap_amount and check_swap_recipient.  They compare texts, which differ
\* when the values do.
SwapItemMatches(item, offer) ==
  \/ item.kind = "Amount" /\ item.title = "Transfer" /\ item.value = offer.amount
  \/ item.kind = "Pubkey" /\ item.title = "Recipient" /\ item.value = offer.recipient

\* check_swap_validity without the comparison of the recipient.
CheckSwapAmountOnly(steps, offer) ==
  /\ Len(steps) = 2
  /\ \E i \in DOMAIN steps : steps[i].kind = "Amount" /\ SwapItemMatches(steps[i], offer)

\* check_swap_validity: two steps, the amount and the recipient agreed on.  The
\* last step of a kind decides, as the loop assigns amount_ok and recipient_ok.
check_swap_validity(steps, offer) ==
  LET kinds == {steps[i].kind : i \in DOMAIN steps}
  IN  /\ Len(steps) = 2
      /\ kinds = {"Amount", "Pubkey"}
      /\ \A i \in DOMAIN steps : SwapItemMatches(steps[i], offer)
=============================================================================
