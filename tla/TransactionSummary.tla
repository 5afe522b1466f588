------------------------ MODULE TransactionSummary ------------------------
(***************************************************************************)
(* The singleton of src/librenec/transaction_summary.c: one slot for each  *)
(* special item and an array of general ones.  A getter hands out a slot   *)
(* that is still unused, or NULL; the printers do not test for NULL.       *)
(***************************************************************************)
EXTENDS SummaryItems, Filters, FiniteSetsExt

NUM_GENERAL_ITEMS == 11

\* enum SummaryItemKind but for SummaryItemNone.
ItemKinds == {"Amount", "TokenAmount", "I64", "U64", "Pubkey", "Hash", "SizedString",
              "String", "Timestamp"}

Unused == Item("None", "", 0)
Used(item) == item.kind # "None"

SpecialSlots == {"primary", "nonce_account", "nonce_authority", "fee_payer"}

\* transaction_summary_reset
ResetSummary ==
  [primary |-> Unused, nonce_account |-> Unused, nonce_authority |-> Unused,
   fee_payer |-> Unused, general |-> [i \in 1..NUM_GENERAL_ITEMS |-> Unused]]

\* The array with one entry less.
UnusedGeneralButLast(summary) ==
  {i \in 1..(NUM_GENERAL_ITEMS - 1) : ~Used(summary.general[i])}

\* The entries transaction_summary_general_item chooses from.
UnusedGeneral(summary) == {i \in 1..NUM_GENERAL_ITEMS : ~Used(summary.general[i])}

\* The getter of the slot does not return NULL.
IsAvailable(summary, slot) ==
  IF slot = "general" THEN UnusedGeneral(summary) # {} ELSE ~Used(summary[slot])

\* A getter followed by a setter.
SetItem(summary, slot, item) ==
  IF slot = "general"
  THEN [summary EXCEPT !.general[Min(UnusedGeneral(summary))] = item]
  ELSE [summary EXCEPT ![slot] = item]

\* The items that is_summary_item_used, in their order.
UsedOf(items) == Kept(items, {i \in DOMAIN items : Used(items[i])})

\* The items with SET_IF_USED taking every one.
AllItems(summary) ==
  <<summary.primary>> \o summary.general \o
  <<summary.nonce_account, summary.nonce_authority, summary.fee_payer>>

\* transaction_summary_finalize: the kinds of the items, in the order of review;
\* it succeeds if the primary item has been set.
FinalizedItems(summary) ==
  UsedOf(<<summary.primary>>) \o UsedOf(summary.general) \o
  UsedOf(<<summary.nonce_account, summary.nonce_authority>>) \o UsedOf(<<summary.fee_payer>>)
transaction_summary_finalize(summary) ==
  [ok |-> Used(summary.primary),
   kinds |-> [i \in DOMAIN FinalizedItems(summary) |-> FinalizedItems(summary)[i].kind]]

\* transaction_summary_find_item without the test of is_summary_item_used on the
\* nonce items.
FindItemWithNonce(summary, item_index) ==
  LET general == UsedOf(summary.general)
      nonce   == <<summary.nonce_account, summary.nonce_authority>>
      n       == Len(general)
  IN  CASE item_index = 0 -> summary.primary
        [] item_index \in 1..n -> general[item_index]
        [] item_index \in (n + 1)..(n + Len(nonce)) -> nonce[item_index - n]
        [] item_index = n + Len(nonce) + 1 -> summary.fee_payer
        [] OTHER -> Unused

\* transaction_summary_find_item, its own walk over the slots.  An index past the
\* last item gives NULL or an unused item; neither can be displayed.
transaction_summary_find_item(summary, item_index) ==
  LET general == UsedOf(summary.general)
      nonce   == UsedOf(<<summary.nonce_account, summary.nonce_authority>>)
      n       == Len(general)
  IN  CASE item_index = 0 -> summary.primary
        [] item_index \in 1..n -> general[item_index]
        [] item_index \in (n + 1)..(n + Len(nonce)) -> nonce[item_index - n]
        [] item_index = n + Len(nonce) + 1 -> summary.fee_payer
        [] OTHER -> Unused
=============================================================================
