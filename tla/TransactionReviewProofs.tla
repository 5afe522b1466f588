---------------------- MODULE TransactionReviewProofs ----------------------
(***************************************************************************)
(* Why the summary has room for every transaction, and why what is in it   *)
(* when it is reviewed is what the printers put there. At the end, why     *)
(* experts can tell by the steps what a recognised transaction means.      *)
(***************************************************************************)
EXTENDS PrintedContentsProofs

-----------------------------------------------------------------------------
(* The inductive invariant. *)

\* All that is put in the summary for a transaction, in its order.
Whole(transaction, config) ==
  LET body == process_message_body(transaction, config)
  IN  body.items \o When(~body.printed, Unrecognized(transaction)) \o
      FeePayer(transaction, config)

\* The part of it that is put there up to some phase.
PutBy(reached, transaction, config) ==
  LET body == process_message_body(transaction, config)
  IN  CASE reached \in {"printing", "refused"} -> body.items
        [] reached = "unrecognized" -> body.items \o Unrecognized(transaction)
        [] OTHER -> Whole(transaction, config)

\* One to three special items come first, the primary one among them, each for a slot
\* of its own; then at most eleven general ones, and then perhaps the fee payer.
Shape(puts, d) ==
  /\ d \in 1..Len(puts)
  /\ \A i \in 1..d : puts[i].slot \in SpecialSlots \ {"fee_payer"}
  /\ \A i, j \in 1..d : puts[i].slot = puts[j].slot => i = j
  /\ \E i \in 1..d : puts[i].slot = "primary"
  /\ \A i \in (d + 1)..Len(puts) :
       \/ puts[i].slot = "general" /\ i <= d + NUM_GENERAL_ITEMS
       \/ puts[i].slot = "fee_payer" /\ i = Len(puts)
  /\ \A i \in 1..Len(puts) : puts[i].item.kind \in ItemKinds

\* The summary holds the first k of them and nothing else: the general items have
\* filled the array from its start.
Slots == SpecialSlots \cup {"general"}
Holds(sum, puts, d, k) ==
  /\ sum = [slot \in Slots |-> sum[slot]]
  /\ sum.general = [j \in 1..NUM_GENERAL_ITEMS |->
                      IF j + d <= k /\ puts[j + d].slot = "general" THEN puts[j + d].item
                      ELSE Unused]
  /\ \A slot \in SpecialSlots :
       /\ (\A i \in 1..k : puts[i].slot # slot) => sum[slot] = Unused
       /\ \A i \in 1..k : puts[i].slot = slot => sum[slot] = puts[i].item

\* The puts after the first k.
After(puts, k) == [i \in 1..(Len(puts) - k) |-> puts[k + i]]

\* How far the puts have come.
Step(so_far, d, k) ==
  /\ Shape(Whole(message, print_config), d)
  /\ Holds(summary, Whole(message, print_config), d, k)
  /\ pending = After(so_far, k)
  /\ phase = "review" => k = Len(so_far)
Progress ==
  LET so_far == PutBy(phase, message, print_config)
  IN  \E d \in 1..3 : \E k \in 0..Len(so_far) : Step(so_far, d, k)

\* What the steps are, and the last one displayed.
Walk ==
  /\ phase # "review" => kinds = <<>> /\ shown = NotShown
  /\ phase = "review" => kinds = transaction_summary_finalize(summary).kinds
  /\ shown # NotShown =>
       /\ shown.index \in 0..(Len(kinds) - 1)
       /\ shown.item = transaction_summary_find_item(summary, shown.index)

\* Why a transaction's items have their slots: the puts still to come are those that
\* the summary does not hold yet.
ReviewInv ==
  /\ message \in Messages
  /\ settings \in [expert : BOOLEAN, allow_blind_sign : BOOLEAN]
  /\ phase \in {"printing", "unrecognized", "payer", "review", "refused"}
  /\ phase = "unrecognized" => ~Processed
  /\ phase = "refused" => ~Processed /\ ~settings.allow_blind_sign
  /\ Progress
  /\ Walk

-----------------------------------------------------------------------------
(* The shape of all that is put. *)

PayerItems(items) ==
  /\ IsSeq(items)
  /\ Len(items) \in 0..1
  /\ \A i \in 1..Len(items) : IsPut(items[i]) /\ items[i].slot = "fee_payer"

\* The fee payer is one item in its slot, or none.
LEMMA PayerIsOne ==
  ASSUME NEW transaction, NEW config
  PROVE  PayerItems(FeePayer(transaction, config))
<1>1. PayerItems(PrintTo("fee_payer", "Pubkey", "Fee_payer", transaction.fee_payer))
  BY OnePut, PrintersKinds DEF PayerItems
<1>2. PayerItems(<<>>)
  BY NoItem DEF PayerItems, UpTo
<1> QED BY <1>1, <1>2 DEF FeePayer, When

\* A blind review puts its title and the hash.
LEMMA UnrecognizedLed ==
  ASSUME NEW transaction
  PROVE  Led(Unrecognized(transaction), 1)
BY OnePrimary, OneGeneral, LedTogether, PrintersKinds DEF Unrecognized

\* Nonce, items and payer one behind the other have the shape of all that is put.
LEMMA ShapeOfParts ==
  ASSUME NEW nonce, NEW led, NEW payer,
         NonceItems(nonce), Led(led, NUM_GENERAL_ITEMS), PayerItems(payer)
  PROVE  \E d \in 1..3 : Shape(nonce \o led \o payer, d)
<1> DEFINE puts == nonce \o led \o payer
<1>1. PICK m \in {0, 2}, n \in 1..12, p \in 0..1 : m = Len(nonce) /\ n = Len(led) /\ p = Len(payer)
  BY DEF NonceItems, Led, PayerItems, NUM_GENERAL_ITEMS
<1>2. /\ IsSeq(nonce \o led) /\ Len(nonce \o led) = m + n
      /\ \A i \in 1..m : (nonce \o led)[i] = nonce[i]
      /\ \A i \in 1..n : (nonce \o led)[m + i] = led[i]
  BY <1>1, Concatenation DEF NonceItems, Led
<1>3. /\ Len(puts) = m + n + p
      /\ \A i \in 1..(m + n) : puts[i] = (nonce \o led)[i]
      /\ \A i \in 1..p : puts[m + n + i] = payer[i]
  BY <1>1, <1>2, Concatenation DEF PayerItems
<1>4. \A i \in 1..m : puts[i] = nonce[i]
  BY <1>2, <1>3
<1>5. \A i \in 1..n : puts[m + i] = led[i]
  <2>1. \A i \in 1..n : m + i \in 1..(m + n)
    OBVIOUS
  <2> QED BY <1>2, <1>3, <2>1
<1> HIDE DEF puts
<1>6. \A i \in 1..m : IsPut(puts[i]) /\ puts[i].slot = IF i = 1 THEN "nonce_account" ELSE "nonce_authority"
  BY <1>1, <1>4 DEF NonceItems
<1>7. IsPut(puts[m + 1]) /\ puts[m + 1].slot = "primary"
  BY <1>1, <1>5 DEF Led
<1>8. \A i \in (m + 2)..(m + n) : IsPut(puts[i]) /\ puts[i].slot = "general"
  <2> TAKE i \in (m + 2)..(m + n)
  <2>1. i - m \in 2..n /\ i = m + (i - m)
    OBVIOUS
  <2>2. puts[i] = led[i - m]
    BY <1>5, <2>1
  <2> QED BY <1>1, <2>1, <2>2 DEF Led
<1>9. \A i \in (m + n + 1)..(m + n + p) : IsPut(puts[i]) /\ puts[i].slot = "fee_payer" /\ i = m + n + p
  <2> TAKE i \in (m + n + 1)..(m + n + p)
  <2>1. p = 1 /\ i = m + n + 1
    OBVIOUS
  <2>2. puts[m + n + 1] = payer[1] /\ 1 \in 1..Len(payer)
    BY <1>1, <1>3, <2>1
  <2>3. IsPut(payer[1]) /\ payer[1].slot = "fee_payer"
    BY <2>2 DEF PayerItems
  <2> QED BY <2>1, <2>2, <2>3
<1>10. Shape(puts, m + 1)
  <2>1. m + 1 \in 1..Len(puts)
    BY <1>3
  <2>2. \A i \in 1..(m + 1) : puts[i].slot =
          IF i = m + 1 THEN "primary" ELSE IF i = 1 THEN "nonce_account" ELSE "nonce_authority"
    BY <1>6, <1>7
  <2>3. \A i \in (m + 2)..(m + n + p) : i \in (m + 2)..(m + n) \/ i \in (m + n + 1)..(m + n + p)
    OBVIOUS
  <2>4. \A i \in 1..Len(puts) : IsPut(puts[i])
    BY <1>3, <1>6, <1>7, <1>8, <1>9
  <2>5. \A i, j \in 1..(m + 1) : puts[i].slot = puts[j].slot => i = j
    <3> SUFFICES ASSUME NEW i \in 1..(m + 1), NEW j \in 1..(m + 1), puts[i].slot = puts[j].slot
                 PROVE  i = j
      OBVIOUS
    <3>1. CASE m = 0
      BY <3>1
    <3>2. CASE m = 2
      <4>1. i \in {1, 2, 3} /\ j \in {1, 2, 3}
        BY <3>2
      <4>2. puts[1].slot = "nonce_account" /\ puts[2].slot = "nonce_authority" /\ puts[3].slot = "primary"
        BY <2>2, <3>2
      <4> QED BY <4>1, <4>2
    <3> QED BY <1>1, <3>1, <3>2
  <2>6. \A i \in 1..(m + 1) : puts[i].slot \in SpecialSlots \ {"fee_payer"}
    BY <2>2 DEF SpecialSlots
  <2>7. \A i \in (m + 1 + 1)..Len(puts) :
       \/ puts[i].slot = "general" /\ i <= m + 1 + NUM_GENERAL_ITEMS
       \/ puts[i].slot = "fee_payer" /\ i = Len(puts)
    BY <1>3, <1>8, <1>9, <2>3 DEF NUM_GENERAL_ITEMS
  <2> QED BY <2>1, <1>7, <2>4, <2>5, <2>6, <2>7 DEF Shape, IsPut
<1> QED BY <1>1, <1>10 DEF puts

\* Eleven general items are enough.
LEMMA WholeShape ==
  ASSUME NEW transaction \in Messages, NEW config
  PROVE  \E d \in 1..3 : Shape(Whole(transaction, config), d)
<1> DEFINE body == process_message_body(transaction, config)
           payer == FeePayer(transaction, config)
<1>1. BodyWell(body)
  BY MessagesAssumption, MessageBody DEF MessagesAssumption, IsTransaction
<1>2. PICK nonce, rest : BodyIs(body, nonce, rest)
  BY <1>1 DEF BodyWell
<1>3. PayerItems(payer)
  BY PayerIsOne
<1>4. Whole(transaction, config) =
        body.items \o When(~body.printed, Unrecognized(transaction)) \o payer
  BY DEF Whole
<1> HIDE DEF body, payer
<1>5. CASE body.printed
  <2>1. Led(rest, NUM_GENERAL_ITEMS) /\ body.items = nonce \o rest
    BY <1>2, <1>5 DEF BodyIs
  <2>2. IsSeq(nonce \o rest)
    BY <1>2, <2>1, Concatenation DEF BodyIs, NonceItems, Led
  <2>3. (nonce \o rest) \o <<>> = nonce \o rest
    BY <2>2, ConcatEmptySeq DEF IsSeq
  <2>4. Whole(transaction, config) = nonce \o rest \o payer
    BY <1>4, <1>5, <2>1, <2>3 DEF When
  <2> QED BY <1>2, <1>3, <2>1, <2>4, ShapeOfParts DEF BodyIs
<1>6. CASE ~body.printed
  <2>1. rest = <<>> /\ body.items = nonce \o rest /\ IsSeq(nonce)
    BY <1>2, <1>6 DEF BodyIs, NonceItems
  <2>2. body.items = nonce
    BY <2>1, ConcatEmptySeq DEF IsSeq
  <2>3. Whole(transaction, config) = nonce \o Unrecognized(transaction) \o payer
    BY <1>4, <1>6, <2>2 DEF When
  <2>4. Led(Unrecognized(transaction), NUM_GENERAL_ITEMS)
    BY UnrecognizedLed, UpToMore DEF NUM_GENERAL_ITEMS
  <2> QED BY <1>2, <1>3, <2>3, <2>4, ShapeOfParts DEF BodyIs
<1> QED BY <1>5, <1>6

-----------------------------------------------------------------------------
(* What is still to be put. *)

LEMMA AfterNone ==
  ASSUME NEW puts, IsSeq(puts)
  PROVE  After(puts, 0) = puts
<1>1. PICK S : puts \in Seq(S)
  BY DEF IsSeq
<1>2. PICK n \in Nat : n = Len(puts) /\ puts \in [1..n -> S]
  BY <1>1, LenProperties
<1>3. After(puts, 0) = [i \in 1..n |-> puts[i]]
  <2>1. \A i \in 1..n : 0 + i = i
    OBVIOUS
  <2>2. 1..(n - 0) = 1..n
    OBVIOUS
  <2> QED BY <1>2, <2>1, <2>2 DEF After
<1> QED BY <1>2, <1>3

\* What is still to be put after one more item.
LEMMA AfterLength ==
  ASSUME NEW puts, Len(puts) \in Nat, NEW k \in 0..Len(puts)
  PROVE  /\ After(puts, k) = <<>> <=> k = Len(puts)
         /\ k < Len(puts) => /\ Head(After(puts, k)) = puts[k + 1]
                             /\ Tail(After(puts, k)) = After(puts, k + 1)
<1>1. PICK n \in Nat : n = Len(puts)
  OBVIOUS
<1> DEFINE S == {puts[i] : i \in 1..n}
<1>2. After(puts, k) = [i \in 1..(n - k) |-> puts[k + i]]
  BY <1>1 DEF After
<1>3. n - k \in Nat /\ \A i \in 1..(n - k) : puts[k + i] \in S
  BY <1>1
<1>4. After(puts, k) \in Seq(S) /\ Len(After(puts, k)) = n - k
  <2> HIDE DEF S
  <2>1. After(puts, k) \in [1..(n - k) -> S]
    BY <1>2, <1>3
  <2> QED BY <1>3, <2>1, Listed
<1>5. After(puts, k) = <<>> <=> k = n
  BY <1>4, <1>1, EmptySeq
<1>6. ASSUME k < n PROVE Head(After(puts, k)) = puts[k + 1]
  BY <1>2, <1>4, <1>6
<1>7. ASSUME k < n PROVE Tail(After(puts, k)) = After(puts, k + 1)
  <2> DEFINE t == Tail(After(puts, k))
             u == After(puts, k + 1)
  <2>1. u = [i \in 1..(n - (k + 1)) |-> puts[(k + 1) + i]] /\ n - (k + 1) \in Nat
    BY <1>1, <1>7 DEF After
  <2>2. \A i \in 1..(n - (k + 1)) : puts[(k + 1) + i] \in S
    BY <1>1, <1>7
  <2>3. u \in Seq(S) /\ Len(u) = n - (k + 1)
    <3> HIDE DEF S, u
    <3>1. u \in [1..(n - (k + 1)) -> S]
      BY <2>1, <2>2
    <3> QED BY <2>1, <3>1, Listed
  <2>4. /\ t \in Seq(S) /\ Len(t) = (n - k) - 1
        /\ \A i \in 1..Len(t) : t[i] = After(puts, k)[i + 1]
    <3>1. After(puts, k) # <<>>
      BY <1>5, <1>7
    <3> HIDE DEF S
    <3> QED BY <1>4, <3>1, HeadTailProperties
  <2> HIDE DEF t, u
  <2>5. Len(t) = Len(u) /\ Len(t) = n - (k + 1)
    BY <2>3, <2>4, <1>1
  <2>6. \A i \in 1..Len(t) : t[i] = u[i]
    <3> TAKE i \in 1..Len(t)
    <3>1. i \in 1..(n - (k + 1)) /\ i + 1 \in 1..(n - k) /\ k + (i + 1) = (k + 1) + i
      BY <2>5, <1>7, <1>1
    <3>2. t[i] = After(puts, k)[i + 1]
      BY <2>4
    <3> QED BY <3>1, <3>2, <1>2, <2>1
  <2> HIDE DEF S
  <2>7. t = u
    BY <2>3, <2>4, <2>5, <2>6, SeqEqual
  <2> QED BY <2>7 DEF t, u
<1> QED BY <1>1, <1>5, <1>6, <1>7

\* After the first part, the second is still to be put.
LEMMA AfterFirst ==
  ASSUME NEW a, NEW b, IsSeq(a), IsSeq(b)
  PROVE  After(a \o b, Len(a)) = b
<1>1. PICK S : b \in Seq(S)
  BY DEF IsSeq
<1>2. PICK m \in Nat, n \in Nat : m = Len(a) /\ n = Len(b)
  BY Concatenation
<1>3. Len(a \o b) = m + n /\ \A i \in 1..n : (a \o b)[m + i] = b[i]
  BY <1>2, Concatenation
<1>4. b = [i \in 1..n |-> b[i]]
  BY <1>1, <1>2, LenProperties
<1>5. (m + n) - m = n
  OBVIOUS
<1> QED BY <1>2, <1>3, <1>4, <1>5 DEF After

-----------------------------------------------------------------------------
(* An item is put. *)

\* The general items fill the array from its start.
LEMMA FirstUnused ==
  ASSUME NEW sum, NEW n \in 1..NUM_GENERAL_ITEMS,
         \A j \in 1..NUM_GENERAL_ITEMS : Used(sum.general[j]) <=> j < n
  PROVE  UnusedGeneral(sum) # {} /\ Min(UnusedGeneral(sum)) = n
<1>1. n \in UnusedGeneral(sum) /\ \A j \in UnusedGeneral(sum) : j \in Int /\ n <= j
  BY DEF UnusedGeneral, NUM_GENERAL_ITEMS
<1>2. \A j \in UnusedGeneral(sum) : (\A l \in UnusedGeneral(sum) : j <= l) => j = n
  BY <1>1 DEF NUM_GENERAL_ITEMS
<1> QED BY <1>1, <1>2 DEF Min

\* When k items hold their slots, the slot of the next one is free, and then it holds it.
LEMMA PutHolds ==
  ASSUME NEW sum, NEW puts, Len(puts) \in Nat, NEW d \in 1..3, NEW k \in 0..(Len(puts) - 1),
         Shape(puts, d), Holds(sum, puts, d, k)
  PROVE  /\ IsAvailable(sum, puts[k + 1].slot)
         /\ Holds(SetItem(sum, puts[k + 1].slot, puts[k + 1].item), puts, d, k + 1)
<1> DEFINE slot == puts[k + 1].slot
           item == puts[k + 1].item
           after == SetItem(sum, slot, item)
<1>1. PICK n \in Nat : n = Len(puts)
  OBVIOUS
<1>2. item.kind \in ItemKinds /\ Used(item)
  BY <1>1 DEF Shape, Used, ItemKinds
<1>3. ~Used(Unused)
  BY DEF Used, Unused, Item
<1>4. \A i \in 1..n : Used(puts[i].item)
  BY <1>1 DEF Shape, Used, ItemKinds
<1>5. "general" \notin SpecialSlots
  BY DEF SpecialSlots
<1>6. CASE slot \in SpecialSlots
  <2>1. \A i \in 1..k : puts[i].slot # slot
    <3>1. CASE k + 1 \in 1..d
      BY <3>1 DEF Shape
    <3>2. CASE k + 1 \in (d + 1)..n
      <4>1. slot = "fee_payer" /\ k + 1 = n
        BY <3>2, <1>1, <1>5, <1>6 DEF Shape
      <4>2. \A i \in 1..k : i \in 1..d \/ (i \in (d + 1)..n /\ i # n)
        BY <4>1
      <4> QED BY <1>1, <4>1, <4>2 DEF Shape
    <3> QED BY <1>1, <3>1, <3>2
  <2>2. sum[slot] = Unused
    BY <2>1, <1>6 DEF Holds
  <2>3. IsAvailable(sum, slot)
    BY <2>2, <1>3, <1>5, <1>6 DEF IsAvailable
  <2>4. after = [sum EXCEPT ![slot] = item]
    BY <1>5, <1>6 DEF SetItem
  <2> HIDE DEF after
  <2>5. /\ after = [s \in Slots |-> after[s]]
        /\ after[slot] = item
        /\ \A s \in Slots : s # slot => after[s] = sum[s]
    BY <2>4, <1>6 DEF Holds, Slots
  <2>6. after.general = sum.general
    BY <2>5, <1>5, <1>6 DEF Slots
  <2>7. after.general = [j \in 1..NUM_GENERAL_ITEMS |->
                      IF j + d <= k + 1 /\ puts[j + d].slot = "general" THEN puts[j + d].item
                      ELSE Unused]
    <3>1. \A j \in 1..NUM_GENERAL_ITEMS :
            (j + d <= k + 1 /\ puts[j + d].slot = "general") <=>
            (j + d <= k /\ puts[j + d].slot = "general")
      BY <1>5, <1>6 DEF NUM_GENERAL_ITEMS
    <3> QED BY <2>6, <3>1 DEF Holds
  <2>8. ASSUME NEW s \in SpecialSlots
        PROVE  /\ (\A i \in 1..(k + 1) : puts[i].slot # s) => after[s] = Unused
               /\ \A i \in 1..(k + 1) : puts[i].slot = s => after[s] = puts[i].item
    <3>1. \A i \in 1..(k + 1) : i \in 1..k \/ i = k + 1
      OBVIOUS
    <3>2. CASE s = slot
      BY <3>1, <3>2, <2>1, <2>5
    <3>3. CASE s # slot
      <4>1. after[s] = sum[s]
        BY <3>3, <2>5 DEF Slots
      <4>2. \A i \in 1..k : i \in 1..(k + 1)
        OBVIOUS
      <4> QED BY <3>1, <3>3, <4>1, <4>2 DEF Holds
    <3> QED BY <3>2, <3>3
  <2>9. Holds(after, puts, d, k + 1)
    BY <2>5, <2>7, <2>8 DEF Holds
  <2> QED BY <2>3, <2>9 DEF after
<1>7. CASE slot = "general"
  <2>1. k + 1 \in (d + 1)..n /\ k + 1 <= d + NUM_GENERAL_ITEMS
    <3>1. k + 1 \notin 1..d
      BY <1>5, <1>7 DEF Shape
    <3>2. k + 1 \in (d + 1)..n
      BY <1>1, <3>1
    <3> QED BY <1>1, <1>7, <3>2 DEF Shape
  <2>2. (k + 1) - d \in 1..NUM_GENERAL_ITEMS
    BY <2>1 DEF NUM_GENERAL_ITEMS
  <2>3. \A j \in 1..NUM_GENERAL_ITEMS : Used(sum.general[j]) <=> j < (k + 1) - d
    <3> TAKE j \in 1..NUM_GENERAL_ITEMS
    <3>1. sum.general[j] = IF j + d <= k /\ puts[j + d].slot = "general" THEN puts[j + d].item
                           ELSE Unused
      BY DEF Holds
    <3>2. j \in Nat /\ (j < (k + 1) - d <=> j + d <= k)
      BY DEF NUM_GENERAL_ITEMS
    <3>3. ASSUME j + d <= k PROVE puts[j + d].slot = "general" /\ Used(puts[j + d].item)
      <4>1. j + d \in (d + 1)..n /\ j + d \in 1..n /\ j + d # n
        BY <3>2, <3>3, <1>1
      <4> QED BY <4>1, <1>1, <1>4 DEF Shape
    <3> QED BY <3>1, <3>2, <3>3, <1>3
  <2>4. UnusedGeneral(sum) # {} /\ Min(UnusedGeneral(sum)) = (k + 1) - d
    BY <2>2, <2>3, FirstUnused
  <2>5. IsAvailable(sum, slot)
    BY <1>7, <2>4 DEF IsAvailable
  <2>6. after = [sum EXCEPT !.general[(k + 1) - d] = item]
    BY <1>7, <2>4 DEF SetItem
  <2> HIDE DEF after
  <2>7. /\ after = [s \in Slots |-> after[s]]
        /\ after.general = [sum.general EXCEPT ![(k + 1) - d] = item]
        /\ \A s \in SpecialSlots : after[s] = sum[s]
    BY <2>6, <1>5 DEF Holds, Slots
  <2>8. after.general = [j \in 1..NUM_GENERAL_ITEMS |->
                      IF j + d <= k + 1 /\ puts[j + d].slot = "general" THEN puts[j + d].item
                      ELSE Unused]
    <3> DEFINE G(l) == [j \in 1..NUM_GENERAL_ITEMS |->
                          IF j + d <= l /\ puts[j + d].slot = "general" THEN puts[j + d].item
                          ELSE Unused]
    <3>1. sum.general = G(k)
      BY DEF Holds
    <3>2. ASSUME NEW j \in 1..NUM_GENERAL_ITEMS
          PROVE  G(k + 1)[j] = IF j = (k + 1) - d THEN item ELSE G(k)[j]
      <4>1. j \in Nat
        BY DEF NUM_GENERAL_ITEMS
      <4>2. CASE j = (k + 1) - d
        <5>1. j + d = k + 1
          BY <4>1, <4>2
        <5> QED BY <5>1, <4>2, <1>7
      <4>3. CASE j # (k + 1) - d
        <5>1. j + d <= k + 1 <=> j + d <= k
          BY <4>1, <4>3
        <5> QED BY <5>1, <4>3
      <4> QED BY <4>2, <4>3
    <3>3. G(k + 1) = [j \in 1..NUM_GENERAL_ITEMS |-> G(k + 1)[j]]
      OBVIOUS
    <3>4. [G(k) EXCEPT ![(k + 1) - d] = item] =
            [j \in 1..NUM_GENERAL_ITEMS |-> IF j = (k + 1) - d THEN item ELSE G(k)[j]]
      BY <2>2
    <3>5. G(k + 1) = [G(k) EXCEPT ![(k + 1) - d] = item]
      <4> HIDE DEF G
      <4> QED BY <3>2, <3>3, <3>4
    <3> QED BY <3>1, <3>5, <2>7
  <2>9. ASSUME NEW s \in SpecialSlots
        PROVE  /\ (\A i \in 1..(k + 1) : puts[i].slot # s) => after[s] = Unused
               /\ \A i \in 1..(k + 1) : puts[i].slot = s => after[s] = puts[i].item
    <3>1. \A i \in 1..(k + 1) : i \in 1..k \/ i = k + 1
      OBVIOUS
    <3>2. \A i \in 1..k : i \in 1..(k + 1)
      OBVIOUS
    <3>3. after[s] = sum[s] /\ s # slot
      BY <1>5, <1>7, <2>7
    <3> QED BY <3>1, <3>2, <3>3 DEF Holds
  <2>10. Holds(after, puts, d, k + 1)
    BY <2>7, <2>8, <2>9 DEF Holds
  <2> QED BY <2>5, <2>10 DEF after
<1>8. slot \in SpecialSlots \/ slot = "general"
  <2>1. k + 1 \in 1..d \/ k + 1 \in (d + 1)..n
    BY <1>1
  <2> QED BY <1>1, <2>1 DEF Shape, SpecialSlots
<1> QED BY <1>6, <1>7, <1>8

-----------------------------------------------------------------------------
(* The invariant is inductive. *)

\* What is put by a phase is where all that is put begins.
LEMMA WholeParts ==
  ASSUME NEW transaction \in Messages, NEW config
  PROVE  LET body == process_message_body(transaction, config)
         IN  /\ IsSeq(body.items)
             /\ IsSeq(Unrecognized(transaction))
             /\ IsSeq(FeePayer(transaction, config))
             /\ body.printed => Whole(transaction, config) =
                                  body.items \o FeePayer(transaction, config)
             /\ ~body.printed => Whole(transaction, config) =
                                  body.items \o Unrecognized(transaction) \o
                                  FeePayer(transaction, config)
<1> DEFINE body == process_message_body(transaction, config)
           payer == FeePayer(transaction, config)
<1>1. PICK nonce, rest : BodyIs(body, nonce, rest)
  BY MessagesAssumption, MessageBody DEF MessagesAssumption, IsTransaction, BodyWell
<1>2. IsSeq(payer)
  BY PayerIsOne DEF PayerItems
<1>3. IsSeq(Unrecognized(transaction))
  BY UnrecognizedLed DEF Led
<1>4. Whole(transaction, config) =
        body.items \o When(~body.printed, Unrecognized(transaction)) \o payer
  BY DEF Whole
<1> HIDE DEF body, payer
<1>5. IsSeq(<<>>)
  BY NoItem DEF UpTo
<1>6. IsSeq(rest)
  BY <1>1, <1>5 DEF BodyIs, Led
<1>7. IsSeq(body.items)
  BY <1>1, <1>6, Concatenation DEF BodyIs, NonceItems
<1>8. body.items \o <<>> = body.items
  BY <1>7, ConcatEmptySeq DEF IsSeq
<1>9. body.printed => Whole(transaction, config) = body.items \o payer
  BY <1>4, <1>8 DEF When
<1>10. ~body.printed =>
         Whole(transaction, config) = body.items \o Unrecognized(transaction) \o payer
  BY <1>4 DEF When
<1> QED BY <1>2, <1>3, <1>7, <1>9, <1>10 DEF body, payer

Phases == {"printing", "unrecognized", "payer", "review", "refused"}

StartsWith(whole, start) == \E rest : IsSeq(rest) /\ whole = start \o rest

\* Three parts begin with the first.
LEMMA ThreeParts ==
  ASSUME NEW a, NEW b, NEW c, IsSeq(a), IsSeq(b), IsSeq(c)
  PROVE  StartsWith((a \o b) \o c, a)
<1>1. PICK A : a \in Seq(A)
  BY DEF IsSeq
<1>2. PICK B : b \in Seq(B)
  BY DEF IsSeq
<1>3. PICK C : c \in Seq(C)
  BY DEF IsSeq
<1> DEFINE T == A \cup B \cup C
<1>4. a \in Seq(T) /\ b \in Seq(T) /\ c \in Seq(T)
  BY <1>1, <1>2, <1>3, SeqMonotonic
<1> HIDE DEF T
<1>5. (a \o b) \o c = a \o (b \o c)
  BY <1>4, ConcatAssociative
<1>6. IsSeq(b \o c)
  BY Concatenation
<1> QED BY <1>5, <1>6 DEF StartsWith

\* One sequence is where the other begins.
Begins(so_far, whole) ==
  /\ Len(so_far) \in Nat /\ Len(whole) \in Nat
  /\ Len(so_far) <= Len(whole)
  /\ \A i \in 1..Len(so_far) : so_far[i] = whole[i]

\* What has been put by a phase is the beginning of all that will be put, and in the end
\* the whole.
LEMMA PutByBegins ==
  ASSUME NEW transaction \in Messages, NEW config, NEW reached \in Phases,
         reached = "unrecognized" => ~process_message_body(transaction, config).printed
  PROVE  LET whole  == Whole(transaction, config)
             so_far == PutBy(reached, transaction, config)
         IN  /\ IsSeq(so_far)
             /\ Begins(so_far, whole)
             /\ reached \in {"payer", "review"} => so_far = whole
<1> DEFINE body == process_message_body(transaction, config)
           payer == FeePayer(transaction, config)
           unrecognized == Unrecognized(transaction)
           whole == Whole(transaction, config)
           so_far == PutBy(reached, transaction, config)
<1>1. /\ IsSeq(body.items) /\ IsSeq(unrecognized) /\ IsSeq(payer)
      /\ body.printed => whole = body.items \o payer
      /\ ~body.printed => whole = body.items \o unrecognized \o payer
  BY WholeParts
<1>2. /\ reached \in {"printing", "refused"} => so_far = body.items
      /\ reached = "unrecognized" => so_far = body.items \o unrecognized
      /\ reached \in {"payer", "review"} => so_far = whole
  BY DEF PutBy, Phases
<1>3. reached = "unrecognized" => ~body.printed
  OBVIOUS
<1> HIDE DEF body, payer, unrecognized, whole, so_far
<1>4. IsSeq(body.items \o unrecognized)
  BY <1>1, Concatenation
<1>5. IsSeq(whole)
  <2>1. IsSeq(body.items \o payer) /\ IsSeq(body.items \o unrecognized \o payer)
    BY <1>1, <1>4, Concatenation
  <2> QED BY <1>1, <2>1
<1>6. ASSUME NEW rest, IsSeq(rest), IsSeq(so_far), whole = so_far \o rest
      PROVE  Begins(so_far, whole)
  <2>1. PICK m \in Nat, n \in Nat : m = Len(so_far) /\ n = Len(rest)
    BY <1>6, Concatenation
  <2>2. /\ Len(whole) = m + n
        /\ \A i \in 1..Len(so_far) : so_far[i] = whole[i]
    BY <1>6, <2>1, Concatenation
  <2> QED BY <2>1, <2>2 DEF Begins
<1>7. reached \in {"printing", "refused"} => Begins(so_far, whole)
  <2> SUFFICES ASSUME reached \in {"printing", "refused"} PROVE Begins(so_far, whole)
    OBVIOUS
  <2>1. CASE body.printed
    BY <1>1, <1>2, <1>6, <2>1
  <2>2. CASE ~body.printed
    <3>1. IsSeq(body.items) /\ IsSeq(unrecognized) /\ IsSeq(payer)
      BY <1>1
    <3>2. StartsWith((body.items \o unrecognized) \o payer, body.items)
      BY <3>1, ThreeParts
    <3>3. StartsWith(whole, so_far)
      BY <1>1, <1>2, <2>2, <3>2
    <3>4. PICK rest : IsSeq(rest) /\ whole = so_far \o rest
      BY <3>3 DEF StartsWith
    <3>5. IsSeq(so_far)
      BY <1>1, <1>2
    <3> QED BY <1>6, <3>4, <3>5
  <2> QED BY <2>1, <2>2
<1>8. reached = "unrecognized" => Begins(so_far, whole)
  BY <1>1, <1>2, <1>3, <1>4, <1>6
<1>9. reached \in {"payer", "review"} => Begins(so_far, whole)
  <2>1. PICK n \in Nat : n = Len(whole)
    BY <1>5, LenProperties DEF IsSeq
  <2> QED BY <1>2, <2>1 DEF Begins
<1>10. Begins(so_far, whole)
  BY <1>7, <1>8, <1>9 DEF Phases
<1>11. so_far = body.items => IsSeq(so_far)
  BY <1>1
<1>12. IsSeq(so_far)
  BY <1>2, <1>4, <1>5, <1>11 DEF Phases
<1> QED BY <1>2, <1>10, <1>12 DEF whole, so_far

\* The reset summary holds no item.
LEMMA InitHolds ==
  ASSUME NEW puts, NEW d \in 1..3
  PROVE  Holds(ResetSummary, puts, d, 0)
<1>1. ResetSummary = [slot \in Slots |-> ResetSummary[slot]]
  BY DEF ResetSummary, Slots, SpecialSlots
<1>2. ResetSummary.general = [j \in 1..NUM_GENERAL_ITEMS |->
                      IF j + d <= 0 /\ puts[j + d].slot = "general" THEN puts[j + d].item
                      ELSE Unused]
  <2>1. \A j \in 1..NUM_GENERAL_ITEMS : ~(j + d <= 0)
    BY DEF NUM_GENERAL_ITEMS
  <2> QED BY <2>1 DEF ResetSummary
<1>3. \A slot \in SpecialSlots : ResetSummary[slot] = Unused
  BY DEF ResetSummary, SpecialSlots
<1>4. \A slot \in SpecialSlots : \A i \in 1..0 : puts[i].slot = slot => ResetSummary[slot] = puts[i].item
  OBVIOUS
<1> QED BY <1>1, <1>2, <1>3, <1>4 DEF Holds

\* process_message_body has just been called, and nothing is in the summary yet.
THEOREM InitReview == Init => ReviewInv
<1> SUFFICES ASSUME Init PROVE ReviewInv
  OBVIOUS
<1> DEFINE whole  == Whole(message, print_config)
           so_far == PutBy(phase, message, print_config)
<1>1. /\ message \in Messages
      /\ settings \in [expert : BOOLEAN, allow_blind_sign : BOOLEAN]
      /\ phase = "printing" /\ pending = process_message_body(message, print_config).items
      /\ summary = ResetSummary /\ kinds = <<>> /\ shown = NotShown
  BY DEF Init
<1>2. PICK d \in 1..3 : Shape(whole, d)
  BY <1>1, WholeShape
<1>3. IsSeq(so_far) /\ Len(so_far) \in Nat
  BY <1>1, PutByBegins DEF Phases, Begins
<1>4. so_far = pending
  BY <1>1 DEF PutBy
<1>5. pending = After(so_far, 0)
  BY <1>3, <1>4, AfterNone
<1>6. Holds(summary, whole, d, 0)
  BY <1>1, InitHolds
<1>7. Progress
  <2>1. 0 \in 0..Len(so_far)
    BY <1>3
  <2>2. phase # "review"
    BY <1>1
  <2>3. Step(so_far, d, 0)
    BY <1>2, <1>5, <1>6, <2>2 DEF Step
  <2> HIDE DEF so_far
  <2> QED BY <2>1, <2>3 DEF Progress, so_far
<1>8. Walk
  BY <1>1 DEF Walk
<1> QED BY <1>1, <1>7, <1>8 DEF ReviewInv

\* What the invariant says of a state whose puts have come to an end.
LEMMA AllPut ==
  ASSUME ReviewInv, pending = <<>>
  PROVE  LET so_far == PutBy(phase, message, print_config)
         IN  \E d \in 1..3 : Step(so_far, d, Len(so_far)) /\ Len(so_far) \in Nat
<1> DEFINE so_far == PutBy(phase, message, print_config)
<1>1. PICK d \in 1..3, k \in 0..Len(so_far) : Step(so_far, d, k)
  BY DEF ReviewInv, Progress
<1>2. IsSeq(so_far) /\ Len(so_far) \in Nat
  BY PutByBegins DEF ReviewInv, Processed, Phases, Begins
<1> HIDE DEF so_far
<1>3. After(so_far, k) = <<>>
  BY <1>1 DEF Step
<1>4. k = Len(so_far)
  BY <1>2, <1>3, AfterLength
<1> QED BY <1>1, <1>2, <1>4 DEF so_far

\* More is still to be put.
LEMMA MoreToPut ==
  ASSUME ReviewInv, UNCHANGED <<message, settings, summary>>,
         NEW reached \in Phases, NEW rest, IsSeq(rest),
         reached = "unrecognized" => ~Processed,
         pending = <<>>, phase' = reached, pending' = rest, phase' # "review",
         PutBy(reached, message, print_config) = PutBy(phase, message, print_config) \o rest
  PROVE  Progress'
<1>1. PICK before, so_far, whole :
        /\ before = PutBy(phase, message, print_config)
        /\ so_far = PutBy(reached, message, print_config)
        /\ whole = Whole(message, print_config)
  OBVIOUS
<1>2. PICK d \in 1..3, n \in Nat : Step(before, d, n) /\ n = Len(before)
  BY <1>1, AllPut
<1>3. IsSeq(before)
  BY <1>1, PutByBegins DEF ReviewInv, Processed, Phases
<1>4. message' = message /\ print_config' = print_config
  BY DEF print_config
<1>5. /\ so_far = PutBy(phase, message, print_config)' /\ whole = Whole(message, print_config)'
      /\ so_far = before \o rest
  BY <1>1, <1>4
<1>6. Shape(whole, d) /\ Holds(summary, whole, d, n)
  BY <1>1, <1>2 DEF Step
<1>7. n \in 0..Len(so_far)
  <2>1. PICK m \in Nat : m = Len(rest)
    BY Concatenation
  <2>2. Len(so_far) = n + m
    BY <1>2, <1>3, <1>5, <2>1, Concatenation
  <2> QED BY <2>1, <2>2
<1>8. pending' = After(so_far, n)
  BY <1>2, <1>3, <1>5, AfterFirst
<1>9. Step(so_far, d, n)'
  BY <1>5, <1>6, <1>8 DEF Step
<1> QED BY <1>5, <1>7, <1>9 DEF Progress

\* PutItem keeps the invariant: no getter returns NULL.
LEMMA PutItemStep ==
  ASSUME ReviewInv, PutItem
  PROVE  ReviewInv'
<1> DEFINE so_far == PutBy(phase, message, print_config)
           whole  == Whole(message, print_config)
<1>1. /\ pending # <<>> /\ phase \in {"printing", "unrecognized", "payer"}
      /\ message' = message /\ settings' = settings /\ kinds' = kinds /\ shown' = shown
      /\ print_config' = print_config
  BY DEF PutItem, print_config
<1>2. PICK d \in 1..3, k \in 0..Len(so_far) : Step(so_far, d, k)
  BY DEF ReviewInv, Progress
<1>3. IsSeq(so_far) /\ Begins(so_far, whole)
  BY PutByBegins DEF ReviewInv, Processed, Phases
<1>4. Shape(whole, d) /\ Holds(summary, whole, d, k) /\ pending = After(so_far, k)
  BY <1>2 DEF Step
<1> HIDE DEF so_far, whole
<1>5. k < Len(so_far) /\ k \in 0..(Len(whole) - 1) /\ Len(so_far) \in Nat /\ Len(whole) \in Nat
  BY <1>1, <1>3, <1>4, AfterLength DEF Begins
<1>6. Head(pending) = whole[k + 1] /\ Tail(pending) = After(so_far, k + 1)
  <2>1. Head(pending) = so_far[k + 1] /\ Tail(pending) = After(so_far, k + 1)
    BY <1>4, <1>5, AfterLength
  <2>2. k + 1 \in 1..Len(so_far)
    BY <1>5
  <2> QED BY <2>1, <2>2, <1>3 DEF Begins
<1>7. /\ IsAvailable(summary, Head(pending).slot)
      /\ Holds(SetItem(summary, Head(pending).slot, Head(pending).item), whole, d, k + 1)
  BY <1>4, <1>5, <1>6, PutHolds
<1>8. /\ summary' = SetItem(summary, Head(pending).slot, Head(pending).item)
      /\ pending' = Tail(pending)
      /\ phase' = phase
  BY <1>7 DEF PutItem
<1>9. Progress'
  <2>1. Step(so_far, d, k + 1)'
    BY <1>1, <1>4, <1>6, <1>7, <1>8 DEF Step, whole, so_far
  <2>2. k + 1 \in 0..Len(so_far)
    BY <1>5
  <2>3. so_far = PutBy(phase, message, print_config)'
    BY <1>1, <1>8 DEF so_far
  <2> QED BY <1>1, <1>6, <1>8, <2>1, <2>2, <2>3 DEF Progress, Step
<1>10. Walk'
  BY <1>1, <1>8 DEF ReviewInv, Walk
<1>11. Processed' = Processed
  BY <1>1 DEF Processed
<1> QED BY <1>1, <1>8, <1>9, <1>10, <1>11 DEF ReviewInv

\* The fallback to blind signing keeps the invariant.
LEMMA FallBackStep ==
  ASSUME ReviewInv, FallBack
  PROVE  ReviewInv'
<1>1. /\ phase = "printing" /\ pending = <<>> /\ ~Processed
      /\ phase' = "unrecognized" /\ pending' = Unrecognized(message)
      /\ UNCHANGED <<message, settings, summary>> /\ kinds' = kinds /\ shown' = shown
      /\ print_config' = print_config
  BY DEF FallBack, Processed, print_config
<1>2. PutBy("unrecognized", message, print_config) =
        PutBy(phase, message, print_config) \o Unrecognized(message)
  BY <1>1 DEF PutBy
<1>3. IsSeq(Unrecognized(message))
  BY UnrecognizedLed DEF Led
<1>4. Progress'
  BY <1>1, <1>2, <1>3, MoreToPut DEF Phases
<1>5. Walk'
  BY <1>1 DEF ReviewInv, Walk
<1>6. Processed' = Processed
  BY <1>1 DEF Processed
<1> QED BY <1>1, <1>4, <1>5, <1>6 DEF ReviewInv

\* So does the refusal for want of blind signing.
LEMMA RefuseStep ==
  ASSUME ReviewInv, Refuse
  PROVE  ReviewInv'
<1>1. /\ phase = "printing" /\ pending = <<>> /\ ~Processed /\ ~settings.allow_blind_sign
      /\ phase' = "refused" /\ pending' = pending /\ summary' = summary
      /\ message' = message /\ settings' = settings /\ kinds' = kinds /\ shown' = shown
      /\ print_config' = print_config
  BY DEF Refuse, Processed, print_config
<1>2. PutBy("refused", message, print_config) = PutBy(phase, message, print_config)
  BY <1>1 DEF PutBy
<1>3. Progress'
  <2>1. PICK d \in 1..3, k \in 0..Len(PutBy(phase, message, print_config)) :
          Step(PutBy(phase, message, print_config), d, k)
    BY DEF ReviewInv, Progress
  <2>2. Step(PutBy(phase, message, print_config), d, k)'
    BY <1>1, <1>2, <2>1 DEF Step
  <2> QED BY <1>1, <1>2, <2>1, <2>2 DEF Progress
<1>4. Walk'
  BY <1>1 DEF ReviewInv, Walk
<1>5. Processed' = Processed
  BY <1>1 DEF Processed
<1> QED BY <1>1, <1>3, <1>4, <1>5 DEF ReviewInv

\* So does the step for the fee payer.
LEMMA AddFeePayerStep ==
  ASSUME ReviewInv, AddFeePayer
  PROVE  ReviewInv'
<1>1. /\ phase \in {"printing", "unrecognized"} /\ pending = <<>>
      /\ phase = "printing" <=> Processed
      /\ phase' = "payer" /\ pending' = FeePayer(message, print_config)
      /\ UNCHANGED <<message, settings, summary>> /\ kinds' = kinds /\ shown' = shown
      /\ print_config' = print_config
  BY DEF AddFeePayer, Processed, print_config, ReviewInv
<1>2. PutBy("payer", message, print_config) =
        PutBy(phase, message, print_config) \o FeePayer(message, print_config)
  <2>1. message \in Messages
    BY DEF ReviewInv
  <2>2. CASE phase = "printing"
    BY <1>1, <2>1, <2>2, WholeParts DEF PutBy, Processed
  <2>3. CASE phase = "unrecognized"
    BY <1>1, <2>1, <2>3, WholeParts DEF PutBy, Processed
  <2> QED BY <1>1, <2>2, <2>3
<1>3. IsSeq(FeePayer(message, print_config))
  BY PayerIsOne DEF PayerItems
<1>4. Progress'
  BY <1>1, <1>2, <1>3, MoreToPut DEF Phases
<1>5. Walk'
  BY <1>1 DEF ReviewInv, Walk
<1> QED BY <1>1, <1>4, <1>5 DEF ReviewInv

\* The primary item is there.
LEMMA FinalizeSucceeds ==
  ASSUME NEW sum, NEW puts, NEW d \in 1..3, Len(puts) \in Nat,
         Shape(puts, d), Holds(sum, puts, d, Len(puts))
  PROVE  transaction_summary_finalize(sum).ok
<1>1. PICK i \in 1..d : puts[i].slot = "primary"
  BY DEF Shape
<1>2. i \in 1..Len(puts) /\ puts[i].item.kind \in ItemKinds
  BY DEF Shape
<1>3. sum.primary = puts[i].item
  BY <1>1, <1>2 DEF Holds, SpecialSlots
<1>4. Used(sum.primary)
  BY <1>2, <1>3 DEF Used, ItemKinds
<1> QED BY <1>4 DEF transaction_summary_finalize

\* So does the finalization, which succeeds.
LEMMA FinalizeStep ==
  ASSUME ReviewInv, Finalize
  PROVE  ReviewInv'
<1> DEFINE so_far == PutBy(phase, message, print_config)
<1>1. /\ phase = "payer" /\ pending = <<>>
      /\ UNCHANGED <<message, settings, pending, summary>> /\ shown' = shown
      /\ print_config' = print_config
  BY DEF Finalize, print_config
<1>2. PICK d \in 1..3 : Step(so_far, d, Len(so_far)) /\ Len(so_far) \in Nat
  BY <1>1, AllPut
<1>3. so_far = Whole(message, print_config) /\ so_far = PutBy("review", message, print_config)
  BY <1>1 DEF PutBy
<1> HIDE DEF so_far
<1>4. /\ Shape(so_far, d) /\ Holds(summary, so_far, d, Len(so_far))
      /\ pending = After(so_far, Len(so_far))
  BY <1>2, <1>3 DEF Step
<1>5. transaction_summary_finalize(summary).ok
  BY <1>2, <1>4, FinalizeSucceeds
<1>6. phase' = "review" /\ kinds' = transaction_summary_finalize(summary).kinds
  BY <1>5 DEF Finalize
<1>7. Progress'
  <2> PICK puts : puts = so_far
    OBVIOUS
  <2>1. PICK n \in Nat : n = Len(puts)
    BY <1>2
  <2>2. puts = PutBy(phase, message, print_config)' /\ puts = Whole(message, print_config)'
    BY <1>1, <1>3, <1>6
  <2>3. Step(puts, d, n)'
    BY <1>1, <1>4, <2>1, <2>2 DEF Step
  <2>4. n \in 0..Len(puts)
    BY <2>1
  <2> QED BY <2>2, <2>3, <2>4 DEF Progress
<1>8. Walk'
  BY <1>1, <1>6 DEF ReviewInv, Walk, NotShown
<1> QED BY <1>1, <1>6, <1>7, <1>8 DEF ReviewInv

\* So does a step of the user's walk: its item is found and has the kind announced.
LEMMA DisplayItemStep ==
  ASSUME ReviewInv, NEW index, DisplayItem(index)
  PROVE  ReviewInv'
<1>1. /\ phase = "review" /\ index \in 0..(Len(kinds) - 1)
      /\ shown' = [index |-> index, item |-> transaction_summary_find_item(summary, index)]
      /\ message' = message /\ settings' = settings /\ phase' = phase /\ pending' = pending
      /\ summary' = summary /\ kinds' = kinds /\ print_config' = print_config
  BY DEF DisplayItem, print_config
<1>2. Progress'
  BY <1>1 DEF ReviewInv, Progress, Step
<1>3. Walk'
  BY <1>1 DEF ReviewInv, Walk
<1>4. Processed' = Processed
  BY <1>1 DEF Processed
<1> QED BY <1>1, <1>2, <1>3, <1>4 DEF ReviewInv

\* Every step of the handler and every step of the user keeps the invariant.
THEOREM ReviewInductive == ReviewInv /\ [Next]_vars => ReviewInv'
<1> SUFFICES ASSUME ReviewInv, [Next]_vars PROVE ReviewInv'
  OBVIOUS
<1>1. CASE PutItem
  BY <1>1, PutItemStep
<1>2. CASE FallBack
  BY <1>2, FallBackStep
<1>3. CASE Refuse
  BY <1>3, RefuseStep
<1>4. CASE AddFeePayer
  BY <1>4, AddFeePayerStep
<1>5. CASE Finalize
  BY <1>5, FinalizeStep
<1>6. ASSUME NEW index \in 0..(NUM_GENERAL_ITEMS + 3), DisplayItem(index) PROVE ReviewInv'
  BY <1>6, DisplayItemStep
<1>7. CASE UNCHANGED vars
  <2>1. /\ message' = message /\ settings' = settings /\ phase' = phase /\ pending' = pending
        /\ summary' = summary /\ kinds' = kinds /\ shown' = shown /\ print_config' = print_config
    BY <1>7 DEF vars, print_config
  <2>2. Progress'
    BY <2>1 DEF ReviewInv, Progress, Step
  <2>3. Walk'
    BY <2>1 DEF ReviewInv, Walk
  <2>4. Processed' = Processed
    BY <2>1 DEF Processed
  <2> QED BY <2>1, <2>2, <2>3, <2>4 DEF ReviewInv
<1> QED BY <1>1, <1>2, <1>3, <1>4, <1>5, <1>6, <1>7 DEF Next

-----------------------------------------------------------------------------
(* The steps of a review. *)

IsConcatenation(c, a, b, k, l) ==
  /\ IsSeq(c) /\ Len(c) = k + l
  /\ \A i \in 1..k : c[i] = a[i]
  /\ \A i \in 1..l : c[k + i] = b[i]

\* Two sequences one behind the other, as a fact about places.
LEMMA ConcatOf ==
  ASSUME NEW a, NEW b, NEW c, IsSeq(a), IsSeq(b), c = a \o b,
         NEW k \in Nat, NEW l \in Nat, k = Len(a), l = Len(b)
  PROVE  IsConcatenation(c, a, b, k, l)
BY Concatenation DEF IsConcatenation

\* The items used of some.
AreUsed(used, items, n) ==
  /\ IsSeq(used)
  /\ Len(used) \in 0..n
  /\ \A j \in 1..Len(used) : \E i \in 1..n : Used(items[i]) /\ used[j] = items[i]
  /\ \A i \in 1..n : Used(items[i]) => \E j \in 1..Len(used) : used[j] = items[i]

\* What a filter on used items keeps of them, in their order.
LEMMA UsedItems ==
  ASSUME NEW items, NEW n \in Nat, n = Len(items), DOMAIN items = 1..n
  PROVE  AreUsed(UsedOf(items), items, n)
<1> DEFINE places == {i \in DOMAIN items : Used(items[i])}
<1>1. UsedOf(items) = Kept(items, places)
  BY DEF UsedOf
<1>2. \A i \in 1..n : i \in places <=> Used(items[i])
  OBVIOUS
<1> HIDE DEF places
<1>3. AreKept(UsedOf(items), items, places, n)
  BY <1>1, KeptSequence
<1> QED BY <1>2, <1>3 DEF AreKept, AreUsed

\* One item is used or not.
LEMMA UsedItem ==
  ASSUME NEW item
  PROVE  /\ IsSeq(UsedOf(<<item>>))
         /\ Used(item) => Len(UsedOf(<<item>>)) = 1 /\ UsedOf(<<item>>)[1] = item
         /\ ~Used(item) => Len(UsedOf(<<item>>)) = 0
<1>1. PICK items : items = <<item>>
  OBVIOUS
<1>2. Len(items) = 1 /\ DOMAIN items = 1..1 /\ items[1] = item
  BY <1>1
<1>3. AreUsed(UsedOf(items), items, 1)
  BY <1>2, UsedItems
<1> QED BY <1>1, <1>2, <1>3 DEF AreUsed

\* A summary with an array of eleven, and a primary item.
IsSummary(sum) ==
  /\ Len(sum.general) = NUM_GENERAL_ITEMS
  /\ DOMAIN sum.general = 1..NUM_GENERAL_ITEMS
  /\ Used(sum.primary)

\* What the steps are made of: the primary item, n general ones, m for the nonce and
\* p for the fee payer.
StepsAre(sum, n, m, p) ==
  /\ n \in 0..NUM_GENERAL_ITEMS /\ m \in 0..2 /\ p \in 0..1
  /\ n = Len(UsedOf(sum.general))
  /\ m = Len(UsedOf(<<sum.nonce_account, sum.nonce_authority>>))
  /\ p = Len(UsedOf(<<sum.fee_payer>>))
  /\ AreUsed(UsedOf(sum.general), sum.general, NUM_GENERAL_ITEMS)
  /\ AreUsed(UsedOf(<<sum.nonce_account, sum.nonce_authority>>),
             <<sum.nonce_account, sum.nonce_authority>>, 2)
  /\ IsSeq(FinalizedItems(sum))
  /\ Len(FinalizedItems(sum)) = 1 + n + m + p
  /\ FinalizedItems(sum)[1] = sum.primary
  /\ \A j \in 1..n : FinalizedItems(sum)[1 + j] = UsedOf(sum.general)[j]
  /\ \A j \in 1..m : FinalizedItems(sum)[1 + n + j] =
                       UsedOf(<<sum.nonce_account, sum.nonce_authority>>)[j]
  /\ p = 1 => /\ FinalizedItems(sum)[1 + n + m + 1] = sum.fee_payer
              /\ Used(sum.fee_payer)

\* The steps of a summary: its primary item, the used general ones, the nonce, the fee
\* payer.
LEMMA StepsAreMadeOf ==
  ASSUME NEW sum, IsSummary(sum)
  PROVE  \E n, m, p : StepsAre(sum, n, m, p)
<1> DEFINE general == UsedOf(sum.general)
           nonces  == <<sum.nonce_account, sum.nonce_authority>>
           nonce   == UsedOf(nonces)
           payer   == UsedOf(<<sum.fee_payer>>)
           first   == UsedOf(<<sum.primary>>)
           steps   == FinalizedItems(sum)
<1>a. AreUsed(general, sum.general, NUM_GENERAL_ITEMS)
  BY UsedItems DEF IsSummary, NUM_GENERAL_ITEMS
<1>b. AreUsed(nonce, nonces, 2)
  <2>1. Len(nonces) = 2 /\ DOMAIN nonces = 1..2
    OBVIOUS
  <2> HIDE DEF nonces
  <2> QED BY <2>1, UsedItems
<1>1. IsSeq(general) /\ Len(general) \in 0..NUM_GENERAL_ITEMS
  BY <1>a DEF AreUsed
<1>2. IsSeq(nonce) /\ Len(nonce) \in 0..2
  BY <1>b DEF AreUsed
<1>3. /\ IsSeq(payer) /\ Len(payer) \in 0..1
      /\ Len(payer) = 1 => Used(sum.fee_payer) /\ payer[1] = sum.fee_payer
  <2>1. Used(sum.fee_payer) \/ ~Used(sum.fee_payer)
    OBVIOUS
  <2> QED BY <2>1, UsedItem
<1>4. IsSeq(first) /\ Len(first) = 1 /\ first[1] = sum.primary
  BY UsedItem DEF IsSummary
<1>5. steps = ((first \o general) \o nonce) \o payer
  BY DEF FinalizedItems
<1>6. PICK n, m, p : n = Len(general) /\ m = Len(nonce) /\ p = Len(payer)
  OBVIOUS
<1>7. n \in 0..NUM_GENERAL_ITEMS /\ m \in 0..2 /\ p \in 0..1 /\ n \in Nat /\ m \in Nat
  BY <1>1, <1>2, <1>3, <1>6 DEF NUM_GENERAL_ITEMS
<1> HIDE DEF general, nonce, payer, first, steps, nonces
<1>8. PICK s1 : s1 = first \o general
  OBVIOUS
<1>9. /\ IsSeq(s1) /\ Len(s1) = 1 + n /\ s1[1] = sum.primary
      /\ \A j \in 1..n : s1[1 + j] = general[j]
  <2>1. IsSeq(first) /\ IsSeq(general) /\ 1 = Len(first) /\ n \in Nat /\ 1 \in Nat
    BY <1>1, <1>4, <1>7
  <2>2. IsConcatenation(s1, first, general, 1, n)
    BY <1>6, <1>8, <2>1, ConcatOf
  <2> QED BY <1>4, <2>2 DEF IsConcatenation
<1>10. PICK s2 : s2 = s1 \o nonce
  OBVIOUS
<1>11. /\ IsSeq(s2) /\ Len(s2) = 1 + n + m
       /\ \A j \in 1..(1 + n) : s2[j] = s1[j]
       /\ \A j \in 1..m : s2[1 + n + j] = nonce[j]
  <2>1. 1 + n \in Nat /\ m \in Nat
    BY <1>7
  <2>2. IsSeq(s1) /\ IsSeq(nonce) /\ 1 + n = Len(s1)
    BY <1>2, <1>9
  <2>3. IsConcatenation(s2, s1, nonce, 1 + n, m)
    BY <1>6, <1>10, <2>1, <2>2, ConcatOf
  <2> QED BY <2>3 DEF IsConcatenation
<1>12. steps = s2 \o payer
  BY <1>5, <1>8, <1>10
<1>13. /\ IsSeq(steps) /\ Len(steps) = 1 + n + m + p
       /\ \A j \in 1..(1 + n + m) : steps[j] = s2[j]
       /\ \A j \in 1..p : steps[1 + n + m + j] = payer[j]
  <2>1. 1 + n + m \in Nat /\ p \in Nat
    BY <1>7
  <2>2. IsSeq(s2) /\ IsSeq(payer) /\ 1 + n + m = Len(s2)
    BY <1>3, <1>11
  <2>3. IsConcatenation(steps, s2, payer, 1 + n + m, p)
    BY <1>6, <1>12, <2>1, <2>2, ConcatOf
  <2> QED BY <2>3 DEF IsConcatenation
<1>14. steps[1] = sum.primary
  <2>1. 1 \in 1..(1 + n) /\ 1 \in 1..(1 + n + m)
    BY <1>7
  <2> QED BY <1>9, <1>11, <1>13, <2>1
<1>15. \A j \in 1..n : steps[1 + j] = general[j]
  <2>1. \A j \in 1..n : 1 + j \in 1..(1 + n) /\ 1 + j \in 1..(1 + n + m)
    BY <1>7
  <2> QED BY <2>1, <1>9, <1>11, <1>13
<1>16. \A j \in 1..m : steps[1 + n + j] = nonce[j]
  <2>1. \A j \in 1..m : 1 + n + j \in 1..(1 + n + m)
    BY <1>7
  <2> QED BY <2>1, <1>11, <1>13
<1>17. p = 1 => steps[1 + n + m + 1] = sum.fee_payer /\ Used(sum.fee_payer)
  BY <1>3, <1>6, <1>13
<1>18. StepsAre(sum, n, m, p)
  BY <1>a, <1>b, <1>6, <1>7, <1>13, <1>14, <1>15, <1>16, <1>17
  DEF StepsAre, general, nonce, nonces, payer, steps
<1> QED BY <1>18

\* transaction_summary_find_item finds what transaction_summary_finalize counted.
LEMMA FindAgrees ==
  ASSUME NEW sum, IsSummary(sum), NEW index \in 0..(Len(FinalizedItems(sum)) - 1)
  PROVE  /\ transaction_summary_find_item(sum, index) = FinalizedItems(sum)[index + 1]
         /\ Used(FinalizedItems(sum)[index + 1])
<1> DEFINE general == UsedOf(sum.general)
           nonces  == <<sum.nonce_account, sum.nonce_authority>>
           nonce   == UsedOf(nonces)
           steps   == FinalizedItems(sum)
           found   == transaction_summary_find_item(sum, index)
<1>1. PICK n, m, p : StepsAre(sum, n, m, p)
  BY StepsAreMadeOf
<1>2. /\ n \in 0..11 /\ m \in 0..2 /\ p \in 0..1
      /\ n = Len(general) /\ m = Len(nonce)
      /\ Len(steps) = 1 + n + m + p
      /\ steps[1] = sum.primary
      /\ \A j \in 1..n : steps[1 + j] = general[j]
      /\ \A j \in 1..m : steps[1 + n + j] = nonce[j]
      /\ p = 1 => steps[1 + n + m + 1] = sum.fee_payer /\ Used(sum.fee_payer)
  BY <1>1 DEF StepsAre, NUM_GENERAL_ITEMS
<1>3. index \in 0..(n + m + p)
  BY <1>2
<1>4. /\ index = 0 => found = sum.primary
      /\ index \in 1..n => found = general[index]
      /\ index \in (n + 1)..(n + m) => found = nonce[index - n]
      /\ index = n + m + 1 => found = sum.fee_payer
  <2>1. found = CASE index = 0 -> sum.primary
                  [] index \in 1..n -> general[index]
                  [] index \in (n + 1)..(n + m) -> nonce[index - n]
                  [] index = n + m + 1 -> sum.fee_payer
                  [] OTHER -> Unused
    BY <1>2 DEF transaction_summary_find_item
  <2> HIDE DEF found, general, nonce
  <2>2. n \in Nat /\ m \in Nat
    BY <1>2
  <2>3. index = 0 => found = sum.primary
    BY <2>1, <2>2
  <2>4. index \in 1..n => found = general[index]
    BY <2>1, <2>2
  <2>5. index \in (n + 1)..(n + m) => found = nonce[index - n]
    BY <2>1, <2>2
  <2>6. index = n + m + 1 => found = sum.fee_payer
    BY <2>1, <2>2
  <2> QED BY <2>3, <2>4, <2>5, <2>6
<1>a. AreUsed(general, sum.general, NUM_GENERAL_ITEMS) /\ AreUsed(nonce, nonces, 2)
  BY <1>1 DEF StepsAre
<1>5. \A j \in 1..n : Used(general[j])
  BY <1>a, <1>2 DEF AreUsed
<1>6. \A j \in 1..m : Used(nonce[j])
  BY <1>a, <1>2 DEF AreUsed
<1> HIDE DEF general, nonce, steps, found
<1>7. Used(sum.primary)
  BY DEF IsSummary
<1>8. CASE index = 0
  BY <1>2, <1>4, <1>7, <1>8 DEF found, steps
<1>9. CASE index \in 1..n
  BY <1>2, <1>4, <1>5, <1>9 DEF found, steps
<1>10. CASE index \in (n + 1)..(n + m)
  <2>1. index - n \in 1..m /\ index + 1 = 1 + n + (index - n)
    BY <1>2, <1>10
  <2>2. steps[1 + n + (index - n)] = nonce[index - n]
    BY <1>2, <2>1
  <2> QED BY <1>4, <1>6, <1>10, <2>1, <2>2 DEF found, steps
<1>11. CASE index = n + m + 1
  <2>1. p = 1 /\ index + 1 = 1 + n + m + 1
    BY <1>2, <1>3, <1>11
  <2> QED BY <1>2, <1>4, <1>11, <2>1 DEF found, steps
<1>12. index = 0 \/ index \in 1..n \/ index \in (n + 1)..(n + m) \/ index = n + m + 1
  <2>1. n \in 0..11 /\ m \in 0..2 /\ p \in 0..1
    BY <1>2
  <2> QED BY <2>1, <1>3
<1> QED BY <1>8, <1>9, <1>10, <1>11, <1>12

\* Where a step comes from.
LEMMA StepsOfSummary ==
  ASSUME NEW sum, IsSummary(sum), NEW j \in 1..Len(FinalizedItems(sum))
  PROVE  /\ Used(FinalizedItems(sum)[j])
         /\ \/ \E slot \in SpecialSlots : FinalizedItems(sum)[j] = sum[slot]
            \/ \E g \in 1..NUM_GENERAL_ITEMS : FinalizedItems(sum)[j] = sum.general[g]
<1> DEFINE nonces == <<sum.nonce_account, sum.nonce_authority>>
           general == UsedOf(sum.general)
           nonce == UsedOf(nonces)
<1>1. PICK n, m, p : StepsAre(sum, n, m, p)
  BY StepsAreMadeOf
<1>2. PICK steps : steps = FinalizedItems(sum)
  OBVIOUS
<1>3. /\ n \in 0..11 /\ m \in 0..2 /\ p \in 0..1
      /\ n = Len(general) /\ m = Len(nonce)
      /\ Len(steps) = 1 + n + m + p
      /\ steps[1] = sum.primary
      /\ \A i \in 1..n : steps[1 + i] = general[i]
      /\ \A i \in 1..m : steps[1 + n + i] = nonce[i]
      /\ p = 1 => steps[1 + n + m + 1] = sum.fee_payer
  BY <1>1, <1>2 DEF StepsAre, NUM_GENERAL_ITEMS
<1>4. Used(steps[j])
  <2>1. j - 1 \in 0..(Len(steps) - 1) /\ (j - 1) + 1 = j
    BY <1>2
  <2> QED BY <1>2, <2>1, FindAgrees
<1>a. AreUsed(general, sum.general, NUM_GENERAL_ITEMS) /\ AreUsed(nonce, nonces, 2)
  BY <1>1 DEF StepsAre
<1>5. \A i \in 1..n : \E g \in 1..NUM_GENERAL_ITEMS : general[i] = sum.general[g]
  BY <1>a, <1>3 DEF AreUsed
<1>6. \A i \in 1..m : \E l \in 1..2 : nonce[i] = nonces[l]
  BY <1>a, <1>3 DEF AreUsed
<1> HIDE DEF general, nonce
<1>7. j = 1 \/ j - 1 \in 1..n \/ j - 1 - n \in 1..m \/ (p = 1 /\ j = 1 + n + m + 1)
  <2>1. n \in 0..11 /\ m \in 0..2 /\ p \in 0..1 /\ j \in 1..(1 + n + m + p)
    BY <1>2, <1>3
  <2> QED BY <2>1
<1>8. CASE j = 1
  BY <1>2, <1>3, <1>4, <1>8 DEF SpecialSlots
<1>9. CASE j - 1 \in 1..n
  <2>1. steps[1 + (j - 1)] = general[j - 1] /\ 1 + (j - 1) = j
    <3>1. PICK k \in 1..n : k = j - 1
      BY <1>9
    <3>2. steps[1 + k] = general[k]
      BY <1>3
    <3>3. 1 + (j - 1) = j
      BY <1>2
    <3> QED BY <3>1, <3>2, <3>3
  <2> QED BY <1>2, <1>4, <1>5, <1>9, <2>1
<1>10. CASE j - 1 - n \in 1..m
  <2>1. steps[1 + n + (j - 1 - n)] = nonce[j - 1 - n] /\ 1 + n + (j - 1 - n) = j
    BY <1>3, <1>10
  <2>2. PICK l \in 1..2 : steps[j] = nonces[l]
    BY <1>6, <1>10, <2>1
  <2>3. steps[j] = sum.nonce_account \/ steps[j] = sum.nonce_authority
    BY <2>2
  <2> QED BY <1>2, <1>4, <2>3 DEF SpecialSlots
<1>11. CASE p = 1 /\ j = 1 + n + m + 1
  BY <1>2, <1>3, <1>4, <1>11 DEF SpecialSlots
<1> QED BY <1>7, <1>8, <1>9, <1>10, <1>11

\* Whatever is in the summary is a step.
LEMMA UsedIsStep ==
  ASSUME NEW sum, IsSummary(sum)
  PROVE  /\ \A slot \in SpecialSlots : Used(sum[slot]) =>
              \E j \in 1..Len(FinalizedItems(sum)) : FinalizedItems(sum)[j] = sum[slot]
         /\ \A g \in 1..NUM_GENERAL_ITEMS : Used(sum.general[g]) =>
              \E j \in 1..Len(FinalizedItems(sum)) : FinalizedItems(sum)[j] = sum.general[g]
<1> DEFINE nonces == <<sum.nonce_account, sum.nonce_authority>>
           general == UsedOf(sum.general)
           nonce == UsedOf(nonces)
<1>1. PICK n, m, p : StepsAre(sum, n, m, p)
  BY StepsAreMadeOf
<1>2. PICK steps : steps = FinalizedItems(sum)
  OBVIOUS
<1>3. /\ n \in 0..11 /\ m \in 0..2 /\ p \in 0..1
      /\ n = Len(general) /\ m = Len(nonce) /\ p = Len(UsedOf(<<sum.fee_payer>>))
      /\ Len(steps) = 1 + n + m + p
      /\ steps[1] = sum.primary
      /\ \A i \in 1..n : steps[1 + i] = general[i]
      /\ \A i \in 1..m : steps[1 + n + i] = nonce[i]
      /\ p = 1 => steps[1 + n + m + 1] = sum.fee_payer
  BY <1>1, <1>2 DEF StepsAre, NUM_GENERAL_ITEMS
<1>a. AreUsed(general, sum.general, NUM_GENERAL_ITEMS) /\ AreUsed(nonce, nonces, 2)
  BY <1>1 DEF StepsAre
<1>4. ASSUME NEW g \in 1..NUM_GENERAL_ITEMS, Used(sum.general[g])
      PROVE  \E j \in 1..Len(steps) : steps[j] = sum.general[g]
  <2>1. PICK i \in 1..n : general[i] = sum.general[g]
    BY <1>a, <1>3, <1>4 DEF AreUsed
  <2>2. 1 + i \in 1..(1 + n + m + p)
    BY <1>3
  <2> HIDE DEF general, nonce
  <2> QED BY <1>3, <2>1, <2>2
<1>5. ASSUME NEW l \in 1..2, Used(nonces[l])
      PROVE  \E j \in 1..Len(steps) : steps[j] = nonces[l]
  <2> HIDE DEF nonces
  <2>2. PICK i \in 1..m : nonce[i] = nonces[l]
    BY <1>a, <1>3, <1>5 DEF AreUsed, nonce
  <2>3. 1 + n + i \in 1..(1 + n + m + p)
    BY <1>3
  <2> HIDE DEF general, nonce
  <2> QED BY <1>3, <2>2, <2>3
<1>6. ASSUME Used(sum.fee_payer)
      PROVE  \E j \in 1..Len(steps) : steps[j] = sum.fee_payer
  <2>1. p = 1
    BY <1>3, <1>6, UsedItem
  <2>2. 1 + n + m + 1 \in 1..Len(steps)
    <3>1. n \in 0..11 /\ m \in 0..2 /\ Len(steps) = 1 + n + m + 1
      BY <1>3, <2>1
    <3> QED BY <3>1
  <2> QED BY <1>3, <2>1, <2>2
<1>7. \E j \in 1..Len(steps) : steps[j] = sum.primary
  <2>1. 1 \in 1..Len(steps)
    BY <1>3
  <2> QED BY <1>3, <2>1
<1>8. ASSUME NEW slot \in SpecialSlots, Used(sum[slot])
      PROVE  \E j \in 1..Len(steps) : steps[j] = sum[slot]
  <2>1. nonces[1] = sum.nonce_account /\ nonces[2] = sum.nonce_authority
    OBVIOUS
  <2> HIDE DEF nonces
  <2>2. CASE slot = "primary"
    BY <1>7, <2>2
  <2>3. CASE slot = "nonce_account"
    BY <1>5, <1>8, <2>1, <2>3
  <2>4. CASE slot = "nonce_authority"
    BY <1>5, <1>8, <2>1, <2>4
  <2>5. CASE slot = "fee_payer"
    BY <1>6, <1>8, <2>5
  <2> QED BY <2>2, <2>3, <2>4, <2>5 DEF SpecialSlots
<1> QED BY <1>2, <1>4, <1>8

\* The summary holds all the puts: they are the steps.
StepsArePuts(steps, puts) ==
  /\ \A j \in 1..Len(steps) : \E i \in 1..Len(puts) : steps[j] = puts[i].item
  /\ \A i \in 1..Len(puts) : \E j \in 1..Len(steps) : steps[j] = puts[i].item

\* When all that is put holds its slot, the steps are the items put, and no others.
LEMMA HoldsAll ==
  ASSUME NEW sum, NEW puts, NEW n \in Nat, n = Len(puts), NEW d \in 1..3,
         Shape(puts, d), Holds(sum, puts, d, n)
  PROVE  /\ IsSummary(sum)
         /\ StepsArePuts(FinalizedItems(sum), puts)
<1> DEFINE steps == FinalizedItems(sum)
<1>1. \A i \in 1..n : Used(puts[i].item)
  BY DEF Shape, Used, ItemKinds
<1>2. ~Used(Unused)
  BY DEF Used, Unused, Item
<1>3. /\ sum.general = [j \in 1..NUM_GENERAL_ITEMS |->
                          IF j + d <= n /\ puts[j + d].slot = "general" THEN puts[j + d].item
                          ELSE Unused]
      /\ \A slot \in SpecialSlots :
           /\ (\A i \in 1..n : puts[i].slot # slot) => sum[slot] = Unused
           /\ \A i \in 1..n : puts[i].slot = slot => sum[slot] = puts[i].item
  BY DEF Holds
<1>4. Used(sum.primary)
  <2>1. PICK i \in 1..d : puts[i].slot = "primary"
    BY DEF Shape
  <2>2. i \in 1..n
    BY DEF Shape
  <2> QED BY <1>1, <1>3, <2>1, <2>2 DEF SpecialSlots
<1>5. IsSummary(sum)
  BY <1>3, <1>4 DEF IsSummary, NUM_GENERAL_ITEMS
<1> HIDE DEF steps
<1>6. ASSUME NEW j \in 1..Len(steps)
      PROVE  \E i \in 1..n : steps[j] = puts[i].item
  <2>1. /\ Used(steps[j])
        /\ \/ \E slot \in SpecialSlots : steps[j] = sum[slot]
           \/ \E g \in 1..NUM_GENERAL_ITEMS : steps[j] = sum.general[g]
    BY <1>5, StepsOfSummary DEF steps
  <2>2. ASSUME NEW slot \in SpecialSlots, steps[j] = sum[slot]
        PROVE  \E i \in 1..n : steps[j] = puts[i].item
    BY <1>2, <1>3, <2>1, <2>2
  <2>3. ASSUME NEW g \in 1..NUM_GENERAL_ITEMS, steps[j] = sum.general[g]
        PROVE  \E i \in 1..n : steps[j] = puts[i].item
    <3>1. g + d <= n /\ puts[g + d].slot = "general" /\ steps[j] = puts[g + d].item
      BY <1>2, <1>3, <2>1, <2>3
    <3>2. g + d \in 1..n
      BY <3>1 DEF NUM_GENERAL_ITEMS
    <3> QED BY <3>1, <3>2
  <2> QED BY <2>1, <2>2, <2>3
<1>7. ASSUME NEW i \in 1..n
      PROVE  \E j \in 1..Len(steps) : steps[j] = puts[i].item
  <2>1. CASE puts[i].slot \in SpecialSlots
    <3>1. sum[puts[i].slot] = puts[i].item
      BY <1>3, <2>1
    <3> QED BY <1>1, <1>5, <2>1, <3>1, UsedIsStep DEF steps
  <2>2. CASE puts[i].slot = "general"
    <3>1. i \in (d + 1)..n /\ i <= d + NUM_GENERAL_ITEMS
      <4>1. "general" \notin SpecialSlots
        BY DEF SpecialSlots
      <4>2. i \notin 1..d
        BY <2>2, <4>1 DEF Shape
      <4>3. i \in (d + 1)..n
        BY <4>2
      <4> QED BY <2>2, <4>3 DEF Shape
    <3>2. PICK g \in 1..NUM_GENERAL_ITEMS : g + d = i
      <4>1. i - d \in 1..NUM_GENERAL_ITEMS /\ (i - d) + d = i
        BY <3>1 DEF NUM_GENERAL_ITEMS
      <4> QED BY <4>1
    <3>3. sum.general[g] = puts[i].item
      BY <1>3, <2>2, <3>2
    <3>4. Used(sum.general[g])
      BY <1>1, <3>3
    <3> QED BY <1>5, <3>3, <3>4, UsedIsStep DEF steps
  <2>3. puts[i].slot \in SpecialSlots \/ puts[i].slot = "general"
    <3>1. i \in 1..d \/ i \in (d + 1)..n
      OBVIOUS
    <3> QED BY <3>1 DEF Shape, SpecialSlots
  <2> QED BY <2>1, <2>2, <2>3
<1> QED BY <1>5, <1>6, <1>7 DEF StepsArePuts, steps

-----------------------------------------------------------------------------
(* What holds in every state. *)

LEMMA ReviewAlways == Spec => []ReviewInv
<1> QED BY InitReview, ReviewInductive, PTL DEF Spec

\* Once the summary is reviewed, its steps are what has been put.
IsReview(puts, d, n) ==
  /\ puts = Whole(message, print_config)
  /\ n = Len(puts)
  /\ Shape(puts, d)
  /\ Holds(summary, puts, d, n)
  /\ pending = After(puts, n)
  /\ IsSummary(summary)
  /\ StepsArePuts(Steps, puts)

\* So the steps of a review are the items that were put for it.
LEMMA ReviewOfPuts ==
  ASSUME ReviewInv, phase = "review"
  PROVE  \E puts : \E d \in 1..3, n \in Nat : IsReview(puts, d, n)
<1>1. PutBy(phase, message, print_config) = Whole(message, print_config)
  BY DEF PutBy
<1>2. PICK puts : puts = Whole(message, print_config)
  OBVIOUS
<1>3. PICK d \in 1..3, k \in 0..Len(puts) : Step(puts, d, k)
  BY <1>1, <1>2 DEF ReviewInv, Progress
<1>4. Begins(PutBy(phase, message, print_config), Whole(message, print_config))
  BY PutByBegins DEF ReviewInv, Processed, Phases
<1>5. PICK n \in Nat : n = Len(puts)
  BY <1>1, <1>2, <1>4 DEF Begins
<1>6. Shape(puts, d) /\ Holds(summary, puts, d, n) /\ pending = After(puts, n)
  BY <1>1, <1>2, <1>3, <1>5 DEF Step
<1>7. IsSummary(summary) /\ StepsArePuts(FinalizedItems(summary), puts)
  BY <1>5, <1>6, HoldsAll
<1>8. IsReview(puts, d, n)
  BY <1>2, <1>5, <1>6, <1>7 DEF IsReview, Steps
<1> QED BY <1>8

\* The eleven general items of transaction_summary.h:22 suffice for every transaction,
\* whatever its instructions, and no special item is set twice.
THEOREM ItemsAlwaysHaveSlots == Spec => []ItemsHaveSlots
<1>1. ReviewInv => ItemsHaveSlots
  BY DEF ReviewInv, ItemsHaveSlots
<1> QED BY <1>1, ReviewAlways, PTL

\* Finalization never fails: handle_sign_message refuses for want of blind signing only.
THEOREM OnlyBlindSigningEverRefuses == Spec => []OnlyBlindSigningRefuses
<1>1. ReviewInv => OnlyBlindSigningRefuses
  BY DEF ReviewInv, OnlyBlindSigningRefuses
<1> QED BY <1>1, ReviewAlways, PTL

\* The index the user walks to has an item, and it is of the kind announced.
LEMMA StepDisplayable == ReviewInv => StepsAreDisplayable
<1> SUFFICES ASSUME ReviewInv, shown # NotShown
             PROVE  Used(shown.item) /\ shown.item.kind = kinds[shown.index + 1]
  BY DEF StepsAreDisplayable
<1>1. /\ phase = "review"
      /\ kinds = transaction_summary_finalize(summary).kinds
      /\ shown.index \in 0..(Len(kinds) - 1)
      /\ shown.item = transaction_summary_find_item(summary, shown.index)
  BY DEF ReviewInv, Walk
<1>2. IsSummary(summary)
  BY <1>1, ReviewOfPuts DEF IsReview
<1>3. PICK steps : steps = FinalizedItems(summary)
  OBVIOUS
<1>4. kinds = [i \in DOMAIN steps |-> steps[i].kind]
  BY <1>1, <1>3 DEF transaction_summary_finalize
<1>5. PICK n \in Nat : n = Len(steps) /\ DOMAIN steps = 1..n
  <2>1. IsSeq(steps)
    BY <1>2, <1>3, StepsAreMadeOf DEF StepsAre
  <2> QED BY <2>1, LenProperties DEF IsSeq
<1>6. Len(kinds) = n
  BY <1>4, <1>5
<1>7. PICK index : index = shown.index
  OBVIOUS
<1>8. index \in 0..(Len(steps) - 1) /\ index + 1 \in 1..n
  BY <1>1, <1>5, <1>6, <1>7
<1>9. /\ transaction_summary_find_item(summary, index) = steps[index + 1]
      /\ Used(steps[index + 1])
  BY <1>2, <1>3, <1>8, FindAgrees
<1> QED BY <1>1, <1>4, <1>5, <1>7, <1>8, <1>9

\* Finalization and find_item agree on the steps of every transaction.
THEOREM StepsAlwaysDisplayable == Spec => []StepsAreDisplayable
BY StepDisplayable, ReviewAlways, PTL

\* Where the special items of a transaction end.
LEMMA SpecialPuts ==
  ASSUME NEW puts, NEW d \in 1..3, Shape(puts, d), NEW m \in {1, 3},
         \A i \in 1..m : puts[i].slot \in SpecialSlots \ {"fee_payer"},
         m \in 1..Len(puts), m + 1 \in 1..Len(puts), puts[m + 1].slot = "general"
  PROVE  d = m
<1>1. ~(m < d)
  <2> SUFFICES ASSUME m < d PROVE FALSE
    OBVIOUS
  <2>1. m + 1 \in 1..d
    OBVIOUS
  <2> QED BY <2>1 DEF Shape, SpecialSlots
<1>2. ~(d < m)
  <2> SUFFICES ASSUME d < m PROVE FALSE
    OBVIOUS
  <2>1. d + 1 \in 1..m /\ d + 1 \in (d + 1)..Len(puts)
    OBVIOUS
  <2> QED BY <2>1 DEF Shape, SpecialSlots
<1> QED BY <1>1, <1>2

\* A blind review shows the hash and what stands for the transaction, and nothing else.
LEMMA BlindReviewBare == ReviewInv => BlindReviewIsBare
<1> SUFFICES ASSUME ReviewInv, phase = "review", ~Processed
             PROVE  /\ summary.primary.title = "Unrecognized"
                    /\ {summary.general[i] : i \in 1..NUM_GENERAL_ITEMS} \ {Unused} =
                         {Item("Hash", "Message_Hash", message)}
  BY DEF BlindReviewIsBare
<1> DEFINE body == process_message_body(message, print_config)
           hash == Item("Hash", "Message_Hash", message)
<1>1. PICK puts : \E d \in 1..3, n \in Nat : IsReview(puts, d, n)
  BY ReviewOfPuts
<1> PICK d \in 1..3, n \in Nat : IsReview(puts, d, n)
  BY <1>1
<1>2. /\ puts = Whole(message, print_config) /\ n = Len(puts)
      /\ Shape(puts, d) /\ Holds(summary, puts, d, n)
  BY DEF IsReview
<1>3. PICK nonce, rest : BodyIs(body, nonce, rest)
  BY MessagesAssumption, MessageBody DEF MessagesAssumption, IsTransaction, BodyWell, ReviewInv
<1>4. PICK payer : payer = FeePayer(message, print_config) /\ PayerItems(payer)
  BY PayerIsOne
<1>5. body.items = nonce /\ IsSeq(nonce)
  BY <1>3, ConcatEmptySeq DEF BodyIs, NonceItems, Processed, IsSeq
<1>6. PICK p1, p2 : p1 = Primary("String", "Unrecognized", "format") /\ p2 = General("Hash", "Message_Hash", message)
  OBVIOUS
<1>7. /\ IsSeq(p1) /\ Len(p1) = 1 /\ p1[1].slot = "primary" /\ p1[1].item.title = "Unrecognized"
      /\ IsSeq(p2) /\ Len(p2) = 1 /\ p2[1].slot = "general" /\ p2[1].item = hash
  <2>1. /\ p1 = PrintTo("primary", "String", "Unrecognized", "format")
        /\ p2 = PrintTo("general", "Hash", "Message_Hash", message)
    BY <1>6 DEF Primary, General
  <2>2. /\ IsSeq(p1) /\ Len(p1) = 1 /\ p1[1].slot = "primary"
        /\ p1[1].item = Item("String", "Unrecognized", "format")
    BY <2>1, OnePut, PrintersKinds
  <2>3. IsSeq(p2) /\ Len(p2) = 1 /\ p2[1].slot = "general" /\ p2[1].item = hash
    BY <2>1, OnePut, PrintersKinds
  <2> QED BY <2>2, <2>3 DEF Item
<1>8. puts = (nonce \o (p1 \o p2)) \o payer
  BY <1>2, <1>4, <1>5, <1>6, WholeParts DEF Unrecognized, Processed, ReviewInv
<1>9. PICK m \in {0, 2} : m = Len(nonce) /\ \A i \in 1..m : nonce[i].slot \in SpecialSlots \ {"fee_payer"}
  <2>1. NonceItems(nonce)
    BY <1>3 DEF BodyIs
  <2> QED BY <2>1 DEF NonceItems, SpecialSlots
<1>10. PICK q \in 0..1 : q = Len(payer)
  BY <1>4 DEF PayerItems
<1>11. PICK pair : pair = p1 \o p2
  OBVIOUS
<1>12. IsSeq(pair) /\ Len(pair) = 2 /\ pair[1] = p1[1] /\ pair[2] = p2[1]
  <2>1. IsConcatenation(pair, p1, p2, 1, 1)
    BY <1>7, <1>11, ConcatOf
  <2> QED BY <2>1 DEF IsConcatenation
<1>13. PICK first : first = nonce \o pair
  OBVIOUS
<1>14. IsConcatenation(first, nonce, pair, m, 2)
  BY <1>5, <1>9, <1>12, <1>13, ConcatOf
<1>15. IsConcatenation(puts, first, payer, m + 2, q)
  <2>1. IsSeq(first) /\ m + 2 = Len(first) /\ m + 2 \in Nat
    BY <1>9, <1>14 DEF IsConcatenation
  <2>2. IsSeq(payer) /\ puts = first \o payer
    BY <1>4, <1>8, <1>11, <1>13 DEF PayerItems
  <2>3. q \in Nat /\ q = Len(payer)
    BY <1>10
  <2> QED BY <2>1, <2>2, <2>3, ConcatOf
<1> HIDE DEF body, hash
<1>16. n = m + 2 + q
  BY <1>2, <1>15 DEF IsConcatenation
<1>17. /\ puts[m + 1] = p1[1] /\ puts[m + 2] = p2[1]
       /\ \A i \in 1..m : puts[i] = nonce[i]
  <2>1. \A i \in 1..(m + 2) : puts[i] = first[i]
    BY <1>15 DEF IsConcatenation
  <2>2. first[m + 1] = pair[1] /\ first[m + 2] = pair[2] /\ \A i \in 1..m : first[i] = nonce[i]
    BY <1>14 DEF IsConcatenation
  <2> QED BY <1>9, <1>12, <2>1, <2>2
<1>18. q = 1 => puts[m + 3].slot = "fee_payer"
  <2>1. \A i \in 1..q : puts[m + 2 + i] = payer[i]
    BY <1>15 DEF IsConcatenation
  <2>2. q = 1 => payer[1].slot = "fee_payer"
    BY <1>4, <1>10 DEF PayerItems
  <2> QED BY <2>1, <2>2
<1>19. d = m + 1
  <2>1. PICK l \in {1, 3} : l = m + 1
    OBVIOUS
  <2>2. \A i \in 1..l : puts[i].slot \in SpecialSlots \ {"fee_payer"}
    <3>1. \A i \in 1..l : i \in 1..m \/ i = m + 1
      BY <2>1
    <3> QED BY <1>7, <1>9, <1>17, <3>1 DEF SpecialSlots
  <2>3. l \in 1..Len(puts) /\ l + 1 \in 1..Len(puts)
    BY <1>2, <1>16, <2>1
  <2>4. puts[l + 1].slot = "general"
    BY <1>7, <1>17, <2>1
  <2> QED BY <1>2, <2>1, <2>2, <2>3, <2>4, SpecialPuts
<1>20. summary.primary = p1[1].item
  <2>1. m + 1 \in 1..n
    BY <1>16
  <2> QED BY <1>2, <1>7, <1>17, <2>1 DEF Holds, SpecialSlots
<1>21. \A j \in 1..NUM_GENERAL_ITEMS : summary.general[j] = IF j = 1 THEN hash ELSE Unused
  <2> TAKE j \in 1..NUM_GENERAL_ITEMS
  <2>1. summary.general[j] = IF j + d <= n /\ puts[j + d].slot = "general" THEN puts[j + d].item
                             ELSE Unused
    BY <1>2 DEF Holds
  <2>2. CASE j = 1
    <3>1. j + d = m + 2 /\ j + d <= n
      BY <1>16, <1>19, <2>2
    <3> QED BY <1>7, <1>17, <2>1, <2>2, <3>1
  <2>3. CASE j # 1
    <3>1. j + d <= n => q = 1 /\ j + d = m + 3
      BY <1>16, <1>19, <2>3 DEF NUM_GENERAL_ITEMS
    <3> QED BY <1>18, <2>1, <2>3, <3>1
  <2> QED BY <2>2, <2>3
<1>22. hash # Unused
  BY DEF hash, Unused, Item
<1>23. {summary.general[i] : i \in 1..NUM_GENERAL_ITEMS} \ {Unused} = {hash}
  <2>1. 1 \in 1..NUM_GENERAL_ITEMS
    BY DEF NUM_GENERAL_ITEMS
  <2> QED BY <1>21, <1>22, <2>1
<1> QED BY <1>7, <1>20, <1>23 DEF hash

\* No half of a transaction that is not recognised is ever presented as the whole.
THEOREM BlindReviewAlwaysBare == Spec => []BlindReviewIsBare
BY BlindReviewBare, ReviewAlways, PTL

\* The kinds of the items in a summary that is reviewed, and their number.
LEMMA KindsOfSteps ==
  ASSUME NEW sum, NEW puts, NEW n \in Nat, n = Len(puts), NEW d \in 1..3,
         Shape(puts, d), Holds(sum, puts, d, n)
  PROVE  LET kinds_of == transaction_summary_finalize(sum).kinds
         IN  /\ Len(kinds_of) \in 1..(NUM_GENERAL_ITEMS + 4)
             /\ \A i \in DOMAIN kinds_of : kinds_of[i] \in ItemKinds
<1>1. IsSummary(sum) /\ StepsArePuts(FinalizedItems(sum), puts)
  BY HoldsAll
<1>2. PICK steps : steps = FinalizedItems(sum)
  OBVIOUS
<1>3. PICK g, m, p : StepsAre(sum, g, m, p)
  BY <1>1, StepsAreMadeOf
<1>4. g \in 0..11 /\ m \in 0..2 /\ p \in 0..1 /\ Len(steps) = 1 + g + m + p /\ IsSeq(steps)
  BY <1>2, <1>3 DEF StepsAre, NUM_GENERAL_ITEMS
<1>5. PICK l \in 1..15 : l = Len(steps)
  BY <1>4
<1>6. DOMAIN steps = 1..l
  BY <1>4, <1>5, LenProperties DEF IsSeq
<1>7. transaction_summary_finalize(sum).kinds = [i \in 1..l |-> steps[i].kind]
  BY <1>2, <1>6 DEF transaction_summary_finalize
<1>8. \A i \in 1..l : steps[i].kind \in ItemKinds
  <2>1. \A i \in 1..l : \E j \in 1..n : steps[i] = puts[j].item
    BY <1>1, <1>2, <1>5 DEF StepsArePuts
  <2>2. \A j \in 1..n : puts[j].item.kind \in ItemKinds
    BY DEF Shape
  <2> QED BY <2>1, <2>2
<1> QED BY <1>7, <1>8 DEF NUM_GENERAL_ITEMS

\* The invariant implies the types.
LEMMA ReviewType == ReviewInv => TypeOK
<1> SUFFICES ASSUME ReviewInv PROVE TypeOK
  OBVIOUS
<1>1. PICK so_far : so_far = PutBy(phase, message, print_config)
  OBVIOUS
<1>2. PICK whole : whole = Whole(message, print_config)
  OBVIOUS
<1>3. PICK d \in 1..3, k \in 0..Len(so_far) : Step(so_far, d, k)
  BY <1>1 DEF ReviewInv, Progress
<1>4. Begins(so_far, whole)
  BY <1>1, <1>2, PutByBegins DEF ReviewInv, Processed, Phases
<1>5. Shape(whole, d) /\ Holds(summary, whole, d, k) /\ pending = After(so_far, k)
  BY <1>2, <1>3 DEF Step
<1>6. PICK m \in Nat, n \in Nat : m = Len(so_far) /\ n = Len(whole)
  BY <1>4 DEF Begins
<1>7. \A i \in DOMAIN pending : pending[i].slot \in SpecialSlots \cup {"general"}
  <2>1. pending = [i \in 1..(m - k) |-> so_far[k + i]]
    BY <1>5, <1>6 DEF After
  <2>2. ASSUME NEW i \in 1..(m - k) PROVE so_far[k + i].slot \in SpecialSlots \cup {"general"}
    <3>1. k + i \in 1..m /\ k + i \in 1..n
      BY <1>4, <1>6 DEF Begins
    <3>2. so_far[k + i] = whole[k + i]
      BY <1>4, <1>6, <3>1 DEF Begins
    <3>3. k + i \in 1..d \/ k + i \in (d + 1)..n
      BY <3>1
    <3> QED BY <1>5, <1>6, <3>2, <3>3 DEF Shape, SpecialSlots
  <2> QED BY <2>1, <2>2
<1>8. DOMAIN summary = SpecialSlots \cup {"general"} /\ DOMAIN summary.general = 1..NUM_GENERAL_ITEMS
  BY <1>5 DEF Holds, Slots
<1>9. /\ Len(kinds) <= NUM_GENERAL_ITEMS + 4
      /\ \A i \in DOMAIN kinds : kinds[i] \in ItemKinds
      /\ shown.index \in -1..(Len(kinds) - 1)
  <2>1. CASE phase = "review"
    <3>1. PICK puts : \E e \in 1..3, l \in Nat : IsReview(puts, e, l)
      BY <2>1, ReviewOfPuts
    <3>2. PICK e \in 1..3, l \in Nat : IsReview(puts, e, l)
      BY <3>1
    <3>3. kinds = transaction_summary_finalize(summary).kinds
      BY <2>1 DEF ReviewInv, Walk
    <3>4. Len(kinds) \in 1..(NUM_GENERAL_ITEMS + 4) /\ \A i \in DOMAIN kinds : kinds[i] \in ItemKinds
      BY <3>2, <3>3, KindsOfSteps DEF IsReview
    <3>5. PICK q \in 1..15 : q = Len(kinds)
      BY <3>4 DEF NUM_GENERAL_ITEMS
    <3>6. shown = NotShown \/ shown.index \in 0..(q - 1)
      BY <3>5 DEF ReviewInv, Walk
    <3>7. shown.index \in -1..(q - 1)
      BY <3>6 DEF NotShown
    <3>8. Len(kinds) <= NUM_GENERAL_ITEMS + 4
      <4>1. q <= NUM_GENERAL_ITEMS + 4
        BY DEF NUM_GENERAL_ITEMS
      <4> QED BY <3>5, <4>1
    <3> QED BY <3>4, <3>5, <3>7, <3>8
  <2>2. CASE phase # "review"
    <3>1. kinds = <<>> /\ shown.index = -1
      BY <2>2 DEF ReviewInv, Walk, NotShown
    <3>2. Len(kinds) = 0 /\ DOMAIN kinds = {}
      BY <3>1
    <3> QED BY <3>1, <3>2 DEF NUM_GENERAL_ITEMS
  <2> QED BY <2>1, <2>2
<1> QED BY <1>7, <1>8, <1>9 DEF ReviewInv, TypeOK

\* The variables of the review have their types, for every transaction.
THEOREM ReviewTypeOK == Spec => []TypeOK
BY ReviewType, ReviewAlways, PTL

-----------------------------------------------------------------------------
(* What the Exchange application is answered for. *)

LEMMA AgreedMove ==
  ASSUME NEW transaction \in Messages, NEW config, NEW offer,
         process_message_body(transaction, config).printed,
         Agrees(process_message_body(transaction, config).items, offer)
  PROVE  LET moves == MovesOf(transaction)
         IN  /\ Len(moves) = 1
             /\ moves[1].program = "System" /\ moves[1].kind = "Transfer"
             /\ moves[1].accounts[2] = offer.recipient
             /\ SubSeq(moves[1].accounts, 1, 2) = <<moves[1].accounts[1], offer.recipient>>
             /\ ~print_config_show_authority(config, moves[1].accounts[1])
             /\ moves[1].data[1] = offer.amount
<1> DEFINE infos == Infos(transaction)
           shown_infos == Displayed(infos)
           body == process_message_body(transaction, config)
           instructions == transaction.instructions
<1>1. PICK n \in Nat : n = Len(instructions) /\ DOMAIN instructions = 1..n
  BY MessagesAssumption DEF MessagesAssumption, IsTransaction, IsSequence
<1>2. /\ body = print_transaction(shown_infos, config)
      /\ \A i \in DOMAIN infos : infos[i].program # "Unknown"
  BY DEF process_message_body, NotPrinted
<1>3. /\ Len(infos) = n /\ DOMAIN infos = 1..n
      /\ IsSeq(shown_infos)
      /\ \A j \in 1..Len(shown_infos) : KnownInfo(shown_infos[j])
  BY <1>1, <1>2, DisplayedAreKnown, MessagesAssumption DEF MessagesAssumption, IsTransaction
<1>4. \A i \in 1..n : infos[i] = Info(instructions[i])
  BY <1>1 DEF Infos
<1>5. PICK d : d = shown_infos
  OBVIOUS
<1>6. PICK j \in 1..Len(d) : IsAgreedTransfer(d, j, config, offer)
  BY <1>2, <1>3, <1>5, AgreedTransaction
<1> DEFINE places == {i \in DOMAIN infos : infos[i].program # "RplMemo"}
<1>7. d = Kept(infos, places)
  BY <1>5 DEF Displayed
<1> HIDE DEF infos, shown_infos, body
<1>8. PICK at : KeptAt(at, d, infos, places, n)
  BY <1>3, <1>7, KeptProperties
<1>9. PICK m \in Nat : m = Len(d) /\ j \in 1..m
  BY <1>3, <1>5, <1>6, LenProperties DEF IsSeq
<1>10. PICK i \in 1..n : at[j] = i /\ d[j] = infos[i]
  BY <1>8, <1>9 DEF KeptAt
<1>11. \A l \in 1..n : infos[l].program = instructions[l].program /\ infos[l].kind = instructions[l].kind
  <2> TAKE l \in 1..n
  <2>1. Info(instructions[l]).program # "Unknown"
    BY <1>2, <1>3, <1>4
  <2> QED BY <1>4, <2>1, InfoOfInstruction
<1>12. IsTransfer(infos[i])
  BY <1>6, <1>10 DEF IsAgreedTransfer
<1>13. Moves(instructions[i])
  BY <1>11, <1>12 DEF Moves, IsTransfer
<1>14. \A l \in 1..n : Moves(instructions[l]) => l = i
  <2> SUFFICES ASSUME NEW l \in 1..n, Moves(instructions[l]), l # i PROVE FALSE
    OBVIOUS
  <2>1. infos[l].program # "RplMemo" /\ infos[l].kind # "AdvanceNonceAccount"
    BY <1>11 DEF Moves
  <2>2. l \in places \cap (1..n)
    BY <1>3, <2>1
  <2>3. PICK k \in 1..m : at[k] = l /\ d[k] = infos[l]
    BY <1>8, <1>9, <2>2, KeptPlace
  <2>4. k # j
    BY <1>10, <2>3
  <2>5. is_advance_nonce_account(d[k])
    BY <1>6, <1>9, <2>4 DEF IsAgreedTransfer
  <2> QED BY <2>1, <2>3, <2>5 DEF is_advance_nonce_account
<1>15. {l \in DOMAIN instructions : Moves(instructions[l])} = {i}
  BY <1>1, <1>13, <1>14
<1>16. PICK moves : moves = MovesOf(transaction)
  OBVIOUS
<1>17. Len(moves) = 1 /\ moves[1] = instructions[i]
  BY <1>1, <1>15, <1>16, KeptOne DEF MovesOf
<1>18. PICK instruction : instruction = instructions[i]
  OBVIOUS
<1>19. IsSequence(instruction.accounts)
  BY <1>1, <1>18, MessagesAssumption DEF MessagesAssumption, IsTransaction
<1>20. PICK info : info = Info(instruction)
  OBVIOUS
<1>21. /\ instruction.program = "System" /\ instruction.kind = "Transfer"
       /\ SubSeq(instruction.accounts, 1, 2) = <<info.from, info.to>>
       /\ instruction.data[1] = info.lamports
  BY <1>4, <1>12, <1>18, <1>19, <1>20, TransferInstruction
<1>22. instruction.accounts[1] = info.from /\ instruction.accounts[2] = info.to
  BY <1>21, FirstTwo
<1>23. /\ ~print_config_show_authority(config, info.from)
       /\ info.lamports = offer.amount
       /\ info.to = offer.recipient
  <2>1. IsTransfer(info) /\ Agrees(print_system_info(info, config), offer)
    BY <1>4, <1>6, <1>10, <1>12, <1>18, <1>20 DEF IsAgreedTransfer
  <2> QED BY <2>1, AgreedTransfer
<1> QED BY <1>16, <1>17, <1>18, <1>21, <1>22, <1>23

\* check_swap_validity demands of every item that was put what it demands of the steps.
LEMMA SwapAgrees ==
  ASSUME NEW steps, NEW puts, NEW offer, IsSeq(steps), StepsArePuts(steps, puts),
         check_swap_validity(steps, offer)
  PROVE  \A i \in 1..Len(puts) : SwapItemMatches(puts[i].item, offer)
<1>1. DOMAIN steps = 1..Len(steps)
  BY LenProperties DEF IsSeq
<1>2. \A j \in 1..Len(steps) : SwapItemMatches(steps[j], offer)
  BY <1>1 DEF check_swap_validity
<1> QED BY <1>2 DEF StepsArePuts

\* The invariant implies that steps which agree with an offer are a transfer's.
LEMMA SwapIsTransfer == ReviewInv => SwapStepsAreATransfer
<1> SUFFICES ASSUME ReviewInv, phase = "review", NEW offer \in SwapOffers,
                    check_swap_validity(Steps, offer)
             PROVE  LET moves == MovesOf(message)
                    IN  /\ Len(moves) = 1
                        /\ moves[1].program = "System" /\ moves[1].kind = "Transfer"
                        /\ SubSeq(moves[1].accounts, 1, 2) = <<Signer, offer.recipient>>
                        /\ moves[1].data[1] = offer.amount
                        /\ message.fee_payer = Signer
  BY DEF SwapStepsAreATransfer
<1> DEFINE body == process_message_body(message, print_config)
<1>1. PICK puts : \E d \in 1..3, n \in Nat : IsReview(puts, d, n)
  BY ReviewOfPuts
<1> PICK d \in 1..3, n \in Nat : IsReview(puts, d, n)
  BY <1>1
<1>2. /\ puts = Whole(message, print_config) /\ n = Len(puts)
      /\ IsSummary(summary) /\ StepsArePuts(Steps, puts)
  BY DEF IsReview
<1>3. PICK steps : steps = Steps /\ IsSeq(steps)
  BY <1>2, StepsAreMadeOf DEF StepsAre, Steps
<1>4. \A i \in 1..Len(puts) : SwapItemMatches(puts[i].item, offer)
  BY <1>2, <1>3, SwapAgrees
<1>5. Agrees(puts, offer)
  BY <1>4 DEF Agrees, Elements
<1>6. message \in Messages
  BY DEF ReviewInv
<1>7. PICK config : config = print_config
  OBVIOUS
<1>8. /\ IsSeq(body.items)
      /\ IsSeq(Unrecognized(message))
      /\ IsSeq(FeePayer(message, config))
      /\ body.printed => puts = body.items \o FeePayer(message, config)
      /\ ~body.printed => puts = body.items \o Unrecognized(message) \o FeePayer(message, config)
  BY <1>2, <1>6, <1>7, WholeParts
<1>9. IsSeq(body.items \o Unrecognized(message))
  BY <1>8, Concatenation
<1> HIDE DEF body
<1>10. body.printed
  <2> SUFFICES ASSUME ~body.printed PROVE FALSE
    OBVIOUS
  <2>1. Elements(puts) = Elements(body.items \o Unrecognized(message)) \cup
                         Elements(FeePayer(message, config))
    BY <1>8, <1>9, ElementsTogether
  <2>2. Elements(body.items \o Unrecognized(message)) =
          Elements(body.items) \cup Elements(Unrecognized(message))
    BY <1>8, ElementsTogether
  <2>3. Agrees(Unrecognized(message), offer)
    BY <1>5, <2>1, <2>2 DEF Agrees
  <2>4. Other(Unrecognized(message))
    BY OtherPrimary, OtherFirst, Seqs, PrintersKinds DEF Unrecognized, SwapTitles
  <2> QED BY <2>3, <2>4, OtherDisagrees
<1>11. Elements(puts) = Elements(body.items) \cup Elements(FeePayer(message, config))
  BY <1>8, <1>10, ElementsTogether
<1>12. Agrees(body.items, offer)
  BY <1>5, <1>11 DEF Agrees
<1>13. ~print_config_show_authority(config, message.fee_payer)
  <2> SUFFICES ASSUME print_config_show_authority(config, message.fee_payer) PROVE FALSE
    OBVIOUS
  <2>1. PICK payer : payer = Item("Pubkey", "Fee_payer", message.fee_payer)
    OBVIOUS
  <2>2. Puts(FeePayer(message, config), payer)
    BY <2>1, PutsOne, PrintersKinds DEF FeePayer, When
  <2>3. SwapItemMatches(payer, offer)
    BY <1>5, <1>11, <2>2 DEF Agrees, Puts
  <2> QED BY <2>1, <2>3 DEF SwapItemMatches, Item
<1>14. PICK moves : moves = MovesOf(message)
  OBVIOUS
<1>15. /\ Len(moves) = 1
       /\ moves[1].program = "System" /\ moves[1].kind = "Transfer"
       /\ SubSeq(moves[1].accounts, 1, 2) = <<moves[1].accounts[1], offer.recipient>>
       /\ ~print_config_show_authority(config, moves[1].accounts[1])
       /\ moves[1].data[1] = offer.amount
  BY <1>6, <1>7, <1>10, <1>12, <1>14, AgreedMove DEF body
<1>16. \A key : ~print_config_show_authority(config, key) => key = Signer
  BY <1>7 DEF print_config_show_authority, print_config
<1> QED BY <1>13, <1>14, <1>15, <1>16

\* The Exchange application is answered for a transfer it agreed to and nothing else,
\* whatever other instructions a transaction could have.
THEOREM SwapStepsAlwaysATransfer == Spec => []SwapStepsAreATransfer
BY SwapIsTransfer, ReviewAlways, PTL

-----------------------------------------------------------------------------
(* What the steps of a review show. *)

\* Every item that a printer made of a recognised transaction is a step of its review.
LEMMA ReviewShows ==
  ASSUME ReviewInv, phase = "review", Processed,
         NEW item, Puts(process_message_body(message, print_config).items, item)
  PROVE  \E i \in DOMAIN Steps : Steps[i] = item
<1> DEFINE body == process_message_body(message, print_config)
<1>1. PICK puts : \E d \in 1..3, n \in Nat : IsReview(puts, d, n)
  BY ReviewOfPuts
<1>2. puts = Whole(message, print_config) /\ IsSummary(summary) /\ StepsArePuts(Steps, puts)
  BY <1>1 DEF IsReview
<1>3. PICK steps : steps = Steps /\ IsSeq(steps)
  BY <1>2, StepsAreMadeOf DEF StepsAre, Steps
<1>4. message \in Messages
  BY DEF ReviewInv
<1>5. PICK config : config = print_config
  OBVIOUS
<1>6. /\ IsSeq(body.items)
      /\ IsSeq(FeePayer(message, config))
      /\ puts = body.items \o FeePayer(message, config)
  BY <1>2, <1>4, <1>5, WholeParts DEF Processed
<1> HIDE DEF body
<1>7. Puts(puts, item)
  BY <1>6, PutsFirst DEF body
<1>8. PICK i \in 1..Len(puts) : puts[i].item = item
  BY <1>7 DEF Puts, Elements
<1>9. PICK j \in 1..Len(steps) : steps[j] = item
  BY <1>2, <1>3, <1>8 DEF StepsArePuts
<1>10. DOMAIN steps = 1..Len(steps)
  BY <1>3, LenProperties DEF IsSeq
<1> QED BY <1>3, <1>9, <1>10

\* An amount that process_message_body puts is a step of the review.
LEMMA AmountShown ==
  ASSUME ReviewInv, phase = "review", Processed,
         NEW items, NEW amount, AmountPut(items, amount),
         \A item : Puts(items, item) =>
                     Puts(process_message_body(message, print_config).items, item)
  PROVE  ShowsAmount(amount)
<1>1. PICK item : Puts(items, item) /\ ShowsThat(item, amount)
  BY DEF AmountPut
<1>2. PICK i \in DOMAIN Steps : Steps[i] = item
  BY <1>1, ReviewShows
<1> QED BY <1>1, <1>2 DEF ShowsThat, ShowsAmount

\* The invariant implies that all amounts are shown.
LEMMA ReviewShowsAmounts == ReviewInv => AmountsAreShown
<1> SUFFICES ASSUME ReviewInv, phase = "review", Processed,
                    NEW i \in DOMAIN Told, NEW amount \in AmountsOf(Told[i])
             PROVE  ShowsAmount(amount) \/ (SplitInto(Told) /\ i = 1)
  BY DEF AmountsAreShown
<1> DEFINE printed == print_transaction_nonce_processed(Told, print_config)
<1>1. message \in Messages
  BY DEF ReviewInv
<1>2. Told = ToldOf(message)
  BY DEF Told, ToldOf
<1>3. PICK config : config = print_config
  OBVIOUS
<1>4. /\ DOMAIN Told = 1..Len(Told)
      /\ \A j \in 1..Len(Told) : FieldsAre(Told[j]) /\ KnownInfo(Told[j])
      /\ printed.printed
      /\ \A item : Puts(printed.items, item) =>
                     Puts(process_message_body(message, print_config).items, item)
  BY <1>1, <1>2, <1>3, MessagesAssumption, ToldPrinted DEF MessagesAssumption, Processed
<1>5. PICK told : told = Told
  OBVIOUS
<1>6. AllShown(printed, told)
  BY <1>3, <1>4, <1>5, ToldAmounts
<1> HIDE DEF printed
<1>7. AmountsPut(printed.items, told[i]) \/ (SplitInto(told) /\ i = 1)
  BY <1>4, <1>5, <1>6 DEF AllShown
<1>8. AmountPut(printed.items, amount) => ShowsAmount(amount)
  BY <1>4, AmountShown
<1> QED BY <1>5, <1>7, <1>8 DEF AmountsPut

\* AmountsAreShown holds of every transaction.
THEOREM AmountsAlwaysShown == Spec => []AmountsAreShown
BY ReviewAlways, ReviewShowsAmounts, PTL

\* The invariant implies that a foreign authority is shown.
LEMMA ReviewShowsAuthority == ReviewInv => ForeignAuthorityIsShown
<1> SUFFICES ASSUME ReviewInv, phase = "review", Processed,
                    NEW n \in DOMAIN Told, ~ActsUnseen(Told, n),
                    NEW key \in ActingKeys(Told[n]), key # Signer
             PROVE  \E i \in DOMAIN Steps : Steps[i].kind = "Pubkey" /\ Steps[i].value = key
  BY DEF ForeignAuthorityIsShown
<1> DEFINE printed == print_transaction_nonce_processed(Told, print_config)
<1>1. message \in Messages
  BY DEF ReviewInv
<1>2. Told = ToldOf(message)
  BY DEF Told, ToldOf
<1>3. PICK config : config = print_config
  OBVIOUS
<1>4. /\ Len(Told) \in 1..3 /\ DOMAIN Told = 1..Len(Told)
      /\ \A j \in 1..Len(Told) : FieldsAre(Told[j])
      /\ printed.printed
      /\ \A item : Puts(printed.items, item) =>
                     Puts(process_message_body(message, print_config).items, item)
  BY <1>1, <1>2, <1>3, MessagesAssumption, ToldPrinted DEF MessagesAssumption, Processed
<1>5. PICK told : told = Told
  OBVIOUS
<1>6. KeysShown(printed, told[n], print_config)
  BY <1>3, <1>4, <1>5, ToldKeys
<1>7. key # print_config.signer
  BY DEF print_config
<1> HIDE DEF printed
<1>8. KeyPut(printed.items, key)
  BY <1>4, <1>5, <1>6, <1>7 DEF KeysShown
<1>9. PICK item : /\ Puts(process_message_body(message, print_config).items, item)
                  /\ item.kind = "Pubkey" /\ item.value = key
  BY <1>4, <1>8 DEF KeyPut
<1>10. \E i \in DOMAIN Steps : Steps[i] = item
  BY <1>9, ReviewShows
<1> QED BY <1>9, <1>10

\* ForeignAuthorityIsShown holds of every transaction.
THEOREM ForeignAuthorityAlwaysShown == Spec => []ForeignAuthorityIsShown
BY ReviewAlways, ReviewShowsAuthority, PTL

\* Every step of the review of a recognised transaction is an item that a printer made
\* of it or its fee payer.
LEMMA ReviewNoText ==
  ASSUME ReviewInv, phase = "review", Processed,
         NoText(process_message_body(message, print_config).items)
  PROVE  \A i \in DOMAIN Steps : Steps[i].kind # "String"
<1> DEFINE body == process_message_body(message, print_config)
<1>1. PICK puts : \E d \in 1..3, n \in Nat : IsReview(puts, d, n)
  BY ReviewOfPuts
<1>2. puts = Whole(message, print_config) /\ IsSummary(summary) /\ StepsArePuts(Steps, puts)
  BY <1>1 DEF IsReview
<1>3. PICK steps : steps = Steps /\ IsSeq(steps)
  BY <1>2, StepsAreMadeOf DEF StepsAre, Steps
<1>4. message \in Messages
  BY DEF ReviewInv
<1>5. PICK config : config = print_config
  OBVIOUS
<1>6. puts = body.items \o FeePayer(message, config)
  BY <1>2, <1>4, <1>5, WholeParts DEF Processed
<1>7. NoText(FeePayer(message, config))
  BY NoTextPut, NoTextNone, PrintersKinds DEF FeePayer, When
<1> HIDE DEF body
<1>8. NoText(puts)
  BY <1>6, <1>7, NoTextTogether DEF body
<1>9. DOMAIN steps = 1..Len(steps)
  BY <1>3, LenProperties DEF IsSeq
<1>10. ASSUME NEW i \in 1..Len(steps) PROVE steps[i].kind # "String"
  <2>1. PICK k \in 1..Len(puts) : steps[i] = puts[k].item
    BY <1>2, <1>3 DEF StepsArePuts
  <2>2. puts[k] \in Elements(puts)
    BY DEF Elements
  <2> QED BY <1>8, <2>1, <2>2 DEF NoText
<1> QED BY <1>3, <1>9, <1>10

\* The invariant implies that the signers are counted.
LEMMA ReviewCountsSigners == ReviewInv => SignersAreCounted
<1> SUFFICES ASSUME ReviewInv, phase = "review", Processed,
                    NEW i \in DOMAIN message.instructions,
                    message.instructions[i].program = "RplToken"
             PROVE  LET instruction == message.instructions[i]
                        Behind(n) == (Len(instruction.accounts) % 256) - n
                    IN  CASE instruction.kind = "InitializeMultisig" ->
                               instruction.data[1] <= Behind(2) <=>
                                 Shows("String", "Required_signers", <<instruction.data[1], Behind(2)>>)
                          [] instruction.kind \in DOMAIN TokenSignedLayouts ->
                               LET signers == Behind(Len(TokenSignedLayouts[instruction.kind].accounts) + 1)
                               IN  signers > 0 => Shows("U64", "Signers", signers)
                          [] OTHER -> TRUE
  BY DEF SignersAreCounted
<1>1. PICK instruction : instruction = message.instructions[i]
  OBVIOUS
<1>2. message \in Messages
  BY DEF ReviewInv
<1>3. IsSequence(instruction.accounts)
  BY <1>1, <1>2, MessagesAssumption DEF MessagesAssumption, IsTransaction
<1>4. PICK config : config = print_config
  OBVIOUS
<1>5. PICK told : told = ToldOf(message)
  OBVIOUS
<1>6. PICK info : info = Info(instruction)
  OBVIOUS
<1>7. /\ info.program = "RplToken" /\ info.kind = instruction.kind
      /\ \E j \in 1..Len(told) : told[j] = info
  BY <1>1, <1>2, <1>4, <1>5, <1>6, ToldToken DEF Processed
<1>8. PICK j \in 1..Len(told) : told[j] = info
  BY <1>7
<1>9. PICK printed : printed = print_transaction_nonce_processed(told, config)
  OBVIOUS
<1>10. /\ Len(told) \in 1..3
       /\ printed.printed
       /\ \A item : Puts(printed.items, item) =>
                      Puts(process_message_body(message, config).items, item)
  BY <1>2, <1>4, <1>5, <1>9, MessagesAssumption, ToldPrinted DEF MessagesAssumption, Processed
<1>11. Counted(printed, info)
  BY <1>7, <1>8, <1>9, <1>10, ToldCounted
<1>12. \A item : Puts(printed.items, item) => \E k \in DOMAIN Steps : Steps[k] = item
  BY <1>4, <1>10, ReviewShows
<1>13. NoText(printed.items) => \A k \in DOMAIN Steps : Steps[k].kind # "String"
  BY <1>2, <1>4, <1>5, <1>9, BodyNoText, ReviewNoText DEF Processed
<1>14. CASE instruction.kind = "InitializeMultisig"
  <2>1. info.m = instruction.data[1] /\ info.count = Taken(instruction) - 2
    BY <1>3, <1>6, <1>7, <1>1, <1>14, MultisigSigners
  <2>2. Shows("String", "Required_signers", <<info.m, info.count>>) <=> info.m <= info.count
    BY <1>7, <1>10, <1>11, <1>12, <1>13, <1>14 DEF Counted, CountText, Shows, Item
  <2>3. instruction.data[1] <= Taken(instruction) - 2 <=>
          Shows("String", "Required_signers", <<instruction.data[1], Taken(instruction) - 2>>)
    BY <2>1, <2>2
  <2>4. instruction.kind \notin DOMAIN TokenSignedLayouts
    BY <1>14 DEF TokenSignedLayouts
  <2> QED BY <1>1, <1>14, <2>3, <2>4 DEF Taken
<1>15. CASE instruction.kind # "InitializeMultisig" /\ instruction.kind \in DOMAIN TokenSignedLayouts
  <2>1. PICK signers :
          signers = Taken(instruction) - (Len(TokenSignedLayouts[instruction.kind].accounts) + 1)
    OBVIOUS
  <2>2. ASSUME signers > 0 PROVE Shows("U64", "Signers", signers)
    <3>1. info.sign.kind = "Multi" /\ info.sign.count = signers
      BY <1>1, <1>3, <1>6, <1>7, <1>15, <2>1, <2>2, TokenSigners
    <3> QED BY <1>7, <1>10, <1>11, <1>12, <1>15, <3>1 DEF Counted, Shows
  <2> QED BY <1>1, <1>15, <2>1, <2>2 DEF Taken
<1>16. CASE instruction.kind # "InitializeMultisig" /\ instruction.kind \notin DOMAIN TokenSignedLayouts
  BY <1>1, <1>16
<1> QED BY <1>14, <1>15, <1>16

\* SignersAreCounted holds of every transaction.
THEOREM SignersAlwaysCounted == Spec => []SignersAreCounted
BY ReviewAlways, ReviewCountsSigners, PTL

\* A reviewed transaction that was processed has no instruction that is cut short.
LEMMA ReviewUncut == ReviewInv => RecognisedIsComplete
<1>1. SUFFICES ASSUME ReviewInv, Processed, NEW i \in DOMAIN message.instructions
               PROVE  \/ IsUncut(message.instructions[i])
                      \/ IsCreationToLamports(message.instructions[i])
  BY DEF RecognisedIsComplete
<1>2. message \in Messages
  BY <1>1 DEF ReviewInv
<1>3. PICK instruction : instruction = message.instructions[i]
  OBVIOUS
<1>4. IsSequence(instruction.accounts) /\ IsSequence(instruction.data)
  BY <1>2, <1>3, MessagesAssumption DEF MessagesAssumption, IsTransaction
<1>5. Info(instruction).program # "Unknown"
  <2>1. i \in DOMAIN Infos(message) /\ Infos(message)[i] = Info(instruction)
    BY <1>3 DEF Infos
  <2>2. ~\E j \in DOMAIN Infos(message) : Infos(message)[j].program = "Unknown"
    BY <1>1 DEF Processed, process_message_body, NotPrinted
  <2> QED BY <2>1, <2>2
<1> QED BY <1>3, <1>4, <1>5, KnownUncut

\* RecognisedIsComplete holds of every transaction.
THEOREM RecognisedAlwaysComplete == Spec => []RecognisedIsComplete
BY ReviewAlways, ReviewUncut, PTL

\* A mode that is set is the mode, and leaves the signer.
LEMMA ModeSet ==
  ASSUME NEW config, NEW old, NEW signer, config = [expert |-> old, signer |-> signer], NEW mode
  PROVE  /\ [config EXCEPT !.expert = mode].expert = mode
         /\ [config EXCEPT !.expert = mode].signer = signer
OBVIOUS

\* So both modes have the signer of this configuration.
LEMMA ModesOfConfig ==
  \E user, expert : /\ user = [print_config EXCEPT !.expert = FALSE]
                    /\ expert = [print_config EXCEPT !.expert = TRUE]
                    /\ Modes(user, expert)
<1>1. PICK old, signer : old = settings.expert /\ signer = Signer
  OBVIOUS
<1>2. PICK config : config = print_config
  OBVIOUS
<1>3. config = [expert |-> old, signer |-> signer]
  BY <1>1, <1>2 DEF print_config
<1>4. PICK no, yes : no = FALSE /\ yes = TRUE
  OBVIOUS
<1>5. PICK user, expert : /\ user = [config EXCEPT !.expert = no]
                          /\ expert = [config EXCEPT !.expert = yes]
  BY Zenon
<1>6. user.expert = no /\ expert.expert = yes /\ user.signer = signer /\ expert.signer = signer
  BY <1>3, <1>5, ModeSet, Zenon
<1>7. /\ user = [print_config EXCEPT !.expert = FALSE]
      /\ expert = [print_config EXCEPT !.expert = TRUE]
  BY <1>2, <1>4, <1>5, Zenon
<1> QED BY <1>4, <1>6, <1>7, Zenon DEF Modes

\* Of a transaction under review, experts are shown all that others are, in that order.
LEMMA ReviewThinned == ReviewInv => ExpertsSeeMore
<1>1. SUFFICES ASSUME ReviewInv PROVE ExpertsSeeMore
  OBVIOUS
<1>2. message \in Messages
  BY <1>1 DEF ReviewInv
<1>3. IsSequence(message.instructions)
  BY <1>2, MessagesAssumption DEF MessagesAssumption, IsTransaction
<1>4. PICK user, expert : /\ user = [print_config EXCEPT !.expert = FALSE]
                          /\ expert = [print_config EXCEPT !.expert = TRUE]
                          /\ Modes(user, expert)
  BY ModesOfConfig
<1>5. PICK mine, all : /\ mine = process_message_body(message, user).items
                       /\ all = process_message_body(message, expert).items
  OBVIOUS
<1>6. PICK hidden : Thinned(mine, all, hidden)
  <2>1. ThinnedBy(mine, all)
    BY <1>3, <1>4, <1>5, MessageThinned
  <2> QED BY <2>1 DEF ThinnedBy
<1>7. mine = Kept(all, {i \in DOMAIN all : \E j \in DOMAIN mine : mine[j] = all[i]})
  BY <1>6, ThinnedKept
<1> QED BY <1>4, <1>5, <1>7, Zenon DEF ExpertsSeeMore

\* ExpertsSeeMore holds of every transaction.
THEOREM ExpertsAlwaysSeeMore == Spec => []ExpertsSeeMore
BY ReviewAlways, ReviewThinned, PTL

-----------------------------------------------------------------------------
(* All the fields of an info, with its program and its kind. *)

Fielded(info, names) == IsRecord(info, {"program", "kind"} \cup names)
OfSystem(info) ==
  info.program = "System" /\ info.kind \in DOMAIN SystemNames /\
    Fielded(info, SystemNames[info.kind])
OfStake(info) ==
  /\ info.program = "Stake" /\ info.kind \in DOMAIN StakeNames
  /\ Fielded(info, StakeNames[info.kind])
  /\ info.kind \in {"Authorize", "AuthorizeChecked"} => info.authorize \in {"Staker", "Withdrawer"}
  /\ info.kind \in {"SetLockup", "SetLockupChecked"} =>
       \E timestamp, epoch, custodian :
         info.lockup = parse_stake_lockupargs(timestamp, epoch, custodian)
OfVote(info) ==
  /\ info.program = "Vote" /\ info.kind \in DOMAIN VoteNames
  /\ Fielded(info, VoteNames[info.kind])
  /\ info.kind \in {"Authorize", "AuthorizeChecked"} => info.authorize \in {"Voter", "Withdrawer"}
OfToken(info) ==
  /\ info.program = "RplToken" /\ info.kind \in DOMAIN TokenNames
  /\ Fielded(info, TokenNames[info.kind])
  /\ "sign" \in TokenNames[info.kind] => IsSigner(info.sign)
OfAssociated(info) ==
  info.program = "RplAssociatedTokenAccount" /\ Fielded(info, AssociatedNames)
Filled(info) ==
  OfSystem(info) \/ OfStake(info) \/ OfVote(info) \/ OfToken(info) \/ OfAssociated(info)

\* An info that is known has all its fields.
LEMMA InfoFilled ==
  ASSUME NEW instruction, Info(instruction).program \notin {"Unknown", "RplMemo"}
  PROVE  Filled(Info(instruction))
<1> DEFINE parsed ==
        CASE instruction.program = "System" -> parse_system_instructions(instruction)
          [] instruction.program = "Stake" -> parse_stake_instructions(instruction)
          [] instruction.program = "Vote" -> parse_vote_instructions(instruction)
          [] instruction.program = "RplToken" -> parse_rpl_token_instructions(instruction)
          [] instruction.program = "RplAssociatedTokenAccount" ->
               parse_rpl_associated_token_account_instructions(instruction)
          [] instruction.program = "RplMemo" -> {<<>>}
          [] OTHER -> {}
<1>1. PICK info : info = Info(instruction)
  OBVIOUS
<1>2. PICK brief : brief = [program |-> instruction.program, kind |-> instruction.kind]
  OBVIOUS
<1>3. parsed # {} /\ info = Joined(brief, CHOOSE other \in parsed : TRUE)
  BY <1>1, <1>2 DEF Info
<1>4. PICK other \in parsed : info = Joined(brief, other)
  BY <1>3
<1>5. /\ DOMAIN brief = {"program", "kind"}
      /\ info.program = instruction.program /\ info.kind = instruction.kind
  BY <1>2, <1>4 DEF Joined
<1>6. instruction.program # "RplMemo"
  BY <1>1, <1>5
<1>7. \A names : IsRecord(other, names) => Fielded(info, names)
  <2>1. SUFFICES ASSUME NEW names, IsRecord(other, names) PROVE Fielded(info, names)
    OBVIOUS
  <2>2. DOMAIN other = names
    BY <2>1 DEF IsRecord
  <2>3. IsRecord(info, DOMAIN brief \cup DOMAIN other)
    BY <1>4, JoinedRecord
  <2> QED BY <1>5, <2>2, <2>3 DEF Fielded
<1>8. \A field \in DOMAIN other \ {"program", "kind"} : info[field] = other[field]
  BY <1>4, <1>5 DEF Joined
<1>9. CASE instruction.program = "System"
  <2>1. SystemWhole(instruction.kind, other)
    BY <1>4, <1>9, SystemFilled
  <2> QED BY <1>1, <1>5, <1>7, <1>9, <2>1 DEF Filled, OfSystem, SystemWhole
<1>10. CASE instruction.program = "Stake"
  <2>1. StakeWhole(instruction.kind, other)
    BY <1>4, <1>10, StakeFilled
  <2>2. instruction.kind \in {"Authorize", "AuthorizeChecked"} => info.authorize = other.authorize
    BY <1>8, <2>1 DEF StakeWhole, StakeNames, IsRecord
  <2>3. instruction.kind \in {"SetLockup", "SetLockupChecked"} => info.lockup = other.lockup
    BY <1>8, <2>1 DEF StakeWhole, StakeNames, IsRecord
  <2>4. OfStake(info)
    BY <1>5, <1>7, <1>10, <2>1, <2>2, <2>3 DEF OfStake, StakeWhole
  <2> QED BY <1>1, <2>4 DEF Filled
<1>11. CASE instruction.program = "Vote"
  <2>1. VoteWhole(instruction.kind, other)
    BY <1>4, <1>11, VoteFilled
  <2>2. instruction.kind \in {"Authorize", "AuthorizeChecked"} => info.authorize = other.authorize
    <3>1. instruction.kind \in {"Authorize", "AuthorizeChecked"} =>
            "authorize" \in VoteNames[instruction.kind]
      BY DEF VoteNames
    <3>2. DOMAIN other = VoteNames[instruction.kind]
      BY <2>1 DEF VoteWhole, IsRecord
    <3> QED BY <1>8, <3>1, <3>2
  <2>3. OfVote(info)
    BY <1>5, <1>7, <1>11, <2>1, <2>2 DEF OfVote, VoteWhole
  <2> QED BY <1>1, <2>3 DEF Filled
<1>12. CASE instruction.program = "RplToken"
  <2>1. TokenWhole(instruction.kind, other)
    BY <1>4, <1>12, TokenFilled
  <2>2. "sign" \in TokenNames[instruction.kind] => info.sign = other.sign
    BY <1>8, <2>1 DEF TokenWhole, IsRecord
  <2>3. OfToken(info)
    BY <1>5, <1>7, <1>12, <2>1, <2>2 DEF OfToken, TokenWhole
  <2> QED BY <1>1, <2>3 DEF Filled
<1>13. CASE instruction.program = "RplAssociatedTokenAccount"
  <2>1. IsRecord(other, AssociatedNames)
    BY <1>4, <1>13, AssociatedFilled
  <2> QED BY <1>1, <1>5, <1>7, <1>13, <2>1 DEF Filled, OfAssociated
<1>14. instruction.program \in {"System", "Stake", "Vote", "RplToken", "RplAssociatedTokenAccount"}
  BY <1>3, <1>6
<1> HIDE DEF parsed
<1> QED BY <1>9, <1>10, <1>11, <1>12, <1>13, <1>14

-----------------------------------------------------------------------------
(* Infos that experts cannot tell apart. *)

AlikeInfo(a, b, untold) ==
  /\ DOMAIN a \ untold = DOMAIN b \ untold
  /\ \A field \in DOMAIN a \ untold : Shown(a, field) = Shown(b, field)

\* What most fields show is their value.
LEMMA PlainShown ==
  \A info, field :
    /\ field \notin {"kind", "mint_account", "lockup", "m", "count"} =>
         Shown(info, field) = info[field]
    /\ info.kind \notin {"TransferChecked", "ApproveChecked", "BurnChecked"} =>
         Shown(info, "mint_account") = info.mint_account
    /\ info.kind \in {"TransferChecked", "ApproveChecked", "BurnChecked"} =>
         Shown(info, "mint_account") = get_token_symbol(info.mint_account)
    /\ info.kind \notin {"Initialize", "InitializeChecked"} => Shown(info, "lockup") = info.lockup
    /\ info.kind \in {"Initialize", "InitializeChecked"} =>
         Shown(info, "lockup") = ShownLockup(info.lockup)
    /\ Shown(info, "kind") = ShownKind(info)
BY DEF Shown

\* So infos with the same fields are alike if what these show is.
LEMMA AlikeFields ==
  ASSUME NEW a, NEW b, NEW names, Fielded(a, names), Fielded(b, names), NEW untold,
         a.program = b.program, ShownKind(a) = ShownKind(b),
         \A field \in names \ untold : Shown(a, field) = Shown(b, field)
  PROVE  AlikeInfo(a, b, untold)
<1>1. DOMAIN a = {"program", "kind"} \cup names /\ DOMAIN b = {"program", "kind"} \cup names
  BY DEF Fielded, IsRecord
<1>2. Shown(a, "program") = Shown(b, "program") /\ Shown(a, "kind") = Shown(b, "kind")
  BY PlainShown
<1> QED BY <1>1, <1>2 DEF AlikeInfo

-----------------------------------------------------------------------------
(* The headings of the instructions of a program, by their kind. *)

SystemHeads ==
  [Transfer               |-> {"Transfer"},
   CreateAccount          |-> {"Create_account"},
   CreateAccountWithSeed  |-> {"Create_account"},
   AdvanceNonceAccount    |-> {"Advance_nonce"},
   InitializeNonceAccount |-> {"Init_nonce_acct"},
   WithdrawNonceAccount   |-> {"Nonce_withdraw"},
   AuthorizeNonceAccount  |-> {"Set_nonce_auth"},
   Assign                 |-> {"Assign_acct"},
   Allocate               |-> {"Allocate_acct"},
   AllocateWithSeed       |-> {"Allocate_acct"}]
StakeHeads ==
  [Delegate          |-> {"Delegate_from"},
   Initialize        |-> {"Init_stake_acct"},
   InitializeChecked |-> {"Init_stake_acct"},
   Withdraw          |-> {"Stake_withdraw"},
   Authorize         |-> {"Set_stake_auth"},
   AuthorizeChecked  |-> {"Set_stake_auth"},
   Deactivate        |-> {"Deactivate_stake"},
   SetLockup         |-> {"Set_lockup"},
   SetLockupChecked  |-> {"Set_lockup"},
   Split             |-> {"Split_stake"},
   Merge             |-> {"Merge"}]
VoteHeads ==
  [Initialize        |-> {"Init_vote_acct"},
   Withdraw          |-> {"Vote_withdraw"},
   Authorize         |-> {"Set_vote_auth"},
   AuthorizeChecked  |-> {"Set_vote_auth"},
   UpdateValidatorId |-> {"Update_validator"},
   UpdateCommission  |-> {"Update_commission"}]
TokenHeads ==
  [InitializeMint     |-> {"Init_mint"},
   InitializeAccount  |-> {"Init_acct"},
   InitializeAccount2 |-> {"Init_acct"},
   InitializeMultisig |-> {"Init_multisig"},
   Revoke             |-> {"Revoke_delegate"},
   CloseAccount       |-> {"Close_acct"},
   FreezeAccount      |-> {"Freeze_acct"},
   ThawAccount        |-> {"Thaw_acct"},
   TransferChecked    |-> {"Transfer_tokens"},
   ApproveChecked     |-> {"Approve_delegate"},
   MintToChecked      |-> {"Mint_tokens"},
   BurnChecked        |-> {"Burn_tokens"},
   SyncNative         |-> {"Sync_native_acct"},
   SetAuthority       |-> {"Clear_authority", "Set_authority"}]

\* What is said of a single instruction has such a heading.
LEMMA SystemHeaded ==
  ASSUME NEW info, NEW said, OfSystem(info), SystemTells(info, said)
  PROVE  \E title \in SystemHeads[info.kind] : Headed(said, title)
<1>1. CASE info.kind = "Transfer"
  BY <1>1 DEF SystemTells, SystemHeads
<1>2. CASE info.kind = "CreateAccount"
  BY <1>2 DEF SystemTells, SystemHeads
<1>3. CASE info.kind = "CreateAccountWithSeed"
  BY <1>3 DEF SystemTells, SystemHeads
<1>4. CASE info.kind = "AdvanceNonceAccount"
  BY <1>4 DEF SystemTells, SystemHeads
<1>5. CASE info.kind = "InitializeNonceAccount"
  BY <1>5 DEF SystemTells, SystemHeads
<1>6. CASE info.kind = "WithdrawNonceAccount"
  BY <1>6 DEF SystemTells, SystemHeads
<1>7. CASE info.kind = "AuthorizeNonceAccount"
  BY <1>7 DEF SystemTells, SystemHeads
<1>8. CASE info.kind = "Assign"
  BY <1>8 DEF SystemTells, SystemHeads
<1>9. CASE info.kind = "Allocate"
  BY <1>9 DEF SystemTells, SystemHeads
<1>10. CASE info.kind = "AllocateWithSeed"
  BY <1>10 DEF SystemTells, SystemHeads
<1>11. info.kind \in {"Transfer", "CreateAccount", "CreateAccountWithSeed", "AdvanceNonceAccount",
                      "InitializeNonceAccount", "WithdrawNonceAccount", "AuthorizeNonceAccount",
                      "Assign", "Allocate", "AllocateWithSeed"}
  BY DEF OfSystem, SystemNames
<1> QED BY <1>1, <1>2, <1>3, <1>4, <1>5, <1>6, <1>7, <1>8, <1>9, <1>10, <1>11

\* The same for the stake program.
LEMMA StakeHeaded ==
  ASSUME NEW info, NEW said, OfStake(info), StakeTells(info, said)
  PROVE  \E title \in StakeHeads[info.kind] : Headed(said, title)
<1>1. CASE info.kind = "Delegate"
  BY <1>1 DEF StakeTells, StakeHeads
<1>2. CASE info.kind \in {"Initialize", "InitializeChecked"}
  BY <1>2 DEF StakeTells, StakeHeads
<1>3. CASE info.kind = "Withdraw"
  BY <1>3 DEF StakeTells, StakeHeads
<1>4. CASE info.kind \in {"Authorize", "AuthorizeChecked"}
  BY <1>4 DEF StakeTells, StakeHeads
<1>5. CASE info.kind = "Deactivate"
  BY <1>5 DEF StakeTells, StakeHeads
<1>6. CASE info.kind \in {"SetLockup", "SetLockupChecked"}
  BY <1>6 DEF StakeTells, StakeHeads
<1>7. CASE info.kind = "Split"
  BY <1>7 DEF StakeTells, StakeHeads
<1>8. CASE info.kind = "Merge"
  BY <1>8 DEF StakeTells, StakeHeads
<1>9. info.kind \in {"Delegate", "Initialize", "InitializeChecked", "Withdraw", "Authorize",
                     "AuthorizeChecked", "Deactivate", "SetLockup", "SetLockupChecked", "Split",
                     "Merge"}
  BY DEF OfStake, StakeNames
<1> QED BY <1>1, <1>2, <1>3, <1>4, <1>5, <1>6, <1>7, <1>8, <1>9

\* The same for the vote program.
LEMMA VoteHeaded ==
  ASSUME NEW info, NEW said, OfVote(info), VoteTells(info, said)
  PROVE  \E title \in VoteHeads[info.kind] : Headed(said, title)
<1>1. CASE info.kind = "Initialize"
  BY <1>1 DEF VoteTells, VoteHeads
<1>2. CASE info.kind = "Withdraw"
  BY <1>2 DEF VoteTells, VoteHeads
<1>3. CASE info.kind \in {"Authorize", "AuthorizeChecked"}
  BY <1>3 DEF VoteTells, VoteHeads
<1>4. CASE info.kind = "UpdateValidatorId"
  BY <1>4 DEF VoteTells, VoteHeads
<1>5. CASE info.kind = "UpdateCommission"
  BY <1>5 DEF VoteTells, VoteHeads
<1>6. info.kind \in {"Initialize", "Withdraw", "Authorize", "AuthorizeChecked",
                     "UpdateValidatorId", "UpdateCommission"}
  BY DEF OfVote, VoteNames
<1> QED BY <1>1, <1>2, <1>3, <1>4, <1>5, <1>6

\* The same for the token program.
LEMMA TokenHeaded ==
  ASSUME NEW info, NEW said, OfToken(info), TokenTells(info, said)
  PROVE  \E title \in TokenHeads[info.kind] : Headed(said, title)
<1>1. CASE info.kind = "InitializeMint"
  BY <1>1 DEF TokenTells, TokenHeads
<1>2. CASE info.kind \in {"InitializeAccount", "InitializeAccount2"}
  BY <1>2 DEF TokenTells, TokenHeads
<1>3. CASE info.kind = "InitializeMultisig"
  BY <1>3 DEF TokenTells, TokenHeads
<1>4. CASE info.kind = "Revoke"
  BY <1>4 DEF TokenTells, TokenHeads
<1>5. CASE info.kind = "CloseAccount"
  BY <1>5 DEF TokenTells, TokenHeads
<1>6. CASE info.kind = "FreezeAccount"
  BY <1>6 DEF TokenTells, TokenHeads
<1>7. CASE info.kind = "ThawAccount"
  BY <1>7 DEF TokenTells, TokenHeads
<1>8. CASE info.kind = "TransferChecked"
  BY <1>8 DEF TokenTells, TokenHeads
<1>9. CASE info.kind = "ApproveChecked"
  BY <1>9 DEF TokenTells, TokenHeads
<1>10. CASE info.kind = "MintToChecked"
  BY <1>10 DEF TokenTells, TokenHeads
<1>11. CASE info.kind = "BurnChecked"
  BY <1>11 DEF TokenTells, TokenHeads
<1>12. CASE info.kind = "SyncNative"
  BY <1>12 DEF TokenTells, TokenHeads
<1>13. CASE info.kind = "SetAuthority"
  BY <1>13 DEF TokenTells, TokenHeads
<1>14. info.kind \in {"InitializeMint", "InitializeAccount", "InitializeAccount2",
                      "InitializeMultisig", "Revoke", "CloseAccount", "FreezeAccount",
                      "ThawAccount", "TransferChecked", "ApproveChecked", "MintToChecked",
                      "BurnChecked", "SyncNative", "SetAuthority"}
  BY DEF OfToken, TokenNames
<1> QED BY <1>1, <1>2, <1>3, <1>4, <1>5, <1>6, <1>7, <1>8, <1>9, <1>10, <1>11, <1>12, <1>13, <1>14

\* Owners of which the same is said are the same.
LEMMA OwnerAlike ==
  ASSUME NEW s, NEW t, NEW said, IsSigner(s), IsSigner(t), OwnerTells(s, said), OwnerTells(t, said)
  PROVE  s = t
<1>1. s.account = t.account
  BY SaysOnce DEF OwnerTells
<1>2. (s.kind # "Single" <=> t.kind # "Single") /\ (s.kind # "Single" => s.count = t.count)
  BY SaysOnce DEF SaysIf, OwnerTells
<1>3. CASE s.kind = "Single"
  <2>1. IsRecord(s, {"kind", "account"}) /\ IsRecord(t, {"kind", "account"}) /\ s.kind = t.kind
    BY <1>2, <1>3 DEF IsSigner
  <2> QED BY <1>1, <2>1 DEF IsRecord
<1>4. CASE s.kind # "Single"
  <2>1. /\ IsRecord(s, {"kind", "account", "count"}) /\ IsRecord(t, {"kind", "account", "count"})
        /\ s.kind = t.kind
    BY <1>2, <1>4 DEF IsSigner
  <2> QED BY <1>1, <1>2, <1>4, <2>1 DEF IsRecord
<1> QED BY <1>3, <1>4

\* So are the authorities of a new stake account, and its lockup looks the same.
LEMMA InitializeAlike ==
  ASSUME NEW a, NEW b, NEW said, InitializeTells(a, said), InitializeTells(b, said)
  PROVE  /\ a.stake_authority = b.stake_authority /\ a.withdraw_authority = b.withdraw_authority
         /\ ShownLockup(a.lockup) = ShownLockup(b.lockup)
<1>1. (a.stake_authority = a.withdraw_authority <=> b.stake_authority = b.withdraw_authority)
      /\ (a.stake_authority = a.withdraw_authority => a.stake_authority = b.stake_authority)
  BY SaysOnce DEF SaysIf, InitializeTells
<1>2. ~(a.stake_authority = a.withdraw_authority) => a.stake_authority = b.stake_authority
  BY SaysOnce DEF SaysIf, InitializeTells
<1>3. ~(a.stake_authority = a.withdraw_authority) => a.withdraw_authority = b.withdraw_authority
  BY SaysOnce DEF SaysIf, InitializeTells
<1>4. PICK s, t : s = a.lockup /\ t = b.lockup
  OBVIOUS
<1>5. /\ s.unix_timestamp > 0 <=> t.unix_timestamp > 0
      /\ s.unix_timestamp > 0 => s.unix_timestamp = t.unix_timestamp
  BY <1>4, SaysOnce DEF SaysIf, InitializeTells
<1>6. /\ s.epoch > 0 <=> t.epoch > 0
      /\ s.epoch > 0 => s.epoch = t.epoch
  BY <1>4, SaysOnce DEF SaysIf, InitializeTells
<1>7. s.unix_timestamp > 0 \/ s.epoch > 0 => s.custodian = t.custodian
  BY <1>4, SaysOnce DEF SaysIf, InitializeTells
<1>8. ShownLockup(s) = ShownLockup(t)
  BY <1>5, <1>6, <1>7 DEF ShownLockup
<1> QED BY <1>1, <1>2, <1>3, <1>4, <1>8

\* So is a lockup that is set.
LEMMA LockupAlike ==
  ASSUME NEW s, NEW t, NEW said,
         \E timestamp, epoch, custodian : s = parse_stake_lockupargs(timestamp, epoch, custodian),
         \E timestamp, epoch, custodian : t = parse_stake_lockupargs(timestamp, epoch, custodian),
         \A lockup \in {s, t} :
           /\ SaysIf("Timestamp" \in lockup.present, said, "Time", lockup.unix_timestamp)
           /\ SaysIf("Epoch" \in lockup.present, said, "Epoch", lockup.epoch)
           /\ SaysIf("Custodian" \in lockup.present, said, "New_authority", lockup.custodian)
  PROVE  s = t
<1> DEFINE Optional(lockup) ==
      /\ IsRecord(lockup, {"present", "unix_timestamp", "epoch", "custodian"})
      /\ lockup.present \subseteq {"Timestamp", "Epoch", "Custodian"}
      /\ "Timestamp" \notin lockup.present => lockup.unix_timestamp = 0
      /\ "Epoch" \notin lockup.present => lockup.epoch = 0
      /\ "Custodian" \notin lockup.present => lockup.custodian = NoKey
<1>1. \A timestamp, epoch, custodian : Optional(parse_stake_lockupargs(timestamp, epoch, custodian))
  <2>1. SUFFICES ASSUME NEW timestamp, NEW epoch, NEW custodian
                 PROVE  Optional(parse_stake_lockupargs(timestamp, epoch, custodian))
    OBVIOUS
  <2>2. PICK present, first, second :
          /\ present = {part \in {"Timestamp", "Epoch", "Custodian"} :
                          CASE part = "Timestamp" -> timestamp # <<>>
                            [] part = "Epoch" -> epoch # <<>>
                            [] part = "Custodian" -> custodian # NoKey}
          /\ first = IF timestamp = <<>> THEN 0 ELSE timestamp[1]
          /\ second = IF epoch = <<>> THEN 0 ELSE epoch[1]
    OBVIOUS
  <2>3. PICK lockup : lockup = parse_stake_lockupargs(timestamp, epoch, custodian)
    OBVIOUS
  <2>4. lockup = [present |-> present, unix_timestamp |-> first, epoch |-> second,
                  custodian |-> custodian]
    BY <2>2, <2>3 DEF parse_stake_lockupargs
  <2>5. /\ present \subseteq {"Timestamp", "Epoch", "Custodian"}
        /\ "Timestamp" \notin present => first = 0
        /\ "Epoch" \notin present => second = 0
        /\ "Custodian" \notin present => custodian = NoKey
    BY <2>2
  <2>6. IsRecord(lockup, {"present", "unix_timestamp", "epoch", "custodian"})
    BY <2>4 DEF IsRecord
  <2>7. lockup.present = present /\ lockup.unix_timestamp = first /\ lockup.epoch = second
        /\ lockup.custodian = custodian
    BY <2>4
  <2> QED BY <2>3, <2>5, <2>6, <2>7
<1>2. Optional(s) /\ Optional(t)
  BY <1>1
<1>3. /\ "Timestamp" \in s.present <=> "Timestamp" \in t.present
      /\ "Timestamp" \in s.present => s.unix_timestamp = t.unix_timestamp
  BY SaysOnce DEF SaysIf
<1>4. /\ "Epoch" \in s.present <=> "Epoch" \in t.present
      /\ "Epoch" \in s.present => s.epoch = t.epoch
  BY SaysOnce DEF SaysIf
<1>5. /\ "Custodian" \in s.present <=> "Custodian" \in t.present
      /\ "Custodian" \in s.present => s.custodian = t.custodian
  BY SaysOnce DEF SaysIf
<1>6. s.present = t.present
  BY <1>2, <1>3, <1>4, <1>5
<1>7. s.unix_timestamp = t.unix_timestamp /\ s.epoch = t.epoch /\ s.custodian = t.custodian
  BY <1>2, <1>3, <1>4, <1>5
<1> QED BY <1>2, <1>6, <1>7 DEF IsRecord

\* So are the amounts of tokens, and the symbols of their mints.
LEMMA TokensAlike ==
  ASSUME NEW a, NEW b, TokenValue(a) = TokenValue(b)
  PROVE  /\ a.amount = b.amount /\ a.decimals = b.decimals
         /\ get_token_symbol(a.mint_account) = get_token_symbol(b.mint_account)
<1>1. PICK amount, decimals, symbol, other_amount, other_decimals, other_symbol :
        /\ amount = a.amount /\ decimals = a.decimals /\ symbol = get_token_symbol(a.mint_account)
        /\ other_amount = b.amount /\ other_decimals = b.decimals
        /\ other_symbol = get_token_symbol(b.mint_account)
  OBVIOUS
<1>2. [amount |-> amount, symbol |-> symbol, decimals |-> decimals] =
        [amount |-> other_amount, symbol |-> other_symbol, decimals |-> other_decimals]
  BY <1>1 DEF TokenValue
<1>3. amount = other_amount /\ symbol = other_symbol /\ decimals = other_decimals
  BY <1>2
<1> QED BY <1>1, <1>3

\* So are thresholds that somebody can reach; the others have no text.
LEMMA ThresholdAlike ==
  ASSUME NEW a, NEW b, NEW said,
         SaysIf(a.m <= a.count, said, "Required_signers", <<a.m, a.count>>),
         SaysIf(b.m <= b.count, said, "Required_signers", <<b.m, b.count>>)
  PROVE  Shown(a, "m") = Shown(b, "m") /\ Shown(a, "count") = Shown(b, "count")
<1>1. (a.m <= a.count <=> b.m <= b.count) /\ (a.m <= a.count => <<a.m, a.count>> = <<b.m, b.count>>)
  BY SaysOnce DEF SaysIf
<1>2. a.m <= a.count => a.m = b.m /\ a.count = b.count
  BY <1>1
<1> QED BY <1>1, <1>2 DEF Shown

\* Infos of the system program of which the same is said are alike.
LEMMA SystemAlike ==
  ASSUME NEW a, NEW b, NEW said, OfSystem(a), OfSystem(b), SystemTells(a, said),
         SystemTells(b, said)
  PROVE  /\ a.kind = b.kind
         /\ AlikeInfo(a, b, {"program_id" : program \in {program \in {a.kind} : program = "AllocateWithSeed"}})
<1>1. PICK title : Headed(said, title) /\ title \in SystemHeads[a.kind] /\
        title \in SystemHeads[b.kind]
  BY SystemHeaded, SaysOnce
<1>2. b.kind \in {"Transfer", "CreateAccount", "CreateAccountWithSeed", "AdvanceNonceAccount",
                  "InitializeNonceAccount", "WithdrawNonceAccount", "AuthorizeNonceAccount",
                  "Assign", "Allocate", "AllocateWithSeed"}
  BY DEF OfSystem, SystemNames
<1>3. CASE a.kind = "Transfer"
  <2>2. b.kind = "Transfer"
    BY <1>1, <1>2, <1>3 DEF SystemHeads
  <2>3. PICK names : names = {"from", "to", "lamports"}
    OBVIOUS
  <2>4. Fielded(a, names) /\ Fielded(b, names)
    BY <1>3, <2>2, <2>3 DEF OfSystem, SystemNames
  <2>5. a.from = b.from /\ a.to = b.to /\ a.lamports = b.lamports
    BY <1>3, <2>2, SaysOnce DEF SystemTells
  <2>6. \A field \in names \ {} : Shown(a, field) = Shown(b, field)
    BY <1>3, <2>2, <2>3, <2>5, PlainShown
  <2>7. a.program = b.program /\ ShownKind(a) = ShownKind(b)
    BY <1>3, <2>2 DEF OfSystem, ShownKind, Alike
  <2> QED BY <1>3, <2>2, <2>4, <2>6, <2>7, AlikeFields
<1>4. CASE a.kind = "CreateAccount"
  <2>1. b.kind \in {"CreateAccount", "CreateAccountWithSeed"}
    BY <1>1, <1>2, <1>4 DEF SystemHeads
  <2>2. b.kind = "CreateAccount"
    BY <1>4, <2>1, SaysOnce DEF SystemTells
  <2>3. PICK names : names = {"from", "to", "lamports"}
    OBVIOUS
  <2>4. Fielded(a, names) /\ Fielded(b, names)
    BY <1>4, <2>2, <2>3 DEF OfSystem, SystemNames
  <2>5. a.from = b.from /\ a.to = b.to /\ a.lamports = b.lamports
    BY <1>4, <2>2, SaysOnce DEF SystemTells
  <2>6. \A field \in names \ {} : Shown(a, field) = Shown(b, field)
    BY <1>4, <2>2, <2>3, <2>5, PlainShown
  <2>7. a.program = b.program /\ ShownKind(a) = ShownKind(b)
    BY <1>4, <2>2 DEF OfSystem, ShownKind, Alike
  <2> QED BY <1>4, <2>2, <2>4, <2>6, <2>7, AlikeFields
<1>5. CASE a.kind = "CreateAccountWithSeed"
  <2>1. b.kind \in {"CreateAccount", "CreateAccountWithSeed"}
    BY <1>1, <1>2, <1>5 DEF SystemHeads
  <2>2. b.kind = "CreateAccountWithSeed"
    BY <1>5, <2>1, SaysOnce DEF SystemTells
  <2>3. PICK names : names = {"from", "to", "base", "seed", "lamports"}
    OBVIOUS
  <2>4. Fielded(a, names) /\ Fielded(b, names)
    BY <1>5, <2>2, <2>3 DEF OfSystem, SystemNames
  <2>5. a.from = b.from /\ a.to = b.to /\ a.base = b.base /\ a.seed = b.seed /\
          a.lamports = b.lamports
    BY <1>5, <2>2, SaysOnce DEF SystemTells
  <2>6. \A field \in names \ {} : Shown(a, field) = Shown(b, field)
    BY <1>5, <2>2, <2>3, <2>5, PlainShown
  <2>7. a.program = b.program /\ ShownKind(a) = ShownKind(b)
    BY <1>5, <2>2 DEF OfSystem, ShownKind, Alike
  <2> QED BY <1>5, <2>2, <2>4, <2>6, <2>7, AlikeFields
<1>6. CASE a.kind = "AdvanceNonceAccount"
  <2>2. b.kind = "AdvanceNonceAccount"
    BY <1>1, <1>2, <1>6 DEF SystemHeads
  <2>3. PICK names : names = {"account", "authority"}
    OBVIOUS
  <2>4. Fielded(a, names) /\ Fielded(b, names)
    BY <1>6, <2>2, <2>3 DEF OfSystem, SystemNames
  <2>5. a.account = b.account /\ a.authority = b.authority
    BY <1>6, <2>2, SaysOnce DEF SystemTells
  <2>6. \A field \in names \ {} : Shown(a, field) = Shown(b, field)
    BY <1>6, <2>2, <2>3, <2>5, PlainShown
  <2>7. a.program = b.program /\ ShownKind(a) = ShownKind(b)
    BY <1>6, <2>2 DEF OfSystem, ShownKind, Alike
  <2> QED BY <1>6, <2>2, <2>4, <2>6, <2>7, AlikeFields
<1>7. CASE a.kind = "InitializeNonceAccount"
  <2>2. b.kind = "InitializeNonceAccount"
    BY <1>1, <1>2, <1>7 DEF SystemHeads
  <2>3. PICK names : names = {"account", "authority"}
    OBVIOUS
  <2>4. Fielded(a, names) /\ Fielded(b, names)
    BY <1>7, <2>2, <2>3 DEF OfSystem, SystemNames
  <2>5. a.account = b.account /\ a.authority = b.authority
    BY <1>7, <2>2, SaysOnce DEF SystemTells
  <2>6. \A field \in names \ {} : Shown(a, field) = Shown(b, field)
    BY <1>7, <2>2, <2>3, <2>5, PlainShown
  <2>7. a.program = b.program /\ ShownKind(a) = ShownKind(b)
    BY <1>7, <2>2 DEF OfSystem, ShownKind, Alike
  <2> QED BY <1>7, <2>2, <2>4, <2>6, <2>7, AlikeFields
<1>8. CASE a.kind = "WithdrawNonceAccount"
  <2>2. b.kind = "WithdrawNonceAccount"
    BY <1>1, <1>2, <1>8 DEF SystemHeads
  <2>3. PICK names : names = {"account", "to", "authority", "lamports"}
    OBVIOUS
  <2>4. Fielded(a, names) /\ Fielded(b, names)
    BY <1>8, <2>2, <2>3 DEF OfSystem, SystemNames
  <2>5. a.account = b.account /\ a.to = b.to /\ a.authority = b.authority /\ a.lamports = b.lamports
    BY <1>8, <2>2, SaysOnce DEF SystemTells
  <2>6. \A field \in names \ {} : Shown(a, field) = Shown(b, field)
    BY <1>8, <2>2, <2>3, <2>5, PlainShown
  <2>7. a.program = b.program /\ ShownKind(a) = ShownKind(b)
    BY <1>8, <2>2 DEF OfSystem, ShownKind, Alike
  <2> QED BY <1>8, <2>2, <2>4, <2>6, <2>7, AlikeFields
<1>9. CASE a.kind = "AuthorizeNonceAccount"
  <2>2. b.kind = "AuthorizeNonceAccount"
    BY <1>1, <1>2, <1>9 DEF SystemHeads
  <2>3. PICK names : names = {"account", "authority", "new_authority"}
    OBVIOUS
  <2>4. Fielded(a, names) /\ Fielded(b, names)
    BY <1>9, <2>2, <2>3 DEF OfSystem, SystemNames
  <2>5. a.account = b.account /\ a.authority = b.authority /\ a.new_authority = b.new_authority
    BY <1>9, <2>2, SaysOnce DEF SystemTells
  <2>6. \A field \in names \ {} : Shown(a, field) = Shown(b, field)
    BY <1>9, <2>2, <2>3, <2>5, PlainShown
  <2>7. a.program = b.program /\ ShownKind(a) = ShownKind(b)
    BY <1>9, <2>2 DEF OfSystem, ShownKind, Alike
  <2> QED BY <1>9, <2>2, <2>4, <2>6, <2>7, AlikeFields
<1>10. CASE a.kind = "Assign"
  <2>2. b.kind = "Assign"
    BY <1>1, <1>2, <1>10 DEF SystemHeads
  <2>3. PICK names : names = {"account", "program_id"}
    OBVIOUS
  <2>4. Fielded(a, names) /\ Fielded(b, names)
    BY <1>10, <2>2, <2>3 DEF OfSystem, SystemNames
  <2>5. a.account = b.account /\ a.program_id = b.program_id
    BY <1>10, <2>2, SaysOnce DEF SystemTells
  <2>6. \A field \in names \ {} : Shown(a, field) = Shown(b, field)
    BY <1>10, <2>2, <2>3, <2>5, PlainShown
  <2>7. a.program = b.program /\ ShownKind(a) = ShownKind(b)
    BY <1>10, <2>2 DEF OfSystem, ShownKind, Alike
  <2> QED BY <1>10, <2>2, <2>4, <2>6, <2>7, AlikeFields
<1>11. CASE a.kind = "Allocate"
  <2>1. b.kind \in {"Allocate", "AllocateWithSeed"}
    BY <1>1, <1>2, <1>11 DEF SystemHeads
  <2>2. b.kind = "Allocate"
    BY <1>11, <2>1, SaysOnce DEF SystemTells
  <2>3. PICK names : names = {"account", "space"}
    OBVIOUS
  <2>4. Fielded(a, names) /\ Fielded(b, names)
    BY <1>11, <2>2, <2>3 DEF OfSystem, SystemNames
  <2>5. a.account = b.account /\ a.space = b.space
    BY <1>11, <2>2, SaysOnce DEF SystemTells
  <2>6. \A field \in names \ {} : Shown(a, field) = Shown(b, field)
    BY <1>11, <2>2, <2>3, <2>5, PlainShown
  <2>7. a.program = b.program /\ ShownKind(a) = ShownKind(b)
    BY <1>11, <2>2 DEF OfSystem, ShownKind, Alike
  <2> QED BY <1>11, <2>2, <2>4, <2>6, <2>7, AlikeFields
<1>12. CASE a.kind = "AllocateWithSeed"
  <2>1. b.kind \in {"Allocate", "AllocateWithSeed"}
    BY <1>1, <1>2, <1>12 DEF SystemHeads
  <2>2. b.kind = "AllocateWithSeed"
    BY <1>12, <2>1, SaysOnce DEF SystemTells
  <2>3. PICK names : names = {"account", "base", "seed", "space", "program_id"}
    OBVIOUS
  <2>4. Fielded(a, names) /\ Fielded(b, names)
    BY <1>12, <2>2, <2>3 DEF OfSystem, SystemNames
  <2>5. a.account = b.account /\ a.base = b.base /\ a.seed = b.seed /\ a.space = b.space
    BY <1>12, <2>2, SaysOnce DEF SystemTells
  <2>6. \A field \in names \ {"program_id"} : Shown(a, field) = Shown(b, field)
    BY <1>12, <2>2, <2>3, <2>5, PlainShown
  <2>7. a.program = b.program /\ ShownKind(a) = ShownKind(b)
    BY <1>12, <2>2 DEF OfSystem, ShownKind, Alike
  <2> QED BY <1>12, <2>2, <2>4, <2>6, <2>7, AlikeFields
<1>13. a.kind \in {"Transfer", "CreateAccount", "CreateAccountWithSeed", "AdvanceNonceAccount",
                   "InitializeNonceAccount", "WithdrawNonceAccount", "AuthorizeNonceAccount",
                   "Assign", "Allocate", "AllocateWithSeed"}
  BY DEF OfSystem, SystemNames
<1> QED BY <1>3, <1>4, <1>5, <1>6, <1>7, <1>8, <1>9, <1>10, <1>11, <1>12, <1>13

\* So are infos of the stake program of which the same is said.
LEMMA StakeAlike ==
  ASSUME NEW a, NEW b, NEW said, OfStake(a), OfStake(b), StakeTells(a, said), StakeTells(b, said)
  PROVE  AlikeInfo(a, b, {})
<1>1. PICK title : Headed(said, title) /\ title \in StakeHeads[a.kind] /\
        title \in StakeHeads[b.kind]
  BY StakeHeaded, SaysOnce
<1>2. b.kind \in {"Delegate", "Initialize", "InitializeChecked", "Withdraw", "Authorize",
                  "AuthorizeChecked", "Deactivate", "SetLockup", "SetLockupChecked", "Split",
                  "Merge"}
  BY DEF OfStake, StakeNames
<1>3. CASE a.kind = "Delegate"
  <2>2. b.kind = "Delegate"
    BY <1>1, <1>2, <1>3 DEF StakeHeads
  <2>3. PICK names : names = {"stake_pubkey", "vote_pubkey", "authorized_pubkey"}
    OBVIOUS
  <2>4. Fielded(a, names) /\ Fielded(b, names)
    BY <1>3, <2>2, <2>3 DEF OfStake, StakeNames
  <2>5. a.stake_pubkey = b.stake_pubkey /\ a.vote_pubkey = b.vote_pubkey /\
          a.authorized_pubkey = b.authorized_pubkey
    BY <1>3, <2>2, SaysOnce DEF StakeTells
  <2>6. \A field \in names \ {} : Shown(a, field) = Shown(b, field)
    BY <1>3, <2>2, <2>3, <2>5, PlainShown
  <2>7. a.program = b.program /\ ShownKind(a) = ShownKind(b)
    BY <1>3, <2>2 DEF OfStake, ShownKind, Alike
  <2> QED BY <1>3, <2>2, <2>4, <2>6, <2>7, AlikeFields
<1>4. CASE a.kind \in {"Initialize", "InitializeChecked"}
  <2>2. b.kind \in {"Initialize", "InitializeChecked"}
    BY <1>1, <1>2, <1>4 DEF StakeHeads
  <2>3. PICK names : names = {"account", "stake_authority", "withdraw_authority", "lockup"}
    OBVIOUS
  <2>4. Fielded(a, names) /\ Fielded(b, names)
    BY <1>4, <2>2, <2>3 DEF OfStake, StakeNames
  <2>5. /\ a.stake_authority = b.stake_authority /\ a.withdraw_authority = b.withdraw_authority
        /\ ShownLockup(a.lockup) = ShownLockup(b.lockup)
    BY <1>4, <2>2, InitializeAlike DEF StakeTells
  <2>6. a.account = b.account
    BY <1>4, <2>2, SaysOnce DEF StakeTells
  <2>7. \A field \in names \ {} : Shown(a, field) = Shown(b, field)
    BY <1>4, <2>2, <2>3, <2>5, <2>6, PlainShown
  <2>8. a.program = b.program /\ ShownKind(a) = ShownKind(b)
    BY <1>4, <2>2 DEF OfStake, ShownKind, Alike
  <2> QED BY <1>4, <2>2, <2>4, <2>7, <2>8, AlikeFields
<1>5. CASE a.kind = "Withdraw"
  <2>2. b.kind = "Withdraw"
    BY <1>1, <1>2, <1>5 DEF StakeHeads
  <2>3. PICK names : names = {"account", "to", "authority", "lamports"}
    OBVIOUS
  <2>4. Fielded(a, names) /\ Fielded(b, names)
    BY <1>5, <2>2, <2>3 DEF OfStake, StakeNames
  <2>5. a.account = b.account /\ a.to = b.to /\ a.authority = b.authority /\ a.lamports = b.lamports
    BY <1>5, <2>2, SaysOnce DEF StakeTells
  <2>6. \A field \in names \ {} : Shown(a, field) = Shown(b, field)
    BY <1>5, <2>2, <2>3, <2>5, PlainShown
  <2>7. a.program = b.program /\ ShownKind(a) = ShownKind(b)
    BY <1>5, <2>2 DEF OfStake, ShownKind, Alike
  <2> QED BY <1>5, <2>2, <2>4, <2>6, <2>7, AlikeFields
<1>6. CASE a.kind \in {"Authorize", "AuthorizeChecked"}
  <2>2. b.kind \in {"Authorize", "AuthorizeChecked"}
    BY <1>1, <1>2, <1>6 DEF StakeHeads
  <2>3. PICK names : names = {"account", "authority", "new_authority", "authorize", "custodian"}
    OBVIOUS
  <2>4. Fielded(a, names) /\ Fielded(b, names)
    BY <1>6, <2>2, <2>3 DEF OfStake, StakeNames
  <2>5. (a.authorize = "Staker" <=> b.authorize = "Staker")
        /\ (a.authorize = "Staker" => a.new_authority = b.new_authority)
    BY <1>6, <2>2, SaysOnce DEF SaysIf, StakeTells
  <2>6. a.authorize # "Staker" => a.new_authority = b.new_authority
    BY <1>6, <2>2, SaysOnce DEF SaysIf, StakeTells
  <2>7. a.authorize = b.authorize
    BY <1>6, <2>2, <2>5 DEF OfStake
  <2>8. a.custodian = b.custodian
    BY <1>6, <2>2, SaysOnce DEF SaysIf, StakeTells
  <2>9. a.account = b.account /\ a.authority = b.authority
    BY <1>6, <2>2, SaysOnce DEF StakeTells
  <2>10. \A field \in names \ {} : Shown(a, field) = Shown(b, field)
    BY <1>6, <2>2, <2>3, <2>5, <2>6, <2>7, <2>8, <2>9, PlainShown
  <2>11. a.program = b.program /\ ShownKind(a) = ShownKind(b)
    BY <1>6, <2>2 DEF OfStake, ShownKind, Alike
  <2> QED BY <1>6, <2>2, <2>4, <2>10, <2>11, AlikeFields
<1>7. CASE a.kind = "Deactivate"
  <2>2. b.kind = "Deactivate"
    BY <1>1, <1>2, <1>7 DEF StakeHeads
  <2>3. PICK names : names = {"account", "authority"}
    OBVIOUS
  <2>4. Fielded(a, names) /\ Fielded(b, names)
    BY <1>7, <2>2, <2>3 DEF OfStake, StakeNames
  <2>5. a.account = b.account /\ a.authority = b.authority
    BY <1>7, <2>2, SaysOnce DEF StakeTells
  <2>6. \A field \in names \ {} : Shown(a, field) = Shown(b, field)
    BY <1>7, <2>2, <2>3, <2>5, PlainShown
  <2>7. a.program = b.program /\ ShownKind(a) = ShownKind(b)
    BY <1>7, <2>2 DEF OfStake, ShownKind, Alike
  <2> QED BY <1>7, <2>2, <2>4, <2>6, <2>7, AlikeFields
<1>8. CASE a.kind \in {"SetLockup", "SetLockupChecked"}
  <2>2. b.kind \in {"SetLockup", "SetLockupChecked"}
    BY <1>1, <1>2, <1>8 DEF StakeHeads
  <2>3. PICK names : names = {"account", "custodian", "lockup"}
    OBVIOUS
  <2>4. Fielded(a, names) /\ Fielded(b, names)
    BY <1>8, <2>2, <2>3 DEF OfStake, StakeNames
  <2>5. a.lockup = b.lockup
    <3>1. PICK s, t : s = a.lockup /\ t = b.lockup
      OBVIOUS
    <3>2. \A lockup \in {s, t} :
            /\ SaysIf("Timestamp" \in lockup.present, said, "Time", lockup.unix_timestamp)
            /\ SaysIf("Epoch" \in lockup.present, said, "Epoch", lockup.epoch)
            /\ SaysIf("Custodian" \in lockup.present, said, "New_authority", lockup.custodian)
      BY <1>8, <2>2, <3>1 DEF StakeTells
    <3>3. /\ \E timestamp, epoch, custodian :
               s = parse_stake_lockupargs(timestamp, epoch, custodian)
          /\ \E timestamp, epoch, custodian :
               t = parse_stake_lockupargs(timestamp, epoch, custodian)
      BY <1>8, <2>2, <3>1 DEF OfStake
    <3> QED BY <3>1, <3>2, <3>3, LockupAlike
  <2>6. a.account = b.account /\ a.custodian = b.custodian
    BY <1>8, <2>2, SaysOnce DEF StakeTells
  <2>7. \A field \in names \ {} : Shown(a, field) = Shown(b, field)
    BY <1>8, <2>2, <2>3, <2>5, <2>6, PlainShown
  <2>8. a.program = b.program /\ ShownKind(a) = ShownKind(b)
    BY <1>8, <2>2 DEF OfStake, ShownKind, Alike
  <2> QED BY <1>8, <2>2, <2>4, <2>7, <2>8, AlikeFields
<1>9. CASE a.kind = "Split"
  <2>2. b.kind = "Split"
    BY <1>1, <1>2, <1>9 DEF StakeHeads
  <2>3. PICK names : names = {"account", "split_account", "authority", "lamports"}
    OBVIOUS
  <2>4. Fielded(a, names) /\ Fielded(b, names)
    BY <1>9, <2>2, <2>3 DEF OfStake, StakeNames
  <2>5. a.account = b.account /\ a.split_account = b.split_account /\ a.authority = b.authority /\
          a.lamports = b.lamports
    BY <1>9, <2>2, SaysOnce DEF StakeTells
  <2>6. \A field \in names \ {} : Shown(a, field) = Shown(b, field)
    BY <1>9, <2>2, <2>3, <2>5, PlainShown
  <2>7. a.program = b.program /\ ShownKind(a) = ShownKind(b)
    BY <1>9, <2>2 DEF OfStake, ShownKind, Alike
  <2> QED BY <1>9, <2>2, <2>4, <2>6, <2>7, AlikeFields
<1>10. CASE a.kind = "Merge"
  <2>2. b.kind = "Merge"
    BY <1>1, <1>2, <1>10 DEF StakeHeads
  <2>3. PICK names : names = {"destination", "source", "authority"}
    OBVIOUS
  <2>4. Fielded(a, names) /\ Fielded(b, names)
    BY <1>10, <2>2, <2>3 DEF OfStake, StakeNames
  <2>5. a.destination = b.destination /\ a.source = b.source /\ a.authority = b.authority
    BY <1>10, <2>2, SaysOnce DEF StakeTells
  <2>6. \A field \in names \ {} : Shown(a, field) = Shown(b, field)
    BY <1>10, <2>2, <2>3, <2>5, PlainShown
  <2>7. a.program = b.program /\ ShownKind(a) = ShownKind(b)
    BY <1>10, <2>2 DEF OfStake, ShownKind, Alike
  <2> QED BY <1>10, <2>2, <2>4, <2>6, <2>7, AlikeFields
<1>11. a.kind \in {"Delegate", "Initialize", "InitializeChecked", "Withdraw", "Authorize",
                   "AuthorizeChecked", "Deactivate", "SetLockup", "SetLockupChecked", "Split",
                   "Merge"}
  BY DEF OfStake, StakeNames
<1> QED BY <1>3, <1>4, <1>5, <1>6, <1>7, <1>8, <1>9, <1>10, <1>11

\* So are infos of the vote program of which the same is said.
LEMMA VoteAlike ==
  ASSUME NEW a, NEW b, NEW said, OfVote(a), OfVote(b), VoteTells(a, said), VoteTells(b, said)
  PROVE  AlikeInfo(a, b, {})
<1>1. PICK title : Headed(said, title) /\ title \in VoteHeads[a.kind] /\ title \in VoteHeads[b.kind]
  BY VoteHeaded, SaysOnce
<1>2. b.kind \in {"Initialize", "Withdraw", "Authorize", "AuthorizeChecked", "UpdateValidatorId",
                  "UpdateCommission"}
  BY DEF OfVote, VoteNames
<1>3. CASE a.kind = "Initialize"
  <2>2. b.kind = "Initialize"
    BY <1>1, <1>2, <1>3 DEF VoteHeads
  <2>3. PICK names : names = {"account", "validator_id", "vote_authority", "withdraw_authority",
                              "commission"}
    OBVIOUS
  <2>4. Fielded(a, names) /\ Fielded(b, names)
    BY <1>3, <2>2, <2>3 DEF OfVote, VoteNames
  <2>5. a.account = b.account /\ a.validator_id = b.validator_id /\
          a.vote_authority = b.vote_authority /\ a.withdraw_authority = b.withdraw_authority /\
          a.commission = b.commission
    BY <1>3, <2>2, SaysOnce DEF VoteTells
  <2>6. \A field \in names \ {} : Shown(a, field) = Shown(b, field)
    BY <1>3, <2>2, <2>3, <2>5, PlainShown
  <2>7. a.program = b.program /\ ShownKind(a) = ShownKind(b)
    BY <1>3, <2>2 DEF OfVote, ShownKind, Alike
  <2> QED BY <1>3, <2>2, <2>4, <2>6, <2>7, AlikeFields
<1>4. CASE a.kind = "Withdraw"
  <2>2. b.kind = "Withdraw"
    BY <1>1, <1>2, <1>4 DEF VoteHeads
  <2>3. PICK names : names = {"account", "to", "authority", "lamports"}
    OBVIOUS
  <2>4. Fielded(a, names) /\ Fielded(b, names)
    BY <1>4, <2>2, <2>3 DEF OfVote, VoteNames
  <2>5. a.account = b.account /\ a.to = b.to /\ a.authority = b.authority /\ a.lamports = b.lamports
    BY <1>4, <2>2, SaysOnce DEF VoteTells
  <2>6. \A field \in names \ {} : Shown(a, field) = Shown(b, field)
    BY <1>4, <2>2, <2>3, <2>5, PlainShown
  <2>7. a.program = b.program /\ ShownKind(a) = ShownKind(b)
    BY <1>4, <2>2 DEF OfVote, ShownKind, Alike
  <2> QED BY <1>4, <2>2, <2>4, <2>6, <2>7, AlikeFields
<1>5. CASE a.kind \in {"Authorize", "AuthorizeChecked"}
  <2>2. b.kind \in {"Authorize", "AuthorizeChecked"}
    BY <1>1, <1>2, <1>5 DEF VoteHeads
  <2>3. PICK names : names = {"account", "authority", "new_authority", "authorize"}
    OBVIOUS
  <2>4. Fielded(a, names) /\ Fielded(b, names)
    BY <1>5, <2>2, <2>3 DEF OfVote, VoteNames
  <2>5. (a.authorize = "Voter" <=> b.authorize = "Voter")
        /\ (a.authorize = "Voter" => a.new_authority = b.new_authority)
    BY <1>5, <2>2, SaysOnce DEF SaysIf, VoteTells
  <2>6. a.authorize # "Voter" => a.new_authority = b.new_authority
    BY <1>5, <2>2, SaysOnce DEF SaysIf, VoteTells
  <2>7. a.authorize = b.authorize
    BY <1>5, <2>2, <2>5 DEF OfVote
  <2>8. a.account = b.account /\ a.authority = b.authority
    BY <1>5, <2>2, SaysOnce DEF VoteTells
  <2>9. \A field \in names \ {} : Shown(a, field) = Shown(b, field)
    BY <1>5, <2>2, <2>3, <2>5, <2>6, <2>7, <2>8, PlainShown
  <2>10. a.program = b.program /\ ShownKind(a) = ShownKind(b)
    BY <1>5, <2>2 DEF OfVote, ShownKind, Alike
  <2> QED BY <1>5, <2>2, <2>4, <2>9, <2>10, AlikeFields
<1>6. CASE a.kind = "UpdateValidatorId"
  <2>2. b.kind = "UpdateValidatorId"
    BY <1>1, <1>2, <1>6 DEF VoteHeads
  <2>3. PICK names : names = {"account", "new_validator_id", "authority"}
    OBVIOUS
  <2>4. Fielded(a, names) /\ Fielded(b, names)
    BY <1>6, <2>2, <2>3 DEF OfVote, VoteNames
  <2>5. a.account = b.account /\ a.new_validator_id = b.new_validator_id /\
          a.authority = b.authority
    BY <1>6, <2>2, SaysOnce DEF VoteTells
  <2>6. \A field \in names \ {} : Shown(a, field) = Shown(b, field)
    BY <1>6, <2>2, <2>3, <2>5, PlainShown
  <2>7. a.program = b.program /\ ShownKind(a) = ShownKind(b)
    BY <1>6, <2>2 DEF OfVote, ShownKind, Alike
  <2> QED BY <1>6, <2>2, <2>4, <2>6, <2>7, AlikeFields
<1>7. CASE a.kind = "UpdateCommission"
  <2>2. b.kind = "UpdateCommission"
    BY <1>1, <1>2, <1>7 DEF VoteHeads
  <2>3. PICK names : names = {"account", "authority", "commission"}
    OBVIOUS
  <2>4. Fielded(a, names) /\ Fielded(b, names)
    BY <1>7, <2>2, <2>3 DEF OfVote, VoteNames
  <2>5. a.account = b.account /\ a.authority = b.authority /\ a.commission = b.commission
    BY <1>7, <2>2, SaysOnce DEF VoteTells
  <2>6. \A field \in names \ {} : Shown(a, field) = Shown(b, field)
    BY <1>7, <2>2, <2>3, <2>5, PlainShown
  <2>7. a.program = b.program /\ ShownKind(a) = ShownKind(b)
    BY <1>7, <2>2 DEF OfVote, ShownKind, Alike
  <2> QED BY <1>7, <2>2, <2>4, <2>6, <2>7, AlikeFields
<1>8. a.kind \in {"Initialize", "Withdraw", "Authorize", "AuthorizeChecked", "UpdateValidatorId",
                  "UpdateCommission"}
  BY DEF OfVote, VoteNames
<1> QED BY <1>3, <1>4, <1>5, <1>6, <1>7, <1>8

\* So are infos of the token program of which the same is said.
LEMMA TokenAlike ==
  ASSUME NEW a, NEW b, NEW said, OfToken(a), OfToken(b), TokenTells(a, said), TokenTells(b, said)
  PROVE  AlikeInfo(a, b, {})
<1>1. PICK title : Headed(said, title) /\ title \in TokenHeads[a.kind] /\
        title \in TokenHeads[b.kind]
  BY TokenHeaded, SaysOnce
<1>2. b.kind \in {"InitializeMint", "InitializeAccount", "InitializeAccount2",
                  "InitializeMultisig", "Revoke", "CloseAccount", "FreezeAccount", "ThawAccount",
                  "TransferChecked", "ApproveChecked", "MintToChecked", "BurnChecked",
                  "SyncNative", "SetAuthority"}
  BY DEF OfToken, TokenNames
<1>3. CASE a.kind = "InitializeMint"
  <2>2. b.kind = "InitializeMint"
    BY <1>1, <1>2, <1>3 DEF TokenHeads
  <2>3. PICK names : names = {"mint_account", "decimals", "mint_authority", "freeze_authority"}
    OBVIOUS
  <2>4. Fielded(a, names) /\ Fielded(b, names)
    BY <1>3, <2>2, <2>3 DEF OfToken, TokenNames
  <2>5. a.freeze_authority = b.freeze_authority
    BY <1>3, <2>2, SaysOnce DEF SaysIf, TokenTells
  <2>6. a.mint_account = b.mint_account /\ a.decimals = b.decimals /\
          a.mint_authority = b.mint_authority
    BY <1>3, <2>2, SaysOnce DEF TokenTells
  <2>7. \A field \in names \ {} : Shown(a, field) = Shown(b, field)
    BY <1>3, <2>2, <2>3, <2>5, <2>6, PlainShown
  <2>8. a.program = b.program /\ ShownKind(a) = ShownKind(b)
    BY <1>3, <2>2 DEF OfToken, ShownKind, Alike
  <2> QED BY <1>3, <2>2, <2>4, <2>7, <2>8, AlikeFields
<1>4. CASE a.kind \in {"InitializeAccount", "InitializeAccount2"}
  <2>2. b.kind \in {"InitializeAccount", "InitializeAccount2"}
    BY <1>1, <1>2, <1>4 DEF TokenHeads
  <2>3. PICK names : names = {"token_account", "mint_account", "owner"}
    OBVIOUS
  <2>4. Fielded(a, names) /\ Fielded(b, names)
    BY <1>4, <2>2, <2>3 DEF OfToken, TokenNames
  <2>5. a.token_account = b.token_account /\ a.mint_account = b.mint_account /\ a.owner = b.owner
    BY <1>4, <2>2, SaysOnce DEF TokenTells
  <2>6. \A field \in names \ {} : Shown(a, field) = Shown(b, field)
    BY <1>4, <2>2, <2>3, <2>5, PlainShown
  <2>7. a.program = b.program /\ ShownKind(a) = ShownKind(b)
    BY <1>4, <2>2 DEF OfToken, ShownKind, Alike
  <2> QED BY <1>4, <2>2, <2>4, <2>6, <2>7, AlikeFields
<1>5. CASE a.kind = "InitializeMultisig"
  <2>2. b.kind = "InitializeMultisig"
    BY <1>1, <1>2, <1>5 DEF TokenHeads
  <2>3. PICK names : names = {"multisig_account", "m", "count"}
    OBVIOUS
  <2>4. Fielded(a, names) /\ Fielded(b, names)
    BY <1>5, <2>2, <2>3 DEF OfToken, TokenNames
  <2>5. Shown(a, "m") = Shown(b, "m") /\ Shown(a, "count") = Shown(b, "count")
    BY <1>5, <2>2, ThresholdAlike DEF TokenTells
  <2>6. a.multisig_account = b.multisig_account
    BY <1>5, <2>2, SaysOnce DEF TokenTells
  <2>7. \A field \in names \ {} : Shown(a, field) = Shown(b, field)
    BY <1>5, <2>2, <2>3, <2>5, <2>6, PlainShown
  <2>8. a.program = b.program /\ ShownKind(a) = ShownKind(b)
    BY <1>5, <2>2 DEF OfToken, ShownKind, Alike
  <2> QED BY <1>5, <2>2, <2>4, <2>7, <2>8, AlikeFields
<1>6. CASE a.kind = "Revoke"
  <2>2. b.kind = "Revoke"
    BY <1>1, <1>2, <1>6 DEF TokenHeads
  <2>3. PICK names : names = {"token_account", "sign"}
    OBVIOUS
  <2>4. Fielded(a, names) /\ Fielded(b, names)
    BY <1>6, <2>2, <2>3 DEF OfToken, TokenNames
  <2>5. a.sign = b.sign
    <3>1. IsSigner(a.sign) /\ IsSigner(b.sign)
      BY <1>6, <2>2 DEF OfToken, TokenNames
    <3>2. OwnerTells(a.sign, said) /\ OwnerTells(b.sign, said)
      BY <1>6, <2>2 DEF TokenTells
    <3> QED BY <3>1, <3>2, OwnerAlike
  <2>6. a.token_account = b.token_account
    BY <1>6, <2>2, SaysOnce DEF TokenTells
  <2>7. \A field \in names \ {} : Shown(a, field) = Shown(b, field)
    BY <1>6, <2>2, <2>3, <2>5, <2>6, PlainShown
  <2>8. a.program = b.program /\ ShownKind(a) = ShownKind(b)
    BY <1>6, <2>2 DEF OfToken, ShownKind, Alike
  <2> QED BY <1>6, <2>2, <2>4, <2>7, <2>8, AlikeFields
<1>7. CASE a.kind = "CloseAccount"
  <2>2. b.kind = "CloseAccount"
    BY <1>1, <1>2, <1>7 DEF TokenHeads
  <2>3. PICK names : names = {"token_account", "dest_account", "sign"}
    OBVIOUS
  <2>4. Fielded(a, names) /\ Fielded(b, names)
    BY <1>7, <2>2, <2>3 DEF OfToken, TokenNames
  <2>5. a.sign = b.sign
    <3>1. IsSigner(a.sign) /\ IsSigner(b.sign)
      BY <1>7, <2>2 DEF OfToken, TokenNames
    <3>2. OwnerTells(a.sign, said) /\ OwnerTells(b.sign, said)
      BY <1>7, <2>2 DEF TokenTells
    <3> QED BY <3>1, <3>2, OwnerAlike
  <2>6. a.token_account = b.token_account /\ a.dest_account = b.dest_account
    BY <1>7, <2>2, SaysOnce DEF TokenTells
  <2>7. \A field \in names \ {} : Shown(a, field) = Shown(b, field)
    BY <1>7, <2>2, <2>3, <2>5, <2>6, PlainShown
  <2>8. a.program = b.program /\ ShownKind(a) = ShownKind(b)
    BY <1>7, <2>2 DEF OfToken, ShownKind, Alike
  <2> QED BY <1>7, <2>2, <2>4, <2>7, <2>8, AlikeFields
<1>8. CASE a.kind = "FreezeAccount"
  <2>2. b.kind = "FreezeAccount"
    BY <1>1, <1>2, <1>8 DEF TokenHeads
  <2>3. PICK names : names = {"token_account", "mint_account", "sign"}
    OBVIOUS
  <2>4. Fielded(a, names) /\ Fielded(b, names)
    BY <1>8, <2>2, <2>3 DEF OfToken, TokenNames
  <2>5. a.sign = b.sign
    <3>1. IsSigner(a.sign) /\ IsSigner(b.sign)
      BY <1>8, <2>2 DEF OfToken, TokenNames
    <3>2. OwnerTells(a.sign, said) /\ OwnerTells(b.sign, said)
      BY <1>8, <2>2 DEF TokenTells
    <3> QED BY <3>1, <3>2, OwnerAlike
  <2>6. a.token_account = b.token_account /\ a.mint_account = b.mint_account
    BY <1>8, <2>2, SaysOnce DEF TokenTells
  <2>7. \A field \in names \ {} : Shown(a, field) = Shown(b, field)
    BY <1>8, <2>2, <2>3, <2>5, <2>6, PlainShown
  <2>8. a.program = b.program /\ ShownKind(a) = ShownKind(b)
    BY <1>8, <2>2 DEF OfToken, ShownKind, Alike
  <2> QED BY <1>8, <2>2, <2>4, <2>7, <2>8, AlikeFields
<1>9. CASE a.kind = "ThawAccount"
  <2>2. b.kind = "ThawAccount"
    BY <1>1, <1>2, <1>9 DEF TokenHeads
  <2>3. PICK names : names = {"token_account", "mint_account", "sign"}
    OBVIOUS
  <2>4. Fielded(a, names) /\ Fielded(b, names)
    BY <1>9, <2>2, <2>3 DEF OfToken, TokenNames
  <2>5. a.sign = b.sign
    <3>1. IsSigner(a.sign) /\ IsSigner(b.sign)
      BY <1>9, <2>2 DEF OfToken, TokenNames
    <3>2. OwnerTells(a.sign, said) /\ OwnerTells(b.sign, said)
      BY <1>9, <2>2 DEF TokenTells
    <3> QED BY <3>1, <3>2, OwnerAlike
  <2>6. a.token_account = b.token_account /\ a.mint_account = b.mint_account
    BY <1>9, <2>2, SaysOnce DEF TokenTells
  <2>7. \A field \in names \ {} : Shown(a, field) = Shown(b, field)
    BY <1>9, <2>2, <2>3, <2>5, <2>6, PlainShown
  <2>8. a.program = b.program /\ ShownKind(a) = ShownKind(b)
    BY <1>9, <2>2 DEF OfToken, ShownKind, Alike
  <2> QED BY <1>9, <2>2, <2>4, <2>7, <2>8, AlikeFields
<1>10. CASE a.kind = "TransferChecked"
  <2>2. b.kind = "TransferChecked"
    BY <1>1, <1>2, <1>10 DEF TokenHeads
  <2>3. PICK names : names = {"src_account", "mint_account", "dest_account", "amount", "decimals",
                              "sign"}
    OBVIOUS
  <2>4. Fielded(a, names) /\ Fielded(b, names)
    BY <1>10, <2>2, <2>3 DEF OfToken, TokenNames
  <2>5. a.sign = b.sign
    <3>1. IsSigner(a.sign) /\ IsSigner(b.sign)
      BY <1>10, <2>2 DEF OfToken, TokenNames
    <3>2. OwnerTells(a.sign, said) /\ OwnerTells(b.sign, said)
      BY <1>10, <2>2 DEF TokenTells
    <3> QED BY <3>1, <3>2, OwnerAlike
  <2>6. TokenValue(a) = TokenValue(b)
    BY <1>10, <2>2, SaysOnce DEF TokenTells
  <2>7. /\ a.amount = b.amount /\ a.decimals = b.decimals
        /\ get_token_symbol(a.mint_account) = get_token_symbol(b.mint_account)
    BY <2>6, TokensAlike
  <2>8. a.src_account = b.src_account /\ a.dest_account = b.dest_account
    BY <1>10, <2>2, SaysOnce DEF TokenTells
  <2>9. \A field \in names \ {} : Shown(a, field) = Shown(b, field)
    BY <1>10, <2>2, <2>3, <2>5, <2>7, <2>8, PlainShown
  <2>10. a.program = b.program /\ ShownKind(a) = ShownKind(b)
    BY <1>10, <2>2 DEF OfToken, ShownKind, Alike
  <2> QED BY <1>10, <2>2, <2>4, <2>9, <2>10, AlikeFields
<1>11. CASE a.kind = "ApproveChecked"
  <2>2. b.kind = "ApproveChecked"
    BY <1>1, <1>2, <1>11 DEF TokenHeads
  <2>3. PICK names : names = {"token_account", "mint_account", "delegate", "amount", "decimals",
                              "sign"}
    OBVIOUS
  <2>4. Fielded(a, names) /\ Fielded(b, names)
    BY <1>11, <2>2, <2>3 DEF OfToken, TokenNames
  <2>5. a.sign = b.sign
    <3>1. IsSigner(a.sign) /\ IsSigner(b.sign)
      BY <1>11, <2>2 DEF OfToken, TokenNames
    <3>2. OwnerTells(a.sign, said) /\ OwnerTells(b.sign, said)
      BY <1>11, <2>2 DEF TokenTells
    <3> QED BY <3>1, <3>2, OwnerAlike
  <2>6. TokenValue(a) = TokenValue(b)
    BY <1>11, <2>2, SaysOnce DEF TokenTells
  <2>7. /\ a.amount = b.amount /\ a.decimals = b.decimals
        /\ get_token_symbol(a.mint_account) = get_token_symbol(b.mint_account)
    BY <2>6, TokensAlike
  <2>8. a.token_account = b.token_account /\ a.delegate = b.delegate
    BY <1>11, <2>2, SaysOnce DEF TokenTells
  <2>9. \A field \in names \ {} : Shown(a, field) = Shown(b, field)
    BY <1>11, <2>2, <2>3, <2>5, <2>7, <2>8, PlainShown
  <2>10. a.program = b.program /\ ShownKind(a) = ShownKind(b)
    BY <1>11, <2>2 DEF OfToken, ShownKind, Alike
  <2> QED BY <1>11, <2>2, <2>4, <2>9, <2>10, AlikeFields
<1>12. CASE a.kind = "MintToChecked"
  <2>2. b.kind = "MintToChecked"
    BY <1>1, <1>2, <1>12 DEF TokenHeads
  <2>3. PICK names : names = {"mint_account", "token_account", "amount", "decimals", "sign"}
    OBVIOUS
  <2>4. Fielded(a, names) /\ Fielded(b, names)
    BY <1>12, <2>2, <2>3 DEF OfToken, TokenNames
  <2>5. a.sign = b.sign
    <3>1. IsSigner(a.sign) /\ IsSigner(b.sign)
      BY <1>12, <2>2 DEF OfToken, TokenNames
    <3>2. OwnerTells(a.sign, said) /\ OwnerTells(b.sign, said)
      BY <1>12, <2>2 DEF TokenTells
    <3> QED BY <3>1, <3>2, OwnerAlike
  <2>6. TokenValue(a) = TokenValue(b)
    BY <1>12, <2>2, SaysOnce DEF TokenTells
  <2>7. /\ a.amount = b.amount /\ a.decimals = b.decimals
        /\ get_token_symbol(a.mint_account) = get_token_symbol(b.mint_account)
    BY <2>6, TokensAlike
  <2>8. a.token_account = b.token_account /\ a.mint_account = b.mint_account
    BY <1>12, <2>2, SaysOnce DEF TokenTells
  <2>9. \A field \in names \ {} : Shown(a, field) = Shown(b, field)
    BY <1>12, <2>2, <2>3, <2>5, <2>7, <2>8, PlainShown
  <2>10. a.program = b.program /\ ShownKind(a) = ShownKind(b)
    BY <1>12, <2>2 DEF OfToken, ShownKind, Alike
  <2> QED BY <1>12, <2>2, <2>4, <2>9, <2>10, AlikeFields
<1>13. CASE a.kind = "BurnChecked"
  <2>2. b.kind = "BurnChecked"
    BY <1>1, <1>2, <1>13 DEF TokenHeads
  <2>3. PICK names : names = {"token_account", "mint_account", "amount", "decimals", "sign"}
    OBVIOUS
  <2>4. Fielded(a, names) /\ Fielded(b, names)
    BY <1>13, <2>2, <2>3 DEF OfToken, TokenNames
  <2>5. a.sign = b.sign
    <3>1. IsSigner(a.sign) /\ IsSigner(b.sign)
      BY <1>13, <2>2 DEF OfToken, TokenNames
    <3>2. OwnerTells(a.sign, said) /\ OwnerTells(b.sign, said)
      BY <1>13, <2>2 DEF TokenTells
    <3> QED BY <3>1, <3>2, OwnerAlike
  <2>6. TokenValue(a) = TokenValue(b)
    BY <1>13, <2>2, SaysOnce DEF TokenTells
  <2>7. /\ a.amount = b.amount /\ a.decimals = b.decimals
        /\ get_token_symbol(a.mint_account) = get_token_symbol(b.mint_account)
    BY <2>6, TokensAlike
  <2>8. a.token_account = b.token_account
    BY <1>13, <2>2, SaysOnce DEF TokenTells
  <2>9. \A field \in names \ {} : Shown(a, field) = Shown(b, field)
    BY <1>13, <2>2, <2>3, <2>5, <2>7, <2>8, PlainShown
  <2>10. a.program = b.program /\ ShownKind(a) = ShownKind(b)
    BY <1>13, <2>2 DEF OfToken, ShownKind, Alike
  <2> QED BY <1>13, <2>2, <2>4, <2>9, <2>10, AlikeFields
<1>14. CASE a.kind = "SyncNative"
  <2>2. b.kind = "SyncNative"
    BY <1>1, <1>2, <1>14 DEF TokenHeads
  <2>3. PICK names : names = {"token_account"}
    OBVIOUS
  <2>4. Fielded(a, names) /\ Fielded(b, names)
    BY <1>14, <2>2, <2>3 DEF OfToken, TokenNames
  <2>5. a.token_account = b.token_account
    BY <1>14, <2>2, SaysOnce DEF TokenTells
  <2>6. \A field \in names \ {} : Shown(a, field) = Shown(b, field)
    BY <1>14, <2>2, <2>3, <2>5, PlainShown
  <2>7. a.program = b.program /\ ShownKind(a) = ShownKind(b)
    BY <1>14, <2>2 DEF OfToken, ShownKind, Alike
  <2> QED BY <1>14, <2>2, <2>4, <2>6, <2>7, AlikeFields
<1>15. CASE a.kind = "SetAuthority"
  <2>2. b.kind = "SetAuthority"
    BY <1>1, <1>2, <1>15 DEF TokenHeads
  <2>3. PICK names : names = {"account", "authority_type", "new_authority", "sign"}
    OBVIOUS
  <2>4. Fielded(a, names) /\ Fielded(b, names)
    BY <1>15, <2>2, <2>3 DEF OfToken, TokenNames
  <2>5. a.new_authority = b.new_authority
    BY <1>15, <2>2, SaysOnce DEF SaysIf, TokenTells
  <2>6. a.account = b.account
    BY <1>15, <2>2, <2>5, SaysOnce DEF TokenTells
  <2>7. a.sign = b.sign
    <3>1. IsSigner(a.sign) /\ IsSigner(b.sign)
      BY <1>15, <2>2 DEF OfToken, TokenNames
    <3>2. OwnerTells(a.sign, said) /\ OwnerTells(b.sign, said)
      BY <1>15, <2>2 DEF TokenTells
    <3> QED BY <3>1, <3>2, OwnerAlike
  <2>8. a.authority_type = b.authority_type
    BY <1>15, <2>2, SaysOnce DEF TokenTells
  <2>9. \A field \in names \ {} : Shown(a, field) = Shown(b, field)
    BY <1>15, <2>2, <2>3, <2>5, <2>6, <2>7, <2>8, PlainShown
  <2>10. a.program = b.program /\ ShownKind(a) = ShownKind(b)
    BY <1>15, <2>2 DEF OfToken, ShownKind, Alike
  <2> QED BY <1>15, <2>2, <2>4, <2>9, <2>10, AlikeFields
<1>16. a.kind \in {"InitializeMint", "InitializeAccount", "InitializeAccount2",
                   "InitializeMultisig", "Revoke", "CloseAccount", "FreezeAccount", "ThawAccount",
                   "TransferChecked", "ApproveChecked", "MintToChecked", "BurnChecked",
                   "SyncNative", "SetAuthority"}
  BY DEF OfToken, TokenNames
<1> QED BY <1>3, <1>4, <1>5, <1>6, <1>7, <1>8, <1>9, <1>10, <1>11, <1>12, <1>13, <1>14, <1>15, <1>16

-----------------------------------------------------------------------------
(* The instructions that are reviewed together. *)

\* The programs and kinds of two instructions that are reviewed together.
Pair(infos, first, first_kinds, second, second_kinds) ==
  /\ Len(infos) = 2
  /\ infos[1].program = first /\ infos[1].kind \in first_kinds
  /\ infos[2].program = second /\ infos[2].kind \in second_kinds

\* Two briefs are matched by a pair of those programs and kinds.
LEMMA MatchedPair ==
  ASSUME NEW infos, NEW first, NEW first_kinds, NEW second, NEW second_kinds
  PROVE  Match(infos, <<<<first, first_kinds>>, <<second, second_kinds>>>>) <=>
           Pair(infos, first, first_kinds, second, second_kinds)
BY DEF Match, Pair

\* Read off the briefs they match.
LEMMA PairsRead ==
  ASSUME NEW infos
  PROVE  /\ is_create_stake_account(infos) <=>
              Pair(infos, "System", Creates, "Stake", {"Initialize", "InitializeChecked"})
         /\ is_create_nonce_account(infos) <=>
              Pair(infos, "System", Creates, "System", {"InitializeNonceAccount"})
         /\ is_create_vote_account(infos) <=> Pair(infos, "System", Creates, "Vote", {"Initialize"})
         /\ is_stake_split_with_seed(infos) <=>
              Pair(infos, "System", {"AllocateWithSeed", "CreateAccountWithSeed"}, "Stake", {"Split"})
         /\ is_stake_split_v1_2(infos) <=>
              Pair(infos, "System", {"CreateAccount"}, "Stake", {"Split"})
         /\ is_rpl_token_create_mint(infos) <=>
              Pair(infos, "System", {"CreateAccount"}, "RplToken", {"InitializeMint"})
         /\ is_rpl_token_create_account(infos) <=>
              Pair(infos, "System", {"CreateAccount"}, "RplToken", {"InitializeAccount", "InitializeAccount2"})
         /\ is_rpl_token_create_multisig(infos) <=>
              Pair(infos, "System", {"CreateAccount"}, "RplToken", {"InitializeMultisig"})
         /\ is_stake_authorize_both(infos) <=>
              \/ Pair(infos, "Stake", {"Authorize"}, "Stake", {"Authorize"})
              \/ Pair(infos, "Stake", {"AuthorizeChecked"}, "Stake", {"AuthorizeChecked"})
         /\ is_vote_authorize_both(infos) <=>
              \/ Pair(infos, "Vote", {"Authorize"}, "Vote", {"Authorize"})
              \/ Pair(infos, "Vote", {"AuthorizeChecked"}, "Vote", {"AuthorizeChecked"})
BY MatchedPair
   DEF SystemThen, Twice, is_create_stake_account, is_create_nonce_account, is_create_vote_account,
   is_stake_split_with_seed, is_stake_split_v1_2, is_rpl_token_create_mint,
   is_rpl_token_create_account, is_rpl_token_create_multisig, is_stake_authorize_both,
   is_vote_authorize_both

\* Fields of instructions that are reviewed alone or in pairs have a step, but for these.
LEMMA UntoldPairs ==
  ASSUME NEW infos
  PROVE  /\ is_create_stake_account(infos) \/ is_create_nonce_account(infos)
              \/ is_create_vote_account(infos) => Untold(infos) = {<<2, "account">>}
         /\ is_stake_authorize_both(infos) \/ is_vote_authorize_both(infos) =>
              Untold(infos) = {<<1, "authority">>, <<1, "custodian">>, <<2, "account">>}
         /\ is_stake_split_with_seed(infos) =>
              Untold(infos) =
                {1} \X {"kind", "from", "to", "lamports", "account", "space", "program_id"}
         /\ is_rpl_token_create_mint(infos) \/ is_rpl_token_create_account(infos)
              \/ is_rpl_token_create_multisig(infos) => Untold(infos) = {<<1, "to">>}
         /\ is_rpl_associated_token_account_create_with_transfer(infos) => Untold(infos) = {}
         /\ is_create_stake_account_and_delegate(infos) =>
              Untold(infos) = {<<2, "account">>, <<3, "stake_pubkey">>}
<1> DEFINE creates == is_create_stake_account(infos) \/ is_create_nonce_account(infos)
                       \/ is_create_vote_account(infos)
           boths == is_stake_authorize_both(infos) \/ is_vote_authorize_both(infos)
           seeded == is_stake_split_with_seed(infos)
           tokens == is_rpl_token_create_mint(infos) \/ is_rpl_token_create_account(infos)
                     \/ is_rpl_token_create_multisig(infos)
           delegates == is_create_stake_account_and_delegate(infos)
<1>1. PICK first, second : first = infos[1] /\ second = infos[2]
  OBVIOUS
<1>2. creates => /\ Len(infos) = 2 /\ infos[1].program = "System" /\ infos[1].kind \in Creates
                 /\ infos[2].program \in {"Stake", "System", "Vote"}
                 /\ infos[2].kind # "Split"
  BY <1>1, PairsRead DEF Pair
<1>3. boths => Len(infos) = 2 /\ infos[1].program # "System" /\
        infos[1].program # "RplAssociatedTokenAccount"
  BY <1>1, PairsRead DEF Pair
<1>4. seeded => /\ Len(infos) = 2 /\ infos[1].program = "System"
                /\ infos[2].program = "Stake" /\ infos[2].kind = "Split"
  BY <1>1, PairsRead DEF Pair
<1>5. tokens => Len(infos) = 2 /\ infos[1].program = "System" /\ infos[2].program = "RplToken"
  BY <1>1, PairsRead DEF Pair
<1>6. delegates => Len(infos) = 3
  BY <1>1 DEF is_create_stake_account_and_delegate, Match
<1>7. is_rpl_associated_token_account_create_with_transfer(infos) =>
        Len(infos) = 2 /\ infos[1].program = "RplAssociatedTokenAccount"
  BY DEF is_rpl_associated_token_account_create_with_transfer
<1>8. creates => Untold(infos) = {<<2, "account">>}
  BY <1>1, <1>2, <1>3, <1>4, <1>5, <1>6 DEF Untold
<1>9. boths => Untold(infos) = {<<1, "authority">>, <<1, "custodian">>, <<2, "account">>}
  BY <1>1, <1>2, <1>3, <1>4, <1>5, <1>6 DEF Untold
<1>10. seeded => Untold(infos) =
         {1} \X {"kind", "from", "to", "lamports", "account", "space", "program_id"}
  BY <1>1, <1>2, <1>3, <1>4, <1>5, <1>6 DEF Untold
<1>11. tokens => Untold(infos) = {<<1, "to">>}
  BY <1>1, <1>2, <1>3, <1>4, <1>5, <1>6 DEF Untold
<1>12. delegates => Untold(infos) = {<<2, "account">>, <<3, "stake_pubkey">>}
  BY <1>1, <1>2, <1>3, <1>4, <1>5, <1>6 DEF Untold
<1>13. is_rpl_associated_token_account_create_with_transfer(infos) => Untold(infos) = {}
  BY <1>1, <1>2, <1>3, <1>4, <1>5, <1>6, <1>7 DEF Untold
<1> QED BY <1>1, <1>8, <1>9, <1>10, <1>11, <1>12, <1>13

\* An instruction reviewed alone has its fields, but for one.
LEMMA UntoldAlone ==
  ASSUME NEW infos, Len(infos) = 1
  PROVE  Untold(infos) = IF infos[1].program = "System" /\ infos[1].kind = "AllocateWithSeed"
                         THEN {<<1, "program_id">>} ELSE {}
<1>1. PICK info : info = infos[1]
  OBVIOUS
<1>2. PICK few : few = {info_ \in {info} : info_.program = "System" /\ info_.kind = "AllocateWithSeed"}
  OBVIOUS
<1>3. Untold(infos) = {<<1, "program_id">> : x \in few}
  <2>1. /\ ~is_create_stake_account(infos) /\ ~is_create_nonce_account(infos)
        /\ ~is_create_vote_account(infos) /\ ~is_stake_authorize_both(infos)
        /\ ~is_vote_authorize_both(infos) /\ ~is_stake_split_with_seed(infos)
        /\ ~is_rpl_token_create_mint(infos) /\ ~is_rpl_token_create_account(infos)
        /\ ~is_rpl_token_create_multisig(infos)
    BY PairsRead DEF Pair
  <2>2. ~is_create_stake_account_and_delegate(infos)
    BY DEF is_create_stake_account_and_delegate, Match
  <2> QED BY <1>1, <1>2, <2>1, <2>2 DEF Untold
<1>4. CASE info.program = "System" /\ info.kind = "AllocateWithSeed"
  <2>1. few = {info}
    BY <1>2, <1>4
  <2> QED BY <1>1, <1>3, <1>4, <2>1
<1>5. CASE ~(info.program = "System" /\ info.kind = "AllocateWithSeed")
  <2>1. few = {}
    BY <1>2, <1>5
  <2>2. Untold(infos) = {}
    BY <1>3, <2>1
  <2> QED BY <1>1, <1>5, <2>2
<1> QED BY <1>4, <1>5

-----------------------------------------------------------------------------
(* Instructions that mean the same. *)

\* Instructions whose told fields are alike, each to each, mean the same.
LEMMA MeaningAlike ==
  ASSUME NEW a, NEW b, NEW untold, Untold(a) = untold, Untold(b) = untold, DOMAIN a = DOMAIN b,
         \A i \in DOMAIN a : \E fields : /\ AlikeInfo(a[i], b[i], fields)
                                       /\ \A field \in fields : <<i, field>> \in untold
  PROVE  Meaning(a) = Meaning(b)
<1>1. ASSUME NEW i \in DOMAIN a
      PROVE  [field \in {field \in DOMAIN a[i] : <<i, field>> \notin untold} |-> Shown(a[i], field)] =
             [field \in {field \in DOMAIN b[i] : <<i, field>> \notin untold} |-> Shown(b[i], field)]
  <2>1. PICK fields : AlikeInfo(a[i], b[i], fields) /\ \A field \in fields : <<i, field>> \in untold
    BY <1>1
  <2>2. PICK told, other : /\ told = {field \in DOMAIN a[i] : <<i, field>> \notin untold}
                           /\ other = {field \in DOMAIN b[i] : <<i, field>> \notin untold}
    OBVIOUS
  <2>3. told = other
    BY <2>1, <2>2 DEF AlikeInfo
  <2>4. \A field \in told : Shown(a[i], field) = Shown(b[i], field)
    BY <2>1, <2>2 DEF AlikeInfo
  <2> QED BY <2>2, <2>3, <2>4
<1> QED BY <1>1 DEF Meaning

-----------------------------------------------------------------------------
(* Accounts that are created. *)

\* What a created account has in its info.
LEMMA CreateFields ==
  ASSUME NEW info, OfSystem(info), info.kind \in Creates
  PROVE  /\ info.kind = "CreateAccount" => Fielded(info, {"from", "to", "lamports"})
         /\ info.kind # "CreateAccount" =>
              /\ info.kind = "CreateAccountWithSeed"
              /\ Fielded(info, {"from", "to", "base", "seed", "lamports"})
BY DEF OfSystem, Creates, SystemNames

\* Creations of one account of which the same is said are alike.
LEMMA CreationAlike ==
  ASSUME NEW a, NEW b, NEW said, OfSystem(a), OfSystem(b), a.kind \in Creates, b.kind \in Creates,
         a.to = b.to, CreationTells(a, said), CreationTells(b, said)
  PROVE  AlikeInfo(a, b, {})
<1>1. a.lamports = b.lamports /\ a.from = b.from
  BY SaysOnce DEF CreationTells
<1>2. a.kind # "CreateAccount" <=> b.kind # "CreateAccount"
  BY SaysOnce DEF CreationTells, SaysIf
<1>3. a.kind # "CreateAccount" => a.base = b.base /\ a.seed = b.seed
  BY <1>2, SaysOnce DEF CreationTells, SaysIf
<1>4. a.program = b.program /\ a.kind = b.kind
  BY <1>2, CreateFields DEF OfSystem
<1>5. ShownKind(a) = ShownKind(b)
  BY <1>4 DEF ShownKind
<1>6. CASE a.kind = "CreateAccount"
  <2>1. PICK names : names = {"from", "to", "lamports"}
    OBVIOUS
  <2>2. Fielded(a, names) /\ Fielded(b, names)
    BY <1>4, <1>6, <2>1, CreateFields
  <2>3. \A field \in names \ {} : Shown(a, field) = Shown(b, field)
    BY <1>1, <2>1, PlainShown
  <2> QED BY <1>4, <1>5, <2>2, <2>3, AlikeFields
<1>7. CASE a.kind # "CreateAccount"
  <2>1. PICK names : names = {"from", "to", "base", "seed", "lamports"}
    OBVIOUS
  <2>2. Fielded(a, names) /\ Fielded(b, names)
    BY <1>4, <1>7, <2>1, CreateFields
  <2>3. \A field \in names \ {} : Shown(a, field) = Shown(b, field)
    BY <1>1, <1>3, <1>7, <2>1, PlainShown
  <2> QED BY <1>4, <1>5, <2>2, <2>3, AlikeFields
<1> QED BY <1>6, <1>7

\* So are accounts for tokens that are created, but for their keys.
LEMMA FundedAlike ==
  ASSUME NEW a, NEW b, NEW said, OfSystem(a), OfSystem(b),
         a.kind = "CreateAccount", b.kind = "CreateAccount",
         Says(said, "Funded_by", a.from), Says(said, "Funded_by", b.from),
         Says(said, "Funded_with", a.lamports), Says(said, "Funded_with", b.lamports)
  PROVE  AlikeInfo(a, b, {"to"})
<1>1. a.lamports = b.lamports /\ a.from = b.from
  BY SaysOnce
<1>2. PICK names : names = {"from", "to", "lamports"}
  OBVIOUS
<1>3. Fielded(a, names) /\ Fielded(b, names)
  BY <1>2, CreateFields DEF Creates
<1>4. \A field \in names \ {"to"} : Shown(a, field) = Shown(b, field)
  BY <1>1, <1>2, PlainShown
<1>5. a.program = b.program /\ ShownKind(a) = ShownKind(b)
  BY DEF OfSystem, ShownKind
<1> QED BY <1>3, <1>4, <1>5, AlikeFields

\* So are associated accounts.
LEMMA AssociatedAlike ==
  ASSUME NEW a, NEW b, OfAssociated(a), OfAssociated(b),
         a.address = b.address, a.mint = b.mint, a.owner = b.owner, a.funder = b.funder
  PROVE  AlikeInfo(a, b, {})
<1>1. \A field \in AssociatedNames \ {} : Shown(a, field) = Shown(b, field)
  BY PlainShown DEF AssociatedNames
<1>2. a.program = b.program /\ ShownKind(a) = ShownKind(b)
  BY DEF OfAssociated, ShownKind
<1> QED BY <1>1, <1>2, AlikeFields DEF OfAssociated

\* So are stakes that are initialized, but for their accounts.
LEMMA InitializedAlike ==
  ASSUME NEW a, NEW b, NEW said, OfStake(a), OfStake(b),
         a.kind \in {"Initialize", "InitializeChecked"}, b.kind \in
           {"Initialize", "InitializeChecked"},
         InitializeTells(a, said), InitializeTells(b, said)
  PROVE  AlikeInfo(a, b, {"account"})
<1>1. PICK names : names = {"account", "stake_authority", "withdraw_authority", "lockup"}
  OBVIOUS
<1>2. Fielded(a, names) /\ Fielded(b, names)
  BY <1>1 DEF OfStake, StakeNames
<1>3. \A field \in names \ {"account"} : Shown(a, field) = Shown(b, field)
  BY <1>1, InitializeAlike, PlainShown
<1>4. a.program = b.program /\ ShownKind(a) = ShownKind(b)
  BY DEF OfStake, ShownKind, Alike
<1> QED BY <1>2, <1>3, <1>4, AlikeFields

-----------------------------------------------------------------------------
(* What is said of instructions that are reviewed, by the programs they are of. *)

Of(infos, n) == Len(infos) = n /\ DOMAIN infos = 1..n
SystemAlone(infos, said) ==
  /\ Of(infos, 1) /\ OfSystem(infos[1])
  /\ SystemTells(infos[1], said)
StakeAlone(infos, said) ==
  /\ Of(infos, 1) /\ OfStake(infos[1])
  /\ StakeTells(infos[1], said)
VoteAlone(infos, said) ==
  /\ Of(infos, 1) /\ OfVote(infos[1])
  /\ VoteTells(infos[1], said)
TokenAlone(infos, said) ==
  /\ Of(infos, 1) /\ OfToken(infos[1])
  /\ TokenTells(infos[1], said)
AssociatedAlone(infos, said) ==
  /\ Of(infos, 1) /\ OfAssociated(infos[1])
  /\ AssociatedTells(infos[1], said)
StakeCreation(infos, said) ==
  /\ Of(infos, 2) /\ is_create_stake_account(infos) /\ OfSystem(infos[1]) /\ OfStake(infos[2])
  /\ StakeCreatedTells(infos[1], infos[2], said)
NonceCreation(infos, said) ==
  /\ Of(infos, 2) /\ is_create_nonce_account(infos) /\ OfSystem(infos[1]) /\ OfSystem(infos[2])
  /\ NonceCreatedTells(infos[1], infos[2], said)
VoteCreation(infos, said) ==
  /\ Of(infos, 2) /\ is_create_vote_account(infos) /\ OfSystem(infos[1]) /\ OfVote(infos[2])
  /\ VoteCreatedTells(infos[1], infos[2], said)
StakeBoth(infos, said) ==
  /\ Of(infos, 2) /\ is_stake_authorize_both(infos) /\ OfStake(infos[1]) /\ OfStake(infos[2])
  /\ Authorizes(infos, <<"Staker", "Withdrawer">>)
  /\ BothTells(infos, said, "Set_stake_auth", "New_stake_auth")
VoteBoth(infos, said) ==
  /\ Of(infos, 2) /\ is_vote_authorize_both(infos) /\ OfVote(infos[1]) /\ OfVote(infos[2])
  /\ Authorizes(infos, <<"Voter", "Withdrawer">>)
  /\ BothTells(infos, said, "Set_vote_auth", "New_vote_auth")
SeededSplit(infos, said) ==
  /\ Of(infos, 2) /\ is_stake_split_with_seed(infos) /\ OfSystem(infos[1]) /\ OfStake(infos[2])
  /\ SplitSeededTells(infos[1], infos[2], said)
MintCreation(infos, said) ==
  /\ Of(infos, 2) /\ is_rpl_token_create_mint(infos) /\ OfSystem(infos[1]) /\ OfToken(infos[2])
  /\ MintCreatedTells(infos[1], infos[2], said)
AccountCreation(infos, said) ==
  /\ Of(infos, 2) /\ is_rpl_token_create_account(infos) /\ OfSystem(infos[1]) /\ OfToken(infos[2])
  /\ AccountCreatedTells(infos[1], infos[2], said)
MultisigCreation(infos, said) ==
  /\ Of(infos, 2) /\ is_rpl_token_create_multisig(infos) /\ OfSystem(infos[1]) /\ OfToken(infos[2])
  /\ MultisigCreatedTells(infos[1], infos[2], said)
AssociatedTransfer(infos, said) ==
  /\ Of(infos, 2) /\ is_rpl_associated_token_account_create_with_transfer(infos) /\
       OfAssociated(infos[1]) /\ OfToken(infos[2])
  /\ AssociatedTransferTells(infos[1], infos[2], said)
StakeDelegation(infos, said) ==
  /\ Of(infos, 3) /\ is_create_stake_account_and_delegate(infos) /\ OfSystem(infos[1]) /\
       OfStake(infos[2]) /\ OfStake(infos[3])
  /\ StakeDelegatedTells(infos[1], infos[2], infos[3], said)
Reads(infos, said) ==
  \/ SystemAlone(infos, said)
  \/ StakeAlone(infos, said)
  \/ VoteAlone(infos, said)
  \/ TokenAlone(infos, said)
  \/ AssociatedAlone(infos, said)
  \/ StakeCreation(infos, said)
  \/ NonceCreation(infos, said)
  \/ VoteCreation(infos, said)
  \/ StakeBoth(infos, said)
  \/ VoteBoth(infos, said)
  \/ SeededSplit(infos, said)
  \/ MintCreation(infos, said)
  \/ AccountCreation(infos, said)
  \/ MultisigCreation(infos, said)
  \/ AssociatedTransfer(infos, said)
  \/ StakeDelegation(infos, said)

\* What is said of them has the headings of its class.
LEMMA ClassHeaded ==
  ASSUME NEW infos, NEW said
  PROVE  /\ SystemAlone(infos, said) =>
              \E title \in
                {"Transfer", "Create_account", "Advance_nonce", "Init_nonce_acct",
                 "Nonce_withdraw", "Set_nonce_auth", "Assign_acct", "Allocate_acct"} :
                Headed(said, title)
         /\ StakeAlone(infos, said) =>
              \E title \in
                {"Delegate_from", "Init_stake_acct", "Stake_withdraw", "Set_stake_auth",
                 "Deactivate_stake", "Set_lockup", "Split_stake", "Merge"} :
                Headed(said, title)
         /\ VoteAlone(infos, said) =>
              \E title \in
                {"Init_vote_acct", "Vote_withdraw", "Set_vote_auth", "Update_validator",
                 "Update_commission"} :
                Headed(said, title)
         /\ TokenAlone(infos, said) =>
              \E title \in
                {"Init_mint", "Init_acct", "Init_multisig", "Revoke_delegate", "Close_acct",
                 "Freeze_acct", "Thaw_acct", "Transfer_tokens", "Approve_delegate", "Mint_tokens",
                 "Burn_tokens", "Sync_native_acct", "Clear_authority", "Set_authority"} :
                Headed(said, title)
         /\ AssociatedAlone(infos, said) => Headed(said, "Create_token_acct")
         /\ StakeCreation(infos, said) => Headed(said, "Create_stake_acct")
         /\ NonceCreation(infos, said) => Headed(said, "Create_nonce_acct")
         /\ VoteCreation(infos, said) => Headed(said, "Create_vote_acct")
         /\ StakeBoth(infos, said) => Headed(said, "Set_stake_auth")
         /\ VoteBoth(infos, said) => Headed(said, "Set_vote_auth")
         /\ SeededSplit(infos, said) => Headed(said, "Split_stake")
         /\ MintCreation(infos, said) => Headed(said, "Create_token_mint")
         /\ AccountCreation(infos, said) => Headed(said, "Create_token_acct")
         /\ MultisigCreation(infos, said) => Headed(said, "Create_multisig")
         /\ AssociatedTransfer(infos, said) => Headed(said, "Create_token_acct")
         /\ StakeDelegation(infos, said) => Headed(said, "Delegate_from")
<1>1. SystemAlone(infos, said) =>
              \E title \in
                {"Transfer", "Create_account", "Advance_nonce", "Init_nonce_acct",
                 "Nonce_withdraw", "Set_nonce_auth", "Assign_acct", "Allocate_acct"} :
                Headed(said, title)
  <2>1. ASSUME SystemAlone(infos, said)
        PROVE \E title \in SystemHeads[infos[1].kind] : Headed(said, title)
    BY <2>1, SystemHeaded DEF SystemAlone
  <2>2. ASSUME SystemAlone(infos, said) PROVE infos[1].kind \in DOMAIN SystemNames
    BY <2>2 DEF SystemAlone, OfSystem
  <2>3. \A kind \in DOMAIN SystemNames : SystemHeads[kind] \subseteq
          {"Transfer", "Create_account", "Advance_nonce", "Init_nonce_acct", "Nonce_withdraw",
           "Set_nonce_auth", "Assign_acct", "Allocate_acct"}
    BY DEF SystemHeads, SystemNames
  <2> QED BY <2>1, <2>2, <2>3
<1>2. StakeAlone(infos, said) =>
              \E title \in
                {"Delegate_from", "Init_stake_acct", "Stake_withdraw", "Set_stake_auth",
                 "Deactivate_stake", "Set_lockup", "Split_stake", "Merge"} :
                Headed(said, title)
  <2>1. ASSUME StakeAlone(infos, said)
        PROVE \E title \in StakeHeads[infos[1].kind] : Headed(said, title)
    BY <2>1, StakeHeaded DEF StakeAlone
  <2>2. ASSUME StakeAlone(infos, said) PROVE infos[1].kind \in DOMAIN StakeNames
    BY <2>2 DEF StakeAlone, OfStake
  <2>3. \A kind \in DOMAIN StakeNames : StakeHeads[kind] \subseteq
          {"Delegate_from", "Init_stake_acct", "Stake_withdraw", "Set_stake_auth",
           "Deactivate_stake", "Set_lockup", "Split_stake", "Merge"}
    BY DEF StakeHeads, StakeNames
  <2> QED BY <2>1, <2>2, <2>3
<1>3. VoteAlone(infos, said) =>
              \E title \in
                {"Init_vote_acct", "Vote_withdraw", "Set_vote_auth", "Update_validator",
                 "Update_commission"} :
                Headed(said, title)
  <2>1. ASSUME VoteAlone(infos, said)
        PROVE \E title \in VoteHeads[infos[1].kind] : Headed(said, title)
    BY <2>1, VoteHeaded DEF VoteAlone
  <2>2. ASSUME VoteAlone(infos, said) PROVE infos[1].kind \in DOMAIN VoteNames
    BY <2>2 DEF VoteAlone, OfVote
  <2>3. \A kind \in DOMAIN VoteNames : VoteHeads[kind] \subseteq
          {"Init_vote_acct", "Vote_withdraw", "Set_vote_auth", "Update_validator",
           "Update_commission"}
    BY DEF VoteHeads, VoteNames
  <2> QED BY <2>1, <2>2, <2>3
<1>4. TokenAlone(infos, said) =>
              \E title \in
                {"Init_mint", "Init_acct", "Init_multisig", "Revoke_delegate", "Close_acct",
                 "Freeze_acct", "Thaw_acct", "Transfer_tokens", "Approve_delegate", "Mint_tokens",
                 "Burn_tokens", "Sync_native_acct", "Clear_authority", "Set_authority"} :
                Headed(said, title)
  <2>1. ASSUME TokenAlone(infos, said)
        PROVE \E title \in TokenHeads[infos[1].kind] : Headed(said, title)
    BY <2>1, TokenHeaded DEF TokenAlone
  <2>2. ASSUME TokenAlone(infos, said) PROVE infos[1].kind \in DOMAIN TokenNames
    BY <2>2 DEF TokenAlone, OfToken
  <2>3. \A kind \in DOMAIN TokenNames : TokenHeads[kind] \subseteq
          {"Init_mint", "Init_acct", "Init_multisig", "Revoke_delegate", "Close_acct",
           "Freeze_acct", "Thaw_acct", "Transfer_tokens", "Approve_delegate", "Mint_tokens",
           "Burn_tokens", "Sync_native_acct", "Clear_authority", "Set_authority"}
    BY DEF TokenHeads, TokenNames
  <2> QED BY <2>1, <2>2, <2>3
<1>5. AssociatedAlone(infos, said) => Headed(said, "Create_token_acct")
  BY DEF AssociatedAlone, AssociatedTells
<1>6. StakeCreation(infos, said) => Headed(said, "Create_stake_acct")
  BY DEF StakeCreation, StakeCreatedTells
<1>7. NonceCreation(infos, said) => Headed(said, "Create_nonce_acct")
  BY DEF NonceCreation, NonceCreatedTells
<1>8. VoteCreation(infos, said) => Headed(said, "Create_vote_acct")
  BY DEF VoteCreation, VoteCreatedTells
<1>9. StakeBoth(infos, said) => Headed(said, "Set_stake_auth")
  BY DEF StakeBoth, BothTells
<1>10. VoteBoth(infos, said) => Headed(said, "Set_vote_auth")
  BY DEF VoteBoth, BothTells
<1>11. SeededSplit(infos, said) => Headed(said, "Split_stake")
  BY DEF SeededSplit, SplitSeededTells
<1>12. MintCreation(infos, said) => Headed(said, "Create_token_mint")
  BY DEF MintCreation, MintCreatedTells
<1>13. AccountCreation(infos, said) => Headed(said, "Create_token_acct")
  BY DEF AccountCreation, AccountCreatedTells
<1>14. MultisigCreation(infos, said) => Headed(said, "Create_multisig")
  BY DEF MultisigCreation, MultisigCreatedTells
<1>15. AssociatedTransfer(infos, said) => Headed(said, "Create_token_acct")
  BY DEF AssociatedTransfer, AssociatedTransferTells
<1>16. StakeDelegation(infos, said) => Headed(said, "Delegate_from")
  BY DEF StakeDelegation, StakeDelegatedTells
<1> QED BY <1>1, <1>2, <1>3, <1>4, <1>5, <1>6, <1>7, <1>8, <1>9, <1>10, <1>11, <1>12, <1>13, <1>14,
       <1>15, <1>16

-----------------------------------------------------------------------------
(* Classes of which the same is said mean the same. *)

\* One, two or three instructions with alike fields mean the same.
LEMMA MeaningOfOne ==
  ASSUME NEW a, NEW b, Of(a, 1), Of(b, 1), NEW untold, Untold(a) = untold, Untold(b) = untold,
         NEW fields, AlikeInfo(a[1], b[1], fields), \A field \in fields : <<1, field>> \in untold
  PROVE  Meaning(a) = Meaning(b)
<1>1. DOMAIN a = {1} /\ DOMAIN b = {1}
  BY DEF Of
<1> QED BY <1>1, MeaningAlike

\* The same of two instructions.
LEMMA MeaningOfTwo ==
  ASSUME NEW a, NEW b, Of(a, 2), Of(b, 2), NEW untold, Untold(a) = untold, Untold(b) = untold,
         NEW first, AlikeInfo(a[1], b[1], first), \A field \in first : <<1, field>> \in untold,
         NEW second, AlikeInfo(a[2], b[2], second), \A field \in second : <<2, field>> \in untold
  PROVE  Meaning(a) = Meaning(b)
<1>1. DOMAIN a = {1, 2} /\ DOMAIN b = {1, 2}
  BY DEF Of
<1>2. \A i \in DOMAIN a : \E fields : /\ AlikeInfo(a[i], b[i], fields)
                                    /\ \A field \in fields : <<i, field>> \in untold
  BY <1>1
<1> QED BY <1>1, <1>2, MeaningAlike

\* An account that is created and initialized is named once.
LEMMA MeaningOfNew ==
  ASSUME NEW a, NEW b, Of(a, 2), Of(b, 2), NEW untold, untold = {<<2, "account">>},
         Untold(a) = untold, Untold(b) = untold,
         AlikeInfo(a[1], b[1], {}), AlikeInfo(a[2], b[2], {"account"})
  PROVE  Meaning(a) = Meaning(b)
<1>1. PICK first, second : first = {} /\ second = {"account"}
  OBVIOUS
<1>2. AlikeInfo(a[1], b[1], first) /\ AlikeInfo(a[2], b[2], second)
  BY <1>1
<1>3. \A field \in first : <<1, field>> \in untold
  BY <1>1
<1>4. \A field \in second : <<2, field>> \in untold
  BY <1>1
<1> QED BY <1>2, <1>3, <1>4, MeaningOfTwo

\* The same of three instructions.
LEMMA MeaningOfThree ==
  ASSUME NEW a, NEW b, Of(a, 3), Of(b, 3), NEW untold, Untold(a) = untold, Untold(b) = untold,
         NEW first, AlikeInfo(a[1], b[1], first), \A field \in first : <<1, field>> \in untold,
         NEW second, AlikeInfo(a[2], b[2], second), \A field \in second : <<2, field>> \in untold,
         NEW third, AlikeInfo(a[3], b[3], third), \A field \in third : <<3, field>> \in untold
  PROVE  Meaning(a) = Meaning(b)
<1>1. DOMAIN a = {1, 2, 3} /\ DOMAIN b = {1, 2, 3}
  BY DEF Of
<1>2. \A i \in DOMAIN a : \E fields : /\ AlikeInfo(a[i], b[i], fields)
                                    /\ \A field \in fields : <<i, field>> \in untold
  BY <1>1
<1> QED BY <1>1, <1>2, MeaningAlike

\* The instructions of a new stake that is delegated.
LEMMA DelegationRead ==
  ASSUME NEW infos, is_create_stake_account_and_delegate(infos)
  PROVE  infos[1].kind \in Creates /\ infos[2].kind = "Initialize" /\ infos[3].kind = "Delegate"
BY DEF is_create_stake_account_and_delegate, Match

\* An instruction of another program than the system's has a step for each field.
LEMMA ToldAlone ==
  ASSUME NEW infos, Len(infos) = 1, infos[1].program # "System"
  PROVE  Untold(infos) = {}
BY PairsRead DEF Untold, Pair, is_create_stake_account_and_delegate, Match

\* Instructions reviewed alone.
LEMMA SystemAloneAlike ==
  ASSUME NEW a, NEW b, NEW said, SystemAlone(a, said), SystemAlone(b, said)
  PROVE  Meaning(a) = Meaning(b)
<1>1. PICK fields : fields = {"program_id" : program \in {program \in {a[1].kind} :
                                                           program = "AllocateWithSeed"}}
  OBVIOUS
<1>2. a[1].kind = b[1].kind /\ AlikeInfo(a[1], b[1], fields)
  BY <1>1, SystemAlike DEF SystemAlone
<1>3. a[1].program = "System" /\ b[1].program = "System" /\ Of(a, 1) /\ Of(b, 1)
  BY DEF SystemAlone, OfSystem
<1>4. PICK untold : untold = IF a[1].kind = "AllocateWithSeed" THEN {<<1, "program_id">>} ELSE {}
  OBVIOUS
<1>6. Untold(a) = untold /\ Untold(b) = untold
  BY <1>2, <1>3, <1>4, UntoldAlone DEF Of
<1>7. \A field \in fields : <<1, field>> \in untold
  BY <1>1, <1>4
<1> QED BY <1>2, <1>3, <1>6, <1>7, MeaningOfOne

\* The same of the stake program.
LEMMA StakeAloneAlike ==
  ASSUME NEW a, NEW b, NEW said, StakeAlone(a, said), StakeAlone(b, said)
  PROVE  Meaning(a) = Meaning(b)
<1>1. Of(a, 1) /\ Of(b, 1) /\ a[1].program # "System" /\ b[1].program # "System"
  BY DEF StakeAlone, OfStake
<1>2. Untold(a) = {} /\ Untold(b) = {}
  BY <1>1, ToldAlone DEF Of
<1>3. AlikeInfo(a[1], b[1], {})
  BY StakeAlike DEF StakeAlone
<1> QED BY <1>1, <1>2, <1>3, MeaningOfOne

\* The same of the vote program.
LEMMA VoteAloneAlike ==
  ASSUME NEW a, NEW b, NEW said, VoteAlone(a, said), VoteAlone(b, said)
  PROVE  Meaning(a) = Meaning(b)
<1>1. Of(a, 1) /\ Of(b, 1) /\ a[1].program # "System" /\ b[1].program # "System"
  BY DEF VoteAlone, OfVote
<1>2. Untold(a) = {} /\ Untold(b) = {}
  BY <1>1, ToldAlone DEF Of
<1>3. AlikeInfo(a[1], b[1], {})
  BY VoteAlike DEF VoteAlone
<1> QED BY <1>1, <1>2, <1>3, MeaningOfOne

\* The same of the token program.
LEMMA TokenAloneAlike ==
  ASSUME NEW a, NEW b, NEW said, TokenAlone(a, said), TokenAlone(b, said)
  PROVE  Meaning(a) = Meaning(b)
<1>1. Of(a, 1) /\ Of(b, 1) /\ a[1].program # "System" /\ b[1].program # "System"
  BY DEF TokenAlone, OfToken
<1>2. Untold(a) = {} /\ Untold(b) = {}
  BY <1>1, ToldAlone DEF Of
<1>3. AlikeInfo(a[1], b[1], {})
  BY TokenAlike DEF TokenAlone
<1> QED BY <1>1, <1>2, <1>3, MeaningOfOne

\* The same of associated accounts.
LEMMA AssociatedAloneAlike ==
  ASSUME NEW a, NEW b, NEW said, AssociatedAlone(a, said), AssociatedAlone(b, said)
  PROVE  Meaning(a) = Meaning(b)
<1>1. Of(a, 1) /\ Of(b, 1) /\ a[1].program # "System" /\ b[1].program # "System"
  BY DEF AssociatedAlone, OfAssociated
<1>2. Untold(a) = {} /\ Untold(b) = {}
  BY <1>1, ToldAlone DEF Of
<1>3. AlikeInfo(a[1], b[1], {})
  <2>1. OfAssociated(a[1]) /\ OfAssociated(b[1])
    BY DEF AssociatedAlone
  <2>2. a[1].address = b[1].address /\ a[1].mint = b[1].mint /\ a[1].owner = b[1].owner
        /\ a[1].funder = b[1].funder
    BY SaysOnce DEF AssociatedAlone, AssociatedTells
  <2> QED BY <2>1, <2>2, AssociatedAlike
<1> QED BY <1>1, <1>2, <1>3, MeaningOfOne

\* Accounts that are created and initialized.
LEMMA StakeCreationAlike ==
  ASSUME NEW a, NEW b, NEW said, StakeCreation(a, said), StakeCreation(b, said)
  PROVE  Meaning(a) = Meaning(b)
<1>1. PICK untold : untold = {<<2, "account">>}
  OBVIOUS
<1>2. Untold(a) = untold /\ Untold(b) = untold
  BY <1>1, UntoldPairs DEF StakeCreation
<1>3. AlikeInfo(a[1], b[1], {})
  <2>1. OfSystem(a[1]) /\ OfSystem(b[1])
    BY DEF StakeCreation
  <2>2. a[1].kind \in Creates /\ b[1].kind \in Creates
    BY PairsRead DEF StakeCreation, Pair
  <2>3. CreationTells(a[1], said) /\ CreationTells(b[1], said) /\ a[1].to = b[1].to
    BY SaysOnce DEF StakeCreation, StakeCreatedTells
  <2> QED BY <2>1, <2>2, <2>3, CreationAlike
<1>4. AlikeInfo(a[2], b[2], {"account"})
  <2>1. OfStake(a[2]) /\ OfStake(b[2])
    BY DEF StakeCreation
  <2>2. a[2].kind \in {"Initialize", "InitializeChecked"} /\ b[2].kind \in
          {"Initialize", "InitializeChecked"}
    BY PairsRead DEF StakeCreation, Pair
  <2>3. InitializeTells(a[2], said) /\ InitializeTells(b[2], said)
    BY DEF StakeCreation, StakeCreatedTells
  <2> QED BY <2>1, <2>2, <2>3, InitializedAlike
<1>5. Of(a, 2) /\ Of(b, 2)
  BY DEF StakeCreation
<1> QED BY <1>1, <1>2, <1>3, <1>4, <1>5, MeaningOfNew

\* A nonce account created and initialized.
LEMMA NonceCreationAlike ==
  ASSUME NEW a, NEW b, NEW said, NonceCreation(a, said), NonceCreation(b, said)
  PROVE  Meaning(a) = Meaning(b)
<1>1. PICK untold : untold = {<<2, "account">>}
  OBVIOUS
<1>2. Untold(a) = untold /\ Untold(b) = untold
  BY <1>1, UntoldPairs DEF NonceCreation
<1>3. AlikeInfo(a[1], b[1], {})
  <2>1. OfSystem(a[1]) /\ OfSystem(b[1])
    BY DEF NonceCreation
  <2>2. a[1].kind \in Creates /\ b[1].kind \in Creates
    BY PairsRead DEF NonceCreation, Pair
  <2>3. CreationTells(a[1], said) /\ CreationTells(b[1], said) /\ a[1].to = b[1].to
    BY SaysOnce DEF NonceCreation, NonceCreatedTells
  <2> QED BY <2>1, <2>2, <2>3, CreationAlike
<1>4. AlikeInfo(a[2], b[2], {"account"})
  <2>1. OfSystem(a[2]) /\ OfSystem(b[2])
    BY DEF NonceCreation
  <2>2. a[2].kind = "InitializeNonceAccount" /\ b[2].kind = "InitializeNonceAccount"
    BY PairsRead DEF NonceCreation, Pair
  <2>3. PICK names : names = {"account", "authority"}
    OBVIOUS
  <2>4. Fielded(a[2], names) /\ Fielded(b[2], names)
    BY <2>1, <2>2, <2>3 DEF OfSystem, SystemNames
  <2>5. a[2].authority = b[2].authority
    BY SaysOnce DEF NonceCreation, NonceCreatedTells
  <2>6. \A field \in names \ {"account"} : Shown(a[2], field) = Shown(b[2], field)
    BY <2>2, <2>3, <2>5, PlainShown
  <2>7. a[2].program = b[2].program /\ ShownKind(a[2]) = ShownKind(b[2])
    BY <2>1, <2>2 DEF OfSystem, ShownKind, Alike
  <2> QED BY <2>4, <2>6, <2>7, AlikeFields
<1>5. Of(a, 2) /\ Of(b, 2)
  BY DEF NonceCreation
<1> QED BY <1>1, <1>2, <1>3, <1>4, <1>5, MeaningOfNew

\* A vote account created and initialized.
LEMMA VoteCreationAlike ==
  ASSUME NEW a, NEW b, NEW said, VoteCreation(a, said), VoteCreation(b, said)
  PROVE  Meaning(a) = Meaning(b)
<1>1. PICK untold : untold = {<<2, "account">>}
  OBVIOUS
<1>2. Untold(a) = untold /\ Untold(b) = untold
  BY <1>1, UntoldPairs DEF VoteCreation
<1>3. AlikeInfo(a[1], b[1], {})
  <2>1. OfSystem(a[1]) /\ OfSystem(b[1])
    BY DEF VoteCreation
  <2>2. a[1].kind \in Creates /\ b[1].kind \in Creates
    BY PairsRead DEF VoteCreation, Pair
  <2>3. CreationTells(a[1], said) /\ CreationTells(b[1], said) /\ a[1].to = b[1].to
    BY SaysOnce DEF VoteCreation, VoteCreatedTells
  <2> QED BY <2>1, <2>2, <2>3, CreationAlike
<1>4. AlikeInfo(a[2], b[2], {"account"})
  <2>1. OfVote(a[2]) /\ OfVote(b[2])
    BY DEF VoteCreation
  <2>2. a[2].kind = "Initialize" /\ b[2].kind = "Initialize"
    BY PairsRead DEF VoteCreation, Pair
  <2>3. PICK names : names = {"account", "validator_id", "vote_authority", "withdraw_authority",
                              "commission"}
    OBVIOUS
  <2>4. Fielded(a[2], names) /\ Fielded(b[2], names)
    BY <2>1, <2>2, <2>3 DEF OfVote, VoteNames
  <2>5. a[2].validator_id = b[2].validator_id /\ a[2].vote_authority = b[2].vote_authority /\
          a[2].withdraw_authority = b[2].withdraw_authority /\ a[2].commission = b[2].commission
    BY SaysOnce DEF VoteCreation, VoteCreatedTells
  <2>6. \A field \in names \ {"account"} : Shown(a[2], field) = Shown(b[2], field)
    BY <2>2, <2>3, <2>5, PlainShown
  <2>7. a[2].program = b[2].program /\ ShownKind(a[2]) = ShownKind(b[2])
    BY <2>1, <2>2 DEF OfVote, ShownKind, Alike
  <2> QED BY <2>4, <2>6, <2>7, AlikeFields
<1>5. Of(a, 2) /\ Of(b, 2)
  BY DEF VoteCreation
<1> QED BY <1>1, <1>2, <1>3, <1>4, <1>5, MeaningOfNew

\* A stake account created, initialized and delegated.
LEMMA StakeDelegationAlike ==
  ASSUME NEW a, NEW b, NEW said, StakeDelegation(a, said), StakeDelegation(b, said)
  PROVE  Meaning(a) = Meaning(b)
<1>1. PICK untold : untold = {<<2, "account">>, <<3, "stake_pubkey">>}
  OBVIOUS
<1>2. Untold(a) = untold /\ Untold(b) = untold
  BY <1>1, UntoldPairs DEF StakeDelegation
<1>3. AlikeInfo(a[1], b[1], {})
  <2>1. OfSystem(a[1]) /\ OfSystem(b[1])
    BY DEF StakeDelegation
  <2>2. a[1].kind \in Creates /\ b[1].kind \in Creates
    BY DelegationRead DEF StakeDelegation, Pair
  <2>3. CreationTells(a[1], said) /\ CreationTells(b[1], said) /\ a[1].to = b[1].to
    BY SaysOnce DEF StakeDelegation, StakeDelegatedTells
  <2> QED BY <2>1, <2>2, <2>3, CreationAlike
<1>4. AlikeInfo(a[2], b[2], {"account"})
  <2>1. OfStake(a[2]) /\ OfStake(b[2])
    BY DEF StakeDelegation
  <2>2. a[2].kind \in {"Initialize", "InitializeChecked"} /\ b[2].kind \in
          {"Initialize", "InitializeChecked"}
    BY DelegationRead DEF StakeDelegation, Pair
  <2>3. InitializeTells(a[2], said) /\ InitializeTells(b[2], said)
    BY DEF StakeDelegation, StakeDelegatedTells
  <2> QED BY <2>1, <2>2, <2>3, InitializedAlike
<1>5. AlikeInfo(a[3], b[3], {"stake_pubkey"})
  <2>1. OfStake(a[3]) /\ OfStake(b[3])
    BY DEF StakeDelegation
  <2>2. a[3].kind = "Delegate" /\ b[3].kind = "Delegate"
    BY DelegationRead DEF StakeDelegation, Pair
  <2>3. PICK names : names = {"stake_pubkey", "vote_pubkey", "authorized_pubkey"}
    OBVIOUS
  <2>4. Fielded(a[3], names) /\ Fielded(b[3], names)
    BY <2>1, <2>2, <2>3 DEF OfStake, StakeNames
  <2>5. a[3].vote_pubkey = b[3].vote_pubkey /\ a[3].authorized_pubkey = b[3].authorized_pubkey
    BY SaysOnce DEF StakeDelegation, StakeDelegatedTells
  <2>6. \A field \in names \ {"stake_pubkey"} : Shown(a[3], field) = Shown(b[3], field)
    BY <2>2, <2>3, <2>5, PlainShown
  <2>7. a[3].program = b[3].program /\ ShownKind(a[3]) = ShownKind(b[3])
    BY <2>1, <2>2 DEF OfStake, ShownKind, Alike
  <2> QED BY <2>4, <2>6, <2>7, AlikeFields
<1>6. Of(a, 3) /\ Of(b, 3)
  BY DEF StakeDelegation
<1> QED BY <1>1, <1>2, <1>3, <1>4, <1>5, <1>6, MeaningOfThree

\* Accounts for tokens.
LEMMA MintCreationAlike ==
  ASSUME NEW a, NEW b, NEW said, MintCreation(a, said), MintCreation(b, said)
  PROVE  Meaning(a) = Meaning(b)
<1>1. PICK untold : untold = {<<1, "to">>}
  OBVIOUS
<1>2. Untold(a) = untold /\ Untold(b) = untold
  BY <1>1, UntoldPairs DEF MintCreation
<1>3. AlikeInfo(a[1], b[1], {"to"})
  <2>1. OfSystem(a[1]) /\ OfSystem(b[1])
    BY DEF MintCreation
  <2>2. a[1].kind = "CreateAccount" /\ b[1].kind = "CreateAccount"
    BY PairsRead DEF MintCreation, Pair
  <2>3. /\ Says(said, "Funded_by", a[1].from) /\ Says(said, "Funded_by", b[1].from)
        /\ Says(said, "Funded_with", a[1].lamports) /\ Says(said, "Funded_with", b[1].lamports)
    BY DEF MintCreation, MintCreatedTells
  <2> QED BY <2>1, <2>2, <2>3, FundedAlike
<1>4. AlikeInfo(a[2], b[2], {})
  <2>1. OfToken(a[2]) /\ OfToken(b[2])
    BY DEF MintCreation
  <2>2. a[2].kind = "InitializeMint" /\ b[2].kind = "InitializeMint"
    BY PairsRead DEF MintCreation, Pair
  <2>3. PICK names : names = {"mint_account", "decimals", "mint_authority", "freeze_authority"}
    OBVIOUS
  <2>4. Fielded(a[2], names) /\ Fielded(b[2], names)
    BY <2>1, <2>2, <2>3 DEF OfToken, TokenNames
  <2>5. /\ a[2].mint_account = b[2].mint_account /\ a[2].decimals = b[2].decimals
        /\ a[2].mint_authority = b[2].mint_authority /\
             a[2].freeze_authority = b[2].freeze_authority
    <3>1. /\ a[2].mint_account = b[2].mint_account /\ a[2].decimals = b[2].decimals
          /\ a[2].mint_authority = b[2].mint_authority
      BY SaysOnce DEF MintCreation, MintCreatedTells
    <3>2. a[2].freeze_authority = b[2].freeze_authority
      BY SaysOnce DEF MintCreation, MintCreatedTells, SaysIf
    <3> QED BY <3>1, <3>2
  <2>6. \A field \in names \ {} : Shown(a[2], field) = Shown(b[2], field)
    BY <2>2, <2>3, <2>5, PlainShown
  <2>7. a[2].program = b[2].program /\ ShownKind(a[2]) = ShownKind(b[2])
    BY <2>1, <2>2 DEF OfToken, ShownKind, Alike
  <2> QED BY <2>4, <2>6, <2>7, AlikeFields
<1>5. Of(a, 2) /\ Of(b, 2)
  BY DEF MintCreation
<1> QED BY <1>1, <1>2, <1>3, <1>4, <1>5, MeaningOfTwo

\* A token account created and initialized.
LEMMA AccountCreationAlike ==
  ASSUME NEW a, NEW b, NEW said, AccountCreation(a, said), AccountCreation(b, said)
  PROVE  Meaning(a) = Meaning(b)
<1>1. PICK untold : untold = {<<1, "to">>}
  OBVIOUS
<1>2. Untold(a) = untold /\ Untold(b) = untold
  BY <1>1, UntoldPairs DEF AccountCreation
<1>3. AlikeInfo(a[1], b[1], {"to"})
  <2>1. OfSystem(a[1]) /\ OfSystem(b[1])
    BY DEF AccountCreation
  <2>2. a[1].kind = "CreateAccount" /\ b[1].kind = "CreateAccount"
    BY PairsRead DEF AccountCreation, Pair
  <2>3. /\ Says(said, "Funded_by", a[1].from) /\ Says(said, "Funded_by", b[1].from)
        /\ Says(said, "Funded_with", a[1].lamports) /\ Says(said, "Funded_with", b[1].lamports)
    BY DEF AccountCreation, AccountCreatedTells
  <2> QED BY <2>1, <2>2, <2>3, FundedAlike
<1>4. AlikeInfo(a[2], b[2], {})
  <2>1. OfToken(a[2]) /\ OfToken(b[2])
    BY DEF AccountCreation
  <2>2. a[2].kind \in {"InitializeAccount", "InitializeAccount2"} /\
          b[2].kind \in {"InitializeAccount", "InitializeAccount2"}
    BY PairsRead DEF AccountCreation, Pair
  <2>3. PICK names : names = {"token_account", "mint_account", "owner"}
    OBVIOUS
  <2>4. Fielded(a[2], names) /\ Fielded(b[2], names)
    BY <2>1, <2>2, <2>3 DEF OfToken, TokenNames
  <2>5. a[2].token_account = b[2].token_account /\ a[2].mint_account = b[2].mint_account /\
          a[2].owner = b[2].owner
    BY SaysOnce DEF AccountCreation, AccountCreatedTells
  <2>6. \A field \in names \ {} : Shown(a[2], field) = Shown(b[2], field)
    BY <2>2, <2>3, <2>5, PlainShown
  <2>7. a[2].program = b[2].program /\ ShownKind(a[2]) = ShownKind(b[2])
    BY <2>1, <2>2 DEF OfToken, ShownKind, Alike
  <2> QED BY <2>4, <2>6, <2>7, AlikeFields
<1>5. Of(a, 2) /\ Of(b, 2)
  BY DEF AccountCreation
<1> QED BY <1>1, <1>2, <1>3, <1>4, <1>5, MeaningOfTwo

\* A multisig account created and initialized.
LEMMA MultisigCreationAlike ==
  ASSUME NEW a, NEW b, NEW said, MultisigCreation(a, said), MultisigCreation(b, said)
  PROVE  Meaning(a) = Meaning(b)
<1>1. PICK untold : untold = {<<1, "to">>}
  OBVIOUS
<1>2. Untold(a) = untold /\ Untold(b) = untold
  BY <1>1, UntoldPairs DEF MultisigCreation
<1>3. AlikeInfo(a[1], b[1], {"to"})
  <2>1. OfSystem(a[1]) /\ OfSystem(b[1])
    BY DEF MultisigCreation
  <2>2. a[1].kind = "CreateAccount" /\ b[1].kind = "CreateAccount"
    BY PairsRead DEF MultisigCreation, Pair
  <2>3. /\ Says(said, "Funded_by", a[1].from) /\ Says(said, "Funded_by", b[1].from)
        /\ Says(said, "Funded_with", a[1].lamports) /\ Says(said, "Funded_with", b[1].lamports)
    BY DEF MultisigCreation, MultisigCreatedTells
  <2> QED BY <2>1, <2>2, <2>3, FundedAlike
<1>4. AlikeInfo(a[2], b[2], {})
  <2>1. OfToken(a[2]) /\ OfToken(b[2])
    BY DEF MultisigCreation
  <2>2. a[2].kind = "InitializeMultisig" /\ b[2].kind = "InitializeMultisig"
    BY PairsRead DEF MultisigCreation, Pair
  <2>3. PICK names : names = {"multisig_account", "m", "count"}
    OBVIOUS
  <2>4. Fielded(a[2], names) /\ Fielded(b[2], names)
    BY <2>1, <2>2, <2>3 DEF OfToken, TokenNames
  <2>5. /\ a[2].multisig_account = b[2].multisig_account
        /\ Shown(a[2], "m") = Shown(b[2], "m") /\ Shown(a[2], "count") = Shown(b[2], "count")
    <3>1. a[2].multisig_account = b[2].multisig_account
      BY SaysOnce DEF MultisigCreation, MultisigCreatedTells
    <3>2. Shown(a[2], "m") = Shown(b[2], "m") /\ Shown(a[2], "count") = Shown(b[2], "count")
      BY ThresholdAlike DEF MultisigCreation, MultisigCreatedTells
    <3> QED BY <3>1, <3>2
  <2>6. \A field \in names \ {} : Shown(a[2], field) = Shown(b[2], field)
    BY <2>2, <2>3, <2>5, PlainShown
  <2>7. a[2].program = b[2].program /\ ShownKind(a[2]) = ShownKind(b[2])
    BY <2>1, <2>2 DEF OfToken, ShownKind, Alike
  <2> QED BY <2>4, <2>6, <2>7, AlikeFields
<1>5. Of(a, 2) /\ Of(b, 2)
  BY DEF MultisigCreation
<1> QED BY <1>1, <1>2, <1>3, <1>4, <1>5, MeaningOfTwo

\* An associated account created, and tokens transferred.
LEMMA AssociatedTransferAlike ==
  ASSUME NEW a, NEW b, NEW said, AssociatedTransfer(a, said), AssociatedTransfer(b, said)
  PROVE  Meaning(a) = Meaning(b)
<1>1. Untold(a) = {} /\ Untold(b) = {}
  BY UntoldPairs DEF AssociatedTransfer
<1>2. AlikeInfo(a[1], b[1], {})
  <2>1. OfAssociated(a[1]) /\ OfAssociated(b[1])
    BY DEF AssociatedTransfer
  <2>2. a[1].address = b[1].address /\ a[1].mint = b[1].mint /\ a[1].owner = b[1].owner
        /\ a[1].funder = b[1].funder
    BY SaysOnce DEF AssociatedTransfer, AssociatedTransferTells
  <2> QED BY <2>1, <2>2, AssociatedAlike
<1>3. AlikeInfo(a[2], b[2], {})
  <2>1. OfToken(a[2]) /\ OfToken(b[2])
    BY DEF AssociatedTransfer
  <2>2. a[2].kind = "TransferChecked" /\ b[2].kind = "TransferChecked"
    BY DEF AssociatedTransfer, is_rpl_associated_token_account_create_with_transfer
  <2>3. PICK names : names = {"src_account", "mint_account", "dest_account", "amount", "decimals",
                              "sign"}
    OBVIOUS
  <2>4. Fielded(a[2], names) /\ Fielded(b[2], names)
    BY <2>1, <2>2, <2>3 DEF OfToken, TokenNames
  <2>5. /\ a[2].src_account = b[2].src_account /\ a[2].dest_account = b[2].dest_account
        /\ a[2].amount = b[2].amount /\ a[2].decimals = b[2].decimals
        /\ get_token_symbol(a[2].mint_account) = get_token_symbol(b[2].mint_account)
        /\ a[2].sign = b[2].sign
    <3>1. a[2].src_account = b[2].src_account /\ a[2].dest_account = b[2].dest_account
      BY SaysOnce DEF AssociatedTransfer, AssociatedTransferTells
    <3>2. TokenValue(a[2]) = TokenValue(b[2])
      BY SaysOnce DEF AssociatedTransfer, AssociatedTransferTells
    <3>3. IsSigner(a[2].sign) /\ IsSigner(b[2].sign)
      BY <2>1, <2>2 DEF OfToken, TokenNames
    <3>4. OwnerTells(a[2].sign, said) /\ OwnerTells(b[2].sign, said)
      BY DEF AssociatedTransfer, AssociatedTransferTells
    <3> QED BY <3>1, <3>2, <3>3, <3>4, TokensAlike, OwnerAlike
  <2>6. \A field \in names \ {} : Shown(a[2], field) = Shown(b[2], field)
    BY <2>2, <2>3, <2>5, PlainShown
  <2>7. a[2].program = b[2].program /\ ShownKind(a[2]) = ShownKind(b[2])
    BY <2>1, <2>2 DEF OfToken, ShownKind, Alike
  <2> QED BY <2>4, <2>6, <2>7, AlikeFields
<1>4. Of(a, 2) /\ Of(b, 2)
  BY DEF AssociatedTransfer
<1> QED BY <1>1, <1>2, <1>3, <1>4, MeaningOfTwo

\* A stake that is split into an account with a seed.
LEMMA SeededFields ==
  ASSUME NEW info, OfSystem(info), info.kind \in {"AllocateWithSeed", "CreateAccountWithSeed"}
  PROVE  DOMAIN info \ {"kind", "from", "to", "lamports", "account", "space", "program_id"} =
           {"program", "base", "seed"}
<1>1. PICK dom : dom = DOMAIN info
  OBVIOUS
<1>2. \/ dom = {"program", "kind"} \cup {"account", "base", "seed", "space", "program_id"}
      \/ dom = {"program", "kind"} \cup {"from", "to", "base", "seed", "lamports"}
  BY <1>1 DEF OfSystem, SystemNames, Fielded, IsRecord
<1> QED BY <1>1, <1>2

\* A stake split into an account with a seed.
LEMMA SeededSplitAlike ==
  ASSUME NEW a, NEW b, NEW said, SeededSplit(a, said), SeededSplit(b, said)
  PROVE  Meaning(a) = Meaning(b)
<1>7. PICK first : first = {"kind", "from", "to", "lamports", "account", "space", "program_id"}
  OBVIOUS
<1>1. PICK untold : untold = {1} \X first
  OBVIOUS
<1>2. Untold(a) = untold /\ Untold(b) = untold
  BY <1>1, <1>7, UntoldPairs DEF SeededSplit
<1>3. AlikeInfo(a[1], b[1], first)
  <2>1. /\ OfSystem(a[1]) /\ OfSystem(b[1])
        /\ a[1].kind \in {"AllocateWithSeed", "CreateAccountWithSeed"}
        /\ b[1].kind \in {"AllocateWithSeed", "CreateAccountWithSeed"}
    BY PairsRead DEF SeededSplit, Pair
  <2>2. PICK told : told = {"program", "base", "seed"}
    OBVIOUS
  <2>3. DOMAIN a[1] \ first = told /\ DOMAIN b[1] \ first = told
    BY <1>7, <2>1, <2>2, SeededFields
  <2>4. a[1].program = b[1].program /\ a[1].base = b[1].base /\ a[1].seed = b[1].seed
    BY SaysOnce DEF SeededSplit, SplitSeededTells, OfSystem
  <2>5. \A field \in told : Shown(a[1], field) = Shown(b[1], field)
    BY <2>2, <2>4, PlainShown
  <2> QED BY <2>3, <2>5 DEF AlikeInfo
<1>4. AlikeInfo(a[2], b[2], {})
  <2>1. OfStake(a[2]) /\ OfStake(b[2])
    BY DEF SeededSplit
  <2>2. a[2].kind = "Split" /\ b[2].kind = "Split"
    BY PairsRead DEF SeededSplit, Pair
  <2>3. PICK names : names = {"account", "split_account", "authority", "lamports"}
    OBVIOUS
  <2>4. Fielded(a[2], names) /\ Fielded(b[2], names)
    BY <2>1, <2>2, <2>3 DEF OfStake, StakeNames
  <2>5. a[2].account = b[2].account /\ a[2].split_account = b[2].split_account /\
          a[2].authority = b[2].authority /\ a[2].lamports = b[2].lamports
    BY SaysOnce DEF SeededSplit, SplitSeededTells
  <2>6. \A field \in names \ {} : Shown(a[2], field) = Shown(b[2], field)
    BY <2>2, <2>3, <2>5, PlainShown
  <2>7. a[2].program = b[2].program /\ ShownKind(a[2]) = ShownKind(b[2])
    BY <2>1, <2>2 DEF OfStake, ShownKind, Alike
  <2> QED BY <2>4, <2>6, <2>7, AlikeFields
<1>5. Of(a, 2) /\ Of(b, 2)
  BY DEF SeededSplit
<1>6. \A field \in first : <<1, field>> \in untold
  BY <1>1
<1> QED BY <1>2, <1>3, <1>4, <1>5, <1>6, MeaningOfTwo

\* Two authorities that are replaced together, of a stake and of a vote account.
LEMMA StakeBothAlike ==
  ASSUME NEW a, NEW b, NEW said, StakeBoth(a, said), StakeBoth(b, said)
  PROVE  Meaning(a) = Meaning(b)
<1>1. PICK untold : untold = {<<1, "authority">>, <<1, "custodian">>, <<2, "account">>}
  OBVIOUS
<1>2. Untold(a) = untold /\ Untold(b) = untold
  BY <1>1, UntoldPairs DEF StakeBoth
<1>3. PICK names : names = {"account", "authority", "new_authority", "authorize", "custodian"}
  OBVIOUS
<1>4. \A i \in {1, 2} : /\ Fielded(a[i], names) /\ Fielded(b[i], names)
                          /\ a[i].kind \in {"Authorize", "AuthorizeChecked"}
                          /\ b[i].kind \in {"Authorize", "AuthorizeChecked"}
                          /\ a[i].program = "Stake" /\ b[i].program = "Stake"
  <2>1. \A i \in {1, 2} : /\ a[i].kind \in {"Authorize", "AuthorizeChecked"}
                            /\ b[i].kind \in {"Authorize", "AuthorizeChecked"}
    BY PairsRead DEF StakeBoth, Pair
  <2>2. \A i \in {1, 2} : OfStake(a[i]) /\ OfStake(b[i])
    BY DEF StakeBoth
  <2>3. \A kind \in {"Authorize", "AuthorizeChecked"} : StakeNames[kind] = names
    BY <1>3 DEF StakeNames
  <2>4. \A i \in {1, 2} : /\ a[i].program = "Stake" /\ Fielded(a[i], StakeNames[a[i].kind])
                            /\ b[i].program = "Stake" /\ Fielded(b[i], StakeNames[b[i].kind])
    BY <2>2 DEF OfStake
  <2> QED BY <2>1, <2>3, <2>4
<1>5. \A i \in {1, 2} : a[i].program = b[i].program /\ ShownKind(a[i]) = ShownKind(b[i])
  BY <1>4 DEF ShownKind, Alike
<1>6. PICK keys : keys = <<a[1].new_authority, a[2].new_authority, b[1].new_authority,
                           b[2].new_authority>>
  OBVIOUS
<1>7. keys[1] = keys[3] /\ keys[2] = keys[4]
  <2>1. BothAlike(a) => Says(said, "New_authorities", keys[1]) /\ keys[1] = keys[2]
    BY <1>6 DEF StakeBoth, BothTells, SaysIf, BothAlike
  <2>2. BothAlike(b) => Says(said, "New_authorities", keys[3]) /\ keys[3] = keys[4]
    BY <1>6 DEF StakeBoth, BothTells, SaysIf, BothAlike
  <2>3. ~BothAlike(a) => /\ Silent(said, "New_authorities") /\ Says(said, "New_stake_auth", keys[1])
                         /\ Says(said, "New_withdraw_auth", keys[2])
    BY <1>6 DEF StakeBoth, BothTells, SaysIf
  <2>4. ~BothAlike(b) => /\ Silent(said, "New_authorities") /\ Says(said, "New_stake_auth", keys[3])
                         /\ Says(said, "New_withdraw_auth", keys[4])
    BY <1>6 DEF StakeBoth, BothTells, SaysIf
  <2> QED BY <2>1, <2>2, <2>3, <2>4, SaysOnce
<1>8. /\ a[1].account = b[1].account /\ a[2].authority = b[2].authority
      /\ a[1].new_authority = b[1].new_authority /\ a[2].new_authority = b[2].new_authority
      /\ a[1].authorize = b[1].authorize /\ a[2].authorize = b[2].authorize
  <2>1. a[1].account = b[1].account /\ a[2].authority = b[2].authority
    BY SaysOnce DEF StakeBoth, BothTells
  <2>2. a[1].authorize = b[1].authorize /\ a[2].authorize = b[2].authorize
    BY DEF StakeBoth, Authorizes
  <2> QED BY <1>6, <1>7, <2>1, <2>2
<1>9. a[2].custodian = b[2].custodian
  BY <1>4, SaysOnce DEF StakeBoth, BothTells, SaysIf
<1>10. PICK first : first = {"authority", "custodian"}
  OBVIOUS
<1>11. AlikeInfo(a[1], b[1], first)
  <2>1. \A field \in names \ first : Shown(a[1], field) = Shown(b[1], field)
    BY <1>3, <1>8, <1>10, PlainShown
  <2> QED BY <1>4, <1>5, <2>1, AlikeFields
<1>12. PICK second : second = {"account"}
  OBVIOUS
<1>13. AlikeInfo(a[2], b[2], second)
  <2>1. \A field \in names \ second : Shown(a[2], field) = Shown(b[2], field)
    BY <1>3, <1>8, <1>9, <1>12, PlainShown
  <2> QED BY <1>4, <1>5, <2>1, AlikeFields
<1>14. Of(a, 2) /\ Of(b, 2)
  BY DEF StakeBoth
<1>15. /\ \A field \in first : <<1, field>> \in untold
       /\ \A field \in second : <<2, field>> \in untold
  BY <1>1, <1>10, <1>12
<1> QED BY <1>2, <1>11, <1>13, <1>14, <1>15, MeaningOfTwo

\* The same of a vote account.
LEMMA VoteBothAlike ==
  ASSUME NEW a, NEW b, NEW said, VoteBoth(a, said), VoteBoth(b, said)
  PROVE  Meaning(a) = Meaning(b)
<1>1. PICK untold : untold = {<<1, "authority">>, <<1, "custodian">>, <<2, "account">>}
  OBVIOUS
<1>2. Untold(a) = untold /\ Untold(b) = untold
  BY <1>1, UntoldPairs DEF VoteBoth
<1>3. PICK names : names = {"account", "authority", "new_authority", "authorize"}
  OBVIOUS
<1>4. \A i \in {1, 2} : /\ Fielded(a[i], names) /\ Fielded(b[i], names)
                          /\ a[i].kind \in {"Authorize", "AuthorizeChecked"}
                          /\ b[i].kind \in {"Authorize", "AuthorizeChecked"}
                          /\ a[i].program = "Vote" /\ b[i].program = "Vote"
  <2>1. \A i \in {1, 2} : /\ a[i].kind \in {"Authorize", "AuthorizeChecked"}
                            /\ b[i].kind \in {"Authorize", "AuthorizeChecked"}
    BY PairsRead DEF VoteBoth, Pair
  <2>2. \A i \in {1, 2} : OfVote(a[i]) /\ OfVote(b[i])
    BY DEF VoteBoth
  <2>3. \A kind \in {"Authorize", "AuthorizeChecked"} : VoteNames[kind] = names
    BY <1>3 DEF VoteNames
  <2>4. \A i \in {1, 2} : /\ a[i].program = "Vote" /\ Fielded(a[i], VoteNames[a[i].kind])
                            /\ b[i].program = "Vote" /\ Fielded(b[i], VoteNames[b[i].kind])
    BY <2>2 DEF OfVote
  <2> QED BY <2>1, <2>3, <2>4
<1>5. \A i \in {1, 2} : a[i].program = b[i].program /\ ShownKind(a[i]) = ShownKind(b[i])
  BY <1>4 DEF ShownKind, Alike
<1>6. PICK keys : keys = <<a[1].new_authority, a[2].new_authority, b[1].new_authority,
                           b[2].new_authority>>
  OBVIOUS
<1>7. keys[1] = keys[3] /\ keys[2] = keys[4]
  <2>1. BothAlike(a) => Says(said, "New_authorities", keys[1]) /\ keys[1] = keys[2]
    BY <1>6 DEF VoteBoth, BothTells, SaysIf, BothAlike
  <2>2. BothAlike(b) => Says(said, "New_authorities", keys[3]) /\ keys[3] = keys[4]
    BY <1>6 DEF VoteBoth, BothTells, SaysIf, BothAlike
  <2>3. ~BothAlike(a) => /\ Silent(said, "New_authorities") /\ Says(said, "New_vote_auth", keys[1])
                         /\ Says(said, "New_withdraw_auth", keys[2])
    BY <1>6 DEF VoteBoth, BothTells, SaysIf
  <2>4. ~BothAlike(b) => /\ Silent(said, "New_authorities") /\ Says(said, "New_vote_auth", keys[3])
                         /\ Says(said, "New_withdraw_auth", keys[4])
    BY <1>6 DEF VoteBoth, BothTells, SaysIf
  <2> QED BY <2>1, <2>2, <2>3, <2>4, SaysOnce
<1>8. /\ a[1].account = b[1].account /\ a[2].authority = b[2].authority
      /\ a[1].new_authority = b[1].new_authority /\ a[2].new_authority = b[2].new_authority
      /\ a[1].authorize = b[1].authorize /\ a[2].authorize = b[2].authorize
  <2>1. a[1].account = b[1].account /\ a[2].authority = b[2].authority
    BY SaysOnce DEF VoteBoth, BothTells
  <2>2. a[1].authorize = b[1].authorize /\ a[2].authorize = b[2].authorize
    BY DEF VoteBoth, Authorizes
  <2> QED BY <1>6, <1>7, <2>1, <2>2
<1>10. PICK first : first = {"authority", "custodian"}
  OBVIOUS
<1>11. AlikeInfo(a[1], b[1], first)
  <2>1. \A field \in names \ first : Shown(a[1], field) = Shown(b[1], field)
    BY <1>3, <1>8, <1>10, PlainShown
  <2> QED BY <1>4, <1>5, <2>1, AlikeFields
<1>12. PICK second : second = {"account"}
  OBVIOUS
<1>13. AlikeInfo(a[2], b[2], second)
  <2>1. \A field \in names \ second : Shown(a[2], field) = Shown(b[2], field)
    BY <1>3, <1>8, <1>12, PlainShown
  <2> QED BY <1>4, <1>5, <2>1, AlikeFields
<1>14. Of(a, 2) /\ Of(b, 2)
  BY DEF VoteBoth
<1>15. /\ \A field \in first : <<1, field>> \in untold
       /\ \A field \in second : <<2, field>> \in untold
  BY <1>1, <1>10, <1>12
<1> QED BY <1>2, <1>11, <1>13, <1>14, <1>15, MeaningOfTwo

-----------------------------------------------------------------------------
(* The class of the instructions can be read off what is said of them. *)

\* The heading is one of its class.
LEMMA HeadingOfClass ==
  ASSUME NEW infos, NEW said, NEW title, Headed(said, title)
  PROVE  /\ SystemAlone(infos, said) => title \in
              {"Transfer", "Create_account", "Advance_nonce", "Init_nonce_acct",
               "Nonce_withdraw", "Set_nonce_auth", "Assign_acct", "Allocate_acct"}
         /\ StakeAlone(infos, said) => title \in
              {"Delegate_from", "Init_stake_acct", "Stake_withdraw", "Set_stake_auth",
               "Deactivate_stake", "Set_lockup", "Split_stake", "Merge"}
         /\ VoteAlone(infos, said) => title \in
              {"Init_vote_acct", "Vote_withdraw", "Set_vote_auth", "Update_validator",
               "Update_commission"}
         /\ TokenAlone(infos, said) => title \in
              {"Init_mint", "Init_acct", "Init_multisig", "Revoke_delegate", "Close_acct",
               "Freeze_acct", "Thaw_acct", "Transfer_tokens", "Approve_delegate",
               "Mint_tokens", "Burn_tokens", "Sync_native_acct", "Clear_authority",
               "Set_authority"}
         /\ AssociatedAlone(infos, said) => title = "Create_token_acct"
         /\ StakeCreation(infos, said) => title = "Create_stake_acct"
         /\ NonceCreation(infos, said) => title = "Create_nonce_acct"
         /\ VoteCreation(infos, said) => title = "Create_vote_acct"
         /\ StakeBoth(infos, said) => title = "Set_stake_auth"
         /\ VoteBoth(infos, said) => title = "Set_vote_auth"
         /\ SeededSplit(infos, said) => title = "Split_stake"
         /\ MintCreation(infos, said) => title = "Create_token_mint"
         /\ AccountCreation(infos, said) => title = "Create_token_acct"
         /\ MultisigCreation(infos, said) => title = "Create_multisig"
         /\ AssociatedTransfer(infos, said) => title = "Create_token_acct"
         /\ StakeDelegation(infos, said) => title = "Delegate_from"
<1>1. SystemAlone(infos, said) => title \in
        {"Transfer", "Create_account", "Advance_nonce", "Init_nonce_acct",
         "Nonce_withdraw", "Set_nonce_auth", "Assign_acct", "Allocate_acct"}
  BY ClassHeaded, SaysOnce
<1>2. StakeAlone(infos, said) => title \in
        {"Delegate_from", "Init_stake_acct", "Stake_withdraw", "Set_stake_auth",
         "Deactivate_stake", "Set_lockup", "Split_stake", "Merge"}
  BY ClassHeaded, SaysOnce
<1>3. VoteAlone(infos, said) => title \in
        {"Init_vote_acct", "Vote_withdraw", "Set_vote_auth", "Update_validator",
         "Update_commission"}
  BY ClassHeaded, SaysOnce
<1>4. TokenAlone(infos, said) => title \in
        {"Init_mint", "Init_acct", "Init_multisig", "Revoke_delegate", "Close_acct",
         "Freeze_acct", "Thaw_acct", "Transfer_tokens", "Approve_delegate",
         "Mint_tokens", "Burn_tokens", "Sync_native_acct", "Clear_authority",
         "Set_authority"}
  BY ClassHeaded, SaysOnce
<1>5. AssociatedAlone(infos, said) => title = "Create_token_acct"
  BY ClassHeaded, SaysOnce
<1>6. StakeCreation(infos, said) => title = "Create_stake_acct"
  BY ClassHeaded, SaysOnce
<1>7. NonceCreation(infos, said) => title = "Create_nonce_acct"
  BY ClassHeaded, SaysOnce
<1>8. VoteCreation(infos, said) => title = "Create_vote_acct"
  BY ClassHeaded, SaysOnce
<1>9. StakeBoth(infos, said) => title = "Set_stake_auth"
  BY ClassHeaded, SaysOnce
<1>10. VoteBoth(infos, said) => title = "Set_vote_auth"
  BY ClassHeaded, SaysOnce
<1>11. SeededSplit(infos, said) => title = "Split_stake"
  BY ClassHeaded, SaysOnce
<1>12. MintCreation(infos, said) => title = "Create_token_mint"
  BY ClassHeaded, SaysOnce
<1>13. AccountCreation(infos, said) => title = "Create_token_acct"
  BY ClassHeaded, SaysOnce
<1>14. MultisigCreation(infos, said) => title = "Create_multisig"
  BY ClassHeaded, SaysOnce
<1>15. AssociatedTransfer(infos, said) => title = "Create_token_acct"
  BY ClassHeaded, SaysOnce
<1>16. StakeDelegation(infos, said) => title = "Delegate_from"
  BY ClassHeaded, SaysOnce
<1> QED
  BY <1>1, <1>2, <1>3, <1>4, <1>5, <1>6, <1>7, <1>8, <1>9, <1>10, <1>11, <1>12, <1>13, <1>14,
     <1>15, <1>16

\* A stake, a vote account or a token account reviewed alone is not mistaken for two.
LEMMA StakesApart ==
  ASSUME NEW a, NEW b, NEW said, StakeAlone(a, said)
  PROVE  ~StakeDelegation(b, said) /\ ~StakeBoth(b, said) /\ ~SeededSplit(b, said)
<1>1. PICK kind : kind = a[1].kind
  OBVIOUS
<1>2. kind \in DOMAIN StakeNames /\ \E title \in StakeHeads[kind] : Headed(said, title)
  BY <1>1, StakeHeaded DEF StakeAlone, OfStake
<1>3. \A title : Headed(said, title) => title \in StakeHeads[kind]
  BY <1>2, SaysOnce
<1>4. ASSUME StakeDelegation(b, said) PROVE FALSE
  <2>1. Headed(said, "Delegate_from") /\ ~Silent(said, "Deposit")
    BY <1>4, SaysOnce DEF StakeDelegation, StakeDelegatedTells, CreationTells
  <2>2. kind = "Delegate"
    BY <1>2, <1>3, <2>1 DEF StakeHeads, StakeNames
  <2> QED BY <1>1, <2>1, <2>2 DEF StakeAlone, StakeTells
<1>5. ASSUME StakeBoth(b, said) PROVE FALSE
  <2>1. Headed(said, "Set_stake_auth")
    BY <1>5 DEF StakeBoth, BothTells
  <2>2. kind \in {"Authorize", "AuthorizeChecked"}
    BY <1>2, <1>3, <2>1 DEF StakeHeads, StakeNames
  <2>3. StakeTells(a[1], said)
    BY DEF StakeAlone
  <2>4. Silent(said, "New_authorities")
    BY <1>1, <2>2, <2>3 DEF StakeTells
  <2>5. Silent(said, "New_stake_auth") \/ Silent(said, "New_withdraw_auth")
    BY <1>1, <2>2, <2>3 DEF StakeTells, SaysIf
  <2>6. ~Silent(said, "New_stake_auth") /\ ~Silent(said, "New_withdraw_auth")
    BY <1>5, <2>4, SaysOnce DEF StakeBoth, BothTells, SaysIf
  <2> QED BY <2>5, <2>6
<1>6. ASSUME SeededSplit(b, said) PROVE FALSE
  <2>1. Headed(said, "Split_stake") /\ ~Silent(said, "Base")
    BY <1>6, SaysOnce DEF SeededSplit, SplitSeededTells
  <2>2. kind = "Split"
    BY <1>2, <1>3, <2>1 DEF StakeHeads, StakeNames
  <2> QED BY <1>1, <2>1, <2>2 DEF StakeAlone, StakeTells
<1> QED BY <1>4, <1>5, <1>6

\* So is a vote account.
LEMMA VotesApart ==
  ASSUME NEW a, NEW b, NEW said, VoteAlone(a, said)
  PROVE  ~VoteBoth(b, said)
<1>1. PICK kind : kind = a[1].kind
  OBVIOUS
<1>2. kind \in DOMAIN VoteNames /\ \E title \in VoteHeads[kind] : Headed(said, title)
  BY <1>1, VoteHeaded DEF VoteAlone, OfVote
<1>3. \A title : Headed(said, title) => title \in VoteHeads[kind]
  BY <1>2, SaysOnce
<1>4. ASSUME VoteBoth(b, said) PROVE FALSE
  <2>1. Headed(said, "Set_vote_auth")
    BY <1>4 DEF VoteBoth, BothTells
  <2>2. kind \in {"Authorize", "AuthorizeChecked"}
    BY <1>2, <1>3, <2>1 DEF VoteHeads, VoteNames
  <2>3. VoteTells(a[1], said)
    BY DEF VoteAlone
  <2>4. Silent(said, "New_authorities")
    BY <1>1, <2>2, <2>3 DEF VoteTells
  <2>5. Silent(said, "New_vote_auth") \/ Silent(said, "New_withdraw_auth")
    BY <1>1, <2>2, <2>3 DEF VoteTells, SaysIf
  <2>6. ~Silent(said, "New_vote_auth") /\ ~Silent(said, "New_withdraw_auth")
    BY <1>4, <2>4, SaysOnce DEF VoteBoth, BothTells, SaysIf
  <2> QED BY <2>5, <2>6
<1> QED BY <1>4

\* An associated account differs from another, and from one that tokens are sent to.
LEMMA AccountsApart ==
  ASSUME NEW a, NEW b, NEW said
  PROVE  /\ ~(AssociatedAlone(a, said) /\ AccountCreation(b, said))
         /\ ~(AssociatedAlone(a, said) /\ AssociatedTransfer(b, said))
         /\ ~(AccountCreation(a, said) /\ AssociatedTransfer(b, said))
<1>1. AssociatedAlone(a, said) => Silent(said, "Funded_with") /\ Silent(said, "Transfer_tokens")
  BY DEF AssociatedAlone, AssociatedTells
<1>2. \A infos : AccountCreation(infos, said) =>
        ~Silent(said, "Funded_with") /\ Silent(said, "Transfer_tokens")
  BY SaysOnce DEF AccountCreation, AccountCreatedTells
<1>3. AssociatedTransfer(b, said) => ~Silent(said, "Transfer_tokens")
  BY SaysOnce DEF AssociatedTransfer, AssociatedTransferTells
<1> QED BY <1>1, <1>2, <1>3

\* Instructions of which the same is said are of one class, and mean the same.
LEMMA ReadsAlike ==
  ASSUME NEW a, NEW b, NEW said, Reads(a, said), Reads(b, said)
  PROVE  Meaning(a) = Meaning(b)
<1>1. \E title : Headed(said, title)
  BY ClassHeaded DEF Reads
<1>2. PICK title : Headed(said, title)
  BY <1>1
<1>3. CASE SystemAlone(a, said)
  <2>1. SystemAlone(b, said)
    BY <1>2, <1>3, HeadingOfClass DEF Reads
  <2> QED BY <1>3, <2>1, SystemAloneAlike
<1>4. CASE StakeAlone(a, said)
  <2>1. StakeAlone(b, said)
    BY <1>2, <1>4, HeadingOfClass, StakesApart DEF Reads
  <2> QED BY <1>4, <2>1, StakeAloneAlike
<1>5. CASE VoteAlone(a, said)
  <2>1. VoteAlone(b, said)
    BY <1>2, <1>5, HeadingOfClass, VotesApart DEF Reads
  <2> QED BY <1>5, <2>1, VoteAloneAlike
<1>6. CASE TokenAlone(a, said)
  <2>1. TokenAlone(b, said)
    BY <1>2, <1>6, HeadingOfClass DEF Reads
  <2> QED BY <1>6, <2>1, TokenAloneAlike
<1>7. CASE AssociatedAlone(a, said)
  <2>1. AssociatedAlone(b, said)
    BY <1>2, <1>7, HeadingOfClass, AccountsApart DEF Reads
  <2> QED BY <1>7, <2>1, AssociatedAloneAlike
<1>8. CASE StakeCreation(a, said)
  <2>1. StakeCreation(b, said)
    BY <1>2, <1>8, HeadingOfClass DEF Reads
  <2> QED BY <1>8, <2>1, StakeCreationAlike
<1>9. CASE NonceCreation(a, said)
  <2>1. NonceCreation(b, said)
    BY <1>2, <1>9, HeadingOfClass DEF Reads
  <2> QED BY <1>9, <2>1, NonceCreationAlike
<1>10. CASE VoteCreation(a, said)
  <2>1. VoteCreation(b, said)
    BY <1>2, <1>10, HeadingOfClass DEF Reads
  <2> QED BY <1>10, <2>1, VoteCreationAlike
<1>11. CASE StakeBoth(a, said)
  <2>1. StakeBoth(b, said)
    BY <1>2, <1>11, HeadingOfClass, StakesApart DEF Reads
  <2> QED BY <1>11, <2>1, StakeBothAlike
<1>12. CASE VoteBoth(a, said)
  <2>1. VoteBoth(b, said)
    BY <1>2, <1>12, HeadingOfClass, VotesApart DEF Reads
  <2> QED BY <1>12, <2>1, VoteBothAlike
<1>13. CASE SeededSplit(a, said)
  <2>1. SeededSplit(b, said)
    BY <1>2, <1>13, HeadingOfClass, StakesApart DEF Reads
  <2> QED BY <1>13, <2>1, SeededSplitAlike
<1>14. CASE MintCreation(a, said)
  <2>1. MintCreation(b, said)
    BY <1>2, <1>14, HeadingOfClass DEF Reads
  <2> QED BY <1>14, <2>1, MintCreationAlike
<1>15. CASE AccountCreation(a, said)
  <2>1. AccountCreation(b, said)
    BY <1>2, <1>15, HeadingOfClass, AccountsApart DEF Reads
  <2> QED BY <1>15, <2>1, AccountCreationAlike
<1>16. CASE MultisigCreation(a, said)
  <2>1. MultisigCreation(b, said)
    BY <1>2, <1>16, HeadingOfClass DEF Reads
  <2> QED BY <1>16, <2>1, MultisigCreationAlike
<1>17. CASE AssociatedTransfer(a, said)
  <2>1. AssociatedTransfer(b, said)
    BY <1>2, <1>17, HeadingOfClass, AccountsApart DEF Reads
  <2> QED BY <1>17, <2>1, AssociatedTransferAlike
<1>18. CASE StakeDelegation(a, said)
  <2>1. StakeDelegation(b, said)
    BY <1>2, <1>18, HeadingOfClass, StakesApart DEF Reads
  <2> QED BY <1>18, <2>1, StakeDelegationAlike
<1> QED
  BY <1>3, <1>4, <1>5, <1>6, <1>7, <1>8, <1>9, <1>10, <1>11, <1>12, <1>13, <1>14, <1>15, <1>16,
     <1>17, <1>18 DEF Reads

-----------------------------------------------------------------------------
(* What is read of the instructions of a recognised transaction. *)

\* An instruction that is printed alone.
LEMMA OneRead ==
  ASSUME NEW infos, Of(infos, 1), Filled(infos[1]), NEW config, Experts(config),
         NEW said, said = Said(PrintOne(infos[1], config).items)
  PROVE  Reads(infos, said)
<1>1. PICK info : info = infos[1]
  OBVIOUS
<1>2. CASE OfSystem(info)
  <2>1. PrintOne(info, config).items = print_system_info(info, config)
    BY <1>2 DEF OfSystem, PrintOne, Printed
  <2>2. SystemTells(info, said)
    BY <1>1, <2>1, SystemReads
  <2> QED BY <1>1, <1>2, <2>2 DEF Reads, SystemAlone
<1>3. CASE OfStake(info)
  <2>1. PrintOne(info, config).items = print_stake_info(info, config)
    BY <1>3 DEF OfStake, PrintOne, Printed
  <2>2. StakeTells(info, said)
    BY <1>1, <2>1, StakeReads
  <2> QED BY <1>1, <1>3, <2>2 DEF Reads, StakeAlone
<1>4. CASE OfVote(info)
  <2>1. PrintOne(info, config).items = print_vote_info(info, config)
    BY <1>4 DEF OfVote, PrintOne, Printed
  <2>2. VoteTells(info, said)
    BY <1>1, <2>1, VoteReads
  <2> QED BY <1>1, <1>4, <2>2 DEF Reads, VoteAlone
<1>5. CASE OfToken(info)
  <2>1. PrintOne(info, config).items = print_rpl_token_info(info, config)
    BY <1>5 DEF OfToken, PrintOne, Printed
  <2>2. TokenTells(info, said)
    BY <1>1, <2>1, TokenReads
  <2> QED BY <1>1, <1>5, <2>2 DEF Reads, TokenAlone
<1>6. CASE OfAssociated(info)
  <2>1. PrintOne(info, config).items = print_rpl_associated_token_account_create_info(info)
    BY <1>6 DEF OfAssociated, PrintOne, Printed
  <2>2. said = SaidAssociated(info)
    BY <1>1, <2>1, SaidOfAssociated
  <2>3. AssociatedTells(info, said)
    BY <2>2, CreatedReads
  <2> QED BY <1>1, <1>6, <2>3 DEF Reads, AssociatedAlone
<1> QED BY <1>1, <1>2, <1>3, <1>4, <1>5, <1>6 DEF Filled

\* The program of an instruction tells which fields it has.
LEMMA FilledOf ==
  ASSUME NEW info, Filled(info)
  PROVE  /\ info.program = "System" => OfSystem(info)
         /\ info.program = "Stake" => OfStake(info)
         /\ info.program = "Vote" => OfVote(info)
         /\ info.program = "RplToken" => OfToken(info)
         /\ info.program = "RplAssociatedTokenAccount" => OfAssociated(info)
<1>1. OfSystem(info) => info.program = "System"
  BY DEF OfSystem
<1>2. OfStake(info) => info.program = "Stake"
  BY DEF OfStake
<1>3. OfVote(info) => info.program = "Vote"
  BY DEF OfVote
<1>4. OfToken(info) => info.program = "RplToken"
  BY DEF OfToken
<1>5. OfAssociated(info) => info.program = "RplAssociatedTokenAccount"
  BY DEF OfAssociated
<1> QED BY <1>1, <1>2, <1>3, <1>4, <1>5 DEF Filled

\* A stake that is split into a new account is reviewed as if it were alone.
LEMMA SplitRead ==
  ASSUME NEW infos, NEW info, infos = <<info>>, OfStake(info), info.kind = "Split",
         NEW said, said = SaidSplit(info)
  PROVE  Reads(infos, said)
<1>1. Of(infos, 1) /\ infos[1] = info
  BY DEF Of
<1>2. StakeTells(info, said)
  BY DEF StakeTells, SaidSplit, Line, Headed, Below, GeneralTitles, Says, Silent
<1> QED BY <1>1, <1>2 DEF Reads, StakeAlone

\* Two instructions that are printed together.
LEMMA TwoRead ==
  ASSUME NEW infos, Of(infos, 2), Filled(infos[1]), Filled(infos[2]), NEW config, Experts(config),
         PrintTwo(infos, config).printed,
         NEW said, said = Said(PrintTwo(infos, config).items)
  PROVE  Reads(Reviewed(infos), said)
<1>1. PICK create, info : create = infos[1] /\ info = infos[2]
  OBVIOUS
<1>2. Filled(create) /\ Filled(info)
  BY <1>1
<1>3. Len(infos) = 2 /\ ~is_stake_split_v1_1(infos)
  BY DEF Of, is_stake_split_v1_1, Match
<1>4. ~is_stake_split_v1_2(infos) => Reviewed(infos) = infos
  BY <1>3 DEF Reviewed
<1>5. CASE /\ is_create_stake_account(infos)
           /\ said = SaidCreation("Create_stake_acct", infos[1]) \cup SaidInitialize(infos[2])
  <2>1. ~is_stake_split_v1_2(infos)
    BY <1>5, PairsRead DEF Pair
  <2>2. create.program = "System" /\ info.program = "Stake"
    BY <1>1, <1>5, PairsRead DEF Pair
  <2>3. OfSystem(create) /\ OfStake(info)
    BY <1>2, <2>2, FilledOf
  <2>4. StakeCreatedTells(infos[1], infos[2], said)
    BY <1>5, CreatedReads
  <2>5. StakeCreation(infos, said)
    BY <1>1, <1>5, <2>3, <2>4 DEF StakeCreation
  <2> QED BY <1>4, <2>1, <2>5 DEF Reads
<1>6. CASE /\ is_create_nonce_account(infos)
           /\ said = SaidCreation("Create_nonce_acct", infos[1]) \cup
                    Line("New_authority", infos[2].authority)
  <2>1. ~is_stake_split_v1_2(infos)
    BY <1>6, PairsRead DEF Pair
  <2>2. create.program = "System" /\ info.program = "System"
    BY <1>1, <1>6, PairsRead DEF Pair
  <2>3. OfSystem(create) /\ OfSystem(info)
    BY <1>2, <2>2, FilledOf
  <2>4. NonceCreatedTells(infos[1], infos[2], said)
    BY <1>6, CreatedReads
  <2>5. NonceCreation(infos, said)
    BY <1>1, <1>6, <2>3, <2>4 DEF NonceCreation
  <2> QED BY <1>4, <2>1, <2>5 DEF Reads
<1>7. CASE /\ is_create_vote_account(infos)
           /\ said = SaidCreation("Create_vote_acct", infos[1]) \cup SaidVoteInitialize(infos[2])
  <2>1. ~is_stake_split_v1_2(infos)
    BY <1>7, PairsRead DEF Pair
  <2>2. create.program = "System" /\ info.program = "Vote"
    BY <1>1, <1>7, PairsRead DEF Pair
  <2>3. OfSystem(create) /\ OfVote(info)
    BY <1>2, <2>2, FilledOf
  <2>4. VoteCreatedTells(infos[1], infos[2], said)
    BY <1>7, CreatedReads
  <2>5. VoteCreation(infos, said)
    BY <1>1, <1>7, <2>3, <2>4 DEF VoteCreation
  <2> QED BY <1>4, <2>1, <2>5 DEF Reads
<1>8. CASE /\ is_stake_authorize_both(infos)
           /\ Authorizes(infos, <<"Staker", "Withdrawer">>)
           /\ said = SaidBoth("Set_stake_auth", "New_stake_auth", infos)
  <2>1. ~is_stake_split_v1_2(infos)
    BY <1>8, PairsRead DEF Pair
  <2>2. create.program = "Stake" /\ info.program = "Stake"
    BY <1>1, <1>8, PairsRead DEF Pair
  <2>3. OfStake(create) /\ OfStake(info)
    BY <1>2, <2>2, FilledOf
  <2>4. BothTells(infos, said, "Set_stake_auth", "New_stake_auth")
    BY <1>8, BothReads
  <2>5. StakeBoth(infos, said)
    BY <1>1, <1>8, <2>3, <2>4 DEF StakeBoth
  <2> QED BY <1>4, <2>1, <2>5 DEF Reads
<1>9. CASE /\ is_vote_authorize_both(infos)
           /\ Authorizes(infos, <<"Voter", "Withdrawer">>)
           /\ said = SaidBoth("Set_vote_auth", "New_vote_auth", infos)
  <2>1. ~is_stake_split_v1_2(infos)
    BY <1>9, PairsRead DEF Pair
  <2>2. create.program = "Vote" /\ info.program = "Vote"
    BY <1>1, <1>9, PairsRead DEF Pair
  <2>3. OfVote(create) /\ OfVote(info)
    BY <1>2, <2>2, FilledOf
  <2>4. BothTells(infos, said, "Set_vote_auth", "New_vote_auth")
    BY <1>9, BothReads
  <2>5. VoteBoth(infos, said)
    BY <1>1, <1>9, <2>3, <2>4 DEF VoteBoth
  <2> QED BY <1>4, <2>1, <2>5 DEF Reads
<1>10. CASE /\ is_stake_split_with_seed(infos)
           /\ said = Line("Split_stake", infos[2].lamports) \cup Line("From", infos[2].account) \cup
                    Line("To", infos[2].split_account) \cup SaidSeedOf(infos[1]) \cup
                    Line("Authorized_by", infos[2].authority)
  <2>1. ~is_stake_split_v1_2(infos)
    BY <1>10, PairsRead DEF Pair
  <2>2. create.program = "System" /\ info.program = "Stake"
    BY <1>1, <1>10, PairsRead DEF Pair
  <2>3. OfSystem(create) /\ OfStake(info)
    BY <1>2, <2>2, FilledOf
  <2>4. SplitSeededTells(infos[1], infos[2], said)
    BY <1>10, CreatedReads
  <2>5. SeededSplit(infos, said)
    BY <1>1, <1>10, <2>3, <2>4 DEF SeededSplit
  <2> QED BY <1>4, <2>1, <2>5 DEF Reads
<1>11. CASE /\ is_rpl_token_create_mint(infos)
           /\ said = Line("Create_token_mint", infos[2].mint_account) \cup
                    Line("Mint_authority", infos[2].mint_authority) \cup
                    Line("Mint_decimals", infos[2].decimals) \cup
                    If(infos[2].freeze_authority # NoKey,
                       Line("Freeze_authority", infos[2].freeze_authority)) \cup
                    SaidFunded(infos[1])
  <2>1. ~is_stake_split_v1_2(infos)
    BY <1>11, PairsRead DEF Pair
  <2>2. create.program = "System" /\ info.program = "RplToken"
    BY <1>1, <1>11, PairsRead DEF Pair
  <2>3. OfSystem(create) /\ OfToken(info)
    BY <1>2, <2>2, FilledOf
  <2>4. MintCreatedTells(infos[1], infos[2], said)
    BY <1>11, CreatedReads
  <2>5. MintCreation(infos, said)
    BY <1>1, <1>11, <2>3, <2>4 DEF MintCreation
  <2> QED BY <1>4, <2>1, <2>5 DEF Reads
<1>12. CASE /\ is_rpl_token_create_account(infos)
           /\ said = Line("Create_token_acct", infos[2].token_account) \cup
                    Line("From_mint", infos[2].mint_account) \cup
                      Line("Owned_by", infos[2].owner) \cup
                    SaidFunded(infos[1])
  <2>1. ~is_stake_split_v1_2(infos)
    BY <1>12, PairsRead DEF Pair
  <2>2. create.program = "System" /\ info.program = "RplToken"
    BY <1>1, <1>12, PairsRead DEF Pair
  <2>3. OfSystem(create) /\ OfToken(info)
    BY <1>2, <2>2, FilledOf
  <2>4. AccountCreatedTells(infos[1], infos[2], said)
    BY <1>12, CreatedReads
  <2>5. AccountCreation(infos, said)
    BY <1>1, <1>12, <2>3, <2>4 DEF AccountCreation
  <2> QED BY <1>4, <2>1, <2>5 DEF Reads
<1>13. CASE /\ is_rpl_token_create_multisig(infos)
           /\ said = Line("Create_multisig", infos[2].multisig_account) \cup
                SaidThreshold(infos[2]) \cup
                    SaidFunded(infos[1])
  <2>1. ~is_stake_split_v1_2(infos)
    BY <1>13, PairsRead DEF Pair
  <2>2. create.program = "System" /\ info.program = "RplToken"
    BY <1>1, <1>13, PairsRead DEF Pair
  <2>3. OfSystem(create) /\ OfToken(info)
    BY <1>2, <2>2, FilledOf
  <2>4. MultisigCreatedTells(infos[1], infos[2], said)
    BY <1>13, CreatedReads
  <2>5. MultisigCreation(infos, said)
    BY <1>1, <1>13, <2>3, <2>4 DEF MultisigCreation
  <2> QED BY <1>4, <2>1, <2>5 DEF Reads
<1>14. CASE /\ is_rpl_associated_token_account_create_with_transfer(infos)
           /\ said = SaidAssociated(infos[1]) \cup SaidTransfer(infos[2])
  <2>1. ~is_stake_split_v1_2(infos)
    BY <1>14, PairsRead DEF Pair, is_rpl_associated_token_account_create_with_transfer
  <2>2. create.program = "RplAssociatedTokenAccount" /\ info.program = "RplToken"
    BY <1>1, <1>14, PairsRead DEF Pair, is_rpl_associated_token_account_create_with_transfer
  <2>3. OfAssociated(create) /\ OfToken(info)
    BY <1>2, <2>2, FilledOf
  <2>4. AssociatedTransferTells(infos[1], infos[2], said)
    BY <1>14, CreatedReads
  <2>5. AssociatedTransfer(infos, said)
    BY <1>1, <1>14, <2>3, <2>4 DEF AssociatedTransfer
  <2> QED BY <1>4, <2>1, <2>5 DEF Reads
<1>15. CASE is_stake_split_v1_2(infos) /\ said = SaidSplit(infos[2])
  <2>1. Reviewed(infos) = <<info>>
    BY <1>1, <1>3, <1>15 DEF Reviewed
  <2>2. info.program = "Stake" /\ info.kind = "Split"
    BY <1>1, <1>15, PairsRead DEF Pair
  <2>3. OfStake(info)
    BY <1>2, <2>2, FilledOf
  <2>4. PICK last : last = <<info>>
    OBVIOUS
  <2>5. Reads(last, said)
    BY <1>1, <1>15, <2>2, <2>3, <2>4, SplitRead
  <2>6. Reviewed(infos) = last
    BY <2>1, <2>4
  <2> QED BY <2>5, <2>6
<1>16. TwoSaid(infos, said)
  BY SaidTwo
<1> QED BY <1>5, <1>6, <1>7, <1>8, <1>9, <1>10, <1>11, <1>12, <1>13, <1>14, <1>15, <1>16,
       ZenonT(60) DEF TwoSaid

\* Three of them.
LEMMA ThreeRead ==
  ASSUME NEW infos, Of(infos, 3), Filled(infos[1]), Filled(infos[2]), Filled(infos[3]),
         NEW config, Experts(config), PrintThree(infos, config).printed,
         NEW said, said = Said(PrintThree(infos, config).items)
  PROVE  Reads(Reviewed(infos), said)
<1>1. PICK create, info, last : create = infos[1] /\ info = infos[2] /\ last = infos[3]
  OBVIOUS
<1>2. Filled(create) /\ Filled(info) /\ Filled(last)
  BY <1>1
<1>3. Len(infos) = 3 /\ ~is_stake_split_v1_2(infos)
  BY PairsRead DEF Of, Pair
<1>4. CASE /\ is_create_stake_account_and_delegate(infos)
           /\ said = SaidCreation("Delegate_from", create) \cup
                     (SaidInitialize(info) \cup SaidDelegate(last))
  <2>1. /\ create.program = "System" /\ create.kind \in Creates
        /\ info.program = "Stake" /\ last.program = "Stake"
    BY <1>1, <1>4 DEF is_create_stake_account_and_delegate, Match
  <2>2. ~is_stake_split_v1_1(infos)
    BY <1>1, <2>1 DEF is_stake_split_v1_1, Match, Creates
  <2>3. OfSystem(create) /\ OfStake(info) /\ OfStake(last)
    BY <1>2, <2>1, FilledOf
  <2>4. StakeDelegatedTells(create, info, last, said)
    BY <1>4, CreatedReads
  <2>5. StakeDelegation(infos, said)
    BY <1>1, <1>4, <2>3, <2>4 DEF StakeDelegation
  <2>6. Reviewed(infos) = infos
    BY <1>3, <2>2 DEF Reviewed
  <2> QED BY <2>5, <2>6 DEF Reads
<1>5. CASE is_stake_split_v1_1(infos) /\ said = SaidSplit(last)
  <2>1. Reviewed(infos) = <<last>>
    BY <1>1, <1>3, <1>5 DEF Reviewed
  <2>2. last.program = "Stake" /\ last.kind = "Split"
    BY <1>1, <1>5 DEF is_stake_split_v1_1, Match
  <2>3. OfStake(last)
    BY <1>2, <2>2, FilledOf
  <2>4. PICK alone : alone = <<last>>
    OBVIOUS
  <2>5. Reads(alone, said)
    BY <1>5, <2>2, <2>3, <2>4, SplitRead
  <2> QED BY <2>1, <2>4, <2>5
<1> QED BY <1>1, <1>4, <1>5, SaidThree

\* What is read of a whole message: whether a nonce is advanced, and the instructions
\* the user is told about.
NonceSaid(info) ==
  Line("Nonce_account", info.account) \cup Line("Nonce_authority", info.authority)
BodyReads(infos, said) ==
  \E rest : /\ Reads(Reviewed(WithoutNonce(infos)), rest)
            /\ IF HasNonce(infos)
               THEN /\ OfSystem(infos[1]) /\ infos[1].kind = "AdvanceNonceAccount"
                    /\ said = NonceSaid(infos[1]) \cup rest
               ELSE said = rest

\* Every info displayed has all its fields.
LEMMA DisplayedFilled ==
  ASSUME NEW transaction, IsTransaction(transaction), NEW config,
         process_message_body(transaction, config).printed
  PROVE  LET infos == Displayed(Infos(transaction))
         IN  \A j \in 1..Len(infos) : Filled(infos[j])
<1> DEFINE infos == Infos(transaction)
           told == Displayed(infos)
<1>1. PICK n \in Nat : n = Len(transaction.instructions) /\ DOMAIN transaction.instructions = 1..n
  BY DEF IsTransaction, IsSequence
<1>2. \A i \in DOMAIN infos : infos[i].program # "Unknown"
  BY DEF process_message_body, NotPrinted
<1>3. Len(infos) = n /\ DOMAIN infos = 1..n
  BY <1>1, DisplayedAreKnown DEF IsTransaction
<1>4. \A i \in 1..n : infos[i] = Info(transaction.instructions[i])
  BY <1>1 DEF Infos
<1> HIDE DEF infos
<1>5. ASSUME NEW j \in 1..Len(told) PROVE Filled(told[j])
  <2>1. PICK i \in 1..n : told[j] = infos[i] /\ infos[i].program # "RplMemo"
    BY <1>3, DisplayedElements
  <2>2. infos[i].program # "Unknown" /\ infos[i] = Info(transaction.instructions[i])
    BY <1>2, <1>3, <1>4
  <2> QED BY <2>1, <2>2, InfoFilled
<1> QED BY <1>5 DEF infos

\* Up to three instructions are read off what is printed of them.
LEMMA ToldRead ==
  ASSUME NEW infos, NEW n, Of(infos, n), \A j \in 1..n : Filled(infos[j]),
         NEW config, Experts(config), print_transaction_nonce_processed(infos, config).printed,
         NEW said, said = Said(print_transaction_nonce_processed(infos, config).items)
  PROVE  Reads(Reviewed(infos), said)
<1>1. Len(infos) = n
  BY DEF Of
<1>2. CASE n = 1
  <2>1. print_transaction_nonce_processed(infos, config) = PrintOne(infos[1], config)
    BY <1>1, <1>2 DEF print_transaction_nonce_processed
  <2>2. ~is_stake_split_v1_1(infos) /\ ~is_stake_split_v1_2(infos)
    BY <1>1, <1>2, PairsRead DEF is_stake_split_v1_1, Match, Pair
  <2>3. Reviewed(infos) = infos
    BY <2>2 DEF Reviewed
  <2> QED BY <1>2, <2>1, <2>3, OneRead
<1>3. CASE n = 2
  <2>1. print_transaction_nonce_processed(infos, config) = PrintTwo(infos, config)
    BY <1>1, <1>3 DEF print_transaction_nonce_processed
  <2> QED BY <1>3, <2>1, TwoRead
<1>4. CASE n = 3
  <2>1. print_transaction_nonce_processed(infos, config) = PrintThree(infos, config)
    BY <1>1, <1>4 DEF print_transaction_nonce_processed
  <2> QED BY <1>4, <2>1, ThreeRead
<1>5. CASE n \notin {1, 2, 3}
  BY <1>1, <1>5 DEF print_transaction_nonce_processed, NotPrinted
<1> QED BY <1>2, <1>3, <1>4, <1>5

\* A recognised message is read off its items by experts.
LEMMA BodyRead ==
  ASSUME NEW transaction, IsTransaction(transaction), NEW config, Experts(config),
         process_message_body(transaction, config).printed
  PROVE  BodyReads(Displayed(Infos(transaction)),
                   Said(process_message_body(transaction, config).items))
<1> DEFINE body == process_message_body(transaction, config)
<1>1. PICK infos : infos = Displayed(Infos(transaction))
  OBVIOUS
<1>2. PICK told : told = WithoutNonce(infos)
  OBVIOUS
<1>3. PICK printed : printed = print_transaction_nonce_processed(told, config)
  OBVIOUS
<1>4. IsSeq(infos) /\ body = print_transaction(infos, config)
  BY <1>1, DisplayedFields
<1>5. \A j \in 1..Len(infos) : Filled(infos[j])
  BY <1>1, DisplayedFilled
<1>6. /\ Len(told) \in 1..3 /\ DOMAIN told = 1..Len(told)
      /\ \A j \in 1..Len(told) : FieldsAre(told[j]) /\ KnownInfo(told[j])
      /\ printed.printed
  BY <1>1, <1>2, <1>3, ToldPrinted DEF ToldOf
<1> HIDE DEF body
<1>7. PICK S : infos \in Seq(S)
  BY <1>4 DEF IsSeq
<1>8. \A j \in 1..Len(told) : Filled(told[j])
  <2>1. CASE HasNonce(infos)
    <3>1. PICK n \in Nat : n = Len(infos) /\ n > 1
      BY <1>7, <2>1, LenProperties DEF HasNonce
    <3>2. told = Tail(infos) /\ infos # <<>>
      BY <1>2, <2>1, <3>1 DEF WithoutNonce
    <3>3. /\ Len(told) = n - 1
          /\ \A i \in 1..(n - 1) : told[i] = infos[i + 1]
      BY <1>7, <3>1, <3>2, HeadTailProperties
    <3>4. ASSUME NEW j \in 1..(n - 1) PROVE Filled(told[j])
      <4>1. j + 1 \in 1..n
        BY <3>1
      <4> QED BY <1>5, <3>1, <3>3, <4>1
    <3> QED BY <3>3, <3>4
  <2>2. CASE ~HasNonce(infos)
    BY <1>2, <1>5, <2>2 DEF WithoutNonce
  <2> QED BY <2>1, <2>2
<1>9. PICK n : n = Len(told)
  OBVIOUS
<1>10. Of(told, n)
  BY <1>6, <1>9 DEF Of
<1>11. PICK rest : rest = Said(printed.items)
  OBVIOUS
<1>12. Reads(Reviewed(told), rest)
  BY <1>3, <1>6, <1>8, <1>9, <1>10, <1>11, ToldRead
<1>13. PrintedWell(printed)
  BY <1>3, <1>6, NonceProcessedWell
<1>14. CASE HasNonce(infos)
  <2>1. PICK first : first = infos[1]
    OBVIOUS
  <2>2. body = [printed EXCEPT !.items = Sentinel(first, config) \o @]
    BY <1>2, <1>3, <1>4, <1>14, <2>1 DEF print_transaction, HasNonce, WithoutNonce
  <2>3. body.items = Sentinel(first, config) \o printed.items
    BY <1>13, <2>2 DEF PrintedWell
  <2>4. /\ IsSeq(Sentinel(first, config)) /\ Said(Sentinel(first, config)) = NonceSaid(first)
    BY SaidPut, SaidTogether, PrintersKinds DEF Sentinel, When, Experts, NonceSaid
  <2>5. IsSeq(printed.items)
    BY <1>6, <1>13 DEF PrintedWell, Led
  <2>6. Said(body.items) = NonceSaid(first) \cup rest
    BY <1>11, <2>3, <2>4, <2>5, SaidTogether
  <2>7. first.program = "System" /\ first.kind = "AdvanceNonceAccount" /\ Len(infos) > 1
    BY <1>14, <2>1 DEF HasNonce, is_advance_nonce_account
  <2>8. OfSystem(first)
    <3>1. Len(infos) \in Nat
      BY <1>7, LenProperties
    <3>2. Filled(first)
      BY <1>5, <2>1, <2>7, <3>1
    <3> QED BY <2>7, <3>2, FilledOf
  <2>9. BodyReads(infos, Said(body.items))
    BY <1>2, <1>12, <1>14, <2>1, <2>6, <2>7, <2>8 DEF BodyReads
  <2> QED BY <1>1, <2>9 DEF body
<1>15. CASE ~HasNonce(infos)
  <2>1. body = printed
    BY <1>2, <1>3, <1>4, <1>15 DEF print_transaction, HasNonce, WithoutNonce
  <2>2. BodyReads(infos, Said(body.items))
    BY <1>2, <1>11, <1>12, <1>15, <2>1 DEF BodyReads
  <2> QED BY <1>1, <2>2 DEF body
<1> QED BY <1>14, <1>15

\* Neither a nonce nor the fee payer is read of the instructions themselves.
LEMMA ReadsHeaded ==
  ASSUME NEW infos, NEW said, Reads(infos, said)
  PROVE  \E title : /\ Headed(said, title)
                    /\ title \notin {"Nonce_account", "Nonce_authority", "Fee_payer"}
<1>1. CASE SystemAlone(infos, said)
  BY <1>1, ClassHeaded
<1>2. CASE StakeAlone(infos, said)
  BY <1>2, ClassHeaded
<1>3. CASE VoteAlone(infos, said)
  BY <1>3, ClassHeaded
<1>4. CASE TokenAlone(infos, said)
  BY <1>4, ClassHeaded
<1>5. CASE AssociatedAlone(infos, said)
  BY <1>5, ClassHeaded
<1>6. CASE \/ StakeCreation(infos, said) \/ NonceCreation(infos, said)
           \/ VoteCreation(infos, said) \/ StakeBoth(infos, said) \/ VoteBoth(infos, said)
           \/ SeededSplit(infos, said) \/ StakeDelegation(infos, said)
  BY <1>6, ClassHeaded
<1>7. CASE \/ MintCreation(infos, said) \/ AccountCreation(infos, said)
           \/ MultisigCreation(infos, said) \/ AssociatedTransfer(infos, said)
  BY <1>7, ClassHeaded
<1> QED BY <1>1, <1>2, <1>3, <1>4, <1>5, <1>6, <1>7, Zenon DEF Reads

\* So nothing that is read of them has the title of a nonce or of the payer.
LEMMA ReadsSilent ==
  ASSUME NEW infos, NEW said, Reads(infos, said)
  PROVE  /\ Silent(said, "Nonce_account") /\ Silent(said, "Nonce_authority")
         /\ Silent(said, "Fee_payer")
<1>1. PICK title : /\ Headed(said, title)
                   /\ title \notin {"Nonce_account", "Nonce_authority", "Fee_payer"}
  BY ReadsHeaded
<1> QED BY <1>1 DEF Headed, Below, GeneralTitles, Silent

\* All that experts are told of a transaction: its instructions, its nonce and its payer.
PayerSaid(key) == Line("Fee_payer", key)

\* What is said of a nonce and of a payer says which.
LEMMA SaidApart ==
  ASSUME NEW nonce, NEW other, NEW key, NEW payer, NEW rest, NEW remains,
         Silent(rest, "Nonce_account"), Silent(rest, "Nonce_authority"), Silent(rest, "Fee_payer"),
         Silent(remains, "Nonce_account"), Silent(remains, "Nonce_authority"),
         Silent(remains, "Fee_payer")
  PROVE  /\ rest \cup PayerSaid(key) = remains \cup PayerSaid(payer) =>
              key = payer /\ rest = remains
         /\ NonceSaid(nonce) \cup rest \cup PayerSaid(key) =
            NonceSaid(other) \cup remains \cup PayerSaid(payer) =>
              /\ key = payer /\ rest = remains
              /\ nonce.account = other.account /\ nonce.authority = other.authority
         /\ NonceSaid(nonce) \cup rest \cup PayerSaid(key) # remains \cup PayerSaid(payer)
<1>1. PICK account, authority, account2, authority2 :
        /\ account = nonce.account /\ authority = nonce.authority
        /\ account2 = other.account /\ authority2 = other.authority
  OBVIOUS
<1>2. ASSUME rest \cup PayerSaid(key) = remains \cup PayerSaid(payer)
      PROVE  key = payer /\ rest = remains
  <2>a. PICK x, y : x = <<"Fee_payer", key>> /\ y = <<"Fee_payer", payer>>
    OBVIOUS
  <2>b. x \in rest \cup PayerSaid(key) /\ x \notin remains
    BY <2>a DEF PayerSaid, Line, Silent
  <2>c. x \in PayerSaid(payer)
    BY <1>2, <2>b
  <2>1. key = payer
    BY <2>a, <2>c DEF PayerSaid, Line
  <2>2. <<"Fee_payer", key>> \notin rest /\ <<"Fee_payer", key>> \notin remains
    BY DEF Silent
  <2>3. rest = (rest \cup PayerSaid(key)) \ PayerSaid(key)
    BY <2>2 DEF PayerSaid, Line
  <2>4. remains = (remains \cup PayerSaid(key)) \ PayerSaid(key)
    BY <2>2 DEF PayerSaid, Line
  <2> QED BY <1>2, <2>1, <2>3, <2>4
<1>3. ASSUME NonceSaid(nonce) \cup rest \cup PayerSaid(key) =
             NonceSaid(other) \cup remains \cup PayerSaid(payer)
      PROVE  /\ key = payer /\ rest = remains
             /\ account = account2 /\ authority = authority2
  <2>1. PICK said : /\ said = NonceSaid(nonce) \cup rest \cup PayerSaid(key)
                    /\ said = NonceSaid(other) \cup remains \cup PayerSaid(payer)
    BY <1>3
  <2>2. PICK x, y, z, u, v, w :
          /\ x = <<"Fee_payer", key>> /\ y = <<"Nonce_account", account>>
          /\ z = <<"Nonce_authority", authority>>
          /\ u = <<"Fee_payer", payer>> /\ v = <<"Nonce_account", account2>>
          /\ w = <<"Nonce_authority", authority2>>
    OBVIOUS
  <2>3. \A t : t \in said <=> t \in rest \/ t = x \/ t = y \/ t = z
    BY <1>1, <2>1, <2>2 DEF NonceSaid, PayerSaid, Line
  <2>4. \A t : t \in said <=> t \in remains \/ t = u \/ t = v \/ t = w
    BY <1>1, <2>1, <2>2 DEF NonceSaid, PayerSaid, Line
  <2>5. /\ x \notin rest /\ y \notin rest /\ z \notin rest
        /\ u \notin remains /\ v \notin remains /\ w \notin remains
        /\ x \notin remains /\ y \notin remains /\ z \notin remains
        /\ u \notin rest /\ v \notin rest /\ w \notin rest
    BY <2>2 DEF Silent
  <2>6. x = u /\ y = v /\ z = w
    BY <2>2, <2>3, <2>4, <2>5
  <2>7. \A t : t \in rest <=> t \in remains
    BY <2>3, <2>4, <2>5, <2>6
  <2>8. rest = remains
    BY <2>7
  <2>9. key = payer /\ account = account2 /\ authority = authority2
    BY <2>2, <2>6
  <2> QED BY <2>8, <2>9
<1>4. NonceSaid(nonce) \cup rest \cup PayerSaid(key) # remains \cup PayerSaid(payer)
  <2>1. <<"Nonce_account", account>> \in NonceSaid(nonce) \cup rest \cup PayerSaid(key)
    BY <1>1 DEF NonceSaid, Line
  <2>2. <<"Nonce_account", account>> \notin remains \cup PayerSaid(payer)
    BY DEF PayerSaid, Line, Silent
  <2> QED BY <2>1, <2>2
<1> QED BY <1>1, <1>2, <1>3, <1>4

\* Advances of one nonce are one instruction.
LEMMA NonceAlike ==
  ASSUME NEW a, NEW b, OfSystem(a), OfSystem(b),
         a.kind = "AdvanceNonceAccount", b.kind = "AdvanceNonceAccount",
         a.account = b.account, a.authority = b.authority
  PROVE  a = b
<1>1. PICK names : names = {"account", "authority"}
  OBVIOUS
<1>2. SystemNames["AdvanceNonceAccount"] = names
  BY <1>1 DEF SystemNames
<1>3. Fielded(a, names) /\ Fielded(b, names) /\ a.program = b.program
  BY <1>2 DEF OfSystem
<1>4. PICK fields : fields = {"program", "kind"} \cup names
  OBVIOUS
<1>5. \A field \in fields : a[field] = b[field]
  BY <1>1, <1>3, <1>4
<1>6. /\ a = [name \in fields |-> a[name]]
      /\ b = [name \in fields |-> b[name]]
  BY <1>3, <1>4 DEF Fielded, IsRecord
<1>7. [name \in fields |-> a[name]] = [name \in fields |-> b[name]]
  BY <1>5
<1> QED BY <1>6, <1>7

\* Messages of which the same is said to experts mean the same and have one payer.
LEMMA BodiesAlike ==
  ASSUME NEW a, NEW b, NEW first, NEW second, BodyReads(a, first), BodyReads(b, second),
         NEW key, NEW payer, first \cup PayerSaid(key) = second \cup PayerSaid(payer)
  PROVE  MeaningWithNonce(a) = MeaningWithNonce(b) /\ key = payer
<1>1. PICK mine, yours : mine = Reviewed(WithoutNonce(a)) /\ yours = Reviewed(WithoutNonce(b))
  OBVIOUS
<1>2. PICK rest : /\ Reads(mine, rest)
                  /\ IF HasNonce(a)
                     THEN /\ OfSystem(a[1]) /\ a[1].kind = "AdvanceNonceAccount"
                          /\ first = NonceSaid(a[1]) \cup rest
                     ELSE first = rest
  BY <1>1 DEF BodyReads
<1>3. PICK remains : /\ Reads(yours, remains)
                     /\ IF HasNonce(b)
                        THEN /\ OfSystem(b[1]) /\ b[1].kind = "AdvanceNonceAccount"
                             /\ second = NonceSaid(b[1]) \cup remains
                        ELSE second = remains
  BY <1>1 DEF BodyReads
<1>4. PICK nonce, other : nonce = a[1] /\ other = b[1]
  OBVIOUS
<1>5. /\ Silent(rest, "Nonce_account") /\ Silent(rest, "Nonce_authority")
      /\ Silent(rest, "Fee_payer")
      /\ Silent(remains, "Nonce_account") /\ Silent(remains, "Nonce_authority")
      /\ Silent(remains, "Fee_payer")
  BY <1>2, <1>3, ReadsSilent
<1>6. rest = remains => Meaning(mine) = Meaning(yours)
  BY <1>2, <1>3, ReadsAlike
<1>7. CASE HasNonce(a) /\ HasNonce(b)
  <2>1. NonceSaid(nonce) \cup rest \cup PayerSaid(key) =
        NonceSaid(other) \cup remains \cup PayerSaid(payer)
    BY <1>2, <1>3, <1>4, <1>7
  <2>2. /\ key = payer /\ rest = remains
        /\ nonce.account = other.account /\ nonce.authority = other.authority
    BY <1>5, <2>1, SaidApart
  <2>3. nonce = other
    BY <1>2, <1>3, <1>4, <1>7, <2>2, NonceAlike
  <2> QED BY <1>1, <1>4, <1>6, <1>7, <2>2, <2>3 DEF MeaningWithNonce
<1>8. CASE ~HasNonce(a) /\ ~HasNonce(b)
  <2>1. key = payer /\ rest = remains
    BY <1>2, <1>3, <1>5, <1>8, SaidApart
  <2> QED BY <1>1, <1>6, <1>8, <2>1 DEF MeaningWithNonce
<1>9. ~(HasNonce(a) /\ ~HasNonce(b))
  <2> SUFFICES ASSUME HasNonce(a), ~HasNonce(b) PROVE FALSE
    OBVIOUS
  <2>1. NonceSaid(nonce) \cup rest \cup PayerSaid(key) = remains \cup PayerSaid(payer)
    BY <1>2, <1>3, <1>4
  <2> QED BY <1>5, <2>1, SaidApart
<1>10. ~(~HasNonce(a) /\ HasNonce(b))
  <2> SUFFICES ASSUME ~HasNonce(a), HasNonce(b) PROVE FALSE
    OBVIOUS
  <2>1. NonceSaid(other) \cup remains \cup PayerSaid(payer) = rest \cup PayerSaid(key)
    BY <1>2, <1>3, <1>4
  <2> QED BY <1>5, <2>1, SaidApart
<1> QED BY <1>7, <1>8, <1>9, <1>10

-----------------------------------------------------------------------------
(* What the steps of a review tell experts. *)

StepsSay(steps) == {<<steps[i].title, steps[i].value>> : i \in DOMAIN steps}

\* The steps of a review for experts say what was printed and who pays.
LEMMA ReviewSays ==
  ASSUME ReviewInv, phase = "review", Processed, settings.expert
  PROVE  StepsSay(Steps) = Said(process_message_body(message, print_config).items) \cup
                           PayerSaid(message.fee_payer)
<1> DEFINE body == process_message_body(message, print_config)
<1>1. PICK puts : \E d \in 1..3, n \in Nat : IsReview(puts, d, n)
  BY ReviewOfPuts
<1>2. puts = Whole(message, print_config) /\ IsSummary(summary) /\ StepsArePuts(Steps, puts)
  BY <1>1 DEF IsReview
<1>3. PICK steps : steps = Steps /\ IsSeq(steps)
  BY <1>2, StepsAreMadeOf DEF StepsAre, Steps
<1>4. message \in Messages
  BY DEF ReviewInv
<1>5. PICK config, payer : config = print_config /\ payer = FeePayer(message, config)
  OBVIOUS
<1>6. /\ IsSeq(body.items) /\ IsSeq(payer)
      /\ puts = body.items \o payer
  BY <1>2, <1>4, <1>5, WholeParts DEF Processed
<1>7. Said(payer) = PayerSaid(message.fee_payer)
  <2>1. print_config_show_authority(config, message.fee_payer)
    BY <1>5 DEF print_config_show_authority, print_config
  <2> QED BY <1>5, <2>1, SaidPut, PrintersKinds DEF FeePayer, When, PayerSaid
<1> HIDE DEF body
<1>8. Said(puts) = Said(body.items) \cup PayerSaid(message.fee_payer)
  BY <1>6, <1>7, SaidTogether
<1>9. DOMAIN steps = 1..Len(steps)
  BY <1>3, LenProperties DEF IsSeq
<1>10. StepsSay(steps) = Said(puts)
  <2>1. ASSUME NEW x \in StepsSay(steps) PROVE x \in Said(puts)
    <3>1. PICK i \in 1..Len(steps) : x = <<steps[i].title, steps[i].value>>
      BY <1>9, <2>1 DEF StepsSay
    <3>2. PICK k \in 1..Len(puts) : steps[i] = puts[k].item
      BY <1>2, <1>3 DEF StepsArePuts
    <3> QED BY <3>1, <3>2 DEF Said, Elements
  <2>2. ASSUME NEW x \in Said(puts) PROVE x \in StepsSay(steps)
    <3>1. PICK k \in 1..Len(puts) : x = <<puts[k].item.title, puts[k].item.value>>
      BY <2>2 DEF Said, Elements
    <3>2. PICK i \in 1..Len(steps) : steps[i] = puts[k].item
      BY <1>2, <1>3 DEF StepsArePuts
    <3> QED BY <1>9, <3>1, <3>2 DEF StepsSay
  <2> QED BY <2>1, <2>2
<1> QED BY <1>3, <1>8, <1>10 DEF body

\* What is kept of the items is said by those kept.
LEMMA KeptElements ==
  ASSUME NEW items, IsSeq(items), NEW slot
  PROVE  LET kept == Kept(items, {i \in DOMAIN items : items[i].slot = slot})
         IN  IsSeq(kept) /\ Elements(kept) = {put \in Elements(items) : put.slot = slot}
<1> DEFINE places == {i \in DOMAIN items : items[i].slot = slot}
<1>1. PICK n \in Nat : n = Len(items) /\ DOMAIN items = 1..n
  BY LenProperties DEF IsSeq
<1>2. \A i \in 1..n : i \in places <=> items[i].slot = slot
  BY <1>1
<1>3. PICK kept : kept = Kept(items, places)
  OBVIOUS
<1> HIDE DEF places
<1>4. AreKept(kept, items, places, n)
  BY <1>1, <1>3, KeptSequence
<1>5. ASSUME NEW put \in Elements(kept) PROVE put \in Elements(items) /\ put.slot = slot
  <2>1. PICK j \in 1..Len(kept) : put = kept[j]
    BY <1>5 DEF Elements
  <2>2. PICK i \in 1..n : i \in places /\ kept[j] = items[i]
    BY <1>4 DEF AreKept
  <2> QED BY <1>1, <1>2, <2>1, <2>2 DEF Elements
<1>6. ASSUME NEW put \in Elements(items), put.slot = slot PROVE put \in Elements(kept)
  <2>1. PICK i \in 1..n : put = items[i]
    BY <1>1, <1>6 DEF Elements
  <2>2. PICK j \in 1..Len(kept) : kept[j] = items[i]
    BY <1>2, <1>4, <1>6, <2>1 DEF AreKept
  <2> QED BY <2>1, <2>2 DEF Elements
<1>7. Elements(kept) = {put \in Elements(items) : put.slot = slot}
  BY <1>5, <1>6
<1>8. IsSeq(kept)
  BY <1>4 DEF AreKept
<1> QED BY <1>3, <1>7, <1>8 DEF places

\* The order of the slots loses none of the items put in them.
LEMMA InOrderSays ==
  ASSUME NEW items, IsSeq(items),
         \A put \in Elements(items) :
           put.slot \in {"primary", "general", "nonce_account", "nonce_authority"}
  PROVE  IsSeq(InOrder(items)) /\ Said(InOrder(items)) = Said(items)
<1> DEFINE In(slot) == Kept(items, {i \in DOMAIN items : items[i].slot = slot})
           Slotted(slot) == {put \in Elements(items) : put.slot = slot}
<1>0. \A slot : IsSeq(In(slot)) /\ Elements(In(slot)) = Slotted(slot)
  BY KeptElements
<1> HIDE DEF In, Slotted
<1>1. PICK a, b, c, d : /\ a = In("primary") /\ b = In("general")
                        /\ c = In("nonce_account") /\ d = In("nonce_authority")
  OBVIOUS
<1>2. /\ IsSeq(a) /\ Elements(a) = Slotted("primary")
      /\ IsSeq(b) /\ Elements(b) = Slotted("general")
      /\ IsSeq(c) /\ Elements(c) = Slotted("nonce_account")
      /\ IsSeq(d) /\ Elements(d) = Slotted("nonce_authority")
  BY <1>0, <1>1
<1>3. InOrder(items) = a \o b \o c \o d
  BY <1>1 DEF InOrder, In
<1>4. PICK all : all = a \o b \o c \o d
  OBVIOUS
<1>5. /\ IsSeq(all)
      /\ Elements(all) = Elements(a) \cup Elements(b) \cup Elements(c) \cup Elements(d)
  BY <1>2, <1>4, Concatenation, ElementsTogether
<1>6. Elements(all) = Elements(items)
  BY <1>2, <1>5 DEF Slotted
<1>7. Said(all) = Said(items)
  BY <1>6 DEF Said
<1> QED BY <1>3, <1>4, <1>5, <1>7

\* The items that are put, and one more, say what was put and that one.
LEMMA ItemsSay ==
  ASSUME NEW puts, IsSeq(puts), NEW kind, NEW title, NEW value
  PROVE  StepsSay(Append(ItemsOf(puts), Item(kind, title, value))) =
           Said(puts) \cup Line(title, value)
<1>1. PICK item : item = Item(kind, title, value)
  OBVIOUS
<1>2. item.title = title /\ item.value = value
  BY <1>1 DEF Item
<1>3. PICK n \in Nat : n = Len(puts) /\ DOMAIN puts = 1..n
  BY LenProperties DEF IsSeq
<1>4. PICK items : items = ItemsOf(puts)
  OBVIOUS
<1>5. PICK S : S = {puts[i].item : i \in 1..n} \cup {item}
  OBVIOUS
<1>6. items \in [1..n -> S] /\ \A i \in 1..n : items[i] = puts[i].item
  BY <1>3, <1>4, <1>5 DEF ItemsOf
<1>7. items \in Seq(S) /\ Len(items) = n /\ item \in S
  BY <1>5, <1>6, Listed
<1>8. PICK steps : steps = Append(items, item)
  OBVIOUS
<1>9. /\ steps \in Seq(S) /\ Len(steps) = n + 1
      /\ \A i \in 1..n : steps[i] = items[i]
      /\ steps[n + 1] = item
  BY <1>7, <1>8, AppendProperties
<1>10. DOMAIN steps = 1..(n + 1)
  BY <1>9, LenProperties
<1>11. ASSUME NEW x \in StepsSay(steps) PROVE x \in Said(puts) \cup Line(title, value)
  <2>1. PICK i \in 1..(n + 1) : x = <<steps[i].title, steps[i].value>>
    BY <1>10, <1>11 DEF StepsSay
  <2>2. CASE i \in 1..n
    BY <1>3, <1>6, <1>9, <2>1, <2>2 DEF Said, Elements
  <2>3. CASE i = n + 1
    BY <1>2, <1>9, <2>1, <2>3 DEF Line
  <2> QED BY <2>2, <2>3
<1>12. ASSUME NEW x \in Said(puts) PROVE x \in StepsSay(steps)
  <2>1. PICK i \in 1..n : x = <<puts[i].item.title, puts[i].item.value>>
    BY <1>3, <1>12 DEF Said, Elements
  <2>2. i \in 1..(n + 1) /\ steps[i] = puts[i].item
    BY <1>6, <1>9
  <2> QED BY <1>10, <2>1, <2>2 DEF StepsSay
<1>13. <<title, value>> \in StepsSay(steps)
  <2>1. n + 1 \in 1..(n + 1)
    OBVIOUS
  <2> QED BY <1>2, <1>9, <1>10, <2>1 DEF StepsSay
<1>14. StepsSay(steps) = Said(puts) \cup Line(title, value)
  BY <1>11, <1>12, <1>13 DEF Line
<1> QED BY <1>1, <1>4, <1>8, <1>14

\* So do the steps that another transaction would have for experts.
LEMMA ExpertStepsSay ==
  ASSUME NEW transaction, IsTransaction(transaction),
         process_message_body(transaction, Expert).printed
  PROVE  StepsSay(ExpertSteps(transaction)) =
           Said(process_message_body(transaction, Expert).items) \cup
           PayerSaid(transaction.fee_payer)
<1>1. PICK body : body = process_message_body(transaction, Expert)
  OBVIOUS
<1>2. PICK nonce, rest : BodyIs(body, nonce, rest)
  BY <1>1, MessageBody DEF IsTransaction, BodyWell
<1>3. body.printed
  BY <1>1
<1>4. PICK items : items = body.items
  OBVIOUS
<1>5. IsSeq(nonce) /\ IsSeq(rest) /\ items = nonce \o rest
  BY <1>2, <1>3, <1>4 DEF BodyIs, NonceItems, Led
<1>6. IsSeq(items) /\ Elements(items) = Elements(nonce) \cup Elements(rest)
  BY <1>5, Concatenation, ElementsTogether
<1>7. \A put \in Elements(items) :
        put.slot \in {"primary", "general", "nonce_account", "nonce_authority"}
  <2>1. \A put \in Elements(nonce) : put.slot \in {"nonce_account", "nonce_authority"}
    BY <1>2 DEF BodyIs, NonceItems, Elements
  <2>2. \A put \in Elements(rest) : put.slot \in {"primary", "general"}
    BY <1>2, <1>3 DEF BodyIs, Led, Elements
  <2> QED BY <1>6, <2>1, <2>2
<1>8. PICK puts : puts = InOrder(items) /\ IsSeq(puts) /\ Said(puts) = Said(items)
  BY <1>6, <1>7, InOrderSays
<1>9. ExpertSteps(transaction) =
        Append(ItemsOf(puts), Item("Pubkey", "Fee_payer", transaction.fee_payer))
  BY <1>1, <1>4, <1>8 DEF ExpertSteps
<1> QED BY <1>1, <1>4, <1>8, <1>9, ItemsSay DEF PayerSaid

\* Appending keeps two parts equal.
LEMMA AppendedAlike ==
  ASSUME NEW a, NEW b, NEW x, NEW y, a = b, x = y
  PROVE  Append(a, x) = Append(b, y)
OBVIOUS

\* Transactions that experts see alike mean the same.
LEMMA SeenAlike ==
  ASSUME ReviewInv, phase = "review", Processed, settings.expert,
         NEW transaction, IsTransaction(transaction),
         process_message_body(transaction, Expert).printed,
         ExpertSteps(transaction) = Steps
  PROVE  ExpertMeaning(transaction) = ExpertMeaning(message)
<1>1. PICK mine, other, payer, key :
        /\ mine = Said(process_message_body(message, print_config).items)
        /\ other = Said(process_message_body(transaction, Expert).items)
        /\ payer = message.fee_payer /\ key = transaction.fee_payer
  OBVIOUS
<1>2. other \cup PayerSaid(key) = mine \cup PayerSaid(payer)
  BY <1>1, ReviewSays, ExpertStepsSay
<1>3. PICK infos, others : /\ infos = Displayed(Infos(message))
                           /\ others = Displayed(Infos(transaction))
  OBVIOUS
<1>4. PICK config : config = print_config
  OBVIOUS
<1>5. IsTransaction(message)
  BY MessagesAssumption DEF ReviewInv, MessagesAssumption
<1>6. Experts(config)
  BY <1>4 DEF Experts, print_config
<1>7. BodyReads(infos, mine)
  BY <1>1, <1>3, <1>4, <1>5, <1>6, BodyRead DEF Processed
<1>8. BodyReads(others, other)
  <2>1. PICK expert : expert = Expert
    OBVIOUS
  <2>2. Experts(expert)
    BY <2>1 DEF Experts, Expert
  <2> QED BY <1>1, <1>3, <2>1, <2>2, BodyRead
<1>9. MeaningWithNonce(others) = MeaningWithNonce(infos) /\ key = payer
  BY <1>2, <1>7, <1>8, BodiesAlike
<1> QED BY <1>1, <1>3, <1>9 DEF ExpertMeaning

\* The invariant implies that reviews tell transactions apart.
LEMMA ReviewTells == ReviewInv => ReviewTellsApart
<1> SUFFICES ASSUME ReviewInv, phase = "review", Processed, settings.expert,
                    Steps[1] \in DOMAIN RecognisedAs,
                    NEW review \in RecognisedAs[Steps[1]], review.steps = Steps
             PROVE  review.meaning = ExpertMeaning(message)
  BY DEF ReviewTellsApart
<1>1. review \in Recognised
  BY DEF RecognisedAs
<1>2. PICK transaction \in Alternatives :
        /\ process_message_body(transaction, Expert).printed
        /\ review = [steps |-> ExpertSteps(transaction), meaning |-> ExpertMeaning(transaction)]
  BY <1>1 DEF Recognised
<1>3. IsTransaction(transaction)
  BY AlternativesAssumption DEF AlternativesAssumption
<1>4. ExpertSteps(transaction) = Steps
  BY <1>2
<1>5. ExpertMeaning(transaction) = ExpertMeaning(message)
  BY <1>2, <1>3, <1>4, SeenAlike
<1> QED BY <1>2, <1>5

\* ReviewTellsApart holds of every transaction, whatever it is compared with.
THEOREM ReviewAlwaysTellsApart == Spec => []ReviewTellsApart
BY ReviewAlways, ReviewTells, PTL
=============================================================================
