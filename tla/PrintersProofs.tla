--------------------------- MODULE PrintersProofs ---------------------------
(***************************************************************************)
(* What the printers put in the summary, whatever the transaction: one     *)
(* primary item at most, no more general ones than it has room for, and in *)
(* expert mode all that they put in user mode.                             *)
(***************************************************************************)
EXTENDS TransactionReview, SequenceTheorems, WellFoundedInduction, TLAPS

-----------------------------------------------------------------------------
(* What a filter keeps, and the induction over the natural numbers that    *)
(* shows it: any set that holds 0 and with a number the next one holds     *)
(* them all.                                                               *)

LEMMA LeastElement == ASSUME NEW T \in SUBSET Nat, T # {} PROVE \E y \in T : \A z \in T : y <= z
<1> DEFINE R == {ss \in Nat \X Nat : ss[1] < ss[2]}
<1>1. IsWellFoundedOn(R, Nat)
  BY NatLessThanWellFounded DEF OpToRel
<1>2. \E y \in T : \A z \in T : ~(<<z,y>> \in R)
  BY <1>1, WFMin
<1>3. \A y \in T, z \in T : <<z, y>> \notin R => y <= z
  OBVIOUS
<1> QED BY <1>2, <1>3

\* What 0 has, and a number passes on to the next, every number has.
LEMMA SetInduction ==
  ASSUME NEW T, 0 \in T, \A n \in Nat : n \in T => n + 1 \in T
  PROVE  \A n \in Nat : n \in T
<1>1. SUFFICES ASSUME NEW bad \in Nat, bad \notin T PROVE FALSE
  OBVIOUS
<1> DEFINE Bad == {n \in Nat : n \notin T}
<1>2. PICK least \in Bad : \A n \in Bad : least <= n
  BY <1>1, LeastElement
<1>3. least # 0
  OBVIOUS
<1>4. least - 1 \in Nat /\ least - 1 \notin Bad
  BY <1>2, <1>3
<1>5. least - 1 \in T
  BY <1>4
<1>6. (least - 1) + 1 = least
  BY <1>2
<1> QED BY <1>4, <1>5, <1>6


IsKeptUpTo(f, s, places, m) ==
  f = [n \in 0..m |-> IF n = 0 THEN <<>>
                      ELSE IF n \in places THEN Append(f[n - 1], s[n])
                      ELSE f[n - 1]]

\* The recursion of Kept has a solution up to every place, for any sequence and places.
LEMMA KeptUpToExists ==
  ASSUME NEW s, NEW places
  PROVE  \A m \in Nat : \E f : IsKeptUpTo(f, s, places, m)
<1> DEFINE T == {m \in Nat : \E f : IsKeptUpTo(f, s, places, m)}
<1>1. 0 \in T
  <2>1. IsKeptUpTo([n \in 0..0 |-> <<>>], s, places, 0)
    BY DEF IsKeptUpTo
  <2> QED BY <2>1
<1>2. ASSUME NEW m \in Nat, m \in T PROVE m + 1 \in T
  <2>1. PICK f : IsKeptUpTo(f, s, places, m)
    BY <1>2
  <2> DEFINE last == IF m + 1 \in places THEN Append(f[m], s[m + 1]) ELSE f[m]
             g == [n \in 0..(m + 1) |-> IF n = m + 1 THEN last ELSE f[n]]
             Value(h, n) == IF n = 0 THEN <<>>
                           ELSE IF n \in places THEN Append(h[n - 1], s[n])
                           ELSE h[n - 1]
  <2>2. ASSUME NEW n \in 0..(m + 1) PROVE g[n] = Value(g, n)
    <3>1. CASE n \in 0..m
      <4>1. g[n] = f[n] /\ (n # 0 => g[n - 1] = f[n - 1])
        BY <3>1
      <4>2. f[n] = Value(f, n)
        BY <2>1, <3>1 DEF IsKeptUpTo
      <4> HIDE DEF g
      <4> QED BY <4>1, <4>2
    <3>2. CASE n = m + 1
      <4>1. g[n] = last /\ g[n - 1] = f[n - 1] /\ n - 1 = m /\ n # 0
        BY <3>2
      <4> QED BY <4>1, <3>2
    <3> QED BY <3>1, <3>2
  <2>3. g = [n \in 0..(m + 1) |-> g[n]]
    OBVIOUS
  <2> HIDE DEF g
  <2>4. IsKeptUpTo(g, s, places, m + 1)
    BY <2>2, <2>3 DEF IsKeptUpTo
  <2> QED BY <2>4
<1> HIDE DEF T
<1>3. \A m \in Nat : m \in T
  BY <1>1, <1>2, SetInduction
<1> QED BY <1>3 DEF T

\* So the function that Kept is defined by is such a solution.
LEMMA KeptUpToDef ==
  ASSUME NEW s, NEW places, Len(s) \in Nat
  PROVE  IsKeptUpTo(KeptUpTo(s, places), s, places, Len(s))
<1>1. KeptUpTo(s, places) = CHOOSE f : IsKeptUpTo(f, s, places, Len(s))
  BY DEF KeptUpTo, IsKeptUpTo
<1>2. \E f : IsKeptUpTo(f, s, places, Len(s))
  BY KeptUpToExists
<1> QED BY <1>1, <1>2

\* Kept elements are those of the places, in their order: `at' says where each was.
KeptAt(at, kept, s, places, n) ==
  /\ kept \in Seq({s[i] : i \in places \cap (1..n)})
  /\ at \in [1..Len(kept) -> places \cap (1..n)]
  /\ \A j \in 1..Len(kept) : kept[j] = s[at[j]]
  /\ \A j, k \in 1..Len(kept) : j < k => at[j] < at[k]
  /\ \A i \in places \cap (1..n) : \E j \in 1..Len(kept) : at[j] = i

\* A place that is kept adds its element at the end of what is kept.
LEMMA KeptAtNext ==
  ASSUME NEW s, NEW places, NEW n \in Nat, NEW kept, NEW at, KeptAt(at, kept, s, places, n),
         n + 1 \in places
  PROVE  \E more : KeptAt(more, Append(kept, s[n + 1]), s, places, n + 1)
<1> DEFINE longer == Append(kept, s[n + 1])
           more == [j \in 1..(Len(kept) + 1) |-> IF j = Len(kept) + 1 THEN n + 1 ELSE at[j]]
           S == {s[i] : i \in places \cap (1..n)}
           T == {s[i] : i \in places \cap (1..(n + 1))}
<1>1. kept \in Seq(S) /\ Len(kept) \in Nat
  BY DEF KeptAt
<1>2. S \subseteq T /\ s[n + 1] \in T
  <2>1. n + 1 \in places \cap (1..(n + 1)) /\ 1..n \subseteq 1..(n + 1)
    OBVIOUS
  <2> QED BY <2>1
<1>3. kept \in Seq(T)
  BY <1>1, <1>2, SeqMonotonic
<1> HIDE DEF S, T
<1>4. /\ longer \in Seq(T) /\ Len(longer) = Len(kept) + 1
      /\ \A j \in 1..Len(kept) : longer[j] = kept[j]
      /\ longer[Len(kept) + 1] = s[n + 1]
  BY <1>2, <1>3, AppendProperties
<1> HIDE DEF longer
<1>5. more \in [1..Len(longer) -> places \cap (1..(n + 1))]
  BY <1>1, <1>4 DEF KeptAt
<1>6. \A j \in 1..Len(longer) : longer[j] = s[more[j]]
  BY <1>1, <1>4 DEF KeptAt
<1>7. \A j, k \in 1..Len(longer) : j < k => more[j] < more[k]
  <2> SUFFICES ASSUME NEW j \in 1..Len(longer), NEW k \in 1..Len(longer), j < k
               PROVE  more[j] < more[k]
    OBVIOUS
  <2>1. PICK m \in Nat : m = Len(kept)
    BY <1>1
  <2>2. j \in 1..(m + 1) /\ k \in 1..(m + 1)
    BY <2>1, <1>4
  <2>3. \A l \in 1..m : more[l] = at[l] /\ at[l] \in 1..n
    <3>1. at \in [1..m -> places \cap (1..n)]
      BY <2>1 DEF KeptAt
    <3>2. \A l \in 1..m : l \in 1..(m + 1) /\ l # m + 1
      OBVIOUS
    <3> QED BY <2>1, <3>1, <3>2
  <2>4. \A l, h \in 1..m : l < h => at[l] < at[h]
    BY <2>1 DEF KeptAt
  <2>5. more[m + 1] = n + 1
    BY <2>1
  <2> HIDE DEF more
  <2>6. j \in 1..m /\ (k \in 1..m \/ k = m + 1)
    BY <2>2
  <2> QED BY <2>3, <2>4, <2>5, <2>6
<1>8. \A i \in places \cap (1..(n + 1)) : \E j \in 1..Len(longer) : more[j] = i
  <2> SUFFICES ASSUME NEW i \in places \cap (1..(n + 1))
               PROVE  \E j \in 1..Len(longer) : more[j] = i
    OBVIOUS
  <2>1. CASE i = n + 1
    BY <2>1, <1>1, <1>4
  <2>2. CASE i \in 1..n
    <3>1. PICK j \in 1..Len(kept) : at[j] = i
      BY <2>2 DEF KeptAt
    <3>2. j \in 1..Len(longer) /\ more[j] = i
      BY <3>1, <1>1, <1>4
    <3> QED BY <3>2
  <2> QED BY <2>1, <2>2
<1> HIDE DEF more
<1>9. KeptAt(more, longer, s, places, n + 1)
  BY <1>4, <1>5, <1>6, <1>7, <1>8 DEF KeptAt, T
<1> QED BY <1>9 DEF longer

\* A place that is not kept adds nothing.
LEMMA KeptAtSkip ==
  ASSUME NEW s, NEW places, NEW n \in Nat, NEW kept, NEW at, KeptAt(at, kept, s, places, n),
         n + 1 \notin places
  PROVE  KeptAt(at, kept, s, places, n + 1)
<1>1. places \cap (1..(n + 1)) = places \cap (1..n)
  <2>1. 1..(n + 1) = (1..n) \cup {n + 1}
    OBVIOUS
  <2> QED BY <2>1
<1> QED BY <1>1 DEF KeptAt

\* The filter keeps every element it is to keep, once and in order, and no other.
THEOREM KeptProperties ==
  ASSUME NEW s, NEW places, Len(s) \in Nat
  PROVE  \E at : KeptAt(at, Kept(s, places), s, places, Len(s))
<1> DEFINE upTo == KeptUpTo(s, places)
           T == {m \in Nat : m <= Len(s) => \E at : KeptAt(at, upTo[m], s, places, m)}
<1>1. upTo = [n \in 0..Len(s) |-> IF n = 0 THEN <<>>
                      ELSE IF n \in places THEN Append(upTo[n - 1], s[n])
                      ELSE upTo[n - 1]]
  BY KeptUpToDef DEF IsKeptUpTo
<1> HIDE DEF upTo
<1>2. 0 \in T
  <2>1. upTo[0] = <<>>
    BY <1>1
  <2>2. KeptAt([j \in {} |-> 1], <<>>, s, places, 0)
    BY DEF KeptAt
  <2> QED BY <2>1, <2>2
<1>3. ASSUME NEW m \in Nat, m \in T PROVE m + 1 \in T
  <2>1. SUFFICES ASSUME m + 1 <= Len(s)
                 PROVE  \E at : KeptAt(at, upTo[m + 1], s, places, m + 1)
    OBVIOUS
  <2>2. PICK at : KeptAt(at, upTo[m], s, places, m)
    BY <1>3, <2>1
  <2>3. upTo[m + 1] = IF m + 1 \in places THEN Append(upTo[m], s[m + 1]) ELSE upTo[m]
    <3>1. m + 1 \in 0..Len(s) /\ m + 1 # 0 /\ (m + 1) - 1 = m
      BY <2>1
    <3> QED BY <1>1, <3>1
  <2> QED BY <2>2, <2>3, KeptAtNext, KeptAtSkip
<1> HIDE DEF T
<1>4. \A m \in Nat : m \in T
  BY <1>2, <1>3, SetInduction
<1>5. \E at : KeptAt(at, upTo[Len(s)], s, places, Len(s))
  BY <1>4 DEF T
<1> QED BY <1>5 DEF Kept, upTo

-----------------------------------------------------------------------------
(* Sequences of puts. *)

IsSeq(s) == \E S : s \in Seq(S)

\* A function on 1..n is a sequence of n elements.
LEMMA Listed ==
  ASSUME NEW n \in Nat, NEW S, NEW s \in [1..n -> S]
  PROVE  s \in Seq(S) /\ Len(s) = n
<1>1. s \in Seq(S)
  BY SeqDef
<1>2. DOMAIN s = 1..n /\ DOMAIN s = 1..Len(s) /\ Len(s) \in Nat
  BY <1>1, LenProperties
<1> QED BY <1>1, <1>2

\* Elements and length of two sequences one behind the other.
LEMMA Concatenation ==
  ASSUME NEW a, NEW b, IsSeq(a), IsSeq(b)
  PROVE  /\ IsSeq(a \o b)
         /\ Len(a) \in Nat /\ Len(b) \in Nat
         /\ Len(a \o b) = Len(a) + Len(b)
         /\ \A i \in 1..Len(a) : (a \o b)[i] = a[i]
         /\ \A i \in 1..Len(b) : (a \o b)[Len(a) + i] = b[i]
<1>1. PICK S : a \in Seq(S)
  BY DEF IsSeq
<1>2. PICK T : b \in Seq(T)
  BY DEF IsSeq
<1>3. a \in Seq(S \cup T) /\ b \in Seq(S \cup T)
  BY <1>1, <1>2, SeqMonotonic
<1>4. /\ a \o b \in Seq(S \cup T) /\ Len(a \o b) = Len(a) + Len(b)
      /\ \A i \in 1..(Len(a) + Len(b)) :
           (a \o b)[i] = IF i <= Len(a) THEN a[i] ELSE b[i - Len(a)]
  BY <1>3, ConcatProperties
<1>5. PICK m \in Nat, n \in Nat : m = Len(a) /\ n = Len(b)
  BY <1>3, LenProperties
<1>6. \A i \in 1..m : (a \o b)[i] = a[i]
  BY <1>4, <1>5
<1>7. \A i \in 1..n : (a \o b)[m + i] = b[i]
  <2>1. \A i \in 1..n : m + i \in 1..(m + n) /\ ~(m + i <= m) /\ (m + i) - m = i
    OBVIOUS
  <2> QED BY <1>4, <1>5, <2>1
<1> QED BY <1>4, <1>5, <1>6, <1>7 DEF IsSeq

IsPut(put) == put.item.kind \in ItemKinds

\* At most n general items.
UpTo(items, n) ==
  /\ IsSeq(items)
  /\ Len(items) <= n
  /\ \A i \in 1..Len(items) : IsPut(items[i]) /\ items[i].slot = "general"

\* The primary item, and at most n general ones after it.
Led(items, n) ==
  /\ IsSeq(items)
  /\ Len(items) \in 1..(n + 1)
  /\ \A i \in 1..Len(items) :
       IsPut(items[i]) /\ items[i].slot = IF i = 1 THEN "primary" ELSE "general"

\* A print function of one item puts that one item in its slot.
LEMMA OnePut ==
  ASSUME NEW slot, NEW kind \in ItemKinds, NEW title, NEW value
  PROVE  LET puts == PrintTo(slot, kind, title, value)
         IN  /\ IsSeq(puts) /\ Len(puts) = 1 /\ IsPut(puts[1]) /\ puts[1].slot = slot
             /\ puts[1].item = Item(kind, title, value)
<1> DEFINE put == [slot |-> slot, item |-> Item(kind, title, value)]
<1>1. put.slot = slot /\ put.item = Item(kind, title, value) /\ IsPut(put)
  BY DEF IsPut, Item
<1>2. PrintTo(slot, kind, title, value) = <<put>>
  BY DEF PrintTo
<1> HIDE DEF put
<1>3. <<put>> \in Seq({put}) /\ Len(<<put>>) = 1 /\ <<put>>[1] = put
  OBVIOUS
<1> QED BY <1>1, <1>2, <1>3 DEF IsSeq

\* A general item is one item.
LEMMA OneGeneral ==
  ASSUME NEW kind \in ItemKinds, NEW title, NEW value
  PROVE  UpTo(General(kind, title, value), 1)
<1> DEFINE puts == General(kind, title, value)
<1>1. IsSeq(puts) /\ Len(puts) = 1 /\ IsPut(puts[1]) /\ puts[1].slot = "general"
  BY OnePut DEF General
<1> QED BY <1>1 DEF UpTo

\* A key is one item, or none without a title.
LEMMA OnePubkey ==
  ASSUME NEW title, NEW key
  PROVE  UpTo(Pubkey(title, key), 1)
BY OneGeneral DEF Pubkey, ItemKinds

\* A primary item leads what is printed, with nothing behind it.
LEMMA OnePrimary ==
  ASSUME NEW kind \in ItemKinds, NEW title, NEW value
  PROVE  Led(Primary(kind, title, value), 0)
BY OnePut DEF Primary, Led

\* Nothing fits in any number of items.
LEMMA NoItem ==
  ASSUME NEW n \in Nat
  PROVE  UpTo(<<>>, n)
<1>1. <<>> \in Seq({})
  OBVIOUS
<1> QED BY <1>1 DEF UpTo, IsSeq

\* What is printed under a condition is no more than without it.
LEMMA UpToWhen ==
  ASSUME NEW n \in Nat, NEW items, UpTo(items, n), NEW condition
  PROVE  UpTo(When(condition, items), n)
BY NoItem DEF When

\* An authority is one item at most.
LEMMA OneAuthority ==
  ASSUME NEW config, NEW title, NEW key
  PROVE  UpTo(Authority(config, title, key), 1)
BY OnePubkey, UpToWhen DEF Authority

\* What fits in m items fits in more.
LEMMA UpToMore ==
  ASSUME NEW m \in Nat, NEW n \in Nat, m <= n, NEW items
  PROVE  (UpTo(items, m) => UpTo(items, n)) /\ (Led(items, m) => Led(items, n))
<1>1. ASSUME IsSeq(items) PROVE Len(items) \in Nat
  BY <1>1, LenProperties DEF IsSeq
<1> QED BY <1>1 DEF UpTo, Led

\* Two parts need no more items than both bounds together.
LEMMA Together ==
  ASSUME NEW a, NEW b, NEW m \in Nat, NEW n \in Nat, UpTo(a, m), UpTo(b, n)
  PROVE  UpTo(a \o b, m + n)
<1>1. PICK k \in Nat, l \in Nat : k = Len(a) /\ l = Len(b)
  BY Concatenation DEF UpTo
<1>2. /\ IsSeq(a \o b) /\ Len(a \o b) = k + l
      /\ \A i \in 1..k : (a \o b)[i] = a[i]
      /\ \A i \in 1..l : (a \o b)[k + i] = b[i]
  BY <1>1, Concatenation DEF UpTo
<1>3. ASSUME NEW i \in 1..(k + l) PROVE IsPut((a \o b)[i]) /\ (a \o b)[i].slot = "general"
  <2>1. CASE i \in 1..k
    BY <2>1, <1>1, <1>2 DEF UpTo
  <2>2. CASE i \in (k + 1)..(k + l)
    <3>1. PICK j \in 1..l : i = k + j
      <4>1. i - k \in 1..l /\ i = k + (i - k)
        BY <2>2
      <4> QED BY <4>1
    <3>2. (a \o b)[i] = b[j]
      BY <3>1, <1>2
    <3> QED BY <3>2, <1>1 DEF UpTo
  <2>3. i \in 1..k \/ i \in (k + 1)..(k + l)
    OBVIOUS
  <2> QED BY <2>1, <2>2, <2>3
<1> QED BY <1>1, <1>2, <1>3 DEF UpTo

\* General items behind a primary one leave it at the head.
LEMMA LedTogether ==
  ASSUME NEW a, NEW b, NEW m \in Nat, NEW n \in Nat, Led(a, m), UpTo(b, n)
  PROVE  Led(a \o b, m + n)
<1>1. PICK k \in Nat, l \in Nat : k = Len(a) /\ l = Len(b)
  BY Concatenation DEF UpTo, Led
<1>2. /\ IsSeq(a \o b) /\ Len(a \o b) = k + l /\ k \in 1..(m + 1) /\ l <= n
      /\ \A i \in 1..k : (a \o b)[i] = a[i]
      /\ \A i \in 1..l : (a \o b)[k + i] = b[i]
  BY <1>1, Concatenation DEF UpTo, Led
<1>3. ASSUME NEW i \in 1..(k + l)
      PROVE  IsPut((a \o b)[i]) /\ (a \o b)[i].slot = IF i = 1 THEN "primary" ELSE "general"
  <2>1. CASE i \in 1..k
    BY <2>1, <1>1, <1>2 DEF Led
  <2>2. CASE i \in (k + 1)..(k + l)
    <3>1. PICK j \in 1..l : i = k + j /\ i # 1
      <4>1. i - k \in 1..l /\ i = k + (i - k) /\ i # 1
        BY <2>2, <1>2
      <4> QED BY <4>1
    <3>2. (a \o b)[i] = b[j]
      BY <3>1, <1>2
    <3> QED BY <3>1, <3>2, <1>1 DEF UpTo
  <2>3. i \in 1..k \/ i \in (k + 1)..(k + l)
    OBVIOUS
  <2> QED BY <2>1, <2>2, <2>3
<1> QED BY <1>1, <1>2, <1>3 DEF Led

\* print_system: base and seed of an account are two items.
LEMMA SeededUpTo ==
  ASSUME NEW info, NEW config
  PROVE  UpTo(Seeded(info, config), 2)
<1>1. UpTo(Pubkey("Base", info.base) \o General("SizedString", "Seed", info.seed), 2)
  BY OnePubkey, OneGeneral, Together DEF ItemKinds
<1> QED BY <1>1, UpToWhen DEF Seeded

\* print_system_create_account_info as a part of more: without a title for the account.
LEMMA CreateInfoUpTo ==
  ASSUME NEW info, NEW config
  PROVE  /\ UpTo(print_system_create_account_info(NoTitle, info, config), 2)
         /\ UpTo(print_system_create_account_with_seed_info(NoTitle, info, config), 4)
<1>1. UpTo(OptionalPrimary(NoTitle, info.to), 0)
  BY NoItem DEF OptionalPrimary
<1>2. UpTo(print_system_create_account_info(NoTitle, info, config), 2)
  BY <1>1, OneGeneral, OneAuthority, Together DEF print_system_create_account_info, ItemKinds
<1>3. UpTo(print_system_create_account_with_seed_info(NoTitle, info, config), 4)
  BY <1>2, SeededUpTo, Together DEF print_system_create_account_with_seed_info
<1> QED BY <1>2, <1>3

\* print_system_create_account_info on its own: the account is the primary item.
LEMMA CreateInfoLed ==
  ASSUME NEW info, NEW config
  PROVE  /\ Led(print_system_create_account_info("Create_account", info, config), 2)
         /\ Led(print_system_create_account_with_seed_info("Create_account", info, config), 4)
<1>1. Led(OptionalPrimary("Create_account", info.to), 0)
  BY OnePrimary DEF OptionalPrimary, NoTitle, ItemKinds
<1>2. Led(print_system_create_account_info("Create_account", info, config), 2)
  BY <1>1, OneGeneral, OneAuthority, LedTogether DEF print_system_create_account_info, ItemKinds
<1>3. Led(print_system_create_account_with_seed_info("Create_account", info, config), 4)
  BY <1>2, SeededUpTo, LedTogether DEF print_system_create_account_with_seed_info
<1> QED BY <1>2, <1>3

SystemKinds == DOMAIN SystemNonceLayouts \cup DOMAIN SystemAccountLayouts
\* Every instruction of the system program: a primary item and at most four others.
LEMMA SystemLed ==
  ASSUME NEW info, NEW config, info.kind \in SystemKinds
  PROVE  Led(print_system_info(info, config), 4)
<1> USE OnePrimary, OnePubkey, OneGeneral, OneAuthority, LedTogether, UpToMore DEF print_system_info
<1> "Amount" \in ItemKinds /\ "Pubkey" \in ItemKinds /\ "U64" \in ItemKinds
  BY DEF ItemKinds
<1>1. CASE info.kind = "Transfer"
  BY <1>1
<1>2. CASE info.kind = "AdvanceNonceAccount"
  BY <1>2
<1>3. CASE info.kind = "CreateAccount"
  BY <1>3, CreateInfoLed
<1>4. CASE info.kind = "CreateAccountWithSeed"
  BY <1>4, CreateInfoLed
<1>5. CASE info.kind = "InitializeNonceAccount"
  BY <1>5 DEF print_system_initialize_nonce_info, OptionalPrimary, NoTitle
<1>6. CASE info.kind = "WithdrawNonceAccount"
  BY <1>6
<1>7. CASE info.kind = "AuthorizeNonceAccount"
  BY <1>7
<1>8. CASE info.kind = "Assign"
  BY <1>8
<1>9. CASE info.kind = "Allocate"
  BY <1>9
<1>10. CASE info.kind = "AllocateWithSeed"
  BY <1>10, SeededUpTo
<1> QED
  BY <1>1, <1>2, <1>3, <1>4, <1>5, <1>6, <1>7, <1>8, <1>9, <1>10
     DEF SystemKinds, SystemNonceLayouts, SystemAccountLayouts

\* The kinds of items the printers make.
LEMMA PrintersKinds ==
  {"Amount", "TokenAmount", "U64", "Pubkey", "Hash", "SizedString", "String", "Timestamp"}
    \subseteq ItemKinds
BY DEF ItemKinds

\* print_delegate_stake_info, as a part and on its own.
LEMMA DelegateInfo ==
  ASSUME NEW info, NEW config
  PROVE  /\ UpTo(print_delegate_stake_info(NoTitle, info, config), 2)
         /\ Led(print_delegate_stake_info("Delegate_from", info, config), 2)
<1>1. UpTo(OptionalPrimary(NoTitle, info.stake_pubkey), 0)
  BY NoItem DEF OptionalPrimary
<1>2. Led(OptionalPrimary("Delegate_from", info.stake_pubkey), 0)
  BY OnePrimary, PrintersKinds DEF OptionalPrimary, NoTitle
<1> QED
  BY <1>1, <1>2, OneAuthority, OnePubkey, Together, LedTogether DEF print_delegate_stake_info

\* The authorities of a new account are one item, or two when they differ.
LEMMA NewAuthoritiesUpTo ==
  ASSUME NEW same, NEW staker, NEW withdrawer, NEW same_title, NEW staker_title
  PROVE  UpTo(NewAuthorities(same, staker, withdrawer, same_title, staker_title), 2)
BY OnePubkey, Together, UpToMore DEF NewAuthorities

\* The "None" of experts stands for the items of a lockup.
LEMMA LockupUpTo ==
  ASSUME NEW lockup, NEW config
  PROVE  UpTo(Lockup(lockup, config), 3)
<1> DEFINE locked == lockup.unix_timestamp > 0 \/ lockup.epoch > 0
<1>1. CASE locked
  <2>1. UpTo(When(~locked /\ config.expert, General("String", "Lockup", "None")), 0)
    BY <1>1, NoItem DEF When
  <2> HIDE DEF locked
  <2>2. UpTo(When(locked, Pubkey("Lockup_authority", lockup.custodian)), 1)
    BY OnePubkey, UpToWhen
  <2>3. UpTo(When(lockup.unix_timestamp > 0,
                  General("Timestamp", "Lockup_time", lockup.unix_timestamp)) \o
             When(lockup.epoch > 0, General("U64", "Lockup_epoch", lockup.epoch)), 2)
    BY OneGeneral, UpToWhen, Together, PrintersKinds
  <2> QED BY <2>1, <2>2, <2>3, Together DEF Lockup, locked
<1>2. CASE ~locked
  <2>1. UpTo(When(lockup.unix_timestamp > 0,
                  General("Timestamp", "Lockup_time", lockup.unix_timestamp)) \o
             When(lockup.epoch > 0, General("U64", "Lockup_epoch", lockup.epoch)), 0)
    BY <1>2, NoItem, Together DEF When
  <2>2. UpTo(When(locked, Pubkey("Lockup_authority", lockup.custodian)), 0)
    BY <1>2, NoItem DEF When
  <2> HIDE DEF locked
  <2>3. UpTo(When(~locked /\ config.expert, General("String", "Lockup", "None")), 1)
    BY OneGeneral, UpToWhen, PrintersKinds
  <2>4. UpTo(Lockup(lockup, config), 1)
    BY <2>1, <2>2, <2>3, Together DEF Lockup, locked
  <2> QED BY <2>4, UpToMore
<1> QED BY <1>1, <1>2

\* print_stake_initialize_info, as a part and on its own: authorities and lockup.
LEMMA StakeInitializeInfo ==
  ASSUME NEW info, NEW config
  PROVE  /\ UpTo(print_stake_initialize_info(NoTitle, info, config), 5)
         /\ Led(print_stake_initialize_info("Init_stake_acct", info, config), 5)
<1>1. UpTo(OptionalPrimary(NoTitle, info.account), 0)
  BY NoItem DEF OptionalPrimary
<1>2. Led(OptionalPrimary("Init_stake_acct", info.account), 0)
  BY OnePrimary, PrintersKinds DEF OptionalPrimary, NoTitle
<1> QED
  BY <1>1, <1>2, NewAuthoritiesUpTo, LockupUpTo, Together, LedTogether
     DEF print_stake_initialize_info

StakeKinds ==
  DOMAIN StakeMoveLayouts \cup DOMAIN StakeInitializeLayouts \cup
  DOMAIN StakeAuthorizeLayouts \cup DOMAIN StakeLockupLayouts
\* Every instruction of the stake program: a primary item and at most five others.
LEMMA StakeLed ==
  ASSUME NEW info, NEW config, info.kind \in StakeKinds
  PROVE  Led(print_stake_info(info, config), 5)
<1> USE OnePrimary, OnePubkey, OneGeneral, OneAuthority, LedTogether, UpToMore, PrintersKinds
    DEF print_stake_info
<1>1. CASE info.kind = "Delegate"
  BY <1>1, DelegateInfo
<1>2. CASE info.kind \in {"Initialize", "InitializeChecked"}
  BY <1>2, StakeInitializeInfo
<1>3. CASE info.kind = "Withdraw"
  BY <1>3
<1>4. CASE info.kind \in {"Authorize", "AuthorizeChecked"}
  BY <1>4, UpToWhen
<1>5. CASE info.kind = "Deactivate"
  BY <1>5
<1>6. CASE info.kind \in {"SetLockup", "SetLockupChecked"}
  <2>1. /\ UpTo(When("Timestamp" \in info.lockup.present,
                     General("Timestamp", "Time", info.lockup.unix_timestamp)), 1)
        /\ UpTo(When("Epoch" \in info.lockup.present,
                     General("U64", "Epoch", info.lockup.epoch)), 1)
        /\ UpTo(When("Custodian" \in info.lockup.present,
                     Pubkey("New_authority", info.lockup.custodian)), 1)
    BY UpToWhen
  <2> QED BY <1>6, <2>1
<1>7. CASE info.kind = "Split"
  BY <1>7 DEF print_stake_split_info1, print_stake_split_info2
<1>8. CASE info.kind = "Merge"
  BY <1>8
<1> QED
  BY <1>1, <1>2, <1>3, <1>4, <1>5, <1>6, <1>7, <1>8
     DEF StakeKinds, StakeMoveLayouts, StakeInitializeLayouts, StakeAuthorizeLayouts,
         StakeLockupLayouts

\* print_vote_initialize_info, as a part and on its own.
LEMMA VoteInitializeInfo ==
  ASSUME NEW info
  PROVE  /\ UpTo(print_vote_initialize_info(NoTitle, info), 4)
         /\ Led(print_vote_initialize_info("Init_vote_acct", info), 4)
<1>1. UpTo(OptionalPrimary(NoTitle, info.account), 0)
  BY NoItem DEF OptionalPrimary
<1>2. Led(OptionalPrimary("Init_vote_acct", info.account), 0)
  BY OnePrimary, PrintersKinds DEF OptionalPrimary, NoTitle
<1> QED
  BY <1>1, <1>2, OnePubkey, OneGeneral, PrintersKinds, Together, LedTogether
     DEF print_vote_initialize_info

VoteKinds == DOMAIN VoteLayouts \cup {"UpdateValidatorId"}
\* Every instruction of the vote program: a primary item and at most four others.
LEMMA VoteLed ==
  ASSUME NEW info, NEW config, info.kind \in VoteKinds
  PROVE  Led(print_vote_info(info, config), 4)
<1> USE OnePrimary, OnePubkey, OneGeneral, OneAuthority, LedTogether, UpToMore, PrintersKinds
    DEF print_vote_info
<1>1. CASE info.kind = "Initialize"
  BY <1>1, VoteInitializeInfo
<1>2. CASE info.kind = "Withdraw"
  BY <1>2
<1>3. CASE info.kind \in {"Authorize", "AuthorizeChecked"}
  BY <1>3
<1>4. CASE info.kind = "UpdateValidatorId"
  BY <1>4
<1>5. CASE info.kind = "UpdateCommission"
  BY <1>5
<1> QED
  BY <1>1, <1>2, <1>3, <1>4, <1>5 DEF VoteKinds, VoteLayouts

\* An amount of tokens is one item, the primary one or a general one.
LEMMA TokenAmountPut ==
  ASSUME NEW title, NEW info
  PROVE  /\ Led(TokenAmount("primary", title, info), 0)
         /\ UpTo(TokenAmount("general", title, info), 1)
BY OnePrimary, OneGeneral, PrintersKinds DEF TokenAmount, Primary, General

\* An owner or the signers of a multisig account are two items at most.
LEMMA OwnerUpTo ==
  ASSUME NEW sign, NEW config
  PROVE  UpTo(Owner(sign, config), 2)
BY OneAuthority, OnePubkey, OneGeneral, Together, UpToMore, PrintersKinds DEF Owner

\* print_rpl_token_transfer_info, as the primary item and behind one.
LEMMA TransferInfo ==
  ASSUME NEW info, NEW config
  PROVE  /\ Led(print_rpl_token_transfer_info("primary", info, config), 4)
         /\ UpTo(print_rpl_token_transfer_info("general", info, config), 5)
BY TokenAmountPut, OnePubkey, OwnerUpTo, Together, LedTogether
   DEF print_rpl_token_transfer_info

\* A threshold is one item, or none when it cannot be printed.
LEMMA MultisigUpTo ==
  ASSUME NEW m, NEW n
  PROVE  UpTo(summary_item_set_multisig_m_of_n(m, n), 1)
BY OneGeneral, UpToWhen, PrintersKinds DEF summary_item_set_multisig_m_of_n

TokenKinds ==
  DOMAIN TokenSignedLayouts \cup {"InitializeMultisig"} \cup DOMAIN TokenInitializeLayouts
\* Every instruction of the token program: a primary item and at most four others.
LEMMA TokenLed ==
  ASSUME NEW info, NEW config, info.kind \in TokenKinds
  PROVE  Led(print_rpl_token_info(info, config), 4)
<1> USE OnePrimary, OnePubkey, OneGeneral, OneAuthority, OwnerUpTo, UpToWhen, TokenAmountPut,
        LedTogether, UpToMore, PrintersKinds
    DEF print_rpl_token_info
<1>1. CASE info.kind = "InitializeMint"
  BY <1>1
<1>2. CASE info.kind \in {"InitializeAccount", "InitializeAccount2"}
  BY <1>2
<1>3. CASE info.kind = "InitializeMultisig"
  BY <1>3, MultisigUpTo
<1>4. CASE info.kind = "Revoke"
  BY <1>4
<1>5. CASE info.kind = "SetAuthority"
  BY <1>5
<1>6. CASE info.kind = "CloseAccount"
  BY <1>6
<1>7. CASE info.kind = "FreezeAccount"
  BY <1>7
<1>8. CASE info.kind = "ThawAccount"
  BY <1>8
<1>9. CASE info.kind = "TransferChecked"
  BY <1>9, TransferInfo
<1>10. CASE info.kind = "ApproveChecked"
  BY <1>10
<1>11. CASE info.kind = "MintToChecked"
  BY <1>11
<1>12. CASE info.kind = "BurnChecked"
  BY <1>12
<1>13. CASE info.kind = "SyncNative"
  BY <1>13
<1> QED
  BY <1>1, <1>2, <1>3, <1>4, <1>5, <1>6, <1>7, <1>8, <1>9, <1>10, <1>11, <1>12, <1>13
     DEF TokenKinds, TokenSignedLayouts, TokenInitializeLayouts

\* A new associated account: a primary item and three others.
LEMMA AssociatedLed ==
  ASSUME NEW info
  PROVE  Led(print_rpl_associated_token_account_create_info(info), 3)
BY OnePrimary, OnePubkey, LedTogether, PrintersKinds
   DEF print_rpl_associated_token_account_create_info

-----------------------------------------------------------------------------
(* What is printed of several instructions. *)

LEMMA CreateAccountLed ==
  ASSUME NEW title, NEW infos, NEW config, NEW n \in Nat, NEW initialize, UpTo(initialize, n)
  PROVE  Led(print_create_account(title, infos, config, initialize), 4 + n)
<1> DEFINE create == IF infos[1].kind = "CreateAccount"
                     THEN print_system_create_account_info(NoTitle, infos[1], config)
                     ELSE print_system_create_account_with_seed_info(NoTitle, infos[1], config)
<1>1. UpTo(create, 4)
  BY CreateInfoUpTo, UpToMore
<1>2. Led(Primary("Pubkey", title, infos[1].to), 0)
  BY OnePrimary, PrintersKinds
<1> HIDE DEF create
<1>3. Led(Primary("Pubkey", title, infos[1].to) \o create \o initialize, 4 + n)
  BY <1>1, <1>2, LedTogether
<1> QED BY <1>3 DEF print_create_account, create

\* A print function succeeds with a primary item and at most eleven general ones, or
\* fails and has put nothing.
PrintedWell(result) ==
  /\ result = [printed |-> result.printed, items |-> result.items]
  /\ result.printed \in BOOLEAN
  /\ IF result.printed THEN Led(result.items, NUM_GENERAL_ITEMS) ELSE result.items = <<>>

\* What has a primary item at its head and no more than eleven others has room.
LEMMA PrintedLed ==
  ASSUME NEW items, NEW n \in 0..11, Led(items, n)
  PROVE  PrintedWell(Printed(items))
BY UpToMore DEF PrintedWell, Printed, NUM_GENERAL_ITEMS

\* A printer that gives up before its first item has put none.
LEMMA NotPrintedWell == PrintedWell(NotPrinted)
BY DEF PrintedWell, NotPrinted

\* Two authorities replaced in one transaction have room, or are not printed.
LEMMA AuthorizeBothWell ==
  ASSUME NEW infos, NEW config, NEW account_title, NEW new_title, NEW expected
  PROVE  PrintedWell(print_authorize_both(infos, config, account_title, new_title, expected))
<1> DEFINE same == /\ infos[1].kind = "AuthorizeChecked"
                   /\ infos[1].new_authority = infos[2].new_authority
           authorities == NewAuthorities(same, infos[1].new_authority, infos[2].new_authority,
                                         "New_authorities", new_title)
           custodian == When(infos[1].program = "Stake" /\ infos[2].custodian # NoKey,
                             Pubkey("Custodian", infos[2].custodian))
           items == Primary("Pubkey", account_title, infos[1].account) \o authorities \o
                    custodian \o Authority(config, "Authorized_by", infos[2].authority)
<1>1. UpTo(authorities, 2)
  BY NewAuthoritiesUpTo
<1>2. UpTo(custodian, 1)
  BY OnePubkey, UpToWhen
<1> HIDE DEF authorities, custodian
<1>3. Led(items, 4)
  BY <1>1, <1>2, OnePrimary, OneAuthority, LedTogether, PrintersKinds
<1> HIDE DEF items
<1>4. PrintedWell(Printed(items))
  BY <1>3, PrintedLed
<1> QED
  BY <1>4, NotPrintedWell DEF print_authorize_both, items, authorities, custodian

\* Every combination of two instructions has room.
LEMMA TwoPrintedWell ==
  ASSUME NEW infos, NEW config
  PROVE  PrintedWell(PrintTwo(infos, config))
<1> DEFINE create == infos[1]
           info == infos[2]
<1>1. PrintedWell(Printed(print_create_account("Create_stake_acct", infos, config,
              print_stake_initialize_info(NoTitle, info, config))))
  <2>1. Led(print_create_account("Create_stake_acct", infos, config,
              print_stake_initialize_info(NoTitle, info, config)), 9)
    BY StakeInitializeInfo, CreateAccountLed
  <2> QED BY <2>1, PrintedLed
<1>2. PrintedWell(Printed(print_create_account("Create_nonce_acct", infos, config,
              print_system_initialize_nonce_info(NoTitle, info))))
  <2>1. UpTo(OptionalPrimary(NoTitle, info.account), 0)
    BY NoItem DEF OptionalPrimary
  <2>2. UpTo(print_system_initialize_nonce_info(NoTitle, info), 1)
    BY <2>1, OnePubkey, Together DEF print_system_initialize_nonce_info
  <2>3. Led(print_create_account("Create_nonce_acct", infos, config,
              print_system_initialize_nonce_info(NoTitle, info)), 5)
    BY <2>2, CreateAccountLed
  <2> QED BY <2>3, PrintedLed
<1>3. PrintedWell(Printed(print_create_account("Create_vote_acct", infos, config,
              print_vote_initialize_info(NoTitle, info))))
  <2>1. Led(print_create_account("Create_vote_acct", infos, config,
              print_vote_initialize_info(NoTitle, info)), 8)
    BY VoteInitializeInfo, CreateAccountLed
  <2> QED BY <2>1, PrintedLed
<1>4. PrintedWell(Printed(print_stake_split_with_seed(infos, config)))
  <2>1. Led(print_stake_split_info1(infos[2]), 2)
    BY OnePrimary, OnePubkey, LedTogether, PrintersKinds DEF print_stake_split_info1
  <2>2. UpTo(print_stake_split_info2(infos[2], config), 1)
    BY OneAuthority DEF print_stake_split_info2
  <2>3. Led(print_stake_split_with_seed(infos, config), 5)
    BY <2>1, <2>2, SeededUpTo, LedTogether DEF print_stake_split_with_seed
  <2> QED BY <2>3, PrintedLed
<1>5. ASSUME is_stake_split_v1_2(infos) PROVE PrintedWell(Printed(print_stake_info(info, config)))
  <2>1. info.kind \in StakeKinds
    BY <1>5 DEF is_stake_split_v1_2, SystemThen, Match, StakeKinds, StakeMoveLayouts
  <2> QED BY <2>1, StakeLed, PrintedLed
<1>6. PrintedWell(Printed(print_rpl_token_create_mint(create, info, config)))
  <2>1. UpTo(Funded(create, config), 2)
    BY OneAuthority, OneGeneral, Together, PrintersKinds DEF Funded
  <2>2. Led(print_rpl_token_create_mint(create, info, config), 5)
    BY <2>1, OnePrimary, OnePubkey, OneGeneral, UpToWhen, LedTogether, PrintersKinds
       DEF print_rpl_token_create_mint
  <2> QED BY <2>2, PrintedLed
<1>7. PrintedWell(Printed(print_rpl_token_create_account(create, info, config)))
  <2>1. UpTo(Funded(create, config), 2)
    BY OneAuthority, OneGeneral, Together, PrintersKinds DEF Funded
  <2>2. Led(print_rpl_token_create_account(create, info, config), 4)
    BY <2>1, OnePrimary, OnePubkey, LedTogether, PrintersKinds
       DEF print_rpl_token_create_account
  <2> QED BY <2>2, PrintedLed
<1>8. PrintedWell(Printed(print_rpl_token_create_multisig(create, info, config)))
  <2>1. UpTo(Funded(create, config), 2)
    BY OneAuthority, OneGeneral, Together, PrintersKinds DEF Funded
  <2>2. Led(print_rpl_token_create_multisig(create, info, config), 3)
    BY <2>1, OnePrimary, MultisigUpTo, LedTogether, PrintersKinds
       DEF print_rpl_token_create_multisig
  <2> QED BY <2>2, PrintedLed
<1>9. PrintedWell(Printed(print_rpl_associated_token_account_create_info(create) \o
                          print_rpl_token_transfer_info("general", info, config)))
  <2>1. Led(print_rpl_associated_token_account_create_info(create) \o
            print_rpl_token_transfer_info("general", info, config), 8)
    BY AssociatedLed, TransferInfo, LedTogether
  <2> QED BY <2>1, PrintedLed
<1> QED
  BY <1>1, <1>2, <1>3, <1>4, <1>5, <1>6, <1>7, <1>8, <1>9, AuthorizeBothWell, NotPrintedWell
     DEF PrintTwo

\* Every combination of three instructions has room: the longest one fills it.
LEMMA ThreePrintedWell ==
  ASSUME NEW infos, NEW config
  PROVE  PrintedWell(PrintThree(infos, config))
<1>1. PrintedWell(Printed(print_create_account("Delegate_from", infos, config,
           print_stake_initialize_info(NoTitle, infos[2], config) \o
           print_delegate_stake_info(NoTitle, infos[3], config))))
  <2>1. UpTo(print_stake_initialize_info(NoTitle, infos[2], config) \o
             print_delegate_stake_info(NoTitle, infos[3], config), 7)
    BY StakeInitializeInfo, DelegateInfo, Together
  <2>2. Led(print_create_account("Delegate_from", infos, config,
           print_stake_initialize_info(NoTitle, infos[2], config) \o
           print_delegate_stake_info(NoTitle, infos[3], config)), 11)
    BY <2>1, CreateAccountLed
  <2> QED BY <2>2, PrintedLed
<1>2. ASSUME is_stake_split_v1_1(infos)
      PROVE  PrintedWell(Printed(print_stake_info(infos[3], config)))
  <2>1. infos[3].kind \in StakeKinds
    BY <1>2 DEF is_stake_split_v1_1, Match, StakeKinds, StakeMoveLayouts
  <2> QED BY <2>1, StakeLed, PrintedLed
<1> QED
  BY <1>1, <1>2, NotPrintedWell DEF PrintThree

\* An info of a program whose printer knows its kind.
KnownInfo(info) ==
  \/ info.program = "System" /\ info.kind \in SystemKinds
  \/ info.program = "Stake" /\ info.kind \in StakeKinds
  \/ info.program = "Vote" /\ info.kind \in VoteKinds
  \/ info.program = "RplToken" /\ info.kind \in TokenKinds
  \/ info.program = "RplAssociatedTokenAccount"

\* Every instruction on its own has room.
LEMMA OnePrintedWell ==
  ASSUME NEW info, NEW config, KnownInfo(info)
  PROVE  PrintedWell(PrintOne(info, config))
<1>1. CASE info.program = "System"
  BY <1>1, SystemLed, PrintedLed DEF KnownInfo, PrintOne
<1>2. CASE info.program = "Stake"
  BY <1>2, StakeLed, PrintedLed DEF KnownInfo, PrintOne
<1>3. CASE info.program = "Vote"
  BY <1>3, VoteLed, PrintedLed DEF KnownInfo, PrintOne
<1>4. CASE info.program = "RplToken"
  BY <1>4, TokenLed, PrintedLed DEF KnownInfo, PrintOne
<1>5. CASE info.program = "RplAssociatedTokenAccount"
  BY <1>5, AssociatedLed, PrintedLed DEF PrintOne
<1> QED
  BY <1>1, <1>2, <1>3, <1>4, <1>5 DEF KnownInfo

\* So has every transaction behind its nonce.
LEMMA NonceProcessedWell ==
  ASSUME NEW infos, NEW config, Len(infos) = 1 => KnownInfo(infos[1])
  PROVE  PrintedWell(print_transaction_nonce_processed(infos, config))
BY OnePrintedWell, TwoPrintedWell, ThreePrintedWell, NotPrintedWell
   DEF print_transaction_nonce_processed

-----------------------------------------------------------------------------
(* What the parsers make of an instruction. *)

LEMMA JoinedFields ==
  ASSUME NEW info, NEW other
  PROVE  /\ DOMAIN Joined(info, other) = DOMAIN info \cup DOMAIN other
         /\ \A field \in DOMAIN info : Joined(info, other)[field] = info[field]
         /\ \A field \in DOMAIN other \ DOMAIN info : Joined(info, other)[field] = other[field]
BY DEF Joined

\* An instruction that a switch gives an info is of one of the kinds it has a case for.
LEMMA SwitchKinds ==
  ASSUME NEW layouts, NEW instruction, Switch(layouts, instruction) # {}
  PROVE  instruction.kind \in DOMAIN layouts
BY DEF Switch

\* So an info of a program is of one of the kinds its printer has a case for.
LEMMA ParsedKinds ==
  ASSUME NEW instruction
  PROVE  /\ parse_system_instructions(instruction) # {} => instruction.kind \in SystemKinds
         /\ parse_stake_instructions(instruction) # {} => instruction.kind \in StakeKinds
         /\ parse_vote_instructions(instruction) # {} => instruction.kind \in VoteKinds
         /\ parse_rpl_token_instructions(instruction) # {} => instruction.kind \in TokenKinds
<1>1. parse_system_instructions(instruction) # {} => instruction.kind \in SystemKinds
  <2> DEFINE layouts == Joined(SystemNonceLayouts, SystemAccountLayouts)
  <2>1. DOMAIN layouts = SystemKinds
    BY JoinedFields DEF SystemKinds
  <2> HIDE DEF layouts
  <2>2. Switch(layouts, instruction) # {} => instruction.kind \in SystemKinds
    BY <2>1, SwitchKinds
  <2> QED BY <2>2 DEF parse_system_instructions, layouts
<1>2. ASSUME parse_stake_instructions(instruction) # {} PROVE instruction.kind \in StakeKinds
  <2>1. \/ Switch(StakeMoveLayouts, instruction) # {}
        \/ Switch(StakeInitializeLayouts, instruction) # {}
        \/ Switch(StakeAuthorizeLayouts, instruction) # {}
        \/ Switch(StakeLockupLayouts, instruction) # {}
    BY <1>2 DEF parse_stake_instructions, parse_stake_initialize, parse_stake_authorize,
                parse_stake_set_lockup
  <2> QED BY <2>1, SwitchKinds DEF StakeKinds
<1>3. ASSUME parse_vote_instructions(instruction) # {} PROVE instruction.kind \in VoteKinds
  <2>1. Switch(VoteLayouts, instruction) # {} \/ instruction.kind = "UpdateValidatorId"
    <3>1. instruction.kind # "UpdateValidatorId" =>
            parse_vote_update_validator_id_instruction(instruction) = {}
      BY DEF parse_vote_update_validator_id_instruction
    <3>2. \A info : info \in parse_vote_instructions(instruction) =>
            \/ info \in Switch(VoteLayouts, instruction)
            \/ info \in parse_vote_update_validator_id_instruction(instruction)
      BY DEF parse_vote_instructions
    <3> QED BY <1>3, <3>1, <3>2
  <2> QED BY <2>1, SwitchKinds DEF VoteKinds
<1>4. ASSUME parse_rpl_token_instructions(instruction) # {} PROVE instruction.kind \in TokenKinds
  BY <1>4, SwitchKinds DEF parse_rpl_token_instructions, TokenKinds
<1> QED BY <1>1, <1>2, <1>3, <1>4

\* An instruction is reviewed as one of its own program and kind, if at all.
LEMMA InfoOfInstruction ==
  ASSUME NEW instruction
  PROVE  LET info == Info(instruction)
         IN  \/ info = [program |-> "Unknown"]
             \/ /\ info.program = instruction.program /\ info.kind = instruction.kind
                /\ info.program = "RplMemo" \/ KnownInfo(info)
<1> DEFINE parsed ==
        CASE instruction.program = "System" -> parse_system_instructions(instruction)
          [] instruction.program = "Stake" -> parse_stake_instructions(instruction)
          [] instruction.program = "Vote" -> parse_vote_instructions(instruction)
          [] instruction.program = "RplToken" -> parse_rpl_token_instructions(instruction)
          [] instruction.program = "RplAssociatedTokenAccount" ->
               parse_rpl_associated_token_account_instructions(instruction)
          [] instruction.program = "RplMemo" -> {<<>>}
          [] OTHER -> {}
           brief == [program |-> instruction.program, kind |-> instruction.kind]
<1>1. Info(instruction) = IF parsed = {} THEN [program |-> "Unknown"]
                          ELSE Joined(brief, CHOOSE info \in parsed : TRUE)
  BY DEF Info
<1>2. ASSUME parsed # {}
      PROVE  instruction.program = "RplMemo" \/ KnownInfo(brief)
  BY <1>2, ParsedKinds DEF KnownInfo
<1>3. \A other : /\ Joined(brief, other).program = brief.program
                 /\ Joined(brief, other).kind = brief.kind
  BY JoinedFields
<1> HIDE DEF parsed
<1> QED BY <1>1, <1>2, <1>3 DEF KnownInfo

-----------------------------------------------------------------------------
(* What is printed of a transaction. *)

\* What is kept of some are those of the places.
AreKept(kept, s, places, n) ==
  /\ IsSeq(kept)
  /\ Len(kept) \in 0..n
  /\ \A j \in 1..Len(kept) : \E i \in 1..n : i \in places /\ kept[j] = s[i]
  /\ \A i \in 1..n : i \in places => \E j \in 1..Len(kept) : kept[j] = s[i]

\* What Kept selects is elements of the sequence, in their order.
LEMMA KeptSequence ==
  ASSUME NEW s, NEW places, NEW n \in Nat, n = Len(s)
  PROVE  AreKept(Kept(s, places), s, places, n)
<1> DEFINE kept == Kept(s, places)
<1>1. PICK at : KeptAt(at, kept, s, places, n)
  BY KeptProperties
<1> HIDE DEF kept
<1>2. IsSeq(kept) /\ Len(kept) \in Nat
  BY <1>1, LenProperties DEF KeptAt, IsSeq
<1>3. \A j \in 1..Len(kept) : \E i \in 1..n : i \in places /\ kept[j] = s[i]
  BY <1>1 DEF KeptAt
<1>4. \A i \in 1..n : i \in places => \E j \in 1..Len(kept) : kept[j] = s[i]
  <2> SUFFICES ASSUME NEW i \in 1..n, i \in places
               PROVE  \E j \in 1..Len(kept) : kept[j] = s[i]
    OBVIOUS
  <2>1. PICK j \in 1..Len(kept) : at[j] = i
    BY <1>1 DEF KeptAt
  <2> QED BY <1>1, <2>1 DEF KeptAt
<1>5. Len(kept) <= n
  <2>1. PICK m \in Nat : m = Len(kept)
    BY <1>2
  <2>2. at \in [1..m -> 1..n] /\ \A j, k \in 1..m : j < k => at[j] < at[k]
    BY <1>1, <2>1 DEF KeptAt
  <2> DEFINE T == {j \in Nat : j \in 1..m => at[j] >= j}
  <2>3. 0 \in T
    OBVIOUS
  <2>4. ASSUME NEW j \in Nat, j \in T PROVE j + 1 \in T
    <3> SUFFICES ASSUME j + 1 \in 1..m PROVE at[j + 1] >= j + 1
      OBVIOUS
    <3>1. CASE j = 0
      BY <3>1, <2>2
    <3>2. CASE j # 0
      <4>1. j \in 1..m /\ j < j + 1
        BY <3>2
      <4>2. at[j] < at[j + 1] /\ at[j] >= j /\ at[j] \in Int /\ at[j + 1] \in Int
        BY <4>1, <2>2, <2>4
      <4> QED BY <4>2
    <3> QED BY <3>1, <3>2
  <2>5. \A j \in Nat : j \in T
    <3> HIDE DEF T
    <3> QED BY <2>3, <2>4, SetInduction
  <2>6. CASE m # 0
    <3>1. m \in 1..m /\ at[m] >= m /\ at[m] \in 1..n
      BY <2>2, <2>5, <2>6
    <3> QED BY <3>1, <2>1
  <2> QED BY <2>1, <2>6
<1> QED BY <1>2, <1>3, <1>4, <1>5 DEF kept, AreKept

\* The instructions that are displayed are instructions of the transaction, and none of
\* them a memo.
LEMMA DisplayedElements ==
  ASSUME NEW infos, Len(infos) \in Nat, DOMAIN infos = 1..Len(infos)
  PROVE  /\ IsSeq(Displayed(infos)) /\ Len(Displayed(infos)) \in 0..Len(infos)
         /\ \A j \in 1..Len(Displayed(infos)) : \E i \in 1..Len(infos) :
              Displayed(infos)[j] = infos[i] /\ infos[i].program # "RplMemo"
<1> DEFINE places == {i \in DOMAIN infos : infos[i].program # "RplMemo"}
<1>1. Displayed(infos) = Kept(infos, places)
  BY DEF Displayed
<1>2. \A i \in places : infos[i].program # "RplMemo"
  OBVIOUS
<1> HIDE DEF places
<1>3. AreKept(Displayed(infos), infos, places, Len(infos))
  BY <1>1, KeptSequence
<1> QED BY <1>2, <1>3 DEF AreKept

\* Every instruction displayed of a transaction without unknown ones has a printer.
LEMMA DisplayedAreKnown ==
  ASSUME NEW transaction, IsSequence(transaction.instructions)
  PROVE  LET infos == Infos(transaction)
         IN  /\ Len(infos) = Len(transaction.instructions)
             /\ DOMAIN infos = 1..Len(infos)
             /\ IsSeq(Displayed(infos)) /\ Len(Displayed(infos)) \in 0..Len(infos)
             /\ (\A i \in DOMAIN infos : infos[i].program # "Unknown") =>
                  \A j \in 1..Len(Displayed(infos)) : KnownInfo(Displayed(infos)[j])
<1> DEFINE infos == Infos(transaction)
<1>1. PICK n \in Nat : n = Len(transaction.instructions) /\ DOMAIN transaction.instructions = 1..n
  BY DEF IsSequence
<1>2. infos = [i \in 1..n |-> Info(transaction.instructions[i])]
  BY <1>1 DEF Infos
<1>3. Len(infos) = n /\ DOMAIN infos = 1..n
  BY <1>2
<1>4. \A i \in 1..n : infos[i] = Info(transaction.instructions[i])
  BY <1>2
<1> HIDE DEF infos
<1>5. /\ IsSeq(Displayed(infos)) /\ Len(Displayed(infos)) \in 0..Len(infos)
      /\ \A j \in 1..Len(Displayed(infos)) : \E i \in 1..Len(infos) :
           Displayed(infos)[j] = infos[i] /\ infos[i].program # "RplMemo"
  BY <1>3, DisplayedElements
<1>6. ASSUME \A i \in DOMAIN infos : infos[i].program # "Unknown",
             NEW j \in 1..Len(Displayed(infos))
      PROVE  KnownInfo(Displayed(infos)[j])
  <2>1. PICK i \in 1..n : Displayed(infos)[j] = infos[i] /\ infos[i].program # "RplMemo"
    BY <1>3, <1>5
  <2>2. infos[i].program # "Unknown"
    BY <1>3, <1>6
  <2> QED BY <1>4, <2>1, <2>2, InfoOfInstruction
<1> QED BY <1>1, <1>3, <1>5, <1>6 DEF infos

\* The items of a nonce, for experts.
NonceItems(items) ==
  /\ IsSeq(items)
  /\ Len(items) \in {0, 2}
  /\ \A i \in 1..Len(items) :
       IsPut(items[i]) /\ items[i].slot = IF i = 1 THEN "nonce_account" ELSE "nonce_authority"

\* A nonce's account and authority, each in the slot of its own.
LEMMA NoncePair ==
  ASSUME NEW a, NEW b, IsSeq(a), Len(a) = 1, IsPut(a[1]), a[1].slot = "nonce_account",
         IsSeq(b), Len(b) = 1, IsPut(b[1]), b[1].slot = "nonce_authority"
  PROVE  NonceItems(a \o b)
<1>1. IsSeq(a \o b) /\ Len(a \o b) = 2
  <2>1. IsSeq(a \o b) /\ Len(a \o b) = Len(a) + Len(b)
    BY Concatenation
  <2> QED BY <2>1
<1>2. (a \o b)[1] = a[1]
  BY Concatenation
<1>3. (a \o b)[1 + 1] = b[1]
  BY Concatenation
<1> QED BY <1>1, <1>2, <1>3 DEF NonceItems

\* print_system_nonced_transaction_sentinel puts a nonce's items or none.
LEMMA SentinelItems ==
  ASSUME NEW info, NEW config
  PROVE  NonceItems(Sentinel(info, config))
<1> DEFINE a == PrintTo("nonce_account", "Pubkey", "Nonce_account", info.account)
           b == PrintTo("nonce_authority", "Pubkey", "Nonce_authority", info.authority)
<1>1. /\ IsSeq(a) /\ Len(a) = 1 /\ IsPut(a[1]) /\ a[1].slot = "nonce_account"
      /\ IsSeq(b) /\ Len(b) = 1 /\ IsPut(b[1]) /\ b[1].slot = "nonce_authority"
  BY OnePut, PrintersKinds
<1> HIDE DEF a, b
<1>3. NonceItems(a \o b)
  BY <1>1, NoncePair
<1>4. NonceItems(<<>>)
  BY NoItem DEF NonceItems, UpTo
<1> QED BY <1>3, <1>4 DEF Sentinel, When, a, b

\* A body is printed after a nonce, or it is not and nothing else is put.
BodyIs(body, nonce, rest) ==
  /\ body.printed \in BOOLEAN
  /\ body.items = nonce \o rest
  /\ NonceItems(nonce)
  /\ IF body.printed THEN Led(rest, NUM_GENERAL_ITEMS) ELSE rest = <<>>
BodyWell(body) == \E nonce, rest : BodyIs(body, nonce, rest)

\* What has room without a nonce has room behind the items of one.
LEMMA PrintedBody ==
  ASSUME NEW body, PrintedWell(body)
  PROVE  BodyWell(body)
<1>1. NonceItems(<<>>)
  BY NoItem DEF NonceItems, UpTo
<1>2. IsSeq(body.items)
  BY NoItem DEF PrintedWell, Led, UpTo
<1>3. body.items = <<>> \o body.items
  BY <1>2, ConcatEmptySeq DEF IsSeq
<1>4. /\ body.printed \in BOOLEAN
      /\ IF body.printed THEN Led(body.items, NUM_GENERAL_ITEMS) ELSE body.items = <<>>
  BY DEF PrintedWell
<1>5. BodyIs(body, <<>>, body.items)
  BY <1>1, <1>3, <1>4 DEF BodyIs
<1> QED BY <1>5 DEF BodyWell

\* Whatever print_transaction is given, what it puts has room.
LEMMA TransactionBody ==
  ASSUME NEW infos, NEW config, IsSeq(infos), \A j \in 1..Len(infos) : KnownInfo(infos[j])
  PROVE  BodyWell(print_transaction(infos, config))
<1>1. PICK S : infos \in Seq(S)
  BY DEF IsSeq
<1>2. CASE Len(infos) > 1 /\ is_advance_nonce_account(infos[1])
  <2> DEFINE printed == print_transaction_nonce_processed(Tail(infos), config)
  <2>1. infos # <<>> /\ Len(infos) \in Nat
    BY <1>1, <1>2, LenProperties
  <2>2. Len(Tail(infos)) = Len(infos) - 1 /\ \A i \in 1..Len(Tail(infos)) : Tail(infos)[i] = infos[i + 1]
    BY <1>1, <2>1, HeadTailProperties
  <2>3. Len(Tail(infos)) = 1 => KnownInfo(Tail(infos)[1])
    <3>1. ASSUME Len(Tail(infos)) = 1 PROVE Tail(infos)[1] = infos[2] /\ 2 \in 1..Len(infos)
      BY <3>1, <2>1, <2>2
    <3> QED BY <3>1
  <2>4. PrintedWell(printed)
    BY <2>3, NonceProcessedWell
  <2>5. print_transaction(infos, config) =
          [printed EXCEPT !.items = Sentinel(infos[1], config) \o @]
    BY <1>2 DEF print_transaction
  <2> HIDE DEF printed
  <2>6. /\ print_transaction(infos, config).printed = printed.printed
        /\ print_transaction(infos, config).items = Sentinel(infos[1], config) \o printed.items
    BY <2>4, <2>5 DEF PrintedWell
  <2>7. NonceItems(Sentinel(infos[1], config))
    BY SentinelItems
  <2>8. /\ printed.printed \in BOOLEAN
        /\ IF printed.printed THEN Led(printed.items, NUM_GENERAL_ITEMS) ELSE printed.items = <<>>
    BY <2>4 DEF PrintedWell
  <2>9. BodyIs(print_transaction(infos, config), Sentinel(infos[1], config), printed.items)
    BY <2>6, <2>7, <2>8 DEF BodyIs
  <2> QED BY <2>9 DEF BodyWell
<1>3. CASE ~(Len(infos) > 1 /\ is_advance_nonce_account(infos[1]))
  <2>1. Len(infos) = 1 => KnownInfo(infos[1])
    OBVIOUS
  <2>2. PrintedWell(print_transaction_nonce_processed(infos, config))
    BY <2>1, NonceProcessedWell
  <2> QED BY <1>3, <2>2, PrintedBody DEF print_transaction
<1> QED BY <1>2, <1>3

\* Whatever a message's instructions are, what process_message_body puts has room.
LEMMA MessageBody ==
  ASSUME NEW transaction, IsSequence(transaction.instructions), NEW config
  PROVE  BodyWell(process_message_body(transaction, config))
<1>1. BodyWell(NotPrinted)
  BY NotPrintedWell, PrintedBody
<1>2. ASSUME \A i \in DOMAIN Infos(transaction) : Infos(transaction)[i].program # "Unknown"
      PROVE  BodyWell(print_transaction(Displayed(Infos(transaction)), config))
  BY <1>2, DisplayedAreKnown, TransactionBody
<1> QED BY <1>1, <1>2 DEF process_message_body

-----------------------------------------------------------------------------
(* What is kept of two sequences one behind the other.                     *)

\* What two sequences have in common, one set has.
LEMMA InOneSet ==
  ASSUME NEW a, NEW b, IsSeq(a), IsSeq(b)
  PROVE  \E S : a \in Seq(S) /\ b \in Seq(S)
<1>1. PICK S : a \in Seq(S)
  BY DEF IsSeq
<1>2. PICK T : b \in Seq(T)
  BY DEF IsSeq
<1>3. a \in Seq(S \cup T) /\ b \in Seq(S \cup T)
  BY <1>1, <1>2, SeqMonotonic
<1> QED BY <1>3

\* What is kept up to a place is of the sequence.
LEMMA KeptUpToSeq ==
  ASSUME NEW S, NEW s \in Seq(S), NEW places
  PROVE  \A k \in 0..Len(s) : KeptUpTo(s, places)[k] \in Seq(S)
<1> DEFINE upTo == KeptUpTo(s, places)
           T == {k \in Nat : k <= Len(s) => upTo[k] \in Seq(S)}
<1>1. IsKeptUpTo(upTo, s, places, Len(s)) /\ Len(s) \in Nat /\ \A i \in 1..Len(s) : s[i] \in S
  BY KeptUpToDef, LenProperties, ElementOfSeq
<1> HIDE DEF upTo
<1>2. 0 \in T
  <2>1. upTo[0] = <<>>
    BY <1>1 DEF IsKeptUpTo
  <2>2. <<>> \in Seq(S)
    OBVIOUS
  <2> QED BY <2>1, <2>2
<1>3. ASSUME NEW k \in Nat, k \in T PROVE k + 1 \in T
  <2>1. SUFFICES ASSUME k + 1 <= Len(s) PROVE upTo[k + 1] \in Seq(S)
    OBVIOUS
  <2>2. upTo[k] \in Seq(S) /\ s[k + 1] \in S
    BY <1>1, <1>3, <2>1
  <2>3. upTo[k + 1] = IF k + 1 \in places THEN Append(upTo[k], s[k + 1]) ELSE upTo[k]
    <3>1. k + 1 \in 0..Len(s) /\ k + 1 # 0 /\ (k + 1) - 1 = k
      BY <1>1, <2>1
    <3> QED BY <1>1, <3>1 DEF IsKeptUpTo
  <2> QED BY <2>2, <2>3, AppendProperties
<1> HIDE DEF T
<1>4. \A k \in Nat : k \in T
  BY <1>2, <1>3, SetInduction
<1> QED BY <1>4, <1>1 DEF T, upTo

\* What is kept up to a place follows from what is kept up to the one before it.
LEMMA KeptStep ==
  ASSUME NEW f, NEW s, NEW places, NEW n \in Nat, IsKeptUpTo(f, s, places, n), NEW k \in Nat,
         k + 1 <= n
  PROVE  f[k + 1] = IF k + 1 \in places THEN Append(f[k], s[k + 1]) ELSE f[k]
<1>1. k + 1 \in 0..n /\ k + 1 # 0 /\ (k + 1) - 1 = k
  OBVIOUS
<1> QED BY <1>1 DEF IsKeptUpTo

\* Of two sequences one behind the other is kept what is kept of each.
LEMMA KeptTogether ==
  ASSUME NEW a, NEW b, IsSeq(a), IsSeq(b), NEW first, NEW second, NEW both,
         \A i \in 1..Len(a) : i \in both <=> i \in first,
         \A i \in 1..Len(b) : Len(a) + i \in both <=> i \in second
  PROVE  Kept(a \o b, both) = Kept(a, first) \o Kept(b, second)
<1>1. PICK S : a \in Seq(S) /\ b \in Seq(S)
  BY InOneSet
<1>2. PICK m \in Nat, n \in Nat, l \in Nat : m = Len(a) /\ n = Len(b) /\ l = m + n
  <2>1. Len(a) \in Nat /\ Len(b) \in Nat
    BY <1>1, LenProperties
  <2> QED BY <2>1
<1>3. PICK c : c = a \o b
  OBVIOUS
<1>4. /\ c \in Seq(S) /\ Len(c) = l
      /\ \A i \in 1..m : c[i] = a[i]
      /\ \A i \in 1..n : c[m + i] = b[i] /\ b[i] \in S
  BY <1>1, <1>2, <1>3, Concatenation, ConcatProperties, ElementOfSeq
<1>5. PICK f, g, h : /\ f = KeptUpTo(c, both)
                     /\ g = KeptUpTo(a, first)
                     /\ h = KeptUpTo(b, second)
  OBVIOUS
<1>6. /\ IsKeptUpTo(f, c, both, l)
      /\ IsKeptUpTo(g, a, first, m)
      /\ IsKeptUpTo(h, b, second, n)
  BY <1>2, <1>4, <1>5, KeptUpToDef
<1>7. (\A k \in 0..m : g[k] \in Seq(S)) /\ (\A k \in 0..n : h[k] \in Seq(S))
  BY <1>1, <1>2, <1>5, KeptUpToSeq
<1> DEFINE T == {k \in Nat : k <= m => f[k] = g[k]}
           Behind(k) == m + k
           Joint(k) == f[Behind(k)] = g[m] \o h[k]
           U == {k \in Nat : k <= n => Joint(k)}
<1>8. 0 \in T
  BY <1>6 DEF IsKeptUpTo
<1>9. ASSUME NEW k \in Nat, k \in T PROVE k + 1 \in T
  <2>1. SUFFICES ASSUME k + 1 <= m PROVE f[k + 1] = g[k + 1]
    OBVIOUS
  <2>2. /\ k + 1 <= l /\ k + 1 <= m /\ k + 1 \in 1..m
        /\ k + 1 # 0 /\ (k + 1) - 1 = k /\ k <= m
    BY <1>2, <2>1
  <2>3. f[k + 1] = IF k + 1 \in both THEN Append(f[k], c[k + 1]) ELSE f[k]
    BY <1>6, <2>2, KeptStep
  <2>4. g[k + 1] = IF k + 1 \in first THEN Append(g[k], a[k + 1]) ELSE g[k]
    BY <1>6, <2>2, KeptStep
  <2>5. f[k] = g[k] /\ c[k + 1] = a[k + 1] /\ (k + 1 \in both <=> k + 1 \in first)
    BY <1>2, <1>4, <1>9, <2>2
  <2> QED BY <2>3, <2>4, <2>5
<1> HIDE DEF T
<1>10. f[m] = g[m]
  <2>1. \A k \in Nat : k \in T
    BY <1>8, <1>9, SetInduction
  <2> QED BY <2>1 DEF T
<1>11. 0 \in U
  <2>1. h[0] = <<>>
    BY <1>6 DEF IsKeptUpTo
  <2>2. g[m] \in Seq(S)
    BY <1>7
  <2>3. f[Behind(0)] = g[m] \o h[0]
    BY <1>10, <2>1, <2>2, ConcatEmptySeq
  <2> HIDE DEF Behind
  <2> QED BY <2>3
<1>12. ASSUME NEW k \in Nat, k \in U PROVE k + 1 \in U
  <2> HIDE DEF Behind
  <2>1. SUFFICES ASSUME k + 1 <= n PROVE f[Behind(k + 1)] = g[m] \o h[k + 1]
    <3>1. k + 1 <= n => Joint(k + 1)
      OBVIOUS
    <3> HIDE DEF Joint
    <3> QED BY <3>1
  <2>2. PICK j \in Nat : j = m + (k + 1) /\ j = Behind(k + 1)
    BY DEF Behind
  <2>8. f[Behind(k)] = g[m] \o h[k]
    <3> HIDE DEF Joint
    <3>1. Joint(k)
      BY <1>12, <2>1
    <3> QED BY <3>1 DEF Joint
  <2>3. /\ j \in 0..l /\ j # 0 /\ j - 1 = m + k
        /\ k + 1 \in 0..n /\ k + 1 \in 1..n /\ k + 1 # 0 /\ (k + 1) - 1 = k /\ k <= n
        /\ m \in 0..m /\ k \in 0..n
    BY <1>2, <2>1, <2>2
  <2>4. f[j] = IF j \in both THEN Append(f[j - 1], c[j]) ELSE f[j - 1]
    BY <1>6, <2>3 DEF IsKeptUpTo
  <2>5. h[k + 1] = IF k + 1 \in second THEN Append(h[k], b[k + 1]) ELSE h[k]
    BY <1>6, <2>3 DEF IsKeptUpTo
  <2>6. /\ f[j - 1] = g[m] \o h[k] /\ c[j] = b[k + 1] /\ b[k + 1] \in S
        /\ (j \in both <=> k + 1 \in second)
    BY <1>2, <1>4, <2>2, <2>3, <2>8 DEF Behind
  <2>7. Append(g[m] \o h[k], b[k + 1]) = g[m] \o Append(h[k], b[k + 1])
    <3>1. PICK kept, more, x : kept = g[m] /\ more = h[k] /\ x = b[k + 1]
      OBVIOUS
    <3>2. kept \in Seq(S) /\ more \in Seq(S) /\ x \in S
      BY <1>7, <2>3, <2>6, <3>1
    <3>3. kept \o more \in Seq(S) /\ <<x>> \in Seq(S)
      BY <3>2, ConcatProperties
    <3>4. Append(kept \o more, x) = (kept \o more) \o <<x>> /\ Append(more, x) = more \o <<x>>
      BY <3>2, <3>3, AppendIsConcat
    <3>5. Append(kept \o more, x) = kept \o Append(more, x)
      BY <3>2, <3>3, <3>4, ConcatAssociative
    <3> QED BY <3>1, <3>5
  <2> QED BY <2>2, <2>4, <2>5, <2>6, <2>7
<1> HIDE DEF U
<1>13. f[l] = g[m] \o h[n]
  <2>1. \A k \in Nat : k \in U
    BY <1>11, <1>12, SetInduction
  <2>2. l = Behind(n)
    BY <1>2
  <2> HIDE DEF Behind, Joint
  <2>3. Joint(n)
    BY <2>1 DEF U
  <2> QED BY <2>2, <2>3 DEF Joint
<1> QED BY <1>2, <1>3, <1>4, <1>5, <1>13 DEF Kept

\* Of one element is kept that, or nothing.
LEMMA KeptSingle ==
  ASSUME NEW x, NEW places
  PROVE  Kept(<<x>>, places) = IF 1 \in places THEN <<x>> ELSE <<>>
<1>1. PICK s : s = <<x>>
  OBVIOUS
<1>2. Len(s) = 1 /\ s[1] = x
  BY <1>1
<1>3. IsKeptUpTo(KeptUpTo(s, places), s, places, 1)
  BY <1>2, KeptUpToDef
<1>4. /\ KeptUpTo(s, places)[0] = <<>>
      /\ KeptUpTo(s, places)[1] = IF 1 \in places THEN Append(<<>>, x) ELSE <<>>
  BY <1>2, <1>3 DEF IsKeptUpTo
<1>5. Append(<<>>, x) = <<x>>
  OBVIOUS
<1> QED BY <1>1, <1>2, <1>4, <1>5 DEF Kept

\* And nothing of nothing.
LEMMA KeptNothing ==
  ASSUME NEW places
  PROVE  Kept(<<>>, places) = <<>>
<1>1. PICK s : s = <<>>
  OBVIOUS
<1>2. Len(s) = 0
  BY <1>1
<1>3. IsKeptUpTo(KeptUpTo(s, places), s, places, 0)
  BY <1>2, KeptUpToDef
<1>4. KeptUpTo(s, places)[0] = <<>>
  BY <1>3 DEF IsKeptUpTo
<1> QED BY <1>1, <1>2, <1>4 DEF Kept

-----------------------------------------------------------------------------
(* What user mode puts is what expert mode puts, without some titles.      *)

\* User and expert mode, for one signer.
Modes(user, expert) ==
  user.expert = FALSE /\ expert.expert = TRUE /\ user.signer = expert.signer

\* What is put in user mode is what is put in expert mode without some titles.
Thinned(user, expert, hidden) ==
  /\ IsSeq(expert)
  /\ user = Kept(expert, {i \in 1..Len(expert) : expert[i].item.title \notin hidden})

\* Two parts without the titles are the whole without them.
LEMMA ThinnedTogether ==
  ASSUME NEW a, NEW b, NEW c, NEW d, NEW hidden, Thinned(a, b, hidden), Thinned(c, d, hidden)
  PROVE  Thinned(a \o c, b \o d, hidden)
<1> DEFINE Places(s) == {i \in 1..Len(s) : s[i].item.title \notin hidden}
<1>1. IsSeq(b) /\ IsSeq(d) /\ a = Kept(b, Places(b)) /\ c = Kept(d, Places(d))
  BY DEF Thinned
<1>2. PICK whole : whole = b \o d
  OBVIOUS
<1>3. PICK m \in Nat, n \in Nat : m = Len(b) /\ n = Len(d)
  BY <1>1, Concatenation
<1>4. /\ IsSeq(whole) /\ Len(whole) = m + n
      /\ \A i \in 1..m : whole[i] = b[i]
      /\ \A i \in 1..n : whole[m + i] = d[i]
  BY <1>1, <1>2, <1>3, Concatenation
<1>5. \A i \in 1..Len(b) : i \in Places(whole) <=> i \in Places(b)
  BY <1>3, <1>4
<1>6. \A i \in 1..Len(d) : Len(b) + i \in Places(whole) <=> i \in Places(d)
  <2>1. \A i \in 1..n : m + i \in 1..(m + n)
    OBVIOUS
  <2> QED BY <1>3, <1>4, <2>1
<1> HIDE DEF Places
<1>7. Kept(whole, Places(whole)) = a \o c
  <2>1. PICK first, second, both :
          first = Places(b) /\ second = Places(d) /\ both = Places(whole)
    OBVIOUS
  <2>2. \A i \in 1..Len(b) : i \in both <=> i \in first
    BY <1>5, <2>1
  <2>3. \A i \in 1..Len(d) : Len(b) + i \in both <=> i \in second
    BY <1>6, <2>1
  <2>4. Kept(b \o d, both) = Kept(b, first) \o Kept(d, second)
    BY <1>1, <2>2, <2>3, KeptTogether
  <2> QED BY <1>1, <1>2, <2>1, <2>4
<1> QED BY <1>2, <1>4, <1>7 DEF Thinned, Places

\* Nothing is nothing in both modes.
LEMMA ThinnedNothing ==
  ASSUME NEW hidden
  PROVE  Thinned(<<>>, <<>>, hidden)
<1>1. <<>> \in Seq({})
  OBVIOUS
<1> QED BY <1>1, KeptNothing DEF Thinned, IsSeq

\* A step is shown in both modes, or to experts only, as its title is.
LEMMA ThinnedPut ==
  ASSUME NEW slot, NEW kind, NEW title, NEW value, NEW hidden
  PROVE  LET put == PrintTo(slot, kind, title, value)
         IN  /\ title \notin hidden => Thinned(put, put, hidden)
             /\ title \in hidden => Thinned(<<>>, put, hidden)
<1>1. PICK x : x = [slot |-> slot, item |-> Item(kind, title, value)]
  OBVIOUS
<1>2. x.item.title = title
  BY <1>1 DEF Item
<1>3. PICK put : put = <<x>>
  OBVIOUS
<1>4. put = PrintTo(slot, kind, title, value)
  BY <1>1, <1>3 DEF PrintTo
<1>5. IsSeq(put) /\ Len(put) = 1 /\ put[1] = x
  <2>1. put \in Seq({x})
    BY <1>3
  <2> QED BY <1>3, <2>1 DEF IsSeq
<1>6. PICK places : places = {i \in 1..Len(put) : put[i].item.title \notin hidden}
  OBVIOUS
<1>7. 1 \in places <=> title \notin hidden
  BY <1>2, <1>5, <1>6
<1>8. Kept(put, places) = IF 1 \in places THEN put ELSE <<>>
  BY <1>3, KeptSingle
<1> QED BY <1>4, <1>5, <1>6, <1>7, <1>8 DEF Thinned

\* What both modes show under a condition of neither.
LEMMA ThinnedWhen ==
  ASSUME NEW a, NEW b, NEW hidden, Thinned(a, b, hidden), NEW condition
  PROVE  Thinned(When(condition, a), When(condition, b), hidden)
BY ThinnedNothing DEF When

\* What only experts are shown.
LEMMA ThinnedExperts ==
  ASSUME NEW user, NEW expert, Modes(user, expert),
         NEW a, NEW b, NEW hidden, Thinned(<<>>, b, hidden)
  PROVE  Thinned(When(user.expert, a), When(expert.expert, b), hidden)
BY DEF When, Modes

\* An authority is shown to experts only when it is the signer.
LEMMA ThinnedAuthority ==
  ASSUME NEW user, NEW expert, Modes(user, expert), NEW title, NEW key, NEW hidden,
         title \in hidden <=> key = user.signer
  PROVE  Thinned(Authority(user, title, key), Authority(expert, title, key), hidden)
<1> DEFINE put == Pubkey(title, key)
<1>1. IF key = user.signer THEN Thinned(<<>>, put, hidden) ELSE Thinned(put, put, hidden)
  BY ThinnedPut DEF Pubkey, General
<1> HIDE DEF put
<1>2. Authority(expert, title, key) = put
  BY DEF Authority, When, Modes, print_config_show_authority, put
<1>3. Authority(user, title, key) = IF key = user.signer THEN <<>> ELSE put
  BY DEF Authority, When, Modes, print_config_show_authority, put
<1> QED BY <1>1, <1>2, <1>3

\* Keys, general and primary items that both modes show.
LEMMA ThinnedItems ==
  ASSUME NEW kind, NEW title, NEW value, NEW hidden, title \notin hidden
  PROVE  /\ Thinned(Primary(kind, title, value), Primary(kind, title, value), hidden)
         /\ Thinned(General(kind, title, value), General(kind, title, value), hidden)
         /\ Thinned(Pubkey(title, value), Pubkey(title, value), hidden)
         /\ Thinned(OptionalPrimary(title, value), OptionalPrimary(title, value), hidden)
BY ThinnedPut, ThinnedNothing DEF Primary, General, Pubkey, OptionalPrimary

\* What user mode puts is put in expert mode too, in that order, with more between.
LEMMA ThinnedKept ==
  ASSUME NEW user, NEW expert, NEW hidden, Thinned(user, expert, hidden)
  PROVE  user = Kept(expert, {i \in DOMAIN expert : \E j \in DOMAIN user : user[j] = expert[i]})
<1>1. PICK places : places = {i \in 1..Len(expert) : expert[i].item.title \notin hidden}
  OBVIOUS
<1>2. IsSeq(expert) /\ user = Kept(expert, places)
  BY <1>1 DEF Thinned
<1>3. PICK n \in Nat : n = Len(expert) /\ DOMAIN expert = 1..n
  <2>1. PICK S : expert \in Seq(S)
    BY <1>2 DEF IsSeq
  <2> QED BY <2>1, LenProperties
<1>4. PICK at : KeptAt(at, user, expert, places, n)
  BY <1>2, <1>3, KeptProperties
<1>5. DOMAIN user = 1..Len(user)
  BY <1>4, LenProperties DEF KeptAt
<1>6. \A i \in 1..n : (\E j \in DOMAIN user : user[j] = expert[i]) <=> i \in places
  <2>1. SUFFICES ASSUME NEW i \in 1..n
                 PROVE  (\E j \in DOMAIN user : user[j] = expert[i]) <=> i \in places
    OBVIOUS
  <2>2. ASSUME NEW j \in DOMAIN user, user[j] = expert[i] PROVE i \in places
    <3>1. at[j] \in places /\ user[j] = expert[at[j]]
      BY <1>4, <1>5, <2>2 DEF KeptAt
    <3> QED BY <1>1, <1>3, <2>2, <3>1
  <2>3. ASSUME i \in places PROVE \E j \in DOMAIN user : user[j] = expert[i]
    <3>1. PICK j \in 1..Len(user) : at[j] = i
      BY <1>4, <2>3 DEF KeptAt
    <3>2. user[j] = expert[at[j]]
      BY <1>4, <3>1 DEF KeptAt
    <3> QED BY <1>5, <3>1, <3>2
  <2> QED BY <2>2, <2>3
<1>7. {i \in DOMAIN expert : \E j \in DOMAIN user : user[j] = expert[i]} = places
  BY <1>1, <1>3, <1>6
<1> QED BY <1>2, <1>7

-----------------------------------------------------------------------------
(* So is it for every instruction, alone or with others: which titles user *)
(* mode goes without depends on who signs.                                 *)

\* The titles of a nonce are for experts, whatever comes after it.
NonceTitles == {"Nonce_account", "Nonce_authority"}
ThinnedBy(user, expert) ==
  \E hidden : NonceTitles \subseteq hidden /\ Thinned(user, expert, hidden)

\* A title of an authority is hidden just if that is the signer.
HiddenWith(config, titles, key) == {title \in titles : key = config.signer}

\* Base and seed are for experts.
LEMMA SeededThinned ==
  ASSUME NEW user, NEW expert, Modes(user, expert), NEW info,
         NEW hidden, {"Base", "Seed"} \subseteq hidden
  PROVE  Thinned(Seeded(info, user), Seeded(info, expert), hidden)
<1>1. PICK base, seed : base = Pubkey("Base", info.base) /\ seed = General("SizedString", "Seed", info.seed)
  OBVIOUS
<1>2. Thinned(<<>>, base, hidden) /\ Thinned(<<>>, seed, hidden)
  BY <1>1, ThinnedPut DEF Pubkey, General
<1>3. Thinned(<<>> \o <<>>, base \o seed, hidden)
  BY <1>2, ThinnedTogether
<1>4. <<>> \o <<>> = <<>>
  OBVIOUS
<1>5. Thinned(<<>>, base \o seed, hidden)
  BY <1>3, <1>4
<1> QED BY <1>1, <1>5, ThinnedExperts DEF Seeded

\* A created account: whoever funds it is an authority.
LEMMA CreateInfoThinned ==
  ASSUME NEW user, NEW expert, Modes(user, expert), NEW title, NEW info,
         NEW hidden, title \notin hidden, "Deposit" \notin hidden,
         "From" \in hidden <=> info.from = user.signer, {"Base", "Seed"} \subseteq hidden
  PROVE  /\ Thinned(print_system_create_account_info(title, info, user),
                    print_system_create_account_info(title, info, expert), hidden)
         /\ Thinned(print_system_create_account_with_seed_info(title, info, user),
                    print_system_create_account_with_seed_info(title, info, expert), hidden)
<1>1. Thinned(print_system_create_account_info(title, info, user),
              print_system_create_account_info(title, info, expert), hidden)
  BY ThinnedItems, ThinnedAuthority, ThinnedTogether DEF print_system_create_account_info
<1>2. Thinned(Seeded(info, user), Seeded(info, expert), hidden)
  BY SeededThinned
<1> QED
  BY <1>1, <1>2, ThinnedTogether DEF print_system_create_account_with_seed_info

\* An instruction of the system program: experts see more of it.
LEMMA SystemThinned ==
  ASSUME NEW user, NEW expert, Modes(user, expert), NEW info, info.kind \in SystemKinds
  PROVE  ThinnedBy(print_system_info(info, user), print_system_info(info, expert))
<1>1. PICK hidden : hidden = NonceTitles \cup HiddenWith(user, {"Authorized_by"}, info.authority)
  OBVIOUS
<1>2. PICK funded : funded = NonceTitles \cup {"Base", "Seed"} \cup HiddenWith(user, {"Sender", "From"}, info.from)
  OBVIOUS
<1>3. /\ "Authorized_by" \in hidden <=> info.authority = user.signer
      /\ {"Nonce_withdraw", "From", "To", "New_authority", "Advance_nonce", "Init_nonce_acct",
          "Set_nonce_auth"} \cap hidden = {}
      /\ NonceTitles \subseteq hidden
  BY <1>1 DEF NonceTitles, HiddenWith
<1>4. /\ "From" \in funded <=> info.from = user.signer
      /\ "Sender" \in funded <=> info.from = user.signer
      /\ {"Base", "Seed"} \subseteq funded
      /\ {"Transfer", "Recipient", "Create_account", "Deposit", "Assign_acct", "To_program",
          "Allocate_acct", "Data_size"} \cap funded = {}
      /\ NonceTitles \subseteq funded
  BY <1>2 DEF NonceTitles, HiddenWith
<1>5. CASE info.kind = "Transfer"
  <2>1. Thinned(print_system_info(info, user), print_system_info(info, expert), funded)
    BY <1>4, <1>5, ThinnedItems, ThinnedAuthority, ThinnedTogether DEF print_system_info
  <2> QED BY <1>4, <2>1 DEF ThinnedBy
<1>6. CASE info.kind = "AdvanceNonceAccount"
  <2>1. Thinned(print_system_info(info, user), print_system_info(info, expert), hidden)
    BY <1>3, <1>6, ThinnedItems, ThinnedAuthority, ThinnedTogether DEF print_system_info
  <2> QED BY <1>3, <2>1 DEF ThinnedBy
<1>7. CASE info.kind \in {"CreateAccount", "CreateAccountWithSeed"}
  <2>1. Thinned(print_system_info(info, user), print_system_info(info, expert), funded)
    BY <1>4, <1>7, CreateInfoThinned DEF print_system_info
  <2> QED BY <1>4, <2>1 DEF ThinnedBy
<1>8. CASE info.kind = "InitializeNonceAccount"
  <2>1. Thinned(print_system_info(info, user), print_system_info(info, expert), hidden)
    BY <1>3, <1>8, ThinnedItems, ThinnedTogether
       DEF print_system_info, print_system_initialize_nonce_info
  <2> QED BY <1>3, <2>1 DEF ThinnedBy
<1>9. CASE info.kind = "WithdrawNonceAccount"
  <2>1. Thinned(print_system_info(info, user), print_system_info(info, expert), hidden)
    BY <1>3, <1>9, ThinnedItems, ThinnedAuthority, ThinnedTogether DEF print_system_info
  <2> QED BY <1>3, <2>1 DEF ThinnedBy
<1>10. CASE info.kind = "AuthorizeNonceAccount"
  <2>1. Thinned(print_system_info(info, user), print_system_info(info, expert), hidden)
    BY <1>3, <1>10, ThinnedItems, ThinnedAuthority, ThinnedTogether DEF print_system_info
  <2> QED BY <1>3, <2>1 DEF ThinnedBy
<1>11. CASE info.kind \in {"Assign", "Allocate"}
  <2>1. Thinned(print_system_info(info, user), print_system_info(info, expert), funded)
    BY <1>4, <1>11, ThinnedItems, ThinnedTogether DEF print_system_info
  <2> QED BY <1>4, <2>1 DEF ThinnedBy
<1>12. CASE info.kind = "AllocateWithSeed"
  <2>1. Thinned(print_system_info(info, user), print_system_info(info, expert), funded)
    BY <1>4, <1>12, ThinnedItems, SeededThinned, ThinnedTogether DEF print_system_info
  <2> QED BY <1>4, <2>1 DEF ThinnedBy
<1> QED
  BY <1>5, <1>6, <1>7, <1>8, <1>9, <1>10, <1>11, <1>12
     DEF SystemKinds, SystemNonceLayouts, SystemAccountLayouts

\* A stake that is delegated, as a part and on its own.
LEMMA DelegateThinned ==
  ASSUME NEW user, NEW expert, Modes(user, expert), NEW title, NEW info,
         NEW hidden, {title, "Vote_account"} \cap hidden = {},
         "Authorized_by" \in hidden <=> info.authorized_pubkey = user.signer
  PROVE  Thinned(print_delegate_stake_info(title, info, user),
                 print_delegate_stake_info(title, info, expert), hidden)
BY ThinnedItems, ThinnedAuthority, ThinnedTogether DEF print_delegate_stake_info

\* The new authorities of an account are shown in both modes.
LEMMA NewAuthoritiesThinned ==
  ASSUME NEW same, NEW staker, NEW withdrawer, NEW same_title, NEW staker_title, NEW hidden,
         {same_title, staker_title, "New_withdraw_auth"} \cap hidden = {}
  PROVE  Thinned(NewAuthorities(same, staker, withdrawer, same_title, staker_title),
                 NewAuthorities(same, staker, withdrawer, same_title, staker_title), hidden)
BY ThinnedItems, ThinnedTogether DEF NewAuthorities

\* That there is no lockup is for experts.
LEMMA LockupThinned ==
  ASSUME NEW user, NEW expert, Modes(user, expert), NEW lockup,
         NEW hidden, {"Lockup_time", "Lockup_epoch", "Lockup_authority"} \cap hidden = {},
         "Lockup" \in hidden
  PROVE  Thinned(Lockup(lockup, user), Lockup(lockup, expert), hidden)
<1>1. PICK locked : locked = (lockup.unix_timestamp > 0 \/ lockup.epoch > 0)
  OBVIOUS
<1>2. PICK time, epoch, authority, none :
        /\ time = When(lockup.unix_timestamp > 0,
                       General("Timestamp", "Lockup_time", lockup.unix_timestamp))
        /\ epoch = When(lockup.epoch > 0, General("U64", "Lockup_epoch", lockup.epoch))
        /\ authority = When(lockup.unix_timestamp > 0 \/ lockup.epoch > 0,
                            Pubkey("Lockup_authority", lockup.custodian))
        /\ none = General("String", "Lockup", "None")
  OBVIOUS
<1>3. Thinned(time, time, hidden) /\ Thinned(epoch, epoch, hidden)
        /\ Thinned(authority, authority, hidden)
  BY <1>2, ThinnedItems, ThinnedWhen
<1>4. Thinned(<<>>, none, hidden)
  BY <1>2, ThinnedPut DEF General
<1>5. PICK plain, more : /\ plain = When(~locked /\ user.expert, none)
                         /\ more = When(~locked /\ expert.expert, none)
  OBVIOUS
<1>6. plain = <<>> /\ more = When(~locked, none)
  BY <1>5 DEF When, Modes
<1>7. Thinned(plain, more, hidden)
  BY <1>4, <1>6, ThinnedNothing DEF When
<1>8. Thinned(time \o epoch \o authority \o plain, time \o epoch \o authority \o more, hidden)
  BY <1>3, <1>7, ThinnedTogether
<1>9. /\ Lockup(lockup, user) = time \o epoch \o authority \o plain
      /\ Lockup(lockup, expert) = time \o epoch \o authority \o more
  BY <1>1, <1>2, <1>5, Zenon DEF Lockup
<1> QED BY <1>8, <1>9

\* A stake account that is initialized, as a part and on its own.
LEMMA StakeInitializeThinned ==
  ASSUME NEW user, NEW expert, Modes(user, expert), NEW title, NEW info,
         NEW hidden, "Lockup" \in hidden,
         {title, "New_authority", "New_stake_auth", "New_withdraw_auth", "Lockup_time",
          "Lockup_epoch", "Lockup_authority"} \cap hidden = {}
  PROVE  Thinned(print_stake_initialize_info(title, info, user),
                 print_stake_initialize_info(title, info, expert), hidden)
<1>1. Thinned(Lockup(info.lockup, user), Lockup(info.lockup, expert), hidden)
  BY LockupThinned
<1> QED
  BY <1>1, ThinnedItems, NewAuthoritiesThinned, ThinnedTogether DEF print_stake_initialize_info

\* An instruction of the stake program: experts see more of it.
LEMMA StakeThinned ==
  ASSUME NEW user, NEW expert, Modes(user, expert), NEW info, info.kind \in StakeKinds
  PROVE  ThinnedBy(print_stake_info(info, user), print_stake_info(info, expert))
<1>1. PICK hidden : hidden = NonceTitles \cup {"Lockup"} \cup
                             HiddenWith(user, {"Authorized_by"}, info.authority) \cup
                             HiddenWith(user, {"Custodian"}, info.custodian)
  OBVIOUS
<1>2. /\ "Authorized_by" \in hidden <=> info.authority = user.signer
      /\ "Custodian" \in hidden <=> info.custodian = user.signer
      /\ "Lockup" \in hidden
      /\ {"Init_stake_acct", "New_authority", "New_stake_auth", "New_withdraw_auth",
          "Lockup_time", "Lockup_epoch", "Lockup_authority", "Stake_withdraw", "From", "To",
          "Set_stake_auth", "Deactivate_stake", "Split_stake", "Merge", "Into"} \cap hidden = {}
      /\ NonceTitles \subseteq hidden
  BY <1>1 DEF NonceTitles, HiddenWith
<1>3. CASE info.kind = "Delegate"
  <2>1. PICK delegated : delegated = NonceTitles \cup
                           HiddenWith(user, {"Authorized_by"}, info.authorized_pubkey)
    OBVIOUS
  <2>2. /\ "Authorized_by" \in delegated <=> info.authorized_pubkey = user.signer
        /\ {"Delegate_from", "Vote_account"} \cap delegated = {}
        /\ NonceTitles \subseteq delegated
    BY <2>1 DEF NonceTitles, HiddenWith
  <2>3. Thinned(print_stake_info(info, user), print_stake_info(info, expert), delegated)
    BY <1>3, <2>2, DelegateThinned DEF print_stake_info
  <2> QED BY <2>2, <2>3 DEF ThinnedBy
<1>4. CASE info.kind \in {"Initialize", "InitializeChecked"}
  <2>1. Thinned(print_stake_info(info, user), print_stake_info(info, expert), hidden)
    BY <1>2, <1>4, StakeInitializeThinned DEF print_stake_info
  <2> QED BY <1>2, <2>1 DEF ThinnedBy
<1>5. CASE info.kind = "Withdraw"
  <2>1. Thinned(print_stake_info(info, user), print_stake_info(info, expert), hidden)
    BY <1>2, <1>5, ThinnedItems, ThinnedAuthority, ThinnedTogether DEF print_stake_info
  <2> QED BY <1>2, <2>1 DEF ThinnedBy
<1>6. CASE info.kind \in {"Authorize", "AuthorizeChecked"}
  <2>1. Thinned(When(info.custodian # NoKey, Authority(user, "Custodian", info.custodian)),
                When(info.custodian # NoKey, Authority(expert, "Custodian", info.custodian)), hidden)
    BY <1>2, ThinnedAuthority, ThinnedWhen
  <2>2. PICK title : title = IF info.authorize = "Staker" THEN "New_stake_auth"
                             ELSE "New_withdraw_auth"
    OBVIOUS
  <2>3. title \notin hidden
    BY <1>2, <2>2
  <2>4. Thinned(print_stake_info(info, user), print_stake_info(info, expert), hidden)
    BY <1>2, <1>6, <2>1, <2>2, <2>3, ThinnedItems, ThinnedAuthority, ThinnedTogether
       DEF print_stake_info
  <2> QED BY <1>2, <2>4 DEF ThinnedBy
<1>7. CASE info.kind = "Deactivate"
  <2>1. Thinned(print_stake_info(info, user), print_stake_info(info, expert), hidden)
    BY <1>2, <1>7, ThinnedItems, ThinnedAuthority, ThinnedTogether DEF print_stake_info
  <2> QED BY <1>2, <2>1 DEF ThinnedBy
<1>8. CASE info.kind \in {"SetLockup", "SetLockupChecked"}
  <2>1. PICK set : set = NonceTitles \cup HiddenWith(user, {"Authorized_by"}, info.custodian)
    OBVIOUS
  <2>2. /\ "Authorized_by" \in set <=> info.custodian = user.signer
        /\ {"Set_lockup", "Time", "Epoch", "New_authority"} \cap set = {}
        /\ NonceTitles \subseteq set
    BY <2>1 DEF NonceTitles, HiddenWith
  <2>3. PICK time, epoch, custodian :
          /\ time = When("Timestamp" \in info.lockup.present,
                         General("Timestamp", "Time", info.lockup.unix_timestamp))
          /\ epoch = When("Epoch" \in info.lockup.present,
                          General("U64", "Epoch", info.lockup.epoch))
          /\ custodian = When("Custodian" \in info.lockup.present,
                              Pubkey("New_authority", info.lockup.custodian))
    OBVIOUS
  <2>4. Thinned(time, time, set) /\ Thinned(epoch, epoch, set) /\ Thinned(custodian, custodian, set)
    BY <2>2, <2>3, ThinnedItems, ThinnedWhen
  <2>5. Thinned(print_stake_info(info, user), print_stake_info(info, expert), set)
    BY <1>8, <2>2, <2>3, <2>4, ThinnedItems, ThinnedAuthority, ThinnedTogether
       DEF print_stake_info
  <2> QED BY <2>2, <2>5 DEF ThinnedBy
<1>9. CASE info.kind = "Split"
  <2>1. Thinned(print_stake_info(info, user), print_stake_info(info, expert), hidden)
    BY <1>2, <1>9, ThinnedItems, ThinnedAuthority, ThinnedTogether
       DEF print_stake_info, print_stake_split_info1, print_stake_split_info2
  <2> QED BY <1>2, <2>1 DEF ThinnedBy
<1>10. CASE info.kind = "Merge"
  <2>1. Thinned(print_stake_info(info, user), print_stake_info(info, expert), hidden)
    BY <1>2, <1>10, ThinnedItems, ThinnedAuthority, ThinnedTogether DEF print_stake_info
  <2> QED BY <1>2, <2>1 DEF ThinnedBy
<1> QED
  BY <1>3, <1>4, <1>5, <1>6, <1>7, <1>8, <1>9, <1>10
     DEF StakeKinds, StakeMoveLayouts, StakeInitializeLayouts, StakeAuthorizeLayouts,
         StakeLockupLayouts

\* A vote account that is initialized is shown in full, as a part and on its own.
LEMMA VoteInitializeThinned ==
  ASSUME NEW title, NEW info, NEW hidden,
         {title, "Validator_ID", "New_vote_auth", "New_withdraw_auth", "Commission"}
           \cap hidden = {}
  PROVE  Thinned(print_vote_initialize_info(title, info),
                 print_vote_initialize_info(title, info), hidden)
BY ThinnedItems, ThinnedTogether DEF print_vote_initialize_info

\* An instruction of the vote program: experts see more of it.
LEMMA VoteThinned ==
  ASSUME NEW user, NEW expert, Modes(user, expert), NEW info, info.kind \in VoteKinds
  PROVE  ThinnedBy(print_vote_info(info, user), print_vote_info(info, expert))
<1>1. PICK hidden : hidden = NonceTitles \cup HiddenWith(user, {"Authorized_by"}, info.authority)
  OBVIOUS
<1>2. /\ "Authorized_by" \in hidden <=> info.authority = user.signer
      /\ {"Init_vote_acct", "Validator_ID", "New_vote_auth", "New_withdraw_auth", "Commission",
          "Vote_withdraw", "From", "To", "Set_vote_auth", "Update_validator",
          "New_validator_ID", "Update_commission"} \cap hidden = {}
      /\ NonceTitles \subseteq hidden
  BY <1>1 DEF NonceTitles, HiddenWith
<1>3. Thinned(print_vote_info(info, user), print_vote_info(info, expert), hidden)
  <2>1. CASE info.kind = "Initialize"
    BY <1>2, <2>1, VoteInitializeThinned DEF print_vote_info
  <2>2. CASE info.kind = "Withdraw"
    BY <1>2, <2>2, ThinnedItems, ThinnedAuthority, ThinnedTogether DEF print_vote_info
  <2>3. CASE info.kind \in {"Authorize", "AuthorizeChecked"}
    <3>1. PICK title : title = IF info.authorize = "Voter" THEN "New_vote_auth"
                               ELSE "New_withdraw_auth"
      OBVIOUS
    <3>2. title \notin hidden
      BY <1>2, <3>1
    <3> QED
      BY <1>2, <2>3, <3>1, <3>2, ThinnedItems, ThinnedAuthority, ThinnedTogether
         DEF print_vote_info
  <2>4. CASE info.kind = "UpdateValidatorId"
    BY <1>2, <2>4, ThinnedItems, ThinnedAuthority, ThinnedTogether DEF print_vote_info
  <2>5. CASE info.kind = "UpdateCommission"
    BY <1>2, <2>5, ThinnedItems, ThinnedAuthority, ThinnedTogether DEF print_vote_info
  <2> QED BY <2>1, <2>2, <2>3, <2>4, <2>5 DEF VoteKinds, VoteLayouts
<1> QED BY <1>2, <1>3 DEF ThinnedBy

\* A title of an owner is hidden just if a single owner is the signer.
HiddenOwner(config, sign) ==
  {title \in {"Owner"} : sign.kind = "Single" /\ sign.account = config.signer}

\* An owner is an authority, and a multisig account is shown with its signers.
LEMMA OwnerThinned ==
  ASSUME NEW user, NEW expert, Modes(user, expert), NEW sign,
         NEW hidden, "Signers" \notin hidden,
         "Owner" \in hidden <=> (sign.kind = "Single" /\ sign.account = user.signer)
  PROVE  Thinned(Owner(sign, user), Owner(sign, expert), hidden)
<1>1. CASE sign.kind = "Single"
  BY <1>1, ThinnedAuthority DEF Owner
<1>2. CASE sign.kind # "Single"
  BY <1>2, ThinnedItems, ThinnedTogether DEF Owner
<1> QED BY <1>1, <1>2

\* An amount of tokens is shown in both modes.
LEMMA TokenAmountThinned ==
  ASSUME NEW slot, NEW title, NEW info, NEW hidden, title \notin hidden
  PROVE  Thinned(TokenAmount(slot, title, info), TokenAmount(slot, title, info), hidden)
BY ThinnedPut DEF TokenAmount

\* And so is a threshold.
LEMMA MultisigThinned ==
  ASSUME NEW m, NEW n, NEW hidden, "Required_signers" \notin hidden
  PROVE  Thinned(summary_item_set_multisig_m_of_n(m, n),
                 summary_item_set_multisig_m_of_n(m, n), hidden)
BY ThinnedItems, ThinnedWhen DEF summary_item_set_multisig_m_of_n

\* A transfer of tokens, on its own and behind a new account.
LEMMA TransferThinned ==
  ASSUME NEW user, NEW expert, Modes(user, expert), NEW slot, NEW info,
         NEW hidden, {"Transfer_tokens", "From", "To", "Signers"} \cap hidden = {},
         "Owner" \in hidden <=> (info.sign.kind = "Single" /\ info.sign.account = user.signer)
  PROVE  Thinned(print_rpl_token_transfer_info(slot, info, user),
                 print_rpl_token_transfer_info(slot, info, expert), hidden)
<1>1. Thinned(Owner(info.sign, user), Owner(info.sign, expert), hidden)
  BY OwnerThinned
<1> QED
  BY <1>1, TokenAmountThinned, ThinnedItems, ThinnedTogether DEF print_rpl_token_transfer_info

\* A mint that an account names already is for experts.
LEMMA ExpertsKeyThinned ==
  ASSUME NEW user, NEW expert, Modes(user, expert), NEW title, NEW key,
         NEW hidden, title \in hidden
  PROVE  Thinned(When(user.expert, Pubkey(title, key)), When(expert.expert, Pubkey(title, key)),
                 hidden)
<1>1. Thinned(<<>>, Pubkey(title, key), hidden)
  BY ThinnedPut DEF Pubkey, General
<1> QED BY <1>1, ThinnedExperts

\* An instruction of the token program: experts see more of it.
LEMMA TokenThinned ==
  ASSUME NEW user, NEW expert, Modes(user, expert), NEW info, info.kind \in TokenKinds
  PROVE  ThinnedBy(print_rpl_token_info(info, user), print_rpl_token_info(info, expert))
<1>1. PICK hidden : hidden = NonceTitles \cup HiddenOwner(user, info.sign)
  OBVIOUS
<1>2. /\ "Owner" \in hidden <=> (info.sign.kind = "Single" /\ info.sign.account = user.signer)
      /\ {"Signers", "Revoke_delegate", "Clear_authority", "Set_authority", "Type",
          "Authority", "Close_acct", "Withdraw_to", "Transfer_tokens", "From", "To",
          "Approve_delegate", "Allowance", "Burn_tokens"} \cap hidden = {}
      /\ NonceTitles \subseteq hidden
  BY <1>1 DEF NonceTitles, HiddenOwner
<1>3. Thinned(Owner(info.sign, user), Owner(info.sign, expert), hidden)
  BY <1>2, OwnerThinned
<1>4. PICK bare : bare = NonceTitles
  OBVIOUS
<1>5. /\ {"Init_mint", "Mint_authority", "Decimals", "Freeze_authority", "Init_acct", "Owner",
          "Mint", "Init_multisig", "Required_signers", "Sync_native_acct"} \cap bare = {}
      /\ NonceTitles \subseteq bare
  BY <1>4 DEF NonceTitles
<1>6. PICK minted : minted = hidden \cup {"Mint", "From"}
  OBVIOUS
<1>7. /\ "Owner" \in minted <=> (info.sign.kind = "Single" /\ info.sign.account = user.signer)
      /\ {"Mint", "From"} \subseteq minted
      /\ {"Signers", "Freeze_acct", "Thaw_acct", "Mint_tokens", "To"} \cap minted = {}
      /\ NonceTitles \subseteq minted
  BY <1>1, <1>6 DEF NonceTitles, HiddenOwner
<1>8. Thinned(Owner(info.sign, user), Owner(info.sign, expert), minted)
  BY <1>7, OwnerThinned
<1>9. /\ Thinned(When(user.expert, Pubkey("Mint", info.mint_account)),
                 When(expert.expert, Pubkey("Mint", info.mint_account)), minted)
      /\ Thinned(When(user.expert, Pubkey("From", info.mint_account)),
                 When(expert.expert, Pubkey("From", info.mint_account)), minted)
  BY <1>7, ExpertsKeyThinned
<1>10. CASE info.kind = "InitializeMint"
  <2>1. PICK freeze : freeze = When(info.freeze_authority # NoKey,
                                    Pubkey("Freeze_authority", info.freeze_authority))
    OBVIOUS
  <2>2. Thinned(freeze, freeze, bare)
    BY <1>5, <2>1, ThinnedItems, ThinnedWhen
  <2>3. Thinned(print_rpl_token_info(info, user), print_rpl_token_info(info, expert), bare)
    BY <1>5, <1>10, <2>1, <2>2, ThinnedItems, ThinnedTogether DEF print_rpl_token_info
  <2> QED BY <1>5, <2>3 DEF ThinnedBy
<1>11. CASE info.kind \in {"InitializeAccount", "InitializeAccount2"}
  <2>1. Thinned(print_rpl_token_info(info, user), print_rpl_token_info(info, expert), bare)
    BY <1>5, <1>11, ThinnedItems, ThinnedTogether DEF print_rpl_token_info
  <2> QED BY <1>5, <2>1 DEF ThinnedBy
<1>12. CASE info.kind = "InitializeMultisig"
  <2>1. Thinned(print_rpl_token_info(info, user), print_rpl_token_info(info, expert), bare)
    BY <1>5, <1>12, ThinnedItems, MultisigThinned, ThinnedTogether DEF print_rpl_token_info
  <2> QED BY <1>5, <2>1 DEF ThinnedBy
<1>13. CASE info.kind = "Revoke"
  <2>1. Thinned(print_rpl_token_info(info, user), print_rpl_token_info(info, expert), hidden)
    BY <1>2, <1>3, <1>13, ThinnedItems, ThinnedTogether DEF print_rpl_token_info
  <2> QED BY <1>2, <2>1 DEF ThinnedBy
<1>14. CASE info.kind = "SetAuthority"
  <2>1. PICK title, authority :
          /\ title = IF info.new_authority = NoKey THEN "Clear_authority" ELSE "Set_authority"
          /\ authority = When(info.new_authority # NoKey, Pubkey("Authority", info.new_authority))
    OBVIOUS
  <2>2. title \notin hidden /\ Thinned(authority, authority, hidden)
    BY <1>2, <2>1, ThinnedItems, ThinnedWhen
  <2>3. Thinned(print_rpl_token_info(info, user), print_rpl_token_info(info, expert), hidden)
    BY <1>2, <1>3, <1>14, <2>1, <2>2, ThinnedItems, ThinnedTogether DEF print_rpl_token_info
  <2> QED BY <1>2, <2>3 DEF ThinnedBy
<1>15. CASE info.kind = "CloseAccount"
  <2>1. Thinned(print_rpl_token_info(info, user), print_rpl_token_info(info, expert), hidden)
    BY <1>2, <1>3, <1>15, ThinnedItems, ThinnedTogether DEF print_rpl_token_info
  <2> QED BY <1>2, <2>1 DEF ThinnedBy
<1>16. CASE info.kind \in {"FreezeAccount", "ThawAccount"}
  <2>1. Thinned(print_rpl_token_info(info, user), print_rpl_token_info(info, expert), minted)
    BY <1>7, <1>8, <1>9, <1>16, ThinnedItems, ThinnedTogether DEF print_rpl_token_info
  <2> QED BY <1>7, <2>1 DEF ThinnedBy
<1>17. CASE info.kind = "TransferChecked"
  <2>1. Thinned(print_rpl_token_info(info, user), print_rpl_token_info(info, expert), hidden)
    BY <1>2, <1>17, TransferThinned DEF print_rpl_token_info
  <2> QED BY <1>2, <2>1 DEF ThinnedBy
<1>18. CASE info.kind = "ApproveChecked"
  <2>1. Thinned(print_rpl_token_info(info, user), print_rpl_token_info(info, expert), hidden)
    BY <1>2, <1>3, <1>18, TokenAmountThinned, ThinnedItems, ThinnedTogether
       DEF print_rpl_token_info
  <2> QED BY <1>2, <2>1 DEF ThinnedBy
<1>19. CASE info.kind = "MintToChecked"
  <2>1. Thinned(print_rpl_token_info(info, user), print_rpl_token_info(info, expert), minted)
    BY <1>7, <1>8, <1>9, <1>19, TokenAmountThinned, ThinnedItems, ThinnedTogether
       DEF print_rpl_token_info
  <2> QED BY <1>7, <2>1 DEF ThinnedBy
<1>20. CASE info.kind = "BurnChecked"
  <2>1. Thinned(print_rpl_token_info(info, user), print_rpl_token_info(info, expert), hidden)
    BY <1>2, <1>3, <1>20, TokenAmountThinned, ThinnedItems, ThinnedTogether
       DEF print_rpl_token_info
  <2> QED BY <1>2, <2>1 DEF ThinnedBy
<1>21. CASE info.kind = "SyncNative"
  <2>1. Thinned(print_rpl_token_info(info, user), print_rpl_token_info(info, expert), bare)
    BY <1>5, <1>21, ThinnedItems DEF print_rpl_token_info
  <2> QED BY <1>5, <2>1 DEF ThinnedBy
<1> QED
  BY <1>10, <1>11, <1>12, <1>13, <1>14, <1>15, <1>16, <1>17, <1>18, <1>19, <1>20, <1>21
     DEF TokenKinds, TokenSignedLayouts, TokenInitializeLayouts

\* A new associated account is shown in full.
LEMMA AssociatedThinned ==
  ASSUME NEW info, NEW hidden,
         {"Create_token_acct", "From_mint", "Owned_by", "Funded_by"} \cap hidden = {}
  PROVE  Thinned(print_rpl_associated_token_account_create_info(info),
                 print_rpl_associated_token_account_create_info(info), hidden)
BY ThinnedItems, ThinnedTogether DEF print_rpl_associated_token_account_create_info

\* A created account behind its title, with what initializes it.
LEMMA CreateThinned ==
  ASSUME NEW user, NEW expert, Modes(user, expert), NEW title, NEW infos, NEW mine, NEW theirs,
         NEW hidden, Thinned(mine, theirs, hidden), {title, NoTitle, "Deposit"} \cap hidden = {},
         "From" \in hidden <=> infos[1].from = user.signer, {"Base", "Seed"} \subseteq hidden
  PROVE  Thinned(print_create_account(title, infos, user, mine),
                 print_create_account(title, infos, expert, theirs), hidden)
<1>1. PICK create, kind : create = infos[1] /\ kind = create.kind
  OBVIOUS
<1>2. PICK plain, more :
        /\ plain = IF kind = "CreateAccount"
                   THEN print_system_create_account_info(NoTitle, create, user)
                   ELSE print_system_create_account_with_seed_info(NoTitle, create, user)
        /\ more = IF kind = "CreateAccount"
                  THEN print_system_create_account_info(NoTitle, create, expert)
                  ELSE print_system_create_account_with_seed_info(NoTitle, create, expert)
  OBVIOUS
<1>3. /\ NoTitle \notin hidden /\ "Deposit" \notin hidden
      /\ "From" \in hidden <=> create.from = user.signer
      /\ {"Base", "Seed"} \subseteq hidden
  BY <1>1
<1>4. Thinned(plain, more, hidden)
  <2>1. /\ Thinned(print_system_create_account_info(NoTitle, create, user),
                   print_system_create_account_info(NoTitle, create, expert), hidden)
        /\ Thinned(print_system_create_account_with_seed_info(NoTitle, create, user),
                   print_system_create_account_with_seed_info(NoTitle, create, expert), hidden)
    BY <1>3, CreateInfoThinned
  <2> QED BY <1>2, <2>1
<1>5. PICK head : head = Primary("Pubkey", title, create.to)
  OBVIOUS
<1>6. Thinned(head, head, hidden)
  BY <1>5, ThinnedItems
<1>7. Thinned(head \o plain \o mine, head \o more \o theirs, hidden)
  BY <1>4, <1>6, ThinnedTogether
<1>8. /\ print_create_account(title, infos, user, mine) = head \o plain \o mine
      /\ print_create_account(title, infos, expert, theirs) = head \o more \o theirs
  BY <1>1, <1>2, <1>5 DEF print_create_account
<1> QED BY <1>7, <1>8

\* Who funds a token account is an authority, and the deposit is shown.
LEMMA FundedThinned ==
  ASSUME NEW user, NEW expert, Modes(user, expert), NEW create, NEW hidden,
         "Funded_with" \notin hidden, "Funded_by" \in hidden <=> create.from = user.signer
  PROVE  Thinned(Funded(create, user), Funded(create, expert), hidden)
BY ThinnedItems, ThinnedAuthority, ThinnedTogether DEF Funded

\* The token accounts that are created and initialized.
LEMMA TokenCreateThinned ==
  ASSUME NEW user, NEW expert, Modes(user, expert), NEW create, NEW info
  PROVE  /\ ThinnedBy(print_rpl_token_create_mint(create, info, user),
                      print_rpl_token_create_mint(create, info, expert))
         /\ ThinnedBy(print_rpl_token_create_account(create, info, user),
                      print_rpl_token_create_account(create, info, expert))
         /\ ThinnedBy(print_rpl_token_create_multisig(create, info, user),
                      print_rpl_token_create_multisig(create, info, expert))
<1>1. PICK hidden : hidden = NonceTitles \cup HiddenWith(user, {"Funded_by"}, create.from)
  OBVIOUS
<1>2. /\ "Funded_by" \in hidden <=> create.from = user.signer
      /\ {"Funded_with", "Create_token_mint", "Mint_authority", "Mint_decimals",
          "Freeze_authority", "Create_token_acct", "From_mint", "Owned_by", "Create_multisig",
          "Required_signers"} \cap hidden = {}
      /\ NonceTitles \subseteq hidden
  BY <1>1 DEF NonceTitles, HiddenWith
<1>3. Thinned(Funded(create, user), Funded(create, expert), hidden)
  BY <1>2, FundedThinned
<1>4. PICK freeze : freeze = When(info.freeze_authority # NoKey,
                                  Pubkey("Freeze_authority", info.freeze_authority))
  OBVIOUS
<1>5. Thinned(freeze, freeze, hidden)
  BY <1>2, <1>4, ThinnedItems, ThinnedWhen
<1>6. Thinned(print_rpl_token_create_mint(create, info, user),
              print_rpl_token_create_mint(create, info, expert), hidden)
  BY <1>2, <1>3, <1>4, <1>5, ThinnedItems, ThinnedTogether DEF print_rpl_token_create_mint
<1>7. Thinned(print_rpl_token_create_account(create, info, user),
              print_rpl_token_create_account(create, info, expert), hidden)
  BY <1>2, <1>3, ThinnedItems, ThinnedTogether DEF print_rpl_token_create_account
<1>8. Thinned(print_rpl_token_create_multisig(create, info, user),
              print_rpl_token_create_multisig(create, info, expert), hidden)
  BY <1>2, <1>3, ThinnedItems, MultisigThinned, ThinnedTogether
     DEF print_rpl_token_create_multisig
<1> QED BY <1>2, <1>6, <1>7, <1>8 DEF ThinnedBy


\* The authorities of a stake or vote account.
LEMMA AuthorizeBothThinned ==
  ASSUME NEW user, NEW expert, Modes(user, expert), NEW infos,
         NEW account_title, NEW new_title, NEW expected,
         {account_title, new_title} \cap (NonceTitles \cup {"Authorized_by"}) = {}
  PROVE  ThinnedBy(print_authorize_both(infos, user, account_title, new_title, expected).items,
                   print_authorize_both(infos, expert, account_title, new_title, expected).items)
<1>1. PICK hidden : hidden = NonceTitles \cup
                             HiddenWith(user, {"Authorized_by"}, infos[2].authority)
  OBVIOUS
<1>2. /\ "Authorized_by" \in hidden <=> infos[2].authority = user.signer
      /\ {account_title, new_title, "New_withdraw_auth", "New_authorities", "Custodian"}
           \cap hidden = {}
      /\ NonceTitles \subseteq hidden
  BY <1>1 DEF NonceTitles, HiddenWith
<1>3. PICK same : same = (/\ infos[1].kind = "AuthorizeChecked"
                          /\ infos[1].new_authority = infos[2].new_authority)
  OBVIOUS
<1>4. PICK head, authorities, custodian :
        /\ head = Primary("Pubkey", account_title, infos[1].account)
        /\ authorities = NewAuthorities(same, infos[1].new_authority, infos[2].new_authority,
                                        "New_authorities", new_title)
        /\ custodian = When(infos[1].program = "Stake" /\ infos[2].custodian # NoKey,
                            Pubkey("Custodian", infos[2].custodian))
  OBVIOUS
<1>5. /\ Thinned(head, head, hidden) /\ Thinned(authorities, authorities, hidden)
      /\ Thinned(custodian, custodian, hidden)
  BY <1>2, <1>4, ThinnedItems, NewAuthoritiesThinned, ThinnedWhen
<1>6. PICK mine, theirs : /\ mine = Authority(user, "Authorized_by", infos[2].authority)
                          /\ theirs = Authority(expert, "Authorized_by", infos[2].authority)
  OBVIOUS
<1>7. Thinned(mine, theirs, hidden)
  BY <1>2, <1>6, ThinnedAuthority
<1>8. Thinned(head \o authorities \o custodian \o mine,
              head \o authorities \o custodian \o theirs, hidden)
  BY <1>5, <1>7, ThinnedTogether
<1>9. CASE <<infos[1].authorize, infos[2].authorize>> # expected
  BY <1>2, <1>9, ThinnedNothing DEF print_authorize_both, NotPrinted, ThinnedBy
<1>10. CASE <<infos[1].authorize, infos[2].authorize>> = expected
  <2>1. /\ print_authorize_both(infos, user, account_title, new_title, expected).items =
             head \o authorities \o custodian \o mine
        /\ print_authorize_both(infos, expert, account_title, new_title, expected).items =
             head \o authorities \o custodian \o theirs
    BY <1>3, <1>4, <1>6, <1>10 DEF print_authorize_both, Printed
  <2> QED BY <1>2, <1>8, <2>1 DEF ThinnedBy
<1> QED BY <1>9, <1>10

\* A stake account that is created, and delegated in the same transaction.
LEMMA StakeCreateThinned ==
  ASSUME NEW user, NEW expert, Modes(user, expert), NEW infos
  PROVE  /\ ThinnedBy(print_create_account("Create_stake_acct", infos, user,
                        print_stake_initialize_info(NoTitle, infos[2], user)),
                      print_create_account("Create_stake_acct", infos, expert,
                        print_stake_initialize_info(NoTitle, infos[2], expert)))
         /\ ThinnedBy(print_create_account("Delegate_from", infos, user,
                        print_stake_initialize_info(NoTitle, infos[2], user) \o
                        print_delegate_stake_info(NoTitle, infos[3], user)),
                      print_create_account("Delegate_from", infos, expert,
                        print_stake_initialize_info(NoTitle, infos[2], expert) \o
                        print_delegate_stake_info(NoTitle, infos[3], expert)))
<1>1. PICK create, info, delegate :
        create = infos[1] /\ info = infos[2] /\ delegate = infos[3]
  OBVIOUS
<1>2. PICK hidden : hidden = NonceTitles \cup {"Base", "Seed", "Lockup"} \cup
                             HiddenWith(user, {"From"}, create.from) \cup
                             HiddenWith(user, {"Authorized_by"}, delegate.authorized_pubkey)
  OBVIOUS
<1>3. /\ "From" \in hidden <=> create.from = user.signer
      /\ "Authorized_by" \in hidden <=> delegate.authorized_pubkey = user.signer
      /\ {"Base", "Seed"} \subseteq hidden /\ "Lockup" \in hidden
      /\ {NoTitle, "Create_stake_acct", "Delegate_from", "Deposit", "Vote_account",
          "New_authority", "New_stake_auth", "New_withdraw_auth", "Lockup_time",
          "Lockup_epoch", "Lockup_authority"} \cap hidden = {}
      /\ NonceTitles \subseteq hidden
  BY <1>2 DEF NonceTitles, HiddenWith, NoTitle
<1>4. Thinned(print_stake_initialize_info(NoTitle, info, user),
              print_stake_initialize_info(NoTitle, info, expert), hidden)
  BY <1>3, StakeInitializeThinned
<1>5. Thinned(print_delegate_stake_info(NoTitle, delegate, user),
              print_delegate_stake_info(NoTitle, delegate, expert), hidden)
  BY <1>3, DelegateThinned
<1>6. Thinned(print_stake_initialize_info(NoTitle, info, user) \o
              print_delegate_stake_info(NoTitle, delegate, user),
              print_stake_initialize_info(NoTitle, info, expert) \o
              print_delegate_stake_info(NoTitle, delegate, expert), hidden)
  BY <1>4, <1>5, ThinnedTogether
<1>7. /\ "Deposit" \notin hidden /\ "From" \in hidden <=> infos[1].from = user.signer
      /\ {"Create_stake_acct", NoTitle, "Deposit"} \cap hidden = {}
      /\ {"Delegate_from", NoTitle, "Deposit"} \cap hidden = {}
  BY <1>1, <1>3
<1>8. Thinned(print_create_account("Create_stake_acct", infos, user,
                print_stake_initialize_info(NoTitle, info, user)),
              print_create_account("Create_stake_acct", infos, expert,
                print_stake_initialize_info(NoTitle, info, expert)), hidden)
  BY <1>3, <1>4, <1>7, CreateThinned
<1>9. Thinned(print_create_account("Delegate_from", infos, user,
                print_stake_initialize_info(NoTitle, info, user) \o
                print_delegate_stake_info(NoTitle, delegate, user)),
              print_create_account("Delegate_from", infos, expert,
                print_stake_initialize_info(NoTitle, info, expert) \o
                print_delegate_stake_info(NoTitle, delegate, expert)), hidden)
  BY <1>3, <1>6, <1>7, CreateThinned
<1> QED BY <1>1, <1>3, <1>8, <1>9 DEF ThinnedBy

\* A nonce account or a vote account that is created.
LEMMA OtherCreateThinned ==
  ASSUME NEW user, NEW expert, Modes(user, expert), NEW infos
  PROVE  /\ ThinnedBy(print_create_account("Create_nonce_acct", infos, user,
                        print_system_initialize_nonce_info(NoTitle, infos[2])),
                      print_create_account("Create_nonce_acct", infos, expert,
                        print_system_initialize_nonce_info(NoTitle, infos[2])))
         /\ ThinnedBy(print_create_account("Create_vote_acct", infos, user,
                        print_vote_initialize_info(NoTitle, infos[2])),
                      print_create_account("Create_vote_acct", infos, expert,
                        print_vote_initialize_info(NoTitle, infos[2])))
<1>1. PICK create, info : create = infos[1] /\ info = infos[2]
  OBVIOUS
<1>2. PICK hidden : hidden = NonceTitles \cup {"Base", "Seed"} \cup
                             HiddenWith(user, {"From"}, create.from)
  OBVIOUS
<1>3. /\ "From" \in hidden <=> infos[1].from = user.signer
      /\ {"Base", "Seed"} \subseteq hidden
      /\ {"Create_nonce_acct", NoTitle, "Deposit"} \cap hidden = {}
      /\ {"Create_vote_acct", NoTitle, "Deposit"} \cap hidden = {}
      /\ {NoTitle, "New_authority", "Validator_ID", "New_vote_auth", "New_withdraw_auth",
          "Commission"} \cap hidden = {}
      /\ NonceTitles \subseteq hidden
  BY <1>1, <1>2 DEF NonceTitles, HiddenWith, NoTitle
<1>4. PICK nonce, vote : /\ nonce = print_system_initialize_nonce_info(NoTitle, info)
                         /\ vote = print_vote_initialize_info(NoTitle, info)
  OBVIOUS
<1>5. Thinned(nonce, nonce, hidden)
  BY <1>3, <1>4, ThinnedItems, ThinnedTogether DEF print_system_initialize_nonce_info
<1>6. Thinned(vote, vote, hidden)
  BY <1>3, <1>4, VoteInitializeThinned
<1>7. /\ Thinned(print_create_account("Create_nonce_acct", infos, user, nonce),
                 print_create_account("Create_nonce_acct", infos, expert, nonce), hidden)
      /\ Thinned(print_create_account("Create_vote_acct", infos, user, vote),
                 print_create_account("Create_vote_acct", infos, expert, vote), hidden)
  BY <1>3, <1>5, <1>6, CreateThinned
<1> QED BY <1>1, <1>3, <1>4, <1>7 DEF ThinnedBy

\* A stake that is split into an account of a seed.
LEMMA SplitThinned ==
  ASSUME NEW user, NEW expert, Modes(user, expert), NEW infos
  PROVE  ThinnedBy(print_stake_split_with_seed(infos, user),
                   print_stake_split_with_seed(infos, expert))
<1>1. PICK split : split = infos[2]
  OBVIOUS
<1>2. PICK hidden : hidden = NonceTitles \cup {"Base", "Seed"} \cup
                             HiddenWith(user, {"Authorized_by"}, split.authority)
  OBVIOUS
<1>3. /\ "Authorized_by" \in hidden <=> split.authority = user.signer
      /\ {"Base", "Seed"} \subseteq hidden
      /\ {"Split_stake", "From", "To"} \cap hidden = {}
      /\ NonceTitles \subseteq hidden
  BY <1>2 DEF NonceTitles, HiddenWith
<1>4. PICK info1 : info1 = print_stake_split_info1(split)
  OBVIOUS
<1>5. Thinned(info1, info1, hidden)
  BY <1>3, <1>4, ThinnedItems, ThinnedTogether DEF print_stake_split_info1
<1>6. Thinned(print_stake_split_info2(split, user), print_stake_split_info2(split, expert), hidden)
  BY <1>3, ThinnedAuthority DEF print_stake_split_info2
<1>7. Thinned(Seeded(infos[1], user), Seeded(infos[1], expert), hidden)
  BY <1>3, SeededThinned
<1>8. Thinned(print_stake_split_with_seed(infos, user),
              print_stake_split_with_seed(infos, expert), hidden)
  BY <1>1, <1>4, <1>5, <1>6, <1>7, ThinnedTogether DEF print_stake_split_with_seed
<1> QED BY <1>3, <1>8 DEF ThinnedBy

\* Tokens sent to the associated account of their receiver.
LEMMA AssociatedTransferThinned ==
  ASSUME NEW user, NEW expert, Modes(user, expert), NEW create, NEW info
  PROVE  ThinnedBy(print_rpl_associated_token_account_create_info(create) \o
                   print_rpl_token_transfer_info("general", info, user),
                   print_rpl_associated_token_account_create_info(create) \o
                   print_rpl_token_transfer_info("general", info, expert))
<1>1. PICK hidden : hidden = NonceTitles \cup HiddenOwner(user, info.sign)
  OBVIOUS
<1>2. /\ "Owner" \in hidden <=> (info.sign.kind = "Single" /\ info.sign.account = user.signer)
      /\ {"Create_token_acct", "From_mint", "Owned_by", "Funded_by"} \cap hidden = {}
      /\ {"Transfer_tokens", "From", "To", "Signers"} \cap hidden = {}
      /\ NonceTitles \subseteq hidden
  BY <1>1 DEF NonceTitles, HiddenOwner
<1>3. Thinned(print_rpl_associated_token_account_create_info(create),
              print_rpl_associated_token_account_create_info(create), hidden)
  BY <1>2, AssociatedThinned
<1>4. Thinned(print_rpl_token_transfer_info("general", info, user),
              print_rpl_token_transfer_info("general", info, expert), hidden)
  BY <1>2, TransferThinned
<1> QED BY <1>2, <1>3, <1>4, ThinnedTogether DEF ThinnedBy

\* A print function that succeeds does in both modes.
LEMMA BothPrint ==
  ASSUME NEW user, NEW expert, ThinnedBy(user, expert)
  PROVE  ThinnedBy(Printed(user).items, Printed(expert).items)
BY DEF Printed

\* One that fails has put nothing in either mode.
LEMMA NeitherPrint == ThinnedBy(NotPrinted.items, NotPrinted.items)
BY ThinnedNothing DEF ThinnedBy, NotPrinted

\* An instruction on its own: experts see more of it.
LEMMA OneThinned ==
  ASSUME NEW user, NEW expert, Modes(user, expert), NEW info, KnownInfo(info)
  PROVE  ThinnedBy(PrintOne(info, user).items, PrintOne(info, expert).items)
<1>1. CASE info.program = "System"
  BY <1>1, SystemThinned, BothPrint DEF KnownInfo, PrintOne
<1>2. CASE info.program = "Stake"
  BY <1>2, StakeThinned, BothPrint DEF KnownInfo, PrintOne
<1>3. CASE info.program = "Vote"
  BY <1>3, VoteThinned, BothPrint DEF KnownInfo, PrintOne
<1>4. CASE info.program = "RplToken"
  BY <1>4, TokenThinned, BothPrint DEF KnownInfo, PrintOne
<1>5. CASE info.program = "RplAssociatedTokenAccount"
  <2>1. PICK hidden : hidden = NonceTitles
    OBVIOUS
  <2>2. {"Create_token_acct", "From_mint", "Owned_by", "Funded_by"} \cap hidden = {}
    BY <2>1 DEF NonceTitles
  <2>3. Thinned(print_rpl_associated_token_account_create_info(info),
                print_rpl_associated_token_account_create_info(info), hidden)
    BY <2>2, AssociatedThinned
  <2>4. ThinnedBy(print_rpl_associated_token_account_create_info(info),
                  print_rpl_associated_token_account_create_info(info))
    BY <2>1, <2>3 DEF ThinnedBy
  <2> QED BY <1>5, <2>4, BothPrint DEF PrintOne
<1> QED
  BY <1>1, <1>2, <1>3, <1>4, <1>5 DEF KnownInfo

\* What two instructions that are printed together are told by: programs and kinds.
LEMMA TwoMatched ==
  ASSUME NEW infos, NEW first, first = infos[1], NEW second, second = infos[2]
  PROVE  /\ is_create_stake_account(infos) =>
              first.program = "System" /\ second.program = "Stake" /\ second.kind # "Split"
         /\ is_create_nonce_account(infos) => first.program = "System" /\ second.program = "System"
         /\ is_create_vote_account(infos) => first.program = "System" /\ second.program = "Vote"
         /\ is_stake_authorize_both(infos) => first.program = "Stake"
         /\ is_vote_authorize_both(infos) => first.program = "Vote"
         /\ is_stake_split_with_seed(infos) =>
              /\ first.program = "System" /\ first.kind # "CreateAccount"
              /\ second.program = "Stake" /\ second.kind = "Split"
         /\ is_stake_split_v1_2(infos) =>
              /\ first.program = "System" /\ first.kind = "CreateAccount"
              /\ second.program = "Stake" /\ second.kind = "Split"
         /\ is_rpl_token_create_mint(infos) =>
              /\ first.program = "System"
              /\ second.program = "RplToken" /\ second.kind = "InitializeMint"
         /\ is_rpl_token_create_account(infos) =>
              /\ first.program = "System" /\ second.program = "RplToken"
              /\ second.kind \in {"InitializeAccount", "InitializeAccount2"}
         /\ is_rpl_token_create_multisig(infos) =>
              /\ first.program = "System"
              /\ second.program = "RplToken" /\ second.kind = "InitializeMultisig"
         /\ is_rpl_associated_token_account_create_with_transfer(infos) =>
              first.program = "RplAssociatedTokenAccount"
BY DEF is_create_stake_account, is_create_nonce_account, is_create_vote_account,
       is_stake_authorize_both, is_vote_authorize_both, is_stake_split_with_seed,
       is_stake_split_v1_2, is_rpl_token_create_mint, is_rpl_token_create_account,
       is_rpl_token_create_multisig, is_rpl_associated_token_account_create_with_transfer,
       SystemThen, Twice, Match

\* Two instructions that are printed together.
LEMMA TwoThinned ==
  ASSUME NEW user, NEW expert, Modes(user, expert), NEW infos
  PROVE  ThinnedBy(PrintTwo(infos, user).items, PrintTwo(infos, expert).items)
<1>1. ASSUME is_stake_split_v1_2(infos)
      PROVE  ThinnedBy(print_stake_info(infos[2], user), print_stake_info(infos[2], expert))
  <2>1. infos[2].kind \in StakeKinds
    BY <1>1 DEF is_stake_split_v1_2, SystemThen, Match, StakeKinds, StakeMoveLayouts
  <2> QED BY <2>1, StakeThinned
<1>2. /\ ThinnedBy(
           print_authorize_both(infos, user, "Set_stake_auth", "New_stake_auth",
                                <<"Staker", "Withdrawer">>).items,
           print_authorize_both(infos, expert, "Set_stake_auth", "New_stake_auth",
                                <<"Staker", "Withdrawer">>).items)
      /\ ThinnedBy(
           print_authorize_both(infos, user, "Set_vote_auth", "New_vote_auth",
                                <<"Voter", "Withdrawer">>).items,
           print_authorize_both(infos, expert, "Set_vote_auth", "New_vote_auth",
                                <<"Voter", "Withdrawer">>).items)
  <2>1. /\ {"Set_stake_auth", "New_stake_auth"} \cap (NonceTitles \cup {"Authorized_by"}) = {}
        /\ {"Set_vote_auth", "New_vote_auth"} \cap (NonceTitles \cup {"Authorized_by"}) = {}
    BY DEF NonceTitles
  <2> QED BY <2>1, AuthorizeBothThinned
<1>3. PICK first, second : first = infos[1] /\ second = infos[2]
  OBVIOUS
<1> USE <1>3, TwoMatched DEF PrintTwo
<1>4. CASE is_create_stake_account(infos)
  BY <1>4, StakeCreateThinned, BothPrint
<1>5. CASE is_create_nonce_account(infos)
  BY <1>5, OtherCreateThinned, BothPrint
<1>6. CASE is_create_vote_account(infos)
  BY <1>6, OtherCreateThinned, BothPrint
<1>7. CASE is_stake_authorize_both(infos)
  BY <1>7, <1>2
<1>8. CASE is_vote_authorize_both(infos)
  BY <1>8, <1>2
<1>9. CASE is_stake_split_with_seed(infos)
  BY <1>9, SplitThinned, BothPrint
<1>10. CASE is_stake_split_v1_2(infos)
  BY <1>10, <1>1, BothPrint
<1>11. CASE is_rpl_token_create_mint(infos)
  BY <1>11, TokenCreateThinned, BothPrint
<1>12. CASE is_rpl_token_create_account(infos)
  BY <1>12, TokenCreateThinned, BothPrint
<1>13. CASE is_rpl_token_create_multisig(infos)
  BY <1>13, TokenCreateThinned, BothPrint
<1>14. CASE is_rpl_associated_token_account_create_with_transfer(infos)
  BY <1>14, AssociatedTransferThinned, BothPrint
<1>15. CASE ~(is_create_stake_account(infos) \/ is_create_nonce_account(infos) \/
              is_create_vote_account(infos) \/ is_stake_authorize_both(infos) \/
              is_vote_authorize_both(infos) \/ is_stake_split_with_seed(infos) \/
              is_stake_split_v1_2(infos) \/ is_rpl_token_create_mint(infos) \/
              is_rpl_token_create_account(infos) \/ is_rpl_token_create_multisig(infos) \/
              is_rpl_associated_token_account_create_with_transfer(infos))
  BY <1>15, NeitherPrint
<1> QED BY <1>4, <1>5, <1>6, <1>7, <1>8, <1>9, <1>10, <1>11, <1>12, <1>13, <1>14, <1>15

\* Three of them.
LEMMA ThreeThinned ==
  ASSUME NEW user, NEW expert, Modes(user, expert), NEW infos
  PROVE  ThinnedBy(PrintThree(infos, user).items, PrintThree(infos, expert).items)
<1>1. ASSUME is_stake_split_v1_1(infos)
      PROVE  ThinnedBy(print_stake_info(infos[3], user), print_stake_info(infos[3], expert))
  <2>1. infos[3].kind \in StakeKinds
    BY <1>1 DEF is_stake_split_v1_1, Match, StakeKinds, StakeMoveLayouts
  <2> QED BY <2>1, StakeThinned
<1>2. CASE is_create_stake_account_and_delegate(infos)
  <2>1. /\ PrintThree(infos, user) = Printed(print_create_account("Delegate_from", infos, user,
             print_stake_initialize_info(NoTitle, infos[2], user) \o
             print_delegate_stake_info(NoTitle, infos[3], user)))
        /\ PrintThree(infos, expert) = Printed(print_create_account("Delegate_from", infos, expert,
             print_stake_initialize_info(NoTitle, infos[2], expert) \o
             print_delegate_stake_info(NoTitle, infos[3], expert)))
    <3>1. ~is_stake_split_v1_1(infos)
      BY <1>2 DEF is_create_stake_account_and_delegate, is_stake_split_v1_1, Match, Creates
    <3> QED BY <1>2, <3>1 DEF PrintThree
  <2> QED BY <2>1, StakeCreateThinned, BothPrint
<1>3. CASE ~is_create_stake_account_and_delegate(infos) /\ is_stake_split_v1_1(infos)
  BY <1>1, <1>3, BothPrint DEF PrintThree
<1>4. CASE ~is_create_stake_account_and_delegate(infos) /\ ~is_stake_split_v1_1(infos)
  BY <1>4, NeitherPrint DEF PrintThree
<1> QED BY <1>2, <1>3, <1>4

\* Any number of them behind a nonce.
LEMMA NonceProcessedThinned ==
  ASSUME NEW user, NEW expert, Modes(user, expert), NEW infos,
         Len(infos) = 1 => KnownInfo(infos[1])
  PROVE  ThinnedBy(print_transaction_nonce_processed(infos, user).items,
                   print_transaction_nonce_processed(infos, expert).items)
BY OneThinned, TwoThinned, ThreeThinned, NeitherPrint DEF print_transaction_nonce_processed

\* The nonce itself is for experts.
LEMMA SentinelThinned ==
  ASSUME NEW user, NEW expert, Modes(user, expert), NEW info,
         NEW hidden, NonceTitles \subseteq hidden
  PROVE  Thinned(Sentinel(info, user), Sentinel(info, expert), hidden)
<1>1. PICK account, authority :
        /\ account = PrintTo("nonce_account", "Pubkey", "Nonce_account", info.account)
        /\ authority = PrintTo("nonce_authority", "Pubkey", "Nonce_authority", info.authority)
  OBVIOUS
<1>2. Thinned(<<>>, account, hidden) /\ Thinned(<<>>, authority, hidden)
  BY <1>1, ThinnedPut DEF NonceTitles
<1>3. Thinned(<<>> \o <<>>, account \o authority, hidden)
  BY <1>2, ThinnedTogether
<1>4. <<>> \o <<>> = <<>>
  OBVIOUS
<1>5. Thinned(<<>>, account \o authority, hidden)
  BY <1>3, <1>4
<1> QED BY <1>1, <1>5, ThinnedExperts DEF Sentinel

\* What print_transaction puts, experts see with more.
LEMMA TransactionThinned ==
  ASSUME NEW user, NEW expert, Modes(user, expert), NEW infos, IsSeq(infos),
         \A j \in 1..Len(infos) : KnownInfo(infos[j])
  PROVE  ThinnedBy(print_transaction(infos, user).items, print_transaction(infos, expert).items)
<1>1. PICK S : infos \in Seq(S)
  BY DEF IsSeq
<1>2. CASE Len(infos) > 1 /\ is_advance_nonce_account(infos[1])
  <2>1. infos # <<>> /\ Len(infos) \in Nat
    BY <1>1, <1>2, LenProperties
  <2>2. PICK rest : rest = Tail(infos)
    OBVIOUS
  <2>3. Len(rest) = Len(infos) - 1 /\ \A i \in 1..Len(rest) : rest[i] = infos[i + 1]
    BY <1>1, <2>1, <2>2, HeadTailProperties
  <2>4. Len(rest) = 1 => KnownInfo(rest[1])
    <3>1. ASSUME Len(rest) = 1 PROVE rest[1] = infos[2] /\ 2 \in 1..Len(infos)
      BY <3>1, <2>1, <2>3
    <3> QED BY <3>1
  <2>5. PICK mine, theirs : /\ mine = print_transaction_nonce_processed(rest, user)
                            /\ theirs = print_transaction_nonce_processed(rest, expert)
    OBVIOUS
  <2>6. PrintedWell(mine) /\ PrintedWell(theirs)
    BY <2>4, <2>5, NonceProcessedWell
  <2>7. /\ print_transaction(infos, user) = [mine EXCEPT !.items = Sentinel(infos[1], user) \o @]
        /\ print_transaction(infos, expert) =
             [theirs EXCEPT !.items = Sentinel(infos[1], expert) \o @]
    BY <1>2, <2>2, <2>5 DEF print_transaction
  <2>8. /\ print_transaction(infos, user).items = Sentinel(infos[1], user) \o mine.items
        /\ print_transaction(infos, expert).items = Sentinel(infos[1], expert) \o theirs.items
    BY <2>6, <2>7 DEF PrintedWell
  <2>9. PICK hidden : NonceTitles \subseteq hidden /\ Thinned(mine.items, theirs.items, hidden)
    <3>1. ThinnedBy(mine.items, theirs.items)
      BY <2>4, <2>5, NonceProcessedThinned
    <3> QED BY <3>1 DEF ThinnedBy
  <2>10. Thinned(Sentinel(infos[1], user), Sentinel(infos[1], expert), hidden)
    BY <2>9, SentinelThinned
  <2>11. Thinned(Sentinel(infos[1], user) \o mine.items,
                 Sentinel(infos[1], expert) \o theirs.items, hidden)
    BY <2>9, <2>10, ThinnedTogether
  <2> QED BY <2>8, <2>9, <2>11 DEF ThinnedBy
<1>3. CASE ~(Len(infos) > 1 /\ is_advance_nonce_account(infos[1]))
  <2>1. Len(infos) = 1 => KnownInfo(infos[1])
    OBVIOUS
  <2>2. ThinnedBy(print_transaction_nonce_processed(infos, user).items,
                  print_transaction_nonce_processed(infos, expert).items)
    BY <2>1, NonceProcessedThinned
  <2> QED BY <1>3, <2>2 DEF print_transaction
<1> QED BY <1>2, <1>3

\* What process_message_body puts of any message, experts see with more.
LEMMA MessageThinned ==
  ASSUME NEW user, NEW expert, Modes(user, expert),
         NEW transaction, IsSequence(transaction.instructions)
  PROVE  ThinnedBy(process_message_body(transaction, user).items,
                   process_message_body(transaction, expert).items)
<1>1. ASSUME \A i \in DOMAIN Infos(transaction) : Infos(transaction)[i].program # "Unknown"
      PROVE  ThinnedBy(print_transaction(Displayed(Infos(transaction)), user).items,
                       print_transaction(Displayed(Infos(transaction)), expert).items)
  BY <1>1, DisplayedAreKnown, TransactionThinned
<1> QED BY <1>1, NeitherPrint DEF process_message_body

=============================================================================
