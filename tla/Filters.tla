------------------------------ MODULE Filters ------------------------------
(***************************************************************************)
(* What a loop collects that skips some of the elements it walks over.  It *)
(* is SelectSeq with the places to keep as a set, and with a definition    *)
(* that a proof can open.                                                  *)
(***************************************************************************)
EXTENDS Integers, Sequences

\* For every n, what is kept of the first n elements.
KeptUpTo(s, places) ==
  LET upTo[n \in 0..Len(s)] ==
        IF n = 0 THEN <<>>
        ELSE IF n \in places THEN Append(upTo[n - 1], s[n])
        ELSE upTo[n - 1]
  IN  upTo

\* The elements at the places, in their order.
Kept(s, places) == KeptUpTo(s, places)[Len(s)]
=============================================================================
