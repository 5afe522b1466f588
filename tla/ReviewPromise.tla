---------------------------- MODULE ReviewPromise ----------------------------
(***************************************************************************)
(* What a review promises, whatever the screen: the user is shown steps,   *)
(* approves only when every one has been shown, and decides once.          *)
(***************************************************************************)
CONSTANT Steps      \* every step a review may have

VARIABLES
  unseen,     \* the steps that have not been shown
  response    \* "none", "approved", "rejected"

Init ==
  /\ unseen \subseteq Steps
  /\ response = "none"

Show ==
  /\ response = "none"
  /\ unseen' \subseteq unseen
  /\ UNCHANGED response

Approve ==
  /\ response = "none"
  /\ unseen = {}
  /\ response' = "approved"
  /\ UNCHANGED unseen

Reject ==
  /\ response = "none"
  /\ response' = "rejected"
  /\ UNCHANGED unseen

Next == Show \/ Approve \/ Reject

Spec == Init /\ [][Next]_<<unseen, response>>
=============================================================================
