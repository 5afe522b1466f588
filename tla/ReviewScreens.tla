---------------------------- MODULE ReviewScreens ----------------------------
(***************************************************************************)
(* The screens of a review, from the call that starts it to the decision   *)
(* of the user: the flow of steps on a device with buttons (the _bagl      *)
(* files of src/src/ui) and the pages of a touch screen (the _nbgl files), *)
(* for a transaction, an off-chain message and a public key.               *)
(*                                                                         *)
(* How a flow is walked and how many pairs a page takes are the business   *)
(* of the device's libraries; they are modelled as the files use them.     *)
(* What is displayed of a step is its index and, for the text of an ASCII  *)
(* message, how many characters of it.                                     *)
(***************************************************************************)
EXTENDS Integers, Sequences

CONSTANTS
  MAX_TRANSACTION_SUMMARY_ITEMS,
  NB_MAX_DISPLAYED_PAIRS_IN_REVIEW,
  TEXT_BUFFER_LENGTH,
  Lengths                             \* of the texts of ASCII messages

ASSUME ScreensAssumption ==
  /\ MAX_TRANSACTION_SUMMARY_ITEMS \in Nat \ {0}
  /\ NB_MAX_DISPLAYED_PAIRS_IN_REVIEW \in Nat \ {0}
  /\ TEXT_BUFFER_LENGTH \in Nat \ {0}
  /\ Lengths \subseteq Nat

VARIABLES
  device,            \* "buttons", "touch"
  review,            \* [kind, num_summary_steps, is_ascii, length]
  screen,            \* what is displayed
  displayed_slots,   \* of the touch screen, what its pairs point to
  seen,              \* what has been displayed since the review started
  response           \* "none", "approved", "rejected"

vars == <<device, review, screen, displayed_slots, seen, response>>

-----------------------------------------------------------------------------
(* Steps. *)

\* What the handlers start a review of: an off-chain message has one step, and in
\* expert mode five more; one that is not ASCII has its hash.
Reviews ==
  [kind : {"transaction"}, num_summary_steps : 1..MAX_TRANSACTION_SUMMARY_ITEMS,
   is_ascii : {FALSE}, length : {0}] \cup
  [kind : {"message"}, num_summary_steps : {1, 6}, is_ascii : {TRUE}, length : Lengths] \cup
  [kind : {"message"}, num_summary_steps : {2, 6}, is_ascii : {FALSE}, length : {0}] \cup
  [kind : {"pubkey"}, num_summary_steps : {1}, is_ascii : {FALSE}, length : {0}]

\* The number of steps that leaves the text of a message out.
SummaryStepsOnly == review.num_summary_steps

\* transaction_steps_number: the text of an ASCII message is one more step.
transaction_steps_number ==
  IF review.is_ascii THEN review.num_summary_steps + 1 ELSE review.num_summary_steps

IsText(index) == review.is_ascii /\ index = review.num_summary_steps
Content(index, characters) == [step |-> index, characters |-> characters]

\* What there is to see in a step.
WholeStep(index) == Content(index, IF IsText(index) THEN review.length ELSE 0)

\* What get_single_action_review_pair copies: the text of a message is cut to a slot.
CopiedStep(index) ==
  Content(index, IF ~IsText(index) THEN 0
                 ELSE IF review.length < TEXT_BUFFER_LENGTH THEN review.length
                 ELSE TEXT_BUFFER_LENGTH - 1)

-----------------------------------------------------------------------------
(* Screens. *)

Flow(index) == [at |-> "flow", first |-> index, last |-> index]
Page(first, last) == [at |-> "page", first |-> first, last |-> last]
Screen(name) == [at |-> name, first |-> 0, last |-> 0]

\* A text step whatever the message, as if is_ascii were not tested.
FlowStepsWithText ==
  [index \in 1..review.num_summary_steps |-> "summary"] \o <<"text", "approve", "reject", "end">>

\* flow_steps: one step per item, then the text, the buttons and FLOW_END_STEP.
flow_steps ==
  [index \in 1..review.num_summary_steps |-> "summary"] \o
  (IF review.is_ascii THEN <<"text">> ELSE <<>>) \o <<"approve", "reject", "end">>

\* The size of flow_steps: on-chain and off-chain reviews share it.
FlowStepsSize ==
  IF MAX_TRANSACTION_SUMMARY_ITEMS + 3 > 10 THEN MAX_TRANSACTION_SUMMARY_ITEMS + 3 ELSE 10

\* ux_flow_init shows the first step; nbgl_useCaseReviewStart a title.
Init ==
  /\ device \in {"buttons", "touch"}
  /\ review \in Reviews
  /\ displayed_slots = [slot \in 0..(NB_MAX_DISPLAYED_PAIRS_IN_REVIEW - 1) |-> Content(-1, 0)]
  /\ screen = IF device = "buttons" THEN Flow(0) ELSE Screen("start")
  /\ seen = IF device = "buttons" THEN {WholeStep(0)} ELSE {}
  /\ response = "none"

\* ux_flow_next and ux_flow_prev: one step, as far as the flow goes.
PressSide(index) ==
  /\ screen.at = "flow"
  /\ index \in {screen.first - 1, screen.first + 1}
  /\ index >= 0 /\ flow_steps[index + 1] # "end"
  /\ screen' = Flow(index)
  /\ seen' = IF flow_steps[index + 1] \in {"summary", "text"}
             THEN seen \cup {WholeStep(index)} ELSE seen
  /\ UNCHANGED <<device, review, displayed_slots, response>>

\* sendResponse with the menu behind it.
PressBoth ==
  /\ screen.at = "flow"
  /\ \/ flow_steps[screen.first + 1] = "approve" /\ response' = "approved"
     \/ flow_steps[screen.first + 1] = "reject" /\ response' = "rejected"
  /\ screen' = Screen("idle")
  /\ UNCHANGED <<device, review, displayed_slots, seen>>

\* The slot as if there were one less.
OneSlotLess(index) ==
  IF NB_MAX_DISPLAYED_PAIRS_IN_REVIEW = 1 THEN 0
  ELSE index % (NB_MAX_DISPLAYED_PAIRS_IN_REVIEW - 1)

SlotOf(index) == index % NB_MAX_DISPLAYED_PAIRS_IN_REVIEW

\* The pairs of a page are asked for one after the other, after any that the library
\* asked for to measure them.
Loaded(first, last) ==
  [slot \in DOMAIN displayed_slots |->
     LET writes == {index \in first..last : SlotOf(index) = slot}
     IN  IF writes = {} THEN displayed_slots[slot]
         ELSE CopiedStep(CHOOSE index \in writes : \A other \in writes : other <= index)]

DisplayPage(first, last) ==
  /\ first >= 0 /\ first <= last /\ last < transaction_steps_number
  /\ last - first < NB_MAX_DISPLAYED_PAIRS_IN_REVIEW
  /\ displayed_slots' = Loaded(first, last)
  /\ screen' = Page(first, last)
  /\ seen' = seen \cup {Loaded(first, last)[SlotOf(index)] : index \in first..last}
  /\ UNCHANGED <<device, review, response>>

Reviewed == review.kind # "pubkey"

\* start_review and the pages that follow or precede.
TurnPage(first, last) ==
  /\ Reviewed
  /\ \/ screen.at = "start" /\ first = 0
     \/ screen.at = "page" /\ first = screen.last + 1
     \/ screen.at = "page" /\ last = screen.first - 1
     \/ screen.at = "final" /\ last = transaction_steps_number - 1
  /\ DisplayPage(first, last)

\* The page of the long press follows the last pairs.
ReachFinalPage ==
  /\ screen.at = "page"
  /\ screen.last = transaction_steps_number - 1
  /\ screen' = Screen("final")
  /\ UNCHANGED <<device, review, displayed_slots, seen, response>>

\* review_final_callback(true): the answer, and a status page.
LongPress ==
  /\ screen.at = "final"
  /\ response' = "approved"
  /\ screen' = Screen("status")
  /\ UNCHANGED <<device, review, displayed_slots, seen>>

\* rejectUseCaseChoice: a question in front of the page, which stays below.
AskReject ==
  /\ Reviewed
  /\ screen.at \in {"start", "page", "final"}
  /\ screen' = [screen EXCEPT !.at = CASE screen.at = "start" -> "reject start?"
                                       [] screen.at = "page" -> "reject page?"
                                       [] screen.at = "final" -> "reject final?"]
  /\ UNCHANGED <<device, review, displayed_slots, seen, response>>
Questions == {"reject start?", "reject page?", "reject final?"}

GoBack ==
  /\ screen.at \in Questions
  /\ screen' = [screen EXCEPT !.at = CASE screen.at = "reject start?" -> "start"
                                       [] screen.at = "reject page?" -> "page"
                                       [] screen.at = "reject final?" -> "final"]
  /\ UNCHANGED <<device, review, displayed_slots, seen, response>>

\* rejectChoice
ConfirmReject ==
  /\ screen.at \in Questions
  /\ response' = "rejected"
  /\ screen' = Screen("status")
  /\ UNCHANGED <<device, review, displayed_slots, seen>>

\* continue_review: the address has a page of its own, with both choices.
ShowAddress ==
  /\ ~Reviewed
  /\ screen.at = "start"
  /\ screen' = Screen("address")
  /\ seen' = seen \cup {WholeStep(0)}
  /\ UNCHANGED <<device, review, displayed_slots, response>>

\* review_choice, or the Cancel of the title: no question is asked.
ChooseAddress ==
  /\ ~Reviewed
  /\ \/ screen.at = "address" /\ response' = "approved"
     \/ screen.at \in {"start", "address"} /\ response' = "rejected"
  /\ screen' = Screen("status")
  /\ UNCHANGED <<device, review, displayed_slots, seen>>

\* The status page gives way to ui_idle.
LeaveStatus ==
  /\ screen.at = "status"
  /\ screen' = Screen("idle")
  /\ UNCHANGED <<device, review, displayed_slots, seen, response>>

Indices == 0..(MAX_TRANSACTION_SUMMARY_ITEMS + 7)

Next ==
  \/ \E index \in Indices : PressSide(index)
  \/ PressBoth
  \/ \E first, last \in Indices : TurnPage(first, last)
  \/ ReachFinalPage
  \/ LongPress
  \/ AskReject
  \/ GoBack
  \/ ConfirmReject
  \/ ShowAddress
  \/ ChooseAddress
  \/ LeaveStatus

Spec == Init /\ [][Next]_vars

-----------------------------------------------------------------------------
(* Properties. *)

ScreenNames ==
  {"flow", "start", "page", "final", "address", "status", "idle"} \cup Questions

\* Every variable has its type; the flow is within its array with FLOW_END_STEP.
TypeOK ==
  /\ device \in {"buttons", "touch"}
  /\ review \in Reviews
  /\ screen \in [at : ScreenNames, first : Indices, last : Indices]
  /\ DOMAIN displayed_slots = 0..(NB_MAX_DISPLAYED_PAIRS_IN_REVIEW - 1)
  /\ response \in {"none", "approved", "rejected"}
  /\ Len(flow_steps) <= FlowStepsSize

\* The pairs of a page point into displayed_slots: none of them has been written over
\* by another pair while the page is displayed, with or without a question before it.
PageShowsItsSteps ==
  screen.at \in {"page", "reject page?"} =>
    \A index \in screen.first..screen.last :
      displayed_slots[SlotOf(index)] = CopiedStep(index)

\* The steps of the review, with the text of a message, which no copy has shown.
AllSteps ==
  0..(IF review.is_ascii THEN review.num_summary_steps ELSE review.num_summary_steps - 1)
Unseen == AllSteps \ {content.step : content \in seen}

\* On both kinds of device a review keeps the promise of a review: every step has
\* been displayed when the user approves, and there is one answer.
Promise == INSTANCE ReviewPromise WITH Steps <- Indices, unseen <- Unseen
KeepsPromise == Promise!Spec

-----------------------------------------------------------------------------
(* What the documents say and the code does not do. *)

\* docs/apdu.md:103: the user validates "the text of ASCII encoded messages".
WholeMessageIsValidated ==
  response = "approved" => \A index \in AllSteps : WholeStep(index) \in seen
=============================================================================
