------------------------ MODULE ReviewScreensProofs ------------------------
(***************************************************************************)
(* For summaries, pages and messages of every size: the array of steps is  *)
(* large enough, a page shows its steps, and nothing is approved that was  *)
(* not displayed.                                                          *)
(***************************************************************************)
EXTENDS ReviewScreens, SequenceTheorems, TLAPS

\* The steps displayed so far.
Displayed == {content.step : content \in seen}
UpTo(n) == \A index \in AllSteps : index <= n => index \in Displayed

\* Where the user has come to, and what was displayed on the way.
Progress ==
  /\ response # "none" => screen.at \in {"status", "idle"}
  /\ screen.at = "flow" =>
       screen.first \in 0..(transaction_steps_number + 1) /\ UpTo(screen.first)
  /\ screen.at \in {"page", "reject page?"} =>
       /\ screen.first \in Nat /\ screen.last \in Nat
       /\ screen.first <= screen.last /\ screen.last < transaction_steps_number
       /\ UpTo(screen.last)
  /\ screen.at \in {"final", "reject final?", "address"} => UpTo(transaction_steps_number)

ScreensInv == TypeOK /\ PageShowsItsSteps /\ Progress

-----------------------------------------------------------------------------
(* Numbers of steps. *)

\* A review has at least one step, and no more than the array has room for.
LEMMA StepsNumber ==
  ASSUME review \in Reviews
  PROVE  /\ review.num_summary_steps \in Nat /\ review.is_ascii \in BOOLEAN
         /\ transaction_steps_number \in Nat /\ transaction_steps_number >= 1
         /\ transaction_steps_number + 3 <= FlowStepsSize
         /\ transaction_steps_number + 1 <= MAX_TRANSACTION_SUMMARY_ITEMS + 7
         /\ AllSteps = 0..(transaction_steps_number - 1)
<1>1. MAX_TRANSACTION_SUMMARY_ITEMS \in Nat /\ MAX_TRANSACTION_SUMMARY_ITEMS >= 1
  BY ScreensAssumption DEF ScreensAssumption
<1>2. \/ ~review.is_ascii /\ review.num_summary_steps \in 1..MAX_TRANSACTION_SUMMARY_ITEMS
      \/ review.is_ascii /\ review.num_summary_steps \in {1, 6}
      \/ ~review.is_ascii /\ review.num_summary_steps \in {1, 2, 6}
  BY DEF Reviews
<1>3. review.is_ascii \in BOOLEAN
  BY DEF Reviews
<1>4. review.num_summary_steps \in Nat /\ review.num_summary_steps >= 1
  BY <1>1, <1>2
<1>5. /\ transaction_steps_number \in Nat /\ transaction_steps_number >= 1
      /\ transaction_steps_number <= MAX_TRANSACTION_SUMMARY_ITEMS
           \/ transaction_steps_number <= 7
  BY <1>1, <1>2, <1>3, <1>4 DEF transaction_steps_number
<1>6. /\ transaction_steps_number + 3 <= FlowStepsSize
      /\ transaction_steps_number + 1 <= MAX_TRANSACTION_SUMMARY_ITEMS + 7
  BY <1>1, <1>5 DEF FlowStepsSize
<1>7. AllSteps = 0..(transaction_steps_number - 1)
  <2>1. review.is_ascii => review.num_summary_steps = transaction_steps_number - 1
    BY <1>4 DEF transaction_steps_number
  <2>2. ~review.is_ascii => review.num_summary_steps = transaction_steps_number
    BY DEF transaction_steps_number
  <2> QED
    BY <1>3, <2>1, <2>2 DEF AllSteps
<1> QED
  BY <1>3, <1>4, <1>5, <1>6, <1>7

\* The flow: the steps of the review, then the two buttons and the end.
LEMMA FlowSteps ==
  ASSUME review \in Reviews
  PROVE  /\ Len(flow_steps) = transaction_steps_number + 3
         /\ \A n \in 1..transaction_steps_number : flow_steps[n] \in {"summary", "text"}
         /\ flow_steps[transaction_steps_number + 1] = "approve"
         /\ flow_steps[transaction_steps_number + 2] = "reject"
         /\ flow_steps[transaction_steps_number + 3] = "end"
<1> DEFINE Steps == {"summary", "text", "approve", "reject", "end"}
           n == review.num_summary_steps
           summary == [index \in 1..n |-> "summary"]
           text == IF review.is_ascii THEN <<"text">> ELSE <<>>
           buttons == <<"approve", "reject", "end">>
           both == summary \o text
<1>1. n \in Nat /\ review.is_ascii \in BOOLEAN
  BY StepsNumber
<1>2. /\ summary \in Seq(Steps) /\ Len(summary) = n
      /\ \A i \in 1..n : summary[i] = "summary"
  <2> HIDE DEF n
  <2> QED
    BY <1>1
<1>3. /\ text \in Seq(Steps)
      /\ review.is_ascii => Len(text) = 1 /\ text[1] = "text"
      /\ ~review.is_ascii => Len(text) = 0
  <2>1. /\ <<"text">> \in Seq(Steps) /\ Len(<<"text">>) = 1 /\ <<"text">>[1] = "text"
        /\ <<>> \in Seq(Steps) /\ Len(<<>>) = 0
    OBVIOUS
  <2> QED
    BY <1>1, <2>1, Zenon
<1>4. /\ buttons \in Seq(Steps) /\ Len(buttons) = 3
      /\ buttons[1] = "approve" /\ buttons[2] = "reject" /\ buttons[3] = "end"
  OBVIOUS
<1> HIDE DEF Steps, n, summary, text, buttons
<1>a. Len(text) \in Nat
  BY <1>1, <1>3
<1>5. /\ both \in Seq(Steps) /\ Len(both) = n + Len(text)
      /\ \A i \in 1..n : both[i] = "summary"
      /\ review.is_ascii => both[n + 1] = "text"
  <2>1. /\ both \in Seq(Steps) /\ Len(both) = Len(summary) + Len(text)
        /\ \A i \in 1..(Len(summary) + Len(text)) :
             both[i] = IF i <= Len(summary) THEN summary[i] ELSE text[i - Len(summary)]
    BY <1>2, <1>3, ConcatProperties
  <2> HIDE DEF both
  <2>2. \A i \in 1..n : both[i] = summary[i]
    BY <1>1, <1>2, <1>a, <2>1
  <2>3. ASSUME review.is_ascii PROVE both[n + 1] = text[1]
    <3>1. /\ n + 1 \in 1..(Len(summary) + Len(text))
          /\ ~(n + 1 <= Len(summary)) /\ (n + 1) - Len(summary) = 1
      BY <1>1, <1>2, <1>3, <2>3
    <3> QED
      BY <2>1, <3>1
  <2> QED
    BY <1>2, <1>3, <2>1, <2>2, <2>3
<1> HIDE DEF both
<1>6. transaction_steps_number = IF review.is_ascii THEN n + 1 ELSE n
  BY DEF transaction_steps_number, n
<1>7. /\ Len(both) = transaction_steps_number
      /\ \A i \in 1..transaction_steps_number : both[i] \in {"summary", "text"}
  <2>1. CASE review.is_ascii
    <3>1. Len(both) = n + 1 /\ transaction_steps_number = n + 1
      BY <1>3, <1>5, <1>6, <2>1
    <3>2. \A i \in 1..(n + 1) : both[i] \in {"summary", "text"}
      <4> TAKE i \in 1..(n + 1)
      <4>1. i \in 1..n \/ i = n + 1
        BY <1>1
      <4> QED
        BY <1>5, <2>1, <4>1
    <3> QED
      BY <3>1, <3>2
  <2>2. CASE ~review.is_ascii
    BY <1>1, <1>3, <1>5, <1>6, <2>2
  <2> QED
    BY <2>1, <2>2
<1>8. flow_steps = both \o buttons
  BY DEF both, flow_steps, n, summary, text, buttons
<1>9. transaction_steps_number \in Nat
  BY StepsNumber
<1>10. /\ Len(flow_steps) = Len(both) + Len(buttons)
       /\ \A i \in 1..(Len(both) + Len(buttons)) :
            flow_steps[i] = IF i <= Len(both) THEN both[i] ELSE buttons[i - Len(both)]
  BY <1>4, <1>5, <1>8, ConcatProperties
<1>11. \A k \in 1..3 : flow_steps[transaction_steps_number + k] = buttons[k]
  BY <1>4, <1>7, <1>9, <1>10
<1>12. \A i \in 1..transaction_steps_number : flow_steps[i] = both[i]
  BY <1>4, <1>7, <1>9, <1>10
<1> QED
  BY <1>4, <1>7, <1>10, <1>11, <1>12

-----------------------------------------------------------------------------
(* Pages. *)

\* Two numbers in one slot are the same, or further apart than a page is long.
LEMMA SlotsOfPage ==
  ASSUME NEW n \in Nat, n > 0, NEW i \in Nat, NEW k \in Nat, i <= k, k - i < n, i % n = k % n
  PROVE  i = k
<1> DEFINE q == i \div n
           r == k \div n
           rest == i % n
<1>1. i = n * q + rest /\ k = n * r + rest /\ q \in Int /\ r \in Int /\ rest \in Nat
  BY SMT
<1> HIDE DEF q, r, rest
<1>2. n * r - n * q < n /\ n * r - n * q >= 0
  BY <1>1
<1>3. ASSUME r >= q + 1 PROVE FALSE
  <2>1. n * r >= n * q + n
    BY <1>1, <1>3, SMT
  <2> QED
    BY <1>1, <1>2, <2>1
<1>4. ASSUME r <= q - 1 PROVE FALSE
  <2>1. n * r <= n * q - n
    BY <1>1, <1>4, SMT
  <2> QED
    BY <1>1, <1>2, <2>1
<1>5. r = q
  BY <1>1, <1>3, <1>4
<1> QED
  BY <1>1, <1>5

\* A page finds every step where it was copied to.
LEMMA PageIsLoaded ==
  ASSUME TypeOK, NEW first \in Nat, NEW last \in Nat, first <= last,
         last - first < NB_MAX_DISPLAYED_PAIRS_IN_REVIEW, NEW index \in first..last
  PROVE  Loaded(first, last)[SlotOf(index)] = CopiedStep(index)
<1>1. /\ NB_MAX_DISPLAYED_PAIRS_IN_REVIEW \in Nat /\ NB_MAX_DISPLAYED_PAIRS_IN_REVIEW > 0
      /\ DOMAIN displayed_slots = 0..(NB_MAX_DISPLAYED_PAIRS_IN_REVIEW - 1)
      /\ index \in Nat
  BY ScreensAssumption DEF ScreensAssumption, TypeOK
<1> DEFINE writes(slot) == {other \in first..last : SlotOf(other) = slot}
           slot == SlotOf(index)
<1>2. slot \in DOMAIN displayed_slots
  BY <1>1 DEF SlotOf
<1>3. ASSUME NEW other \in writes(slot) PROVE other = index
  <2>1. other \in Nat /\ other % NB_MAX_DISPLAYED_PAIRS_IN_REVIEW
                           = index % NB_MAX_DISPLAYED_PAIRS_IN_REVIEW
    BY <1>3 DEF SlotOf
  <2>2. other - index < NB_MAX_DISPLAYED_PAIRS_IN_REVIEW
        /\ index - other < NB_MAX_DISPLAYED_PAIRS_IN_REVIEW
    BY <1>1, <1>3
  <2>3. CASE other <= index
    BY <1>1, <2>1, <2>2, <2>3, SlotsOfPage
  <2>4. CASE index <= other
    BY <1>1, <2>1, <2>2, <2>4, SlotsOfPage
  <2> QED
    BY <1>1, <2>1, <2>3, <2>4
<1>4. writes(slot) = {index}
  BY <1>3
<1>5. Loaded(first, last)[slot] =
        IF writes(slot) = {} THEN displayed_slots[slot]
        ELSE CopiedStep(CHOOSE one \in writes(slot) : \A other \in writes(slot) : other <= one)
  <2> HIDE DEF slot
  <2> QED
    BY <1>2 DEF Loaded
<1>6. (CHOOSE one \in {index} : \A other \in {index} : other <= one) = index
  BY <1>1
<1> QED
  BY <1>4, <1>5, <1>6

-----------------------------------------------------------------------------
(* Steps. *)

\* What was displayed stays displayed while the review is the same.
LEMMA DisplayedStays ==
  ASSUME NEW n, UpTo(n), seen \subseteq seen', review' = review
  PROVE  UpTo(n)'
BY DEF UpTo, Displayed, AllSteps

\* The first step of a flow is displayed at once; a touch screen has a title.
LEMMA ScreensInit == Init => ScreensInv
<1> SUFFICES ASSUME Init PROVE ScreensInv
  OBVIOUS
<1>1. review \in Reviews
  BY DEF Init
<1>2. /\ transaction_steps_number \in Nat /\ transaction_steps_number >= 1
      /\ Len(flow_steps) <= FlowStepsSize
      /\ 0 \in Indices
      /\ AllSteps = 0..(transaction_steps_number - 1)
  <2>1. MAX_TRANSACTION_SUMMARY_ITEMS \in Nat
    BY ScreensAssumption DEF ScreensAssumption
  <2>2. /\ transaction_steps_number \in Nat /\ transaction_steps_number >= 1
        /\ Len(flow_steps) <= FlowStepsSize
        /\ AllSteps = 0..(transaction_steps_number - 1)
    BY <1>1, StepsNumber, FlowSteps
  <2> QED
    BY <2>1, <2>2 DEF Indices
<1>3. TypeOK
  BY <1>1, <1>2 DEF Init, TypeOK, Flow, Screen, ScreenNames
<1>4. PageShowsItsSteps
  BY DEF Init, PageShowsItsSteps, Flow, Screen
<1>5. Progress
  <2>1. CASE device = "buttons"
    <3>1. screen = Flow(0) /\ seen = {WholeStep(0)} /\ response = "none"
      BY <2>1 DEF Init
    <3>2. UpTo(0)
      BY <1>2, <3>1 DEF UpTo, Displayed, WholeStep, Content
    <3> QED
      BY <1>2, <3>1, <3>2 DEF Progress, Flow
  <2>2. CASE device # "buttons"
    BY <2>2 DEF Init, Progress, Screen
  <2> QED
    BY <2>1, <2>2
<1> QED
  BY <1>3, <1>4, <1>5 DEF ScreensInv

\* One step per action: the ones that display go on from what was displayed, and an
\* answer leaves the review.
LEMMA ScreensStep == ScreensInv /\ [Next]_vars => ScreensInv'
<1> SUFFICES ASSUME ScreensInv, [Next]_vars PROVE ScreensInv'
  OBVIOUS
<1> USE DEF ScreensInv
<1>a. /\ review \in Reviews
      /\ transaction_steps_number \in Nat /\ transaction_steps_number >= 1
      /\ transaction_steps_number + 1 <= MAX_TRANSACTION_SUMMARY_ITEMS + 7
      /\ AllSteps = 0..(transaction_steps_number - 1)
      /\ MAX_TRANSACTION_SUMMARY_ITEMS \in Nat
  BY StepsNumber, ScreensAssumption DEF TypeOK, ScreensAssumption
<1>b. ASSUME review' = review
      PROVE  /\ transaction_steps_number' = transaction_steps_number
             /\ (Len(flow_steps) <= FlowStepsSize)' = (Len(flow_steps) <= FlowStepsSize)
             /\ \A index : CopiedStep(index)' = CopiedStep(index)
             /\ AllSteps' = AllSteps
  BY <1>b DEF transaction_steps_number, flow_steps, CopiedStep, IsText, AllSteps, FlowStepsSize
\* A screen with no steps of its own, or a question before a page.
<1>c. ASSUME UNCHANGED <<device, review, displayed_slots>>,
             screen' \in [at : ScreenNames, first : Indices, last : Indices],
             response' \in {"none", "approved", "rejected"}
      PROVE  TypeOK'
  BY <1>b, <1>c DEF TypeOK
<1>d. 0 \in Indices
  BY <1>a DEF Indices
<1>1. ASSUME NEW index \in Indices, PressSide(index) PROVE ScreensInv'
  <2>1. /\ screen.at = "flow" /\ screen' = Flow(index) /\ index \in Nat
        /\ index \in {screen.first - 1, screen.first + 1}
        /\ flow_steps[index + 1] # "end"
        /\ UNCHANGED <<device, review, displayed_slots, response>>
    BY <1>1 DEF PressSide, Indices
  <2>2. screen.first \in 0..(transaction_steps_number + 1) /\ UpTo(screen.first)
    BY <2>1 DEF Progress
  <2>3. flow_steps[transaction_steps_number + 3] = "end"
    BY <1>a, FlowSteps
  <2>4. index <= transaction_steps_number + 1
    <3>1. index # transaction_steps_number + 2
      BY <1>a, <2>1, <2>3
    <3> QED
      BY <1>a, <2>1, <2>2, <3>1
  <2>5. UpTo(index)'
    <3>1. ASSUME NEW step \in AllSteps, step <= index PROVE step \in Displayed'
      <4>1. CASE step = index
        <5>1. flow_steps[index + 1] \in {"summary", "text"}
          <6>1. index + 1 \in 1..transaction_steps_number
            BY <1>a, <3>1, <4>1
          <6> QED
            BY <1>a, <6>1, FlowSteps
        <5>2. WholeStep(index) \in seen'
          BY <1>1, <5>1 DEF PressSide
        <5>3. WholeStep(index).step = index
          BY DEF WholeStep, Content
        <5> QED
          BY <4>1, <5>2, <5>3 DEF Displayed
      <4>2. CASE step # index
        <5>1. step <= screen.first
          BY <1>a, <2>1, <2>2, <3>1, <4>2
        <5>2. step \in Displayed /\ seen \subseteq seen'
          BY <1>1, <2>2, <3>1, <5>1 DEF UpTo, PressSide
        <5> QED
          BY <5>2 DEF Displayed
      <4> QED
        BY <4>1, <4>2
    <3> QED
      BY <1>b, <2>1, <3>1 DEF UpTo
  <2>6. TypeOK'
    BY <1>1, <1>c, <2>1 DEF Flow, ScreenNames, TypeOK
  <2>7. Progress'
    <3>1. response' = "none"
      BY <2>1 DEF Progress, TypeOK
    <3> QED
      BY <1>a, <1>b, <2>1, <2>4, <2>5, <3>1 DEF Progress, Flow
  <2> QED
    BY <2>1, <2>6, <2>7 DEF PageShowsItsSteps, Flow
<1>2. CASE PressBoth
  BY <1>2, <1>c, <1>d DEF PressBoth, Screen, ScreenNames, Progress, PageShowsItsSteps
<1>3. ASSUME NEW first \in Indices, NEW last \in Indices, TurnPage(first, last)
      PROVE  ScreensInv'
  <2>1. /\ first \in Nat /\ last \in Nat /\ first <= last /\ last < transaction_steps_number
        /\ last - first < NB_MAX_DISPLAYED_PAIRS_IN_REVIEW
        /\ displayed_slots' = Loaded(first, last)
        /\ screen' = Page(first, last)
        /\ seen' = seen \cup {Loaded(first, last)[SlotOf(index)] : index \in first..last}
        /\ UNCHANGED <<device, review, response>>
    BY <1>3 DEF TurnPage, DisplayPage, Indices
  <2>2. \A index \in first..last : Loaded(first, last)[SlotOf(index)] = CopiedStep(index)
    BY <2>1, PageIsLoaded
  <2>3. TypeOK'
    <3>1. DOMAIN displayed_slots' = DOMAIN displayed_slots
      BY <2>1 DEF Loaded
    <3>2. screen' \in [at : ScreenNames, first : Indices, last : Indices]
      BY <1>3, <2>1 DEF Page, ScreenNames
    <3> QED
      BY <1>b, <2>1, <3>1, <3>2 DEF TypeOK
  <2>4. PageShowsItsSteps'
    BY <1>b, <2>1, <2>2 DEF PageShowsItsSteps, Page, SlotOf
  <2>5. UpTo(last)'
    <3>1. ASSUME NEW step \in AllSteps, step <= last PROVE step \in Displayed'
      <4>1. step \in Nat
        BY <1>a
      <4>2. CASE step \in first..last
        <5>1. CopiedStep(step) \in seen' /\ CopiedStep(step).step = step
          BY <2>1, <2>2, <4>2 DEF CopiedStep, Content
        <5> QED
          BY <5>1 DEF Displayed
      <4>3. CASE step < first
        <5>1. step \in Displayed
          <6>1. CASE screen.at = "start" /\ first = 0
            BY <4>1, <4>3, <6>1
          <6>2. CASE screen.at = "page" /\ first = screen.last + 1
            <7>1. UpTo(screen.last) /\ screen.last \in Nat
              BY <6>2 DEF Progress
            <7> QED
              BY <3>1, <4>1, <4>3, <6>2, <7>1 DEF UpTo
          <6>3. CASE screen.at = "page" /\ last = screen.first - 1
            <7>1. UpTo(screen.last) /\ screen.last \in Nat /\ screen.first \in Nat
                  /\ screen.first <= screen.last
              BY <6>3 DEF Progress
            <7> QED
              BY <2>1, <3>1, <4>1, <6>3, <7>1 DEF UpTo
          <6>4. CASE screen.at = "final"
            <7>1. UpTo(transaction_steps_number)
              BY <6>4 DEF Progress
            <7> QED
              BY <1>a, <2>1, <3>1, <4>1, <7>1 DEF UpTo
          <6> QED
            BY <1>3, <6>1, <6>2, <6>3, <6>4 DEF TurnPage
        <5> QED
          BY <2>1, <5>1 DEF Displayed
      <4> QED
        BY <2>1, <3>1, <4>1, <4>2, <4>3
    <3> QED
      BY <1>b, <2>1, <3>1 DEF UpTo
  <2>6. Progress'
    <3>1. response' = "none"
      <4>1. screen.at \in {"start", "page", "final"}
        BY <1>3 DEF TurnPage
      <4> QED
        BY <2>1, <4>1 DEF Progress
    <3> QED
      BY <1>b, <2>1, <2>5, <3>1 DEF Progress, Page
  <2> QED
    BY <2>3, <2>4, <2>6
<1>4. CASE ReachFinalPage
  <2>1. /\ screen.at = "page" /\ screen.last = transaction_steps_number - 1
        /\ screen' = Screen("final")
        /\ UNCHANGED <<device, review, displayed_slots, seen, response>>
    BY <1>4 DEF ReachFinalPage
  <2>2. UpTo(transaction_steps_number)'
    BY <1>a, <1>b, <2>1 DEF Progress, UpTo, Displayed
  <2> QED
    BY <1>b, <1>c, <1>d, <2>1, <2>2 DEF Screen, ScreenNames, Progress, PageShowsItsSteps, TypeOK
<1>5. CASE LongPress
  BY <1>5, <1>c, <1>d DEF LongPress, Screen, ScreenNames, Progress, PageShowsItsSteps
<1>6. CASE AskReject
  BY <1>6, <1>b, <1>c
  DEF AskReject, ScreenNames, Questions, Progress, PageShowsItsSteps, TypeOK, UpTo, Displayed,
      SlotOf
<1>7. CASE GoBack
  BY <1>7, <1>b, <1>c
  DEF GoBack, ScreenNames, Questions, Progress, PageShowsItsSteps, TypeOK, UpTo, Displayed,
      SlotOf
<1>8. CASE ConfirmReject
  BY <1>8, <1>c, <1>d DEF ConfirmReject, Screen, ScreenNames, Progress, PageShowsItsSteps
<1>9. CASE ShowAddress
  <2>1. /\ screen.at = "start" /\ screen' = Screen("address") /\ review.kind = "pubkey"
        /\ seen' = seen \cup {WholeStep(0)}
        /\ UNCHANGED <<device, review, displayed_slots, response>>
    BY <1>9 DEF ShowAddress, Reviewed
  <2>2. AllSteps = {0}
    <3>1. review.is_ascii = FALSE /\ review.num_summary_steps = 1
      BY <1>a, <2>1 DEF Reviews
    <3> QED
      BY <3>1 DEF AllSteps
  <2>3. UpTo(transaction_steps_number)'
    <3>1. WholeStep(0) \in seen' /\ WholeStep(0).step = 0
      BY <2>1 DEF WholeStep, Content
    <3>2. 0 \in Displayed'
      BY <3>1 DEF Displayed
    <3>3. AllSteps' = {0}
      BY <1>b, <2>1, <2>2
    <3> QED
      BY <3>2, <3>3 DEF UpTo
  <2> QED
    BY <1>b, <1>c, <1>d, <2>1, <2>3 DEF Screen, ScreenNames, Progress, PageShowsItsSteps, TypeOK
<1>10. CASE ChooseAddress
  BY <1>10, <1>c, <1>d DEF ChooseAddress, Screen, ScreenNames, Progress, PageShowsItsSteps
<1>11. CASE LeaveStatus
  BY <1>11, <1>c, <1>d
  DEF LeaveStatus, Screen, ScreenNames, Progress, PageShowsItsSteps, TypeOK
<1>12. CASE UNCHANGED vars
  BY <1>12, <1>b, <1>c DEF vars, Progress, PageShowsItsSteps, TypeOK, UpTo, Displayed, SlotOf
<1> QED
  BY <1>1, <1>2, <1>3, <1>4, <1>5, <1>6, <1>7, <1>8, <1>9, <1>10, <1>11, <1>12 DEF Next

-----------------------------------------------------------------------------
(* The promise of a review. *)

\* A review begins with steps it may have and no answer.
LEMMA PromiseInit == Init => Promise!Init
<1> SUFFICES ASSUME Init PROVE Promise!Init
  OBVIOUS
<1>1. review \in Reviews
  BY DEF Init
<1>2. /\ AllSteps = 0..(transaction_steps_number - 1)
      /\ transaction_steps_number + 1 <= MAX_TRANSACTION_SUMMARY_ITEMS + 7
      /\ transaction_steps_number \in Nat /\ MAX_TRANSACTION_SUMMARY_ITEMS \in Nat
  BY <1>1, StepsNumber, ScreensAssumption DEF ScreensAssumption
<1>3. AllSteps \subseteq Indices
  BY <1>2 DEF Indices
<1> QED
  BY <1>3 DEF Init, Promise!Init, Unseen

\* When the user has come past the last step, none is unseen.
LEMMA AllDisplayed ==
  ASSUME review \in Reviews, NEW n \in Nat, n >= transaction_steps_number, UpTo(n)
  PROVE  Unseen = {}
<1>1. AllSteps = 0..(transaction_steps_number - 1) /\ transaction_steps_number \in Nat
  BY StepsNumber
<1>2. AllSteps \subseteq Displayed
  BY <1>1 DEF UpTo
<1> QED
  BY <1>2 DEF Unseen, Displayed

\* Every step shows more, answers, or changes nothing of the promise.
LEMMA PromiseStep ==
  ScreensInv /\ [Next]_vars => [Promise!Next]_<<Unseen, response>>
<1> SUFFICES ASSUME ScreensInv, [Next]_vars
             PROVE  Promise!Next \/ UNCHANGED <<Unseen, response>>
  BY Zenon
<1> USE DEF ScreensInv
<1>a. /\ review \in Reviews /\ transaction_steps_number \in Nat
      /\ transaction_steps_number >= 1
  BY StepsNumber DEF TypeOK
<1>b. ASSUME UNCHANGED <<review, seen>> PROVE Unseen' = Unseen
  BY <1>b DEF Unseen, AllSteps
<1>c. ASSUME review' = review, seen \subseteq seen' PROVE Unseen' \subseteq Unseen
  BY <1>c DEF Unseen, AllSteps
<1>d. response # "none" => screen.at \in {"status", "idle"}
  BY DEF Progress
<1>1. ASSUME NEW index \in Indices, PressSide(index) PROVE Promise!Show
  BY <1>1, <1>c, <1>d DEF PressSide, Promise!Show
<1>2. CASE PressBoth
  <2>1. /\ screen.at = "flow" /\ response = "none" /\ UNCHANGED <<review, seen>>
    BY <1>2, <1>d DEF PressBoth
  <2>2. CASE flow_steps[screen.first + 1] = "approve" /\ response' = "approved"
    <3>1. screen.first \in 0..(transaction_steps_number + 1) /\ UpTo(screen.first)
      BY <2>1 DEF Progress
    <3>2. ~(screen.first < transaction_steps_number)
      <4>1. \A n \in 1..transaction_steps_number : flow_steps[n] \in {"summary", "text"}
        BY <1>a, FlowSteps
      <4> QED
        BY <1>a, <2>2, <3>1, <4>1
    <3>3. Unseen = {}
      BY <1>a, <3>1, <3>2, AllDisplayed
    <3> QED
      BY <1>b, <2>1, <2>2, <3>3 DEF Promise!Next, Promise!Approve
  <2>3. CASE response' = "rejected"
    BY <1>b, <2>1, <2>3 DEF Promise!Next, Promise!Reject
  <2> QED
    BY <1>2, <2>2, <2>3 DEF PressBoth
<1>3. ASSUME NEW first \in Indices, NEW last \in Indices, TurnPage(first, last)
      PROVE  Promise!Show
  BY <1>3, <1>c, <1>d DEF TurnPage, DisplayPage, Promise!Show
<1>4. CASE LongPress
  <2>1. /\ screen.at = "final" /\ response = "none" /\ response' = "approved"
        /\ UNCHANGED <<review, seen>>
    BY <1>4, <1>d DEF LongPress
  <2>2. Unseen = {}
    <3>1. UpTo(transaction_steps_number)
      BY <2>1 DEF Progress
    <3> QED
      BY <1>a, <3>1, AllDisplayed
  <2> QED
    BY <1>b, <2>1, <2>2 DEF Promise!Next, Promise!Approve
<1>5. CASE ConfirmReject
  BY <1>5, <1>b, <1>d DEF ConfirmReject, Questions, Promise!Next, Promise!Reject
<1>6. CASE ShowAddress
  BY <1>6, <1>c, <1>d DEF ShowAddress, Promise!Next, Promise!Show
<1>7. CASE ChooseAddress
  <2>1. /\ screen.at \in {"start", "address"} /\ response = "none"
        /\ UNCHANGED <<review, seen>>
    BY <1>7, <1>d DEF ChooseAddress
  <2>2. CASE screen.at = "address" /\ response' = "approved"
    <3>1. UpTo(transaction_steps_number)
      BY <2>2 DEF Progress
    <3>2. Unseen = {}
      BY <1>a, <3>1, AllDisplayed
    <3> QED
      BY <1>b, <2>1, <2>2, <3>2 DEF Promise!Next, Promise!Approve
  <2>3. CASE response' = "rejected"
    BY <1>b, <2>1, <2>3 DEF Promise!Next, Promise!Reject
  <2> QED
    BY <1>7, <2>2, <2>3 DEF ChooseAddress
<1>8. CASE ReachFinalPage \/ AskReject \/ GoBack \/ LeaveStatus \/ UNCHANGED vars
  BY <1>8, <1>b DEF ReachFinalPage, AskReject, GoBack, LeaveStatus, vars
<1> QED
  BY <1>1, <1>2, <1>3, <1>4, <1>5, <1>6, <1>7, <1>8 DEF Next, Promise!Next

\* The steps never overflow their array, for any size of the summary.
THEOREM ScreensTypeCorrect == Spec => []TypeOK
<1>1. ScreensInv => TypeOK
  BY DEF ScreensInv
<1> QED
  BY ScreensInit, ScreensStep, <1>1, PTL DEF Spec

\* A page shows its own steps, however the library cuts the pages and in whatever order
\* they are turned.
THEOREM PagesShowTheirSteps == Spec => []PageShowsItsSteps
<1>1. ScreensInv => PageShowsItsSteps
  BY DEF ScreensInv
<1> QED
  BY ScreensInit, ScreensStep, <1>1, PTL DEF Spec

\* The screens implement the abstract review: an approval comes after every step was
\* displayed, and there is one answer.
THEOREM ScreensKeepPromise == Spec => KeepsPromise
BY ScreensInit, ScreensStep, PromiseInit, PromiseStep, PTL DEF Spec, KeepsPromise, Promise!Spec
=============================================================================
