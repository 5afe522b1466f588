# Verification of the RENEC Ledger application

TLA+ specifications of the RENEC application for Ledger hardware wallets, the
TLC configurations that check them, and theorems checked by TLAPS. Source paths
are relative to the repository root; the application is in `src/` of the
repository (`src/src/` in the manifest), its portable library in `librenec/`.

## 1. The system

A host sends APDUs over USB or Bluetooth; the device assembles them into a
command, shows the user what it is asked to sign, and answers with a signature
or a refusal. The Exchange application of the device can launch this one as a
library, to sign one agreed transaction without a review.

| component | state | operations | interacts with |
|---|---|---|---|
| APDU protocol (`apdu.c`, `utils.c`) | `G_command`: state, instruction, path, message | one call per APDU: header checks, first chunk, EXTEND chunk | called by the event loop, read by every handler and button |
| event loop and dispatcher (`main.c`) | the buffers' lifetime, `requested`, settings initialisation | launch, launch from Exchange, receive, dispatch, catch exceptions, leave | everything |
| replies (`io.c`) | the outstanding APDU | `sendResponse`, reset by the cable, quit after a swap | handlers, buttons, Exchange |
| public key handler (`handle_get_pubkey.c`) | `G_publicKey` | answer at once or after a review | review screens |
| transaction handler (`handle_sign_message.c`) | the transaction summary | parse, fall back to blind signing, fee payer, finalize, open the review or answer the swap | library, settings, Exchange check |
| off-chain message handler | the summary, the message hash | header, length and text checks, review | settings, review screens |
| message body and printers (`message.c`, `transaction_printers.c`, `*_instruction.c`) | none | recognise a combination of instructions, put its items in the summary | summary |
| transaction summary (`transaction_summary.c`) | one slot per special item, eleven general ones | getters, setters, finalize, display an item | printers, screens |
| review screens (`ui/*_bagl.c`, `ui/*_nbgl.c`) | the flow on display | show a step, approve, reject | summary, `G_command` (read when a button is pressed) |
| settings menus (`ui/menu_*.c`) | `N_storage` (kept without power), the switches drawn | change blind signing, key length, display mode | read by the handlers |
| Exchange check (`swap/handle_swap_sign_transaction.c`) | `G_swap_validated`, `G_swap_response_ready` | accept an offer, compare two steps with it, return the result | transaction handler, replies |
| Exchange library calls (`swap/handle_check_address.c`, ...) | none | check an address, print an amount | Exchange |
| byte parser (`parser.c`, `instruction.c`) | a cursor in the message, pointers kept into it | header, lengths, keys, hash, instructions | transaction handler, instruction parsers |
| instruction parsers (`*_instruction.c`) | none | accounts and fields of an instruction to its info | byte parser, printers |
| formatting (`printer.c`, `rfc3339.c`, `token_info.c`) | none | numbers, amounts, keys, strings, dates to text | summary, Exchange |

### What is hard here

There is one thread, but its steps are separated by the events that
`io_exchange` lets in: other APDUs, button presses, the menu, the unplugging of
the cable, loss of power. Almost all state is global and shared: the message
buffer is filled by one APDU, parsed when it is complete, read again through
pointers whenever a step of the review is displayed, and signed when a button is
pressed, so each of those moments can see something else than the one before.
Exceptions (`THROW`) leave handlers and button callbacks half way. The library's
printers write through getters that return NULL when a slot is taken and test
none of them, so how many items any combination of instructions produces matters
for memory, and which ones it produces for what the user believes he signs.
The parser keeps pointers into the message and indices chosen by it, with lengths
and counts of several widths; texts are written backwards, digit by digit, into
buffers of fixed sizes; the touch screen shows several steps from a ring of slots.
PROJECT.json lists these hazards at their lines, with the properties that cover
them.

### What makes each part correct

* protocol: the assembled command is one uninterrupted transfer, within the
  buffer, whatever was sent before;
* reviews: what is on the screen, what was parsed and what a button signs are the
  same bytes, under the same settings;
* signatures: none without an approval of just those bytes, or, in a swap, without
  a transaction that is the agreed transfer; one per launch from Exchange;
* printers and summary: every item gets a slot, every announced step has its
  item, and amounts, foreign authorities and the blindness of a review are visible;
* parser: what is accepted is understood to its last byte, whatever is well formed
  is accepted, and every pointer and index kept stays in the message;
* texts: the number, key or date that is read off the screen is the one in the
  message, and what is cut is marked; bytes count as a text only if they are one;
* screens: every pair shows its own step, and nothing is approved before all steps
  were displayed;
* settings page: what is shown is what is stored;
* everywhere: an APDU is answered if the user decides.

## 2. Modules

```
SigningDevice            the abstract promise of a signing device
SummaryItems             items, comparison with an Exchange offer
Apdu                     apdu_handle_message and the path reader
SignHandlers             decisions of the two signing handlers   (Apdu, SummaryItems)
RenecDevice              the running application                 (SignHandlers; refines SigningDevice)
MessageParser            a transaction message, byte by byte, and the look for the signer
MessageEncoding          what the bytes of a message mean, and the parser against it
                                                                 (MessageParser)
InstructionParsers       accounts and fields of an instruction to its info
TransactionPrinters      message.c, transaction_printers.c, all print functions (SummaryItems)
TransactionSummary       the slots of the summary                (SummaryItems)
TransactionReview        parsing, printing, finalizing and walking through a review
                                      (InstructionParsers, TransactionPrinters, TransactionSummary)
TextPrinters             strings, dates, UTF-8, the Exchange library calls
SummaryTexts             an item becomes the text of a step; is a message a text?
                                                                 (TextPrinters)
ReviewPromise            the abstract promise of a review
ReviewScreens            the review screens of both devices      (refines ReviewPromise)
SettingsMenu             the touch-screen settings page
Filters                  the elements of a sequence that are kept, in their order
MC...                    the instances for TLC
RenecDeviceProofs, MessageParserProofs, ReviewScreensProofs, SettingsMenuProofs,
SummaryTextsProofs       the theorems about these modules
PrintersProofs           what a print function puts, by its shape    (TransactionReview)
PrintedContentsProofs    ... and by its contents                     (PrintersProofs)
TransactionReviewProofs  the theorems about a review             (PrintedContentsProofs)
```

The models meet at their interfaces: `MessageParser` is the detail of the header and the
loop that `SignHandlers` takes as `MessageHeader` and `MessageBody`,
`InstructionParsers` and `TransactionPrinters` that of the items a body gives,
`SummaryTexts` that of `Displayable` and of `OffchainText`, `ReviewScreens` that of the
`screen` a button of `RenecDevice` is pressed on. The device model takes them as
parameters, and its theorems hold for all of them.

### RenecDevice and what it is built from

`Apdu` translates `apdu_handle_message` into `FrameStatus`, `HeadStatus` and
`MessageStatus` (the checks in the order of the code, each with its status word)
and `FilledCommand` (the command the call leaves, also when it fails half way).
`SignHandlers` says what the two signing handlers decide about a complete command
and which summary they build; what the parsers of the library find in a message
is a parameter (`MessageHeader`, `MessageBody`, `OffchainHeader`,
`OffchainText`), so that the theorems hold for any parser that satisfies
`SignAssumption`.

`RenecDevice` is the program. Its variables are the globals of the code under
their names (`G_command`, `G_publicKey`, `G_transaction_summary`,
`G_swap_response_ready`, `G_swap_validated`, `N_storage`), `app` and `screen`
(which main runs, which flow is on display), `requested`, `reply` and
`swap_result` (what the outside has been told), and three history variables that
no action reads: `transfer`, what the host believes it has sent; `review`, what
the flow on display was built from; `swap_signatures`. One action is one whole
step of the thread: an APDU up to its reply or to the opening of a review
(`RefuseApdu`, `AcceptChunk`, `GetPubkey`, `RefuseTransactionHeader`,
`ReviewTransaction`, `AnswerSwap`, ...), one button (`ApprovePubkey`,
`ApproveSignature`, `Reject`, `ShowStep`, where an item that cannot be formatted
throws), one change of a setting, a reset (`IoReset`), `Quit`, `PowerOff`.
A signed swap reply and its `FinalizeExchange` are two steps, and power may be
lost between them.

A key is named by the derivation path it is derived from, and a signature by its
path and message. The SDK delivers no second APDU while one is unanswered. A
reply from a callback when no APDU is outstanding blocks the application in
`io_exchange` until a reset (`Freeze`).

The refinement mapping is `Contract`: `assembled` is `G_command` while a signing
transfer is open, `presented` is what the pending review was built from, `signed`
is the signature in the last reply, `offer` is the offer until the response is
ready.

### TransactionReview and what it is built from

`TransactionPrinters` gives every print function as the sequence of items it puts
in the summary, each with the slot it asks for, and `print_transaction` and
`process_message_body` as the dispatch over them. It works on the infos that
`InstructionParsers` fills in.
`TransactionSummary` has the slots, the getters that hand them out, the
finalization and the separate walk of `transaction_summary_find_item`.
Both select with `Kept` of `Filters`, which gives the places of what is kept in
increasing order: the community modules' selection is recursive, and the provers
cannot look into it.
`InstructionParsers` gives every parse function as the names of the accounts and of
the fields it reads, in their order; an instruction whose accounts or fields are cut
short gives no info. `TransactionReview` parses the instructions of a message and
runs the handler item by item: `PutItem` takes a slot or goes
to `"undefined"` when the getter returned NULL; `FallBack`, `Refuse`,
`AddFeePayer`, `Finalize` are the branches of `handle_sign_message.c`;
`DisplayItem` is the user who walks through the steps. It is the detail of what
`RenecDevice` takes as `MessageBody`: `OnlyBlindSigningRefuses` and
`ItemsHaveSlots` check on the printers what `SignAssumption` assumes.

`ReviewTellsApart` compares each review with all others: two recognised transactions
with the same expert steps have the same infos. The fields that have no step, because
the printers take for granted that the instructions of a combination are about one
account, are listed in `Untold`, and kinds and values that are titled alike in
`Alike` and `Shown`: the list is the exact account of what a review leaves out.

### MessageParser

The parser of the code is a pointer and the number of bytes left; here it is the number
of bytes left behind, and a pointer into the message is the number of bytes before what
it points to. One action parses one part (`parse_version`, `parse_pubkeys_header`, ...,
`scan_header_for_signer`; `ParseInstruction` takes one instruction) and each failure
ends in the status the handler throws (`Refuse`). `parse_length` reads one to three
groups of seven bits; nothing rejects an encoding longer than needed.
`instruction_validate` is the only test of the indices that the printers use much later.

`MessageEncoding` models no code: it says what a text encodes, from the format and without
the parse functions (`LengthEncodings`, `AfterLength`, ..., `Encodes`). A part may have
several encodings, so that it is followed by a set of places. `AcceptedIsUnderstood` and
`WellFormedIsAccepted` compare the parser with it, in both directions.

### TextPrinters and SummaryTexts

A text is a sequence of character codes. `SummaryTexts` writes numbers and keys one
digit per step, as the loops of `print_u64`, `print_token_amount` and
`encode_base58` do, with the tests of the room where the code has them; strings and
dates are printed at once by the operators of `TextPrinters`. A date is given as era,
day and second, so that the 64-bit sum and the cut of its quotient to 32 bits are
exact in TLC's integers. `TextPrinters` also has `copy_transaction_parameters` and
`handle_check_address` on texts. The bytes of an off-chain message, which are signed
under their text or only under their hash, are classed by `is_data_ascii` and then one
UTF-8 sequence per step (`ScanSequence`).

### ReviewScreens

The flow of the button devices is the array `flow_steps`, walked one step at a time.
On touch screens the library asks for the pairs of a page, and each is copied into
the slot `index % 4` of `displayed_slots`; how many pairs a page takes is up to the
library, at most `NB_MAX_DISPLAYED_PAIRS_IN_REVIEW`. Pages are turned both ways, a
rejection is asked about and taken back. `seen` records what has been displayed, and
of a text how much; the mapping to `ReviewPromise` calls a step unseen when it was
never on display. What libraries of the device do with the callbacks is modelled
from how the files use them.

### SettingsMenu

`N_storage` (stored), `G_switches` (`initState`, given to the graphics library)
and `toggles` (what the library draws) are the three copies of a setting. That the
library turns a toggle over by itself and does not call the navigation callback
after a touch is not code of the repository; it is how `nbgl_useCaseSettings` is
used, and the model takes it from there.

## 3. Runs

| run | what it asks |
|---|---|
| `device` | all of RenecDevice: type and buffer bound, `TransferIntegrity`, `ReviewIsOfCommand`, `SummaryIsOfCommand`, `BlindSigningIsEnabled`, `SwapSignsOnce`, `SignatureIsAuthorized`, `SwapSignsOnlyTheOffer`, the refinement `ImplementsSigningDevice` and the liveness `RequestsAreAnswered` |
| `swap_quits` | a comment says the application quits after one swap transaction, refused or not: violated (see Findings) |
| `message_parser` | the byte parser: `PointersStayInside`, `InstructionsNameKeys`, `SignerIsRequired`, and against an independent encoding of messages, `AcceptedIsUnderstood` and `WellFormedIsAccepted` |
| `signer_in_header` | a comment says the signer is ensured to be in the header: violated |
| `review` | instruction parsers and printers: `ItemsHaveSlots`, `StepsAreDisplayable`, `BlindReviewIsBare`, `OnlyBlindSigningRefuses`, `ExpertsSeeMore`, `AmountsAreShown`, `ForeignAuthorityIsShown`, `SwapStepsAreATransfer`, `RecognisedIsComplete`, `SignersAreCounted`, `ReviewTellsApart` |
| `fee_payer` | the header calls the fee payer required for finalization: violated |
| `split_account` | a comment says a split's new account gets no lamports: violated |
| `texts` | every text read back: `WritesStayInside`, `NumbersAreExact`, `CutsAreMarked`, `DatesAreRight`, `KeysDecode`; `AddressesAreExact` for the Exchange calls; `MessagesAreClassified` for the bytes of off-chain messages, against a definition of UTF-8 from the values it encodes |
| `screens` | `PageShowsItsSteps` and the refinement `KeepsPromise` of ReviewPromise |
| `whole_message` | the protocol document says the user validates the text of an ASCII message: violated on touch screens |
| `settings_page` | `PageShowsSettings`: when page and storage agree |
| `settings_toggle` | a comment says a touch writes the opposite of the toggle: violated |

### Bounds and why they are enough

`device`: a message buffer of three bytes, bytes 0..2, path words of one byte,
paths of at most two words, two derivable keys and one the system refuses. The
first chunks carry none to two message bytes, or four, and EXTEND chunks none, one
or four, so that transfers of one to four chunks fill the buffer exactly, overflow
it by one byte at the first and at a later chunk, stop half way and start again.
The APDUs include every header error, each instruction with each confirmation
mode, EXTEND to the wrong instruction and mode, truncated paths. The table of
messages has recognised transfers with the offered and with another recipient,
unrecognised ones with and without items left behind, unparsable headers, foreign
signers, a foreign fee payer, an item that cannot be formatted, and off-chain
texts of each class. Nothing counts without bound: no action limit is needed.
Deadlock is checked.

`message_parser`: keys and hashes of two bytes instead of 32, messages of up to 300
bytes; nothing in the parser depends on those sizes but by sums, and the theorems
have them as parameters. Messages are made from what they mean, versioned or not,
with no, one or several keys, more signatures than keys, no instruction up to one
more than `MAX_INSTRUCTIONS`, one of them with 130 accounts and 129 bytes of data so
that lengths need two groups; each in every encoding of each length, cut short at
every byte, longer by one, and with each of the first forty bytes replaced by each of
eight values at the edges of the codings. Deadlock is not checked: parsing ends.

`review`: every kind of instruction with every value that changes what is printed
(the acting key the user's or another, custodian or none, lockups of each shape,
one or two authorities, thresholds that can and cannot be printed, single and
multiple token signers, one more than are kept), whole and cut short by an account
or a field (creations of accounts, behind each of their fields), alone with either fee payer; all pairs of kinds, and all options of the
pairs that are recognised together; the triples and quadruples with a nonce or a
memo that reach the longest recognised combination, which fills all eleven general
items; five instructions, one more than `MAX_INSTRUCTIONS`. Values of fields not
compared by the code are one or two, so that a swapped field shows. The review ends
nowhere in particular, so deadlock (a refused transaction) is not checked.

`texts`: the buffers of the source; amounts at the edges of their decimals up to
2^31 - 1, the largest integer of TLC, with 0 to 12 decimals and with those around the
length of the buffer; strings around the length of the buffer with a NUL at each
interesting place; keys of 32 bytes with every kind of head; the first days of the
calendar, the first of each month of eight irregular years, the last of 9999, and
days that wrap around in 32 bits; messages with every byte at which UTF-8 has an edge at
their head and what continues or breaks a sequence behind it, and up to three sequences,
legal and not, in a row.

`screens`: the sizes of the code (15 items, 4 slots, 45 characters), reviews of every
length, texts shorter than, as long as and longer than a slot.

`settings_page`: three settings, four touches of each per visit (`MaxTouches`):
the effect of a touch depends on its parity only, and the theorem has no bound.
The runs of the parser, the texts and the screens end, so that deadlock is not
checked in them.

### Fairness

`RequestsAreAnswered` assumes weak fairness of `Decide` only: the user who has a
review before him presses a button in the end, which stays enabled until he does,
until he walks into a step that cannot be displayed (answered with an error), or
until a reset. Nothing is assumed of the host, of power or of the cable.

## 4. Proofs

TLAPS proves, for every set of APDUs, every parser, every buffer and path length:

| theorem | argument |
|---|---|
| `TypeCorrect` | `TypeOK` is inductive; the work is `HandledType` in RenecDeviceProofs: the buffer check bounds the sum of the chunks |
| `TransfersKeepIntegrity` | `TransferIntegrity` is inductive: an accepted chunk (`AcceptedChunk`) either opens a transfer or continues the one recorded, and everything else empties both |
| `ReviewsAreOfTheCommand` | `ReviewIsOfCommand` is inductive with `TypeOK`: no APDU is accepted while one is outstanding, so the command of the flow on display stays; each handler that opens a review is checked in `ReviewHandle` |
| `SignaturesAreAuthorized` | the action property, from the three invariants above: a button signs `G_command`, which is the review's and the transfer's |
| `SummariesAreOfTheCommand`, `BlindSigningNeedsTheSetting` | settings change on the idle screen only, and a pending review is not on it |
| `SwapsSignOnce` | the strengthening `SwapInv`: no transaction has been signed while the application still takes APDUs in a swap, and a response that is ready has ended the event loop; the guard of `handle_sign_message.c` against a second signature is therefore never reached |
| `SwapsSignOnlyTheOffer` | two steps that `check_swap_validity` accepts are the amount and the recipient of the offer (`ValidSteps`); a summary that has a fee payer, a message hash or expert items has a step that no offer matches (`PaysWithoutBlind`), so what is left is the recognised transfer |
| `DeviceKeepsContract` | the refinement: each handler and button is one action of SigningDevice or a stutter (`ContractHandle`, `ContractDecide`, `ContractStep`), from `TypeOK`, `ReviewIsOfCommand`, `SwapInv` and `OfferInv` (a swap has an offer as long as it runs) |
| `ParserTypeCorrect`, `PointersAreInside`, `IndicesAreOfKeys` | `ParserInv`: which parts have been parsed at each step, and that they lie one behind the other up to the place of the parser; the three properties alone do not say that the hash comes after the keys while the instructions are still to be read |
| `RequiredSignerIsFound` | `SignerInv`: the key found is the first equal one among the required keys. It needs the bound on the length of the message: the code multiplies before it compares |
| `AcceptedAlwaysUnderstood` | `Understood`: each part that was parsed stands in the message, behind the part before it. The lengths, data and instructions that are encoded at a place are those that the parse functions find there (`LengthsAgree`, `DataAgree`, `InstructionsAgree`: seven bits at a time, whatever the high bit of a third byte), and there is one at most; a list that goes on begins as before (`SameBeginnings`) |
| `WellFormedAlwaysAccepted` | `WellFormedInv`: a message that encodes something well-formed has not been refused, and its instructions are the first of those meant. As a place has one length at most (`OneEncoded`), the parser is where the meaning says (`HeaderLocated`, `BodyLocated`), so no parse function fails (`HeaderNotRefused`, `BodyNotRefused`), the required signer is found (`SignerFound`, which needs `SignerInv`) and the next instruction parsed is the next one meant (`NextFound`, `NextValid`) |
| `ScreensTypeCorrect`, `PagesShowTheirSteps`, `ScreensKeepPromise` | `ScreensInv`: what is on the screen, and on the way to it everything before it, has been seen (`Progress`); the pairs of a page are fewer than the slots, so no two share one (`SlotsOfPage`) |
| `ReviewTypeOK`, `ItemsAlwaysHaveSlots`, `OnlyBlindSigningEverRefuses` | `ReviewInv`: the puts of a transaction have a `Shape` (one to three special slots, all different, then at most eleven general items, then perhaps the fee payer), and the summary `Holds` the first `k` of them and nothing else while the rest is pending (`After`). The shape is proved of each print function (`Led`, `UpTo` in PrintersProofs), of each combination (`PrintedWell`) and of what is left when a nonce or memos are taken off; no transaction needs a twelfth item |
| `StepsAlwaysDisplayable` | `FindAgrees`: the walk of `transaction_summary_find_item` and the finalization count the same slots in the same order |
| `BlindReviewAlwaysBare` | from `ReviewInv` at the end of the puts: an unrecognised transaction puts its nonce, its hash and its fee payer (`SpecialPuts`) |
| `SwapStepsAlwaysATransfer` | no print function but those of transfers puts a first item with the title and the second of a transfer (`Other` in PrintedContentsProofs); agreement with an offer therefore determines the instructions (`AgreedTransaction`) and the signer's and the payer's steps |
| `AmountsAlwaysShown`, `ForeignAuthorityAlwaysShown` | each print function puts what its instruction moves and who acts (`AmountPut`, `KeyPut`), each combination those of all its instructions (`ToldAmounts`, `ToldKeys`; `TwoFirstKeys` and `ThreeFirstKeys` for those before the last), but for `SplitInto` and `ActsUnseen`, and what is put is a step (`UsedIsStep`) |
| `SignersAlwaysCounted` | the accounts left when the named ones have been taken (`RemainingLength`, `SignedLengths`) are what the step counts (`Counted`) |
| `RecognisedAlwaysComplete` | the least lengths are those of the tests' instructions, the space and owner program of created accounts included. Each layout names at least as many accounts and fields as the table has for the kind, or, of a creation, as stand before these two (`SystemRead`, `SystemNonceAsks` to `TokenInitializeAsks`), a read succeeds only when there are as many (`ReadLengths`), and signers are behind the accounts of a layout (`SignedUncut`, `MultisigUncut`) |
| `ExpertsAlwaysSeeMore` | user mode puts what expert mode puts without the items of some titles (`Thinned`); two parts that are so make a whole that is (`ThinnedTogether`). Each print function has such titles of its own, the same for all its items: those for experts, and those of an authority just when that is the signer (`SystemThinned` to `AssociatedTransferThinned`). A title of that set is on no item of user mode, so what is left out is what user mode does not put at all (`ThinnedKept`) |
| `ReviewAlwaysTellsApart` | what a review says is the set of its titles with their values (`Said`); the items of each print function say a set that is written down for its kind (`SaidParts`, `SaidTogether`), and from that set each field can be read back, by a title that nothing else of the kind uses or by its absence (`SystemReads`, `StakeReads`, `VoteReads`, `TokenReads`, `CreatedReads`). Kinds and combinations differ by their heading, or, where two share one, by another title (`HeadingOfClass`, `StakesApart`, `VotesApart`, `AccountsApart`), so two that say the same are of one class (`ReadsAlike`) and have the same fields but those of `Untold`. The items of a nonce and of the fee payer have titles of their own and are taken off first (`SaidApart`, `BodiesAlike`); that the steps say what the items do needs `ReviewInv` (`ExpertStepsSay`) |
| `TextsTypeOK` | inductive: a division by 58 leaves bytes (`Divided`) |
| `NumbersStayInside` | `NumberInv`: the loop is entered with room for one character, a turn writes one, and two only when the point is due |
| `NumbersAlwaysExact` | `ValueInv`: while digits are written (`Written`), the quotients between the number and what is left of it; when they are (`Complete`), no digit is missing and none leads with a zero. Read from the end of the quotients backwards (`DigitsReadBack`), the digits give the number; stripping zeros leaves the value of the fraction (`StripEnds`, `PartsOfAmount`, `AmountReadBack`) |
| `CutsAlwaysMarked` | `TextInv`: a string is shown up to its least NUL (`CStringEnds`), or its beginning and the mark (`CutText`) |
| `KeysAlwaysDecode` | `KeyInv`: what is left of the key has no zero at its head and is smaller than 58 to the digits that still fit. A turn is a division whose carries, read backwards, are those of the product that gives the number back (`DivisionUndone`); 44 digits are enough (`DigitsAreEnough`), so the code's failure for want of room is not reached |
| `DatesAlwaysRight` | `DateInv`: what is shown of a time is what `rfc3339_format` writes, and no time of the calendar loses its day by the cut to 32 bits (`DaysOfCalendar`). The words of `rdn_to_ymd` are the numbers they stand for as long as 100 times the day fits (`WordSum`, `WordProduct`, `WordQuotient`); then the year is that of the day's century and of the calendar that has every leap day (`YearAndCentury`), and the months of a year that begins in March have a leap day at its end (`LeapYears`, `MonthsOfDays`, `DateOfYear`, `DateOfNextYear`). A date that is found bounds the year and the day in it, so only one word can have it (`DaysWithDates`); the digits read back (`TimeReadBack`) |
| `AddressesAlwaysExact` | `AddressInv`: the text of a key shown whole is its base 58; a copied recipient is whole or fills the buffer (`CutOrWhole`) |
| `MessagesAlwaysClassified` | `ScanInv`: what was passed is a text, and every way to cut the message into characters cuts it where the scan is. The masks of `is_data_utf8` give the length of a character exactly (`LengthsOfCharacters`, `LengthsBehind`), and only one (`OneLength`) |
| `PageIsFaithful` | `PageInv`: a touched setting is the opposite of what was read when the page opened, a toggle has turned over once per touch; parity connects the two |

Assumptions used, each evaluated by TLC on the instance of a passing run:
`ApduAssumption` (sizes are natural numbers, bytes are numbers), `DeviceAssumption`
(APDUs are well-formed records, and no offer is the empty one), `SignAssumption` (the
parts of a summary are sequences of items; a transaction is processed exactly if it
has a primary item), `ParserAssumption` (messages are bytes that fit in the buffer),
`MeaningsAssumption` (what a message may be meant to say has bytes for its fields, and
keys and a hash of their sizes),
`ScreensAssumption` (sizes are positive), `MessagesAssumption` (the instructions of a
transaction and their accounts and fields are sequences, of any length) and
`AlternativesAssumption` (so are those of the transactions its review is compared with),
`TextsAssumption` (buffers have room for a sign and a digit, numbers are integers,
unsigned ones natural, decimals are a byte, a symbol is a text, strings and messages are
bytes, a time is an era, a day of 32 bits in it and a second of that day), `KeysAssumption` (keys have 32 bytes, and a key's text has room in the buffer
of a step).

Where a statement is about every sequence of some length, the proofs go by the least
length that refutes it: a set of natural numbers that holds 0 and the successor of each
member is all of them (`SetInduction`). Powers, quotients and values of digits are
recursive functions, and what the provers need of each of them, that a function with
its equation exists, is proved in the same way (`PowersExist`, `NumbersExist`,
`RemaindersExist`, `ValuesExist`; `BehindExists` for the places behind the instructions of
a list).

Only model-checked:

* `RequestsAreAnswered`: liveness under fairness is beyond the prover.

## 5. Findings

* `swap_quits`: `io.c` and `handle_sign_message.c` say that in swap mode the
  application quits after one transaction, whatever its outcome. One that is refused
  while it is parsed leaves it running. No second signature follows
  (`SwapSignsOnce` holds), but Exchange gets no result until the user or the host
  acts.
* `fee_payer`: `transaction_summary.h` calls the fee payer required; finalization
  does not ask for it, and in user mode the user's own is never set.
* `split_account`: the printer of a created account with a split into it assumes that
  the account is created with zero lamports, and nothing checks it; the amount and
  its funder are not displayed. `AmountsAreShown` holds for every other recognised
  combination.
* `settings_toggle`: on touch-screen devices the second touch of a switch during one
  visit of the page is drawn and not stored.
* `signer_in_header`: `handle_sign_message.c` ensures "the requested signer is present
  in the header", but compares as many keys as the message says must sign, which may
  be more than it has: bytes behind the keys are compared too. They stay in the
  buffer, and with enough keys the signer is found exactly if it must sign
  (`SignerIsRequired`).
* `whole_message`: on touch screens an ASCII message longer than 44 characters is cut to
  its first 44 without a mark, and approved whole; `docs/apdu.md` says that the user
  validates its text. On devices with buttons all of it is displayed.

Observations that contradict no document and are stated by the properties:

* an amount with exactly one decimal less than its buffer has bytes (44 in a summary)
  has one byte written behind the part of the buffer it may use, and is then refused
  (`WritesStayInside`);
* a seed with a NUL is shown up to it, without a mark (`CutsAreMarked`);
* days are cut to 32 bits: a time 2^32 days away from the calendar is shown as a date of
  it, and the 882 days before March of the year 0 as wrong ones (`DatesAreRight`, which
  names both; the test of the calendar tries the seconds next to its ends, which fail);
* the space and the owner program of a created account are neither read nor shown, so
  that an instruction that ends behind the lamports is recognised and reviewed like one
  that has them (`IsCreationToLamports`, the one exception of `RecognisedIsComplete`);
* a recipient longer than the text of a key is cut by `copy_transaction_parameters`
  before it is compared, and goes unnoticed when that text fills the buffer
  (`AddressesAreExact`);
* two authorities replaced together are shown with the authority of the second only,
  and that of the first is not compared with it; nor is the funder of an account that a
  stake is split into (`ActsUnseen`); the authority of a nonce that is advanced first is
  shown to experts only;
* the accounts of combined instructions are not compared with each other (`Untold`);
* a threshold above the number of signers has no step (`Shown`).

## 6. Not modelled

* the hash and the derivation of keys: a message hash is named by its message, a key
  by its path;
* the widths of title texts, layout and wording;
* fields of instructions byte by byte: a field is there, or cut short;
* the status page of a touch screen after a decision;
* the navigation of the button menus: a value chosen in a list is one step, which is
  all that the other parts see of it;
* transports other than the reset the cable causes;
* tests, documents, build files and vendored code.

## 7. Plan

Done, in this order: the device with its refinement, both with their theorems; the
summary and the printers, and the parsers of the instructions they print; the settings
page; the byte parser; the texts of items; the review screens with their refinement; the
theorems about the reviews, among them the bound of eleven general items for every
transaction; the theorems about the texts; what the parser accepts and understands.

What could follow: the lists of the button menus as a state machine of their own.
