SPECIFICATION Spec
INVARIANTS
  TypeOK
  PageShowsItsSteps
PROPERTY KeepsPromise
CONSTANTS
  MAX_TRANSACTION_SUMMARY_ITEMS = 15
  NB_MAX_DISPLAYED_PAIRS_IN_REVIEW = 4
  TEXT_BUFFER_LENGTH = 45
  Lengths <- MCLengths
CHECK_DEADLOCK FALSE
