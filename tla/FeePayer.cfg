\* The header says a summary without a fee payer cannot be finalized.
SPECIFICATION Spec
CONSTANTS
  Messages <- MCMessages
  Signer = "signer"
  SwapOffers <- MCSwapOffers
  Alternatives <- MCAlternatives
INVARIANTS
  FeePayerIsRequired
CHECK_DEADLOCK FALSE
