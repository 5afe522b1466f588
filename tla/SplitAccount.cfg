\* A comment says the account a stake is split into gets no lamports.
SPECIFICATION Spec
CONSTANTS
  Messages <- MCMessages
  Signer = "signer"
  SwapOffers <- MCSwapOffers
  Alternatives <- MCAlternatives
INVARIANTS
  SplitAccountIsUnfunded
CHECK_DEADLOCK FALSE
