\* Every instruction, alone, in pairs and in the longest combinations.
SPECIFICATION Spec
CONSTANTS
  Messages <- MCMessages
  Signer = "signer"
  SwapOffers <- MCSwapOffers
  Alternatives <- MCAlternatives
INVARIANTS
  TypeOK
  ItemsHaveSlots
  StepsAreDisplayable
  BlindReviewIsBare
  OnlyBlindSigningRefuses
  ExpertsSeeMore
  AmountsAreShown
  ForeignAuthorityIsShown
  SwapStepsAreATransfer
  RecognisedIsComplete
  SignersAreCounted
  ReviewTellsApart
CHECK_DEADLOCK FALSE
