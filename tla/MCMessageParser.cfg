\* Short messages, well-formed, cut short and altered; one with lengths of two bytes.
SPECIFICATION Spec
CONSTANTS
  PUBKEY_SIZE = 2
  HASH_SIZE = 2
  MAX_MESSAGE_LENGTH = 300
  MAX_INSTRUCTIONS = 4
  Signer <- MCSigner
  Meanings <- MCMeanings
  Messages <- MCMessages
  OtherBytes = {0, 1, 3, 7, 127, 128, 129, 255}
INVARIANTS
  TypeOK
  PointersStayInside
  InstructionsNameKeys
  SignerIsRequired
  AcceptedIsUnderstood
  WellFormedIsAccepted
CHECK_DEADLOCK FALSE
