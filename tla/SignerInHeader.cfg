\* The signer is one of the keys of the header.
SPECIFICATION Spec
CONSTANTS
  PUBKEY_SIZE = 2
  HASH_SIZE = 2
  MAX_MESSAGE_LENGTH = 300
  MAX_INSTRUCTIONS = 4
  Signer <- MCSigner
  Meanings <- MCMeanings
  Messages <- MCMessages
  OtherBytes = {0, 1, 3, 7, 127, 128, 129, 255}
INVARIANT SignerIsInHeader
CHECK_DEADLOCK FALSE
