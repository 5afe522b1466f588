\* The whole device: every launch path, every handler, every button.
SPECIFICATION FairSpec
CONSTANTS
  Byte <- MCByte
  WordSize = 1
  MAX_BIP32_PATH_LENGTH = 2
  MAX_MESSAGE_LENGTH = 3
  Derivable <- MCDerivable
  MessageHeader <- MCMessageHeader
  MessageBody <- MCMessageBody
  OffchainHeader <- MCOffchainHeader
  OffchainText <- MCOffchainText
  OFFCHAIN_MESSAGE_HEADER_LENGTH = 2
  MAX_OFFCHAIN_MESSAGE_LENGTH = 1
  Apdus <- MCApdus
  Displayable <- MCDisplayable
  SwapOffers <- MCSwapOffers
INVARIANTS
  TypeOK
  TransferIntegrity
  ReviewIsOfCommand
  SummaryIsOfCommand
  BlindSigningIsEnabled
  SwapSignsOnce
PROPERTIES
  SignatureIsAuthorized
  SwapSignsOnlyTheOffer
  ImplementsSigningDevice
  RequestsAreAnswered
