\* Every kind of item, with the buffers of the source.
SPECIFICATION Spec
CONSTANTS
  Items <- MCItems
  Requests <- MCRequests
  TEXT_BUFFER_LENGTH = 45
  MAX_PRINTABLE_AMOUNT_SIZE = 50
INVARIANTS
  TypeOK
  WritesStayInside
  NumbersAreExact
  CutsAreMarked
  MessagesAreClassified
  DatesAreRight
  AddressesAreExact
PROPERTY KeysDecode
CHECK_DEADLOCK FALSE
