CONSTANTS
  MaxRetries = 3
  Room = 2
  MaxBuf = 3
  MaxStream = 4
SPECIFICATION FairSpec
INVARIANTS
  TypeOK
  WrittenInOrder
  NothingLeftBehind
  ReadInOrder
PROPERTIES
  ImplementsByteStream
  OperationsEnd
  OperationAdvances
