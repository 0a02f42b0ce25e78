SPECIFICATION FairSpec
CONSTANTS
  kFileChunkSize = 2
  MaxSize = 3
INVARIANTS TypeOK  SentIfAccepted RelayOpen
PROPERTY Completes
