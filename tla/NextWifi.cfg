SPECIFICATION FairSpec
CONSTANTS
  Ids <- Two
  RxCapacity = 4
  TxCapacity = 1
  LineCapacity = 3
  Chunk = 2
  TextSize = 2
  HeaderSize = 1
  Reserve = 1
  MaxSend = 2
  Sessions <- AllSessions
INVARIANTS
  TypeOK
  PassesWhole
  NothingSurvivesReset
PROPERTIES
  TxTaken
