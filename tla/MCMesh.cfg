SPECIFICATION FairSpec
CONSTANTS
  NUM_PIPES = 6
  Nodes <- MCNodes
  LevelOf <- MCLevelOf
  Relays <- MCRelays
  NoPoll <- MCNoPoll
  Operations <- MCOperations
  MaxOps = 3
  MaxOfKind <- MCMaxOfKind
  MaxCopies = 5
  RxDepth = 2
  MayLose = TRUE
INVARIANTS TypeOK MulticastCopies OnlyPolledAnswer RequestAnswered
PROPERTY ComesToRest
CHECK_DEADLOCK FALSE
