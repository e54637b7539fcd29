\* A FIFO of 2 in place of 3, so that 3 messages fill it.
CONSTANTS
  NUM_PIPES = 6
  Nodes <- MCNodes
  Flows <- MCFlows
  MaxWrites = 3
  RxDepth = 2
  QueueDepth = 2
  MaxCrashes = 1
  Faults = {"loss", "ackloss", "timeout"}
SPECIFICATION FairSpec
INVARIANTS TypeOK UniqueCopy AckImpliesReached AnswersBacked DirectSuccessReached DeceivedByLateAnswer InOrder
PROPERTY ComesToRest
CHECK_DEADLOCK FALSE
