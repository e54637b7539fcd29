CONSTANTS
  NUM_PIPES = 6
  Nodes <- MCNodes
  Flows <- MCCrossFlows
  MaxWrites = 3
  RxDepth = 3
  QueueDepth = 4
  MaxCrashes = 0
  Faults = {}
SPECIFICATION FairSpec
PROPERTIES Arrives
CHECK_DEADLOCK FALSE
