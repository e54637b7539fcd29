CONSTANTS
  NUM_PIPES = 6
  NoNode = NoNode
  Nodes <- MCNodes
SPECIFICATION WalkFairSpec
INVARIANTS DataOnTreePath AckOnTreePath AckOnlyForWaiter
PROPERTIES ArrivesAndAnswers
CHECK_DEADLOCK FALSE
