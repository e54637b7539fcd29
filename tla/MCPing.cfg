\* A table of three entries for three addresses, as the sketches have ten for ten.
SPECIFICATION PingFairSpec
CONSTANTS
  Nodes <- MCNodes
  Sleepers <- MCSleepers
  max_active_nodes = 3
  MaxMail = 1
  MaxRestarts = 1
INVARIANTS IndexInTable ListsAreNodes
PROPERTY AllKnown
