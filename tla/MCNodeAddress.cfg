CONSTANTS
  NUM_PIPES = 6
  r1 = r1
  r2 = r2
  Radios = {r1, r2}
  Addresses <- MCAddresses
SPECIFICATION Spec
SYMMETRY Symmetry
INVARIANTS UnicastReachesNextHop MulticastReachesLevel RelayReachesNextLevel
