\* A counter of four values in place of 256, and every argument up to one beyond
\* the first that is truncated to 0.
SPECIFICATION SleepFairSpec
CONSTANTS
  ByteSize = 4
  MaxCycles = 5
  Modes <- MCModes
INVARIANTS TypeOK InterruptReported SleepsAsAsked NoSleepAfterWakeUp
PROPERTY Returns
