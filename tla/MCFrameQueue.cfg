\* An AVR, and a processor with int of 32 bits, which pads the messages.
SPECIFICATION Spec
CONSTANTS
  MAX_PAYLOAD_SIZE = 144
  WholeSizes <- MCWhole
  AssembledSizes <- MCAssembled
  MaxMessages = 8
INVARIANTS WithinBuffer NothingLost AvailableMeansMessage
PROPERTY FirstInFirstOut
CHECK_DEADLOCK FALSE
