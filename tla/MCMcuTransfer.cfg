\* One sender that restarts; everything that may happen to a frame, a queue that
\* may be full, messages written again.
SPECIFICATION FairSpec
CONSTANTS
  a = a
  b = b
  Senders <- MCOne
  Lens <- MCLens
  MsgTypes <- MCTypes
  Outcomes <- OutcomeKinds
  max_frame_payload_size = 2
  MAX_PAYLOAD_SIZE = 6
  IdSpace = 8
  MaxMsgs = 2
  MaxAttempts = 2
  MaxReboots = 1
  MayOverflow = TRUE
PROPERTY Implements
CHECK_DEADLOCK FALSE
