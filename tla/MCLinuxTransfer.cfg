\* Two senders, one of which restarts and whose ids come round to 0; everything
\* that may happen to a frame, messages written again.
SPECIFICATION FairSpec
CONSTANTS
  a = a
  b = b
  Senders <- MCSenders
  Lens <- MCLens
  MsgTypes <- MCTypes
  Outcomes <- OutcomeKinds
  max_frame_payload_size = 2
  MAX_PAYLOAD_SIZE = 5
  IdSpace = 2
  MaxMsgs = 2
  MaxAttempts = 2
  MaxReboots = 1
INVARIANT OneHeader
PROPERTY Implements
CHECK_DEADLOCK FALSE
