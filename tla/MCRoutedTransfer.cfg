\* A message of one frame and one of three, or two of three, with everything that
\* may happen to a frame on either hop and to an answer.
SPECIFICATION Spec
CONSTANTS
  a = a
  Senders <- MCSenders
  Lens <- MCLens
  MsgTypes <- MCTypes
  Outcomes <- OutcomeKinds
  max_frame_payload_size = 2
  MAX_PAYLOAD_SIZE = 6
  IdSpace = 8
  MaxMsgs = 2
  MaxAttempts = 2
  MaxReboots = 0
  RxDepth = 2
INVARIANTS TypeOK Integrity OncePerWrite TrueMeansDelivered
CHECK_DEADLOCK FALSE
