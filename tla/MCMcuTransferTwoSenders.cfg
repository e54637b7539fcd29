\* Two senders that both start with id 1.
SPECIFICATION Spec
CONSTANTS
  a = a
  b = b
  Senders <- MCSenders
  Lens = {4}
  MsgTypes = {65}
  Outcomes = {"ok", "lost", "unheard"}
  max_frame_payload_size = 2
  MAX_PAYLOAD_SIZE = 6
  IdSpace = 8
  MaxMsgs = 2
  MaxAttempts = 1
  MaxReboots = 0
  MayOverflow = FALSE
INVARIANT Integrity
CHECK_DEADLOCK FALSE
