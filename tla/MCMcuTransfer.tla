---------------------------- MODULE MCMcuTransfer ----------------------------
\* McuTransfer for TLC.
EXTENDS McuTransfer

CONSTANTS a, b    \* the senders

MCSenders == { a, b }
MCOne     == { a }

\* Frames of 2 bytes: messages of one frame, of two and of three frames, of the
\* most bytes allowed if MAX_PAYLOAD_SIZE is 6, and one that is too long.
MCLens  == { 1, 4, 6, 7 }
MCTypes == { 65, EXTERNAL_DATA_TYPE }
=============================================================================
