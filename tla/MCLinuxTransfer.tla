--------------------------- MODULE MCLinuxTransfer ---------------------------
\* LinuxTransfer for TLC.
EXTENDS LinuxTransfer

CONSTANTS a, b    \* the senders

MCSenders == { a, b }

\* With frames of 2 bytes and messages of at most 5: one frame, and three frames,
\* first, middle and a short last one.
MCLens    == { 1, 5 }
MCTypes   == { 65 }
=============================================================================
