----------------------------- MODULE MCFrameQueue -----------------------------
\* FrameQueue for TLC, with the sizes of the code: frames of at most 24 bytes and
\* the MAX_PAYLOAD_SIZE of a slow microcontroller.
EXTENDS FrameQueue

\* Sizes with every remainder modulo 4, the smallest and the largest.
MCWhole     == { 0, 8, 15, 21, 24 }
MCAssembled == { 25, 62, 144 }
=============================================================================
