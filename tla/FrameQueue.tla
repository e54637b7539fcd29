------------------------------ MODULE FrameQueue ------------------------------
(***************************************************************************)
(* frame_queue of the microcontroller build: MAIN_BUFFER_SIZE bytes in     *)
(* which messages wait for the application, one behind the other, each     *)
(* with 10 bytes of header and, but for AVR, padded to a multiple of 4.    *)
(* enqueue() copies a message to next_frame; read() takes the one at the   *)
(* start and moves the others up.                                          *)
(*                                                                         *)
(* memory is what the bytes hold: a message with its place, and a serial   *)
(* number the code does not know.  A copy destroys what it overlaps.       *)
(***************************************************************************)
EXTENDS Integers, FiniteSets

CONSTANTS MAX_PAYLOAD_SIZE,
          WholeSizes,        \* the sizes of messages that come in one frame
          AssembledSizes,    \* the sizes of those that come in fragments
          MaxMessages        \* bound: messages stored altogether

FRAME_HEADER_SIZE == 10
MAIN_BUFFER_SIZE  == MAX_PAYLOAD_SIZE + FRAME_HEADER_SIZE

\* A message has at most 255 fragments of 24 bytes: fragment_id is a uint8_t.
ASSUME FrameQueueAssumption ==
  /\ MAX_PAYLOAD_SIZE \in Nat /\ 24 <= MAX_PAYLOAD_SIZE /\ MAX_PAYLOAD_SIZE <= 6120
  /\ WholeSizes \subseteq 0..24
  /\ AssembledSizes \subseteq 25..MAX_PAYLOAD_SIZE
  /\ MaxMessages \in Nat

VARIABLES AVR,          \* the build, ARDUINO_ARCH_AVR: no padding, and int has 16 bits
          memory,
          next_frame,   \* the pointer, as an offset from the start of frame_queue
          stored,       \* history: how many messages enqueue() has accepted
          taken,        \* history: how many read() has returned
          answer        \* history: the message read() returned last

vars == << AVR, memory, next_frame, stored, taken, answer >>

Init == /\ AVR \in BOOLEAN
        /\ memory     = {}
        /\ next_frame = 0
        /\ stored     = 0
        /\ taken      = 0
        /\ answer     = 0

-----------------------------------------------------------------------------
padding(size) == IF AVR THEN 0 ELSE (4 - ((size + FRAME_HEADER_SIZE) % 4)) % 4

\* The bytes a message of this size uses up.
Block(size) == FRAME_HEADER_SIZE + size + padding(size)

\* The test for a message that came in one frame.
FitsWhole(size) == next_frame + Block(size) <= MAIN_BUFFER_SIZE

\* The test for one that was assembled: without the padding, and on AVR in
\* unsigned numbers of 16 bits.
\* MUTATION: the size of the buffer in place of MAX_PAYLOAD_SIZE.
FitsAssembled_Buffer(size) == MAIN_BUFFER_SIZE - next_frame >= size
FitsAssembled(size) ==
  LET room == MAX_PAYLOAD_SIZE - next_frame
  IN  (IF AVR THEN room % 65536 ELSE room) >= size

End(f) == f.offset + FRAME_HEADER_SIZE + f.size

Overlap(f, g) == f.offset < End(g) /\ g.offset < End(f)

\* The message is copied to next_frame.
Store(size) ==
  LET new == [ offset |-> next_frame, size |-> size, serial |-> stored + 1 ]
  IN  /\ stored < MaxMessages
      /\ memory'     = { f \in memory : ~Overlap(f, new) } \cup { new }
      /\ next_frame' = next_frame + Block(size)
      /\ stored'     = stored + 1
      /\ UNCHANGED << AVR, taken, answer >>

\* enqueue().  A message that does not fit is dropped, and changes nothing.
EnqueueFrame(size)     == FitsWhole(size) /\ Store(size)
EnqueueAssembled(size) == FitsAssembled(size) /\ Store(size)

available == next_frame > 0

\* How far read() moves the other messages, and how far it sets the pointer back.
\* MUTATIONS: the messages are not moved, or not by the padding; the padding is 4
\* where it should be 0.
Moved_Not(size)       == 0
Moved_NoPadding(size) == FRAME_HEADER_SIZE + size
Moved(size)           == Block(size)
Freed_Pads4(size)     == FRAME_HEADER_SIZE + size + 4 - ((size + FRAME_HEADER_SIZE) % 4)
Freed(size)           == Block(size)

\* read(), which the application calls when available() is true.  What it finds
\* at the start of the buffer is the message to return; everything behind it
\* moves to the start.  So do the bytes behind the end of the buffer, which memmove()
\* reads too, to places behind every message; they are left out.
read ==
  /\ available
  /\ \E head \in memory :
       /\ head.offset = 0
       /\ next_frame' = next_frame - Freed(head.size)
       /\ memory' = { [ f EXCEPT !.offset = @ - Moved(head.size) ] :
                      f \in { g \in memory : g.offset >= Moved(head.size) } }
       /\ answer' = head.serial
  /\ taken' = taken + 1
  /\ UNCHANGED << AVR, stored >>

\* No message lies behind the end of frame_queue.  What follows the copy of one that
\* does is undefined.
Inside(f) == End(f) <= MAIN_BUFFER_SIZE

Next == /\ \A f \in memory : Inside(f)
        /\ \/ \E size \in WholeSizes : EnqueueFrame(size)
           \/ \E size \in AssembledSizes : EnqueueAssembled(size)
           \/ read

Spec == Init /\ [][Next]_vars

-----------------------------------------------------------------------------
\* RF24Network_config.h:72: MAIN_BUFFER_SIZE is "The allocated size of the incoming
\* frame buffer".  A message reaches over its end in one case only: on AVR, when an
\* assembled one comes while the queue holds more than MAX_PAYLOAD_SIZE bytes.  (The
\* padding behind the last message may, on the others.)
WithinBuffer == \A f \in memory : Inside(f) \/ (AVR /\ f.offset > MAX_PAYLOAD_SIZE)

\* What is in memory is what was accepted and not yet read, none of it damaged by
\* a later copy or move.
NothingLost == { f.serial : f \in memory } = (taken + 1)..stored
               /\ Cardinality(memory) = stored - taken

\* read() takes the messages in the order in which enqueue() accepted them.
FirstInFirstOut == [][ taken' # taken => answer' = taken' ]_vars

\* available() tells whether a message waits; if so one is at the start of the
\* buffer, where read() looks for it.  An emptied buffer is as good as a new one.
AvailableMeansMessage == /\ available <=> stored > taken
                         /\ available => \E f \in memory : f.offset = 0
=============================================================================
