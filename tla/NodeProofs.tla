------------------------------ MODULE NodeProofs ------------------------------
(***************************************************************************)
(* The theorems about what stands by itself in a node: its frame queue and *)
(* its sleep, and on top of them the ping sketches.                        *)
(*                                                                         *)
(* FrameQueue, for both builds, any MAX_PAYLOAD_SIZE the configuration     *)
(* allows, and any sizes and number of messages.  The theorems rest on how *)
(* the messages lie in frame_queue: one behind the other without a gap, in *)
(* the order in which they were accepted, from its start to next_frame.    *)
(* Copies and moves keep that, because all count a message as the same     *)
(* Block.                                                                  *)
(*                                                                         *)
(* Sleep, for a counter of any width and any number of cycles.  What makes *)
(* the properties inductive is where an interrupt can come: wakeUp() only  *)
(* while it is attached, a tick only once before the node sleeps.  So the  *)
(* sum of the ticks and of the counter stays as it was, but for one round  *)
(* of the counter.                                                         *)
(*                                                                         *)
(* Ping, for any set of nodes, any table that has room for their           *)
(* addresses, any number of restarts and any losses.                       *)
(***************************************************************************)
EXTENDS FrameQueue, Sleep, Ping, FiniteSetTheorems, TLAPS

Message == [ offset : Nat, size : Nat, serial : Nat ]

Counters == /\ next_frame \in Nat /\ stored \in Nat /\ taken \in Nat
            /\ taken <= stored
            /\ memory \subseteq Message

\* There is exactly one message for each serial number not yet taken.
Serials == /\ \A f \in memory : f.serial \in (taken + 1)..stored
           /\ \A k \in (taken + 1)..stored : \E f \in memory : f.serial = k
           /\ \A f, g \in memory : f.serial = g.serial => f = g

\* Later messages lie behind earlier ones, each directly behind the one before.
Behind == \A f, g \in memory :
            /\ f.serial < g.serial => f.offset + Block(f.size) <= g.offset
            /\ f.serial + 1 = g.serial => f.offset + Block(f.size) = g.offset

\* The first lies at the start, and the last ends at next_frame.
Ends == /\ \A f \in memory : f.serial = taken + 1 => f.offset = 0
        /\ \A f \in memory : f.serial = stored => f.offset + Block(f.size) = next_frame
        /\ stored = taken => next_frame = 0

IInv == Counters /\ AVR \in BOOLEAN /\ Serials /\ Behind /\ Ends /\ WithinBuffer

-----------------------------------------------------------------------------
\* A message uses its header, its bytes and at most three bytes of padding, and on
\* AVR none.
LEMMA BlockBounds ==
  ASSUME NEW size \in Nat
  PROVE  /\ Block(size) \in Nat
         /\ FRAME_HEADER_SIZE + size <= Block(size)
         /\ Block(size) <= FRAME_HEADER_SIZE + size + 3
         /\ AVR => Block(size) = FRAME_HEADER_SIZE + size
PROOF
  <1>1. (size + FRAME_HEADER_SIZE) % 4 \in 0..3
    BY DEF FRAME_HEADER_SIZE
  <1>2. padding(size) \in 0..3 /\ (AVR => padding(size) = 0)
    BY <1>1 DEF padding
  <1> QED  BY <1>2 DEF Block, FRAME_HEADER_SIZE

\* Every message ends at or before next_frame, behind which enqueue() writes.
LEMMA BeforeNextFrame ==
  ASSUME IInv, NEW f \in memory
  PROVE  f.offset + Block(f.size) <= next_frame
PROOF
  <1>1. CASE f.serial = stored
    <2>1. f.offset + Block(f.size) = next_frame
      BY <1>1 DEF IInv, Ends
    <2> QED  BY <2>1 DEF IInv, Counters
  <1>2. CASE f.serial # stored
    <2>1. PICK g \in memory : g.serial = stored
      BY DEF IInv, Serials, Counters
    <2>2. f.offset + Block(f.size) <= g.offset
      BY <1>2, <2>1 DEF IInv, Serials, Counters, Behind
    <2>3. g.offset + Block(g.size) = next_frame
      BY <2>1 DEF IInv, Ends
    <2>4. f.size \in Nat /\ f.offset \in Nat /\ g.size \in Nat /\ g.offset \in Nat
      BY DEF IInv, Counters, Message
    <2>5. Block(f.size) \in Nat /\ Block(g.size) \in Nat
      BY <2>4, BlockBounds
    <2> QED  BY <2>2, <2>3, <2>4, <2>5
  <1> QED  BY <1>1, <1>2

\* So the copy of a new message destroys none.
LEMMA NoOverlap ==
  ASSUME IInv, NEW size \in Nat, NEW f \in memory
  PROVE  ~Overlap(f, [ offset |-> next_frame, size |-> size, serial |-> stored + 1 ])
PROOF
  <1>1. f.offset \in Nat /\ f.size \in Nat /\ next_frame \in Nat
    BY DEF IInv, Counters, Message
  <1>2. End(f) <= next_frame
    BY <1>1, BlockBounds, BeforeNextFrame DEF End, FRAME_HEADER_SIZE
  <1> QED  BY <1>1, <1>2 DEF Overlap, End, FRAME_HEADER_SIZE

\* A message that passes one of the tests of enqueue() does not reach over the end of
\* the buffer, but for the case of the AVR.
LEMMA StoredWithinBuffer ==
  ASSUME IInv,
         NEW size \in Nat,
         \/ FitsWhole(size)
         \/ size \in AssembledSizes /\ FitsAssembled(size)
  PROVE  \/ next_frame + FRAME_HEADER_SIZE + size <= MAIN_BUFFER_SIZE
         \/ AVR /\ next_frame > MAX_PAYLOAD_SIZE
PROOF
  <1>0. next_frame \in Nat /\ MAX_PAYLOAD_SIZE \in Nat /\ MAX_PAYLOAD_SIZE <= 6120
    BY FrameQueueAssumption DEF IInv, Counters
  <1>1. CASE FitsWhole(size)
    <2>1. Block(size) \in Nat /\ FRAME_HEADER_SIZE + size <= Block(size)
      BY BlockBounds
    <2> QED  BY <1>0, <1>1, <2>1 DEF FitsWhole, MAIN_BUFFER_SIZE, FRAME_HEADER_SIZE
  <1>2. CASE size \in AssembledSizes /\ FitsAssembled(size)
    <2>1. CASE ~AVR
      BY <1>0, <1>2, <2>1 DEF FitsAssembled, MAIN_BUFFER_SIZE, FRAME_HEADER_SIZE
    <2>2. CASE AVR /\ next_frame <= MAX_PAYLOAD_SIZE
      <3>1. (MAX_PAYLOAD_SIZE - next_frame) % 65536 = MAX_PAYLOAD_SIZE - next_frame
        BY <1>0, <2>2
      <3>2. MAX_PAYLOAD_SIZE - next_frame >= size
        BY <1>2, <2>2, <3>1 DEF FitsAssembled
      <3> QED  BY <1>0, <3>2 DEF MAIN_BUFFER_SIZE, FRAME_HEADER_SIZE
    <2> QED  BY <1>0, <2>1, <2>2
  <1> QED  BY <1>1, <1>2

\* An empty frame_queue.
LEMMA InitInv == Init => IInv
PROOF
  BY DEF Init, IInv, Counters, Serials, Behind, Ends, WithinBuffer

\* Storing a message keeps all: the new one is the last, and lies behind the others.
LEMMA StoreStep ==
  ASSUME IInv,
         NEW size \in Nat,
         \/ FitsWhole(size)
         \/ size \in AssembledSizes /\ FitsAssembled(size),
         Store(size)
  PROVE  IInv'
PROOF
  <1> DEFINE new == [ offset |-> next_frame, size |-> size, serial |-> stored + 1 ]
  <1>1. /\ memory' = memory \cup { new }
        /\ next_frame' = next_frame + Block(size)
        /\ stored' = stored + 1 /\ taken' = taken /\ AVR' = AVR
    BY NoOverlap DEF Store
  <1>2. /\ next_frame \in Nat /\ stored \in Nat /\ taken \in Nat
        /\ taken <= stored /\ memory \subseteq Message
    BY DEF IInv, Counters
  <1>3. Block(size) \in Nat
    BY BlockBounds
  <1>4. new \in Message /\ new.serial = stored + 1 /\ new.offset = next_frame
        /\ new.size = size
    BY <1>2 DEF Message
  <1>5. \A f \in memory : /\ f.serial \in Nat /\ f.offset \in Nat /\ f.size \in Nat
                          /\ f.serial <= stored /\ taken < f.serial
                          /\ Block(f.size) \in Nat
    BY <1>2, BlockBounds DEF Message, IInv, Serials
  <1>6. \A s : Block(s)' = Block(s)
    BY <1>1 DEF Block, padding
  <1> HIDE DEF new
  <1>7. Counters'
    BY <1>1, <1>2, <1>3, <1>4 DEF Counters
  <1>8. AVR' \in BOOLEAN
    BY <1>1, Zenon DEF IInv
  <1>9. Serials'
    <2>1. \A f \in memory' : f.serial \in (taken' + 1)..stored'
      BY <1>1, <1>2, <1>4, <1>5
    <2>2. \A k \in (taken' + 1)..stored' : \E f \in memory' : f.serial = k
      BY <1>1, <1>2, <1>4 DEF IInv, Serials
    <2>3. \A f, g \in memory' : f.serial = g.serial => f = g
      BY <1>1, <1>2, <1>4, <1>5 DEF IInv, Serials
    <2> QED  BY <2>1, <2>2, <2>3 DEF Serials
  <1>10. Behind'
    <2> SUFFICES ASSUME NEW f \in memory', NEW g \in memory'
                 PROVE  /\ f.serial < g.serial => f.offset + Block(f.size) <= g.offset
                        /\ f.serial + 1 = g.serial => f.offset + Block(f.size) = g.offset
      BY <1>6 DEF Behind
    <2>1. CASE f \in memory /\ g \in memory
      BY <2>1 DEF IInv, Behind
    <2>2. CASE f \in memory /\ g = new
      <3>1. f.serial = stored => f.offset + Block(f.size) = next_frame
        BY <2>2 DEF IInv, Ends
      <3> QED  BY <1>2, <1>4, <1>5, <2>2, <3>1, BeforeNextFrame
    <2>3. CASE f = new
      BY <1>1, <1>2, <1>4, <1>5, <2>3
    <2> QED  BY <1>1, <2>1, <2>2, <2>3
  <1>11. Ends'
    <2>1. \A f \in memory' : f.serial = taken' + 1 => f.offset = 0
      <3> SUFFICES ASSUME NEW f \in memory', f.serial = taken + 1
                   PROVE  f.offset = 0
        BY <1>1
      <3>1. CASE f \in memory
        BY <3>1 DEF IInv, Ends
      <3>2. CASE f = new
        BY <1>2, <1>4, <3>2 DEF IInv, Ends
      <3> QED  BY <1>1, <3>1, <3>2
    <2>2. \A f \in memory' : f.serial = stored' => f.offset + Block(f.size) = next_frame'
      BY <1>1, <1>2, <1>4, <1>5
    <2> QED  BY <1>1, <1>2, <1>6, <2>1, <2>2 DEF Ends
  <1>12. WithinBuffer'
    <2>1. Inside(new) \/ (AVR /\ new.offset > MAX_PAYLOAD_SIZE)
      BY <1>4, StoredWithinBuffer DEF Inside, End
    <2> QED  BY <1>1, <2>1 DEF WithinBuffer, IInv, Inside, End
  <1> QED  BY <1>7, <1>8, <1>9, <1>10, <1>11, <1>12 DEF IInv

\* What read() finds at the start of the buffer is the message accepted first.
LEMMA HeadIsFirst ==
  ASSUME IInv, NEW head \in memory, head.offset = 0
  PROVE  head.serial = taken + 1
PROOF
  <1>1. /\ stored \in Nat /\ taken \in Nat
        /\ head.serial \in (taken + 1)..stored
    BY DEF IInv, Counters, Serials
  <1>2. PICK first \in memory : first.serial = taken + 1
    BY <1>1 DEF IInv, Serials
  <1>3. first.offset \in Nat /\ first.size \in Nat /\ head.serial \in Nat
    BY DEF IInv, Counters, Message
  <1>4. Block(first.size) > 0
    BY <1>3, BlockBounds DEF FRAME_HEADER_SIZE
  <1>5. first.serial < head.serial => first.offset + Block(first.size) <= head.offset
    BY DEF IInv, Behind
  <1>6. Block(first.size) \in Nat
    BY <1>3, BlockBounds
  <1> QED  BY <1>1, <1>2, <1>3, <1>4, <1>5, <1>6

\* So every other message lies behind it, and is moved; none is lost.
LEMMA OthersMove ==
  ASSUME IInv, NEW head \in memory, head.offset = 0
  PROVE  { g \in memory : g.offset >= Block(head.size) } = memory \ { head }
PROOF
  <1>1. /\ head.size \in Nat /\ head.serial = taken + 1
        /\ Block(head.size) \in Nat /\ Block(head.size) > 0
    BY HeadIsFirst, BlockBounds DEF IInv, Counters, Message, FRAME_HEADER_SIZE
  <1>2. ASSUME NEW g \in memory, g # head
        PROVE  g.offset >= Block(head.size)
    <2>1. g.serial \in (taken + 1)..stored /\ g.serial # head.serial /\ taken \in Nat
          /\ stored \in Nat /\ g.offset \in Nat
      BY <1>2 DEF IInv, Serials, Counters, Message
    <2>2. head.serial < g.serial
      BY <1>1, <2>1
    <2>3. head.offset + Block(head.size) <= g.offset
      BY <2>2 DEF IInv, Behind
    <2> QED  BY <1>1, <2>1, <2>3
  <1>3. ~(head.offset >= Block(head.size))
    BY <1>1
  <1> QED  BY <1>2, <1>3

\* Taking the first message keeps all: the others come to lie behind one another as
\* before, the second at the start.
LEMMA ReadStep ==
  ASSUME IInv, \A f \in memory : Inside(f), read
  PROVE  IInv' /\ answer' = taken'
PROOF
  <1>1. PICK head \in memory :
          /\ head.offset = 0
          /\ next_frame' = next_frame - Block(head.size)
          /\ memory' = { [ f EXCEPT !.offset = @ - Block(head.size) ] :
                           f \in { g \in memory : g.offset >= Block(head.size) } }
          /\ answer' = head.serial
    BY DEF read, Moved, Freed
  <1>2. taken' = taken + 1 /\ stored' = stored /\ AVR' = AVR
    BY DEF read
  <1> DEFINE b    == Block(head.size)
             m(f) == [ f EXCEPT !.offset = @ - b ]
             rest == memory \ { head }
  <1>3. /\ next_frame \in Nat /\ stored \in Nat /\ taken \in Nat
        /\ taken <= stored /\ memory \subseteq Message
    BY DEF IInv, Counters
  <1>4. head.serial = taken + 1
    BY <1>1, HeadIsFirst
  <1>5. b \in Nat /\ b > 0 /\ b <= next_frame
    <2>1. head.size \in Nat
      BY <1>3 DEF Message
    <2> QED  BY <1>1, <1>3, <2>1, BlockBounds, BeforeNextFrame DEF FRAME_HEADER_SIZE
  <1>6. memory' = { m(f) : f \in rest }
    BY <1>1, OthersMove
  <1>7. \A f \in rest : /\ f.serial \in Nat /\ f.offset \in Nat /\ f.size \in Nat
                        /\ f.serial <= stored /\ taken + 1 < f.serial
                        /\ f.offset >= b
                        /\ Block(f.size) \in Nat
    <2> TAKE f \in rest
    <2>1. f.serial \in Nat /\ f.offset \in Nat /\ f.size \in Nat
      BY <1>3 DEF Message
    <2>2. f.serial \in (taken + 1)..stored /\ f.serial # head.serial
      BY DEF IInv, Serials
    <2>3. f.offset >= b
      BY <1>1, OthersMove
    <2> QED  BY <1>3, <1>4, <2>1, <2>2, <2>3, BlockBounds
  <1>8. \A f \in rest : /\ m(f) \in Message
                        /\ m(f).offset = f.offset - b
                        /\ m(f).serial = f.serial /\ m(f).size = f.size
    BY <1>3, <1>5, <1>7 DEF Message
  <1>9. \A s : Block(s)' = Block(s)
    BY <1>2 DEF Block, padding
  <1>10. next_frame' = next_frame - b /\ head.offset = 0 /\ answer' = head.serial
    BY <1>1
  <1>11. head.serial < stored => \E f \in rest : f.serial = taken + 2
    <2> SUFFICES ASSUME head.serial < stored
                 PROVE  \E f \in rest : f.serial = taken + 2
      OBVIOUS
    <2>1. PICK f \in memory : f.serial = taken + 2
      BY <1>3, <1>4 DEF IInv, Serials
    <2> QED  BY <1>3, <1>4, <2>1
  <1> HIDE DEF b, m
  <1>12. Counters'
    <2>1. head.serial <= stored
      BY DEF IInv, Serials
    <2> QED  BY <1>2, <1>3, <1>4, <1>5, <1>6, <1>8, <1>10, <2>1 DEF Counters
  <1>13. AVR' \in BOOLEAN
    BY <1>2, Zenon DEF IInv
  <1>14. Serials'
    <2>1. \A f \in memory' : f.serial \in (taken' + 1)..stored'
      BY <1>2, <1>3, <1>6, <1>7, <1>8
    <2>2. \A k \in (taken' + 1)..stored' : \E f \in memory' : f.serial = k
      <3> SUFFICES ASSUME NEW k \in (taken + 2)..stored
                   PROVE  \E f \in memory' : f.serial = k
        BY <1>2, <1>3
      <3>1. PICK f \in memory : f.serial = k
        BY <1>3 DEF IInv, Serials
      <3>2. f \in rest
        BY <1>3, <1>4, <3>1
      <3> QED  BY <1>6, <1>8, <3>1, <3>2
    <2>3. \A f, g \in rest : m(f).serial = m(g).serial => m(f) = m(g)
      BY <1>8 DEF IInv, Serials
    <2>4. \A f, g \in memory' : f.serial = g.serial => f = g
      BY <1>6, <2>3
    <2> QED  BY <2>1, <2>2, <2>4 DEF Serials
  <1>15. Behind'
    <2>1. ASSUME NEW f \in rest, NEW g \in rest
          PROVE  /\ m(f).serial < m(g).serial
                      => m(f).offset + Block(m(f).size) <= m(g).offset
                 /\ m(f).serial + 1 = m(g).serial
                      => m(f).offset + Block(m(f).size) = m(g).offset
      <3>1. /\ f.serial < g.serial => f.offset + Block(f.size) <= g.offset
            /\ f.serial + 1 = g.serial => f.offset + Block(f.size) = g.offset
        BY DEF IInv, Behind
      <3> QED  BY <1>5, <1>7, <1>8, <3>1
    <2> QED  BY <1>6, <1>9, <2>1 DEF Behind
  <1>16. Ends'
    <2>1. ASSUME NEW f \in rest, f.serial = taken + 2
          PROVE  f.offset = b
      <3>1. head.serial + 1 = f.serial => head.offset + Block(head.size) = f.offset
        BY DEF IInv, Behind
      <3> QED  BY <1>3, <1>4, <1>5, <1>10, <2>1, <3>1 DEF b
    <2>2. \A f \in memory' : f.serial = taken' + 1 => f.offset = 0
      BY <1>2, <1>3, <1>5, <1>6, <1>8, <2>1
    <2>3. ASSUME NEW f \in rest, f.serial = stored
          PROVE  m(f).offset + Block(m(f).size) = next_frame - b
      <3>1. f.offset + Block(f.size) = next_frame
        BY <2>3 DEF IInv, Ends
      <3> QED  BY <1>3, <1>5, <1>7, <1>8, <3>1
    <2>4. \A f \in memory' : f.serial = stored' => f.offset + Block(f.size) = next_frame'
      BY <1>2, <1>6, <1>8, <1>10, <2>3
    <2>5. stored' = taken' => next_frame' = 0
      <3> SUFFICES ASSUME stored = taken + 1
                   PROVE  next_frame = b
        BY <1>2, <1>3, <1>5, <1>10
      <3>1. head.offset + Block(head.size) = next_frame
        BY <1>4 DEF IInv, Ends
      <3> QED  BY <1>5, <1>10, <3>1 DEF b
    <2> QED  BY <1>9, <2>2, <2>4, <2>5 DEF Ends
  <1>17. WithinBuffer'
    <2>1. ASSUME NEW f \in rest
          PROVE  m(f).offset + FRAME_HEADER_SIZE + m(f).size <= MAIN_BUFFER_SIZE
      <3>1. f.offset + FRAME_HEADER_SIZE + f.size <= MAIN_BUFFER_SIZE
        BY DEF Inside, End
      <3>2. MAIN_BUFFER_SIZE \in Nat
        BY FrameQueueAssumption DEF MAIN_BUFFER_SIZE, FRAME_HEADER_SIZE
      <3> QED  BY <1>5, <1>7, <1>8, <3>1, <3>2 DEF FRAME_HEADER_SIZE
    <2> QED  BY <1>6, <2>1 DEF WithinBuffer, Inside, End
  <1>18. answer' = taken'
    BY <1>2, <1>4, <1>10
  <1> QED  BY <1>12, <1>13, <1>14, <1>15, <1>16, <1>17, <1>18 DEF IInv

\* Every step keeps the invariant, and read() answers the message whose turn it is.
LEMMA NextStep ==
  IInv /\ [Next]_vars => IInv' /\ (taken' # taken => answer' = taken')
PROOF
  <1> SUFFICES ASSUME IInv, [Next]_vars
               PROVE  IInv' /\ (taken' # taken => answer' = taken')
    OBVIOUS
  <1>1. ASSUME NEW size \in WholeSizes, EnqueueFrame(size)
        PROVE  IInv' /\ taken' = taken
    <2>1. size \in Nat
      BY FrameQueueAssumption
    <2> QED  BY <1>1, <2>1, StoreStep DEF EnqueueFrame, Store
  <1>2. ASSUME NEW size \in AssembledSizes, EnqueueAssembled(size)
        PROVE  IInv' /\ taken' = taken
    <2>1. size \in Nat
      BY FrameQueueAssumption
    <2> QED  BY <1>2, <2>1, StoreStep DEF EnqueueAssembled, Store
  <1>3. CASE Next /\ read
    BY <1>3, ReadStep DEF Next
  <1>4. CASE UNCHANGED vars
    BY <1>4 DEF vars, IInv, Counters, Serials, Behind, Ends, WithinBuffer, Inside, End,
                Block, padding
  <1> QED  BY <1>1, <1>2, <1>3, <1>4 DEF Next

\* The inductive invariant always holds.
LEMMA Invariance == Spec => []IInv
PROOF
  BY InitInv, NextStep, PTL DEF Spec
-----------------------------------------------------------------------------
\* No message reaches over the end of frame_queue, but on AVR an assembled one that
\* comes while more than MAX_PAYLOAD_SIZE bytes are in use: whatever was stored and
\* read before, what passes the tests of enqueue() fits.
THEOREM MessagesStayInside == Spec => []WithinBuffer
PROOF
  <1>1. IInv => WithinBuffer
    BY DEF IInv
  <1> QED  BY Invariance, <1>1, PTL

\* The buffer holds exactly the messages accepted and not yet read: neither the copy
\* of enqueue() nor the move of read() destroys or doubles one.
THEOREM NoMessageLost == Spec => []NothingLost
PROOF
  <1>1. ASSUME IInv PROVE NothingLost
    <2> DEFINE waiting == (taken + 1)..stored
               serialOf == [ f \in memory |-> f.serial ]
    <2>1. stored \in Nat /\ taken \in Nat /\ taken <= stored
      BY <1>1 DEF IInv, Counters
    <2>2. { f.serial : f \in memory } = waiting
      BY <1>1 DEF IInv, Serials
    <2>3. serialOf \in Injection(memory, waiting)
      BY <1>1, <2>2 DEF IInv, Serials, Injection, IsInjective
    <2>4. serialOf \in Surjection(memory, waiting)
      BY <2>2 DEF Surjection
    <2>5. IsFiniteSet(waiting) /\ Cardinality(waiting) = stored - taken
      <3>1. /\ IsFiniteSet(waiting)
            /\ Cardinality(waiting) = IF taken + 1 > stored THEN 0
                                      ELSE stored - (taken + 1) + 1
        BY <2>1, FS_Interval
      <3> QED  BY <2>1, <3>1
    <2>6. Cardinality(memory) = Cardinality(waiting)
      BY <2>3, <2>4, <2>5, FS_Injection
    <2> QED  BY <2>2, <2>5, <2>6 DEF NothingLost
  <1> QED  BY Invariance, <1>1, PTL

\* available() is true if and only if a message waits, and then one lies where read()
\* looks for it.
THEOREM AvailableTellsOfMessage == Spec => []AvailableMeansMessage
PROOF
  <1>1. ASSUME IInv PROVE AvailableMeansMessage
    <2>1. stored \in Nat /\ taken \in Nat /\ taken <= stored /\ next_frame \in Nat
          /\ memory \subseteq Message
      BY <1>1 DEF IInv, Counters
    <2>2. CASE stored = taken
      BY <1>1, <2>1, <2>2 DEF IInv, Ends, AvailableMeansMessage, available
    <2>3. CASE stored > taken
      <3>1. PICK f \in memory : f.serial = taken + 1
        BY <1>1, <2>1, <2>3 DEF IInv, Serials
      <3>2. f.offset = 0
        BY <1>1, <3>1 DEF IInv, Ends
      <3>3. f.size \in Nat /\ f.offset + Block(f.size) <= next_frame
        BY <1>1, <2>1, BeforeNextFrame DEF Message
      <3>4. next_frame > 0
        BY <2>1, <3>2, <3>3, BlockBounds DEF FRAME_HEADER_SIZE
      <3> QED  BY <2>3, <3>2, <3>4 DEF AvailableMeansMessage, available
    <2> QED  BY <2>1, <2>2, <2>3
  <1> QED  BY Invariance, <1>1, PTL

\* read() returns the messages in the order in which enqueue() accepted them.
THEOREM ReadInOrder == Spec => FirstInFirstOut
PROOF
  <1>1. IInv /\ [Next]_vars => [ taken' # taken => answer' = taken' ]_vars
    BY NextStep
  <1> QED  BY Invariance, <1>1, PTL DEF Spec, FirstInFirstOut

-----------------------------------------------------------------------------
\* Where wakeUp() is attached, and what it leaves behind.
AttachedInCall == attached => pc \in { "enable", "test", "sleep", "asleep", "disable" }
WokenAttached  == /\ pc = "attach" => ~woken
                  /\ woken /\ InLoop => attached
                  /\ woken /\ InLoop /\ mode = LOW => low
WokenCounter   == woken /\ InLoop /\ ~raced =>
                    sleep_cycles_remaining = 0 /\ pc \in { "enable", "test" }
AsleepServed   == pc = "asleep" => ~stepDue

\* wasInterrupted tells of this call once it was reset.
FlagOfThisCall ==
  pc \in { "enable", "test", "sleep", "asleep", "disable", "stop", "return" }
    /\ interruptPin # NoPin => (wasInterrupted <=> woken)

\* Ticks and counter of a call that was not interrupted.
Extra   == IF raced THEN ByteSize ELSE 0
Counted == InLoop /\ ~woken => slept + sleep_cycles_remaining = Truncate(cycles) + Extra
Left    == pc \in { "disable", "stop", "return" } /\ ~woken => slept = Truncate(cycles) + Extra
\* After the race the counter comes to 0 only by a tick that ends the last sleep.
RacedOnce == InLoop /\ ~woken /\ raced =>
               /\ tickDue => pc = "asleep"
               /\ sleep_cycles_remaining = 0 => pc = "test" /\ ~tickDue

SleepInv == /\ TypeOK /\ AttachedInCall /\ WokenAttached /\ WokenCounter /\ AsleepServed
            /\ FlagOfThisCall /\ Counted /\ Left /\ RacedOnce /\ NoSleepAfterWakeUp

-----------------------------------------------------------------------------
\* Storing an argument in a byte.
LEMMA TruncateType ==
  ASSUME NEW c \in Nat
  PROVE  Truncate(c) \in 0..(ByteSize - 1)
BY SleepAssumption DEF Truncate

\* The invariant before the first call, and kept by one action after the other.
LEMMA SleepInitStep == SleepInit => SleepInv
<1> SUFFICES ASSUME SleepInit PROVE SleepInv
  OBVIOUS
<1>1. FlagTypes
  BY Zenon DEF SleepInit, FlagTypes
<1>2. TypeOK
  BY <1>1, SleepAssumption DEF SleepInit, TypeOK, LOW, NoPin
<1>3. AttachedInCall /\ WokenAttached /\ AsleepServed /\ WokenCounter /\ NoSleepAfterWakeUp
  BY DEF SleepInit, AttachedInCall, WokenAttached, AsleepServed, WokenCounter, NoSleepAfterWakeUp
<1>4. FlagOfThisCall /\ Counted /\ Left /\ RacedOnce
  BY DEF SleepInit, FlagOfThisCall, Counted, Left, RacedOnce, InLoop
<1> QED BY <1>2, <1>3, <1>4 DEF SleepInv

\* The watchdog is set up, outside of any call.
LEMMA SetupWatchdogStep == SleepInv /\ setup_watchdog => SleepInv'
<1> SUFFICES ASSUME SleepInv, setup_watchdog PROVE SleepInv'
  OBVIOUS
<1> USE DEF setup_watchdog, At, shared, args, history
<1>1. FlagTypes'
  BY Zenon DEF SleepInv, TypeOK, FlagTypes
<1>2. TypeOK'
  BY <1>1, SleepAssumption DEF SleepInv, TypeOK, LOW, FALLING, NoPin
<1>3. AttachedInCall' /\ WokenAttached' /\ AsleepServed'
  BY DEF SleepInv, AttachedInCall, WokenAttached, AsleepServed, InLoop
<1>4. WokenCounter' /\ NoSleepAfterWakeUp'
  BY DEF SleepInv, WokenCounter, NoSleepAfterWakeUp, AttachedInCall, WokenAttached,
           AsleepServed, InLoop
<1>5. FlagOfThisCall'
  BY DEF SleepInv, FlagOfThisCall, AttachedInCall, WokenAttached
<1>6. Counted' /\ Left' /\ RacedOnce'
  BY DEF SleepInv, Counted, Left, RacedOnce, Extra, Truncate, InLoop
<1> QED BY <1>1, <1>2, <1>3, <1>4, <1>5, <1>6 DEF SleepInv

\* A call begins: the counter is what the argument leaves of itself in a byte.
LEMMA SleepNodeStep ==
  ASSUME SleepInv, NEW c \in 0..MaxCycles, NEW pin \in {0, NoPin}, NEW m \in Modes,
         sleepNode(c, pin, m)
  PROVE  SleepInv'
<1> USE DEF sleepNode, At, Goto, shared, args, history
<1>1. FlagTypes'
  BY Zenon DEF SleepInv, TypeOK, FlagTypes
<1>2. TypeOK'
  BY <1>1, SleepAssumption, TruncateType DEF SleepInv, TypeOK, LOW, FALLING, NoPin
<1>3. AttachedInCall' /\ WokenAttached' /\ AsleepServed'
  BY DEF SleepInv, AttachedInCall, WokenAttached, AsleepServed, InLoop
<1>4. WokenCounter' /\ NoSleepAfterWakeUp'
  BY DEF SleepInv, WokenCounter, NoSleepAfterWakeUp, AttachedInCall, WokenAttached,
           AsleepServed, InLoop
<1>5. FlagOfThisCall'
  BY DEF SleepInv, FlagOfThisCall, AttachedInCall, WokenAttached
<1>6. Counted' /\ Left' /\ RacedOnce'
  BY DEF SleepInv, Counted, Left, RacedOnce, Extra, Truncate, InLoop
<1> QED BY <1>1, <1>2, <1>3, <1>4, <1>5, <1>6 DEF SleepInv

\* The flag is reset, and wakeUp() attached.
LEMMA AttachInterruptStep == SleepInv /\ AttachInterrupt => SleepInv'
<1> SUFFICES ASSUME SleepInv, AttachInterrupt PROVE SleepInv'
  OBVIOUS
<1> USE DEF AttachInterrupt, At, Goto, shared, args, history
<1>1. FlagTypes'
  BY Zenon DEF SleepInv, TypeOK, FlagTypes
<1>2. TypeOK'
  BY <1>1, SleepAssumption DEF SleepInv, TypeOK, LOW, FALLING, NoPin
<1>3. AttachedInCall' /\ WokenAttached' /\ AsleepServed'
  BY DEF SleepInv, AttachedInCall, WokenAttached, AsleepServed, InLoop
<1>4. WokenCounter' /\ NoSleepAfterWakeUp'
  BY DEF SleepInv, WokenCounter, NoSleepAfterWakeUp, AttachedInCall, WokenAttached,
           AsleepServed, InLoop
<1>5. FlagOfThisCall'
  BY DEF SleepInv, FlagOfThisCall, AttachedInCall, WokenAttached
<1>6. Counted' /\ Left' /\ RacedOnce'
  BY DEF SleepInv, Counted, Left, RacedOnce, Extra, Truncate, InLoop
<1> QED BY <1>1, <1>2, <1>3, <1>4, <1>5, <1>6 DEF SleepInv

\* Nothing the invariant speaks of changes but the place of the program.
LEMMA EnableWatchdogStep == SleepInv /\ EnableWatchdog => SleepInv'
<1> SUFFICES ASSUME SleepInv, EnableWatchdog PROVE SleepInv'
  OBVIOUS
<1> USE DEF EnableWatchdog, At, Goto, shared, args, history
<1>1. FlagTypes'
  BY Zenon DEF SleepInv, TypeOK, FlagTypes
<1>2. TypeOK'
  BY <1>1, SleepAssumption DEF SleepInv, TypeOK, LOW, FALLING, NoPin
<1>3. AttachedInCall' /\ WokenAttached' /\ AsleepServed'
  BY DEF SleepInv, AttachedInCall, WokenAttached, AsleepServed, InLoop
<1>4. WokenCounter' /\ NoSleepAfterWakeUp'
  BY DEF SleepInv, WokenCounter, NoSleepAfterWakeUp, AttachedInCall, WokenAttached,
           AsleepServed, InLoop
<1>5. FlagOfThisCall'
  BY DEF SleepInv, FlagOfThisCall, AttachedInCall, WokenAttached
<1>6. Counted' /\ Left' /\ RacedOnce'
  BY DEF SleepInv, Counted, Left, RacedOnce, Extra, Truncate, InLoop
<1> QED BY <1>1, <1>2, <1>3, <1>4, <1>5, <1>6 DEF SleepInv

\* The loop ends with a counter of 0.
LEMMA TestStep == SleepInv /\ Test => SleepInv'
<1> SUFFICES ASSUME SleepInv, Test PROVE SleepInv'
  OBVIOUS
<1> USE DEF Test, At, Goto, Remaining, shared, args, history
<1>1. FlagTypes'
  BY Zenon DEF SleepInv, TypeOK, FlagTypes
<1>2. TypeOK'
  BY <1>1, SleepAssumption DEF SleepInv, TypeOK, LOW, FALLING, NoPin
<1>3. AttachedInCall' /\ WokenAttached' /\ AsleepServed'
  BY DEF SleepInv, AttachedInCall, WokenAttached, AsleepServed, InLoop
<1>4. WokenCounter' /\ NoSleepAfterWakeUp'
  BY DEF SleepInv, WokenCounter, NoSleepAfterWakeUp, AttachedInCall, WokenAttached,
           AsleepServed, InLoop
<1>5. FlagOfThisCall'
  BY DEF SleepInv, FlagOfThisCall, AttachedInCall, WokenAttached
<1>6. Counted' /\ Left' /\ RacedOnce'
  BY DEF SleepInv, Counted, Left, RacedOnce, Extra, Truncate, InLoop, TypeOK, FlagTypes
<1> QED BY <1>1, <1>2, <1>3, <1>4, <1>5, <1>6 DEF SleepInv

\* Before it sleeps the node has no interrupt due but that of a pin that woke it before.
LEMMA SleepStep == SleepInv /\ Sleep => SleepInv'
<1> SUFFICES ASSUME SleepInv, Sleep PROVE SleepInv'
  OBVIOUS
<1> USE DEF Sleep, At, Goto, Pending, Requested, shared, args, history
<1>1. FlagTypes'
  BY Zenon DEF SleepInv, TypeOK, FlagTypes
<1>2. TypeOK'
  BY <1>1, SleepAssumption DEF SleepInv, TypeOK, LOW, FALLING, NoPin
<1>3. AttachedInCall' /\ WokenAttached' /\ AsleepServed'
  BY DEF SleepInv, AttachedInCall, WokenAttached, AsleepServed, InLoop
<1>4. WokenCounter' /\ NoSleepAfterWakeUp'
  BY DEF SleepInv, WokenCounter, NoSleepAfterWakeUp, AttachedInCall, WokenAttached,
           AsleepServed, InLoop
<1>5. FlagOfThisCall'
  BY DEF SleepInv, FlagOfThisCall, AttachedInCall, WokenAttached
<1>6. Counted' /\ Left' /\ RacedOnce'
  BY DEF SleepInv, Counted, Left, RacedOnce, Extra, Truncate, InLoop
<1> QED BY <1>1, <1>2, <1>3, <1>4, <1>5, <1>6 DEF SleepInv

\* detachInterrupt().
LEMMA DetachStep == SleepInv /\ Detach => SleepInv'
<1> SUFFICES ASSUME SleepInv, Detach PROVE SleepInv'
  OBVIOUS
<1> USE DEF Detach, At, Goto, shared, args, history
<1>1. FlagTypes'
  BY Zenon DEF SleepInv, TypeOK, FlagTypes
<1>2. TypeOK'
  BY <1>1, SleepAssumption DEF SleepInv, TypeOK, LOW, FALLING, NoPin
<1>3. AttachedInCall' /\ WokenAttached' /\ AsleepServed'
  BY DEF SleepInv, AttachedInCall, WokenAttached, AsleepServed, InLoop
<1>4. WokenCounter' /\ NoSleepAfterWakeUp'
  BY DEF SleepInv, WokenCounter, NoSleepAfterWakeUp, AttachedInCall, WokenAttached,
           AsleepServed, InLoop
<1>5. FlagOfThisCall'
  BY DEF SleepInv, FlagOfThisCall, AttachedInCall, WokenAttached
<1>6. Counted' /\ Left' /\ RacedOnce'
  BY DEF SleepInv, Counted, Left, RacedOnce, Extra, Truncate, InLoop
<1> QED BY <1>1, <1>2, <1>3, <1>4, <1>5, <1>6 DEF SleepInv

\* The watchdog is switched off.
LEMMA DisableWatchdogStep == SleepInv /\ DisableWatchdog => SleepInv'
<1> SUFFICES ASSUME SleepInv, DisableWatchdog PROVE SleepInv'
  OBVIOUS
<1> USE DEF DisableWatchdog, At, Goto, shared, args, history
<1>1. FlagTypes'
  BY Zenon DEF SleepInv, TypeOK, FlagTypes
<1>2. TypeOK'
  BY <1>1, SleepAssumption DEF SleepInv, TypeOK, LOW, FALLING, NoPin
<1>3. AttachedInCall' /\ WokenAttached' /\ AsleepServed'
  BY DEF SleepInv, AttachedInCall, WokenAttached, AsleepServed, InLoop
<1>4. WokenCounter' /\ NoSleepAfterWakeUp'
  BY DEF SleepInv, WokenCounter, NoSleepAfterWakeUp, AttachedInCall, WokenAttached,
           AsleepServed, InLoop
<1>5. FlagOfThisCall'
  BY DEF SleepInv, FlagOfThisCall, AttachedInCall, WokenAttached
<1>6. Counted' /\ Left' /\ RacedOnce'
  BY DEF SleepInv, Counted, Left, RacedOnce, Extra, Truncate, InLoop
<1> QED BY <1>1, <1>2, <1>3, <1>4, <1>5, <1>6 DEF SleepInv

\* sleepNode() returns.
LEMMA ReturnStep == SleepInv /\ Return => SleepInv'
<1> SUFFICES ASSUME SleepInv, Return PROVE SleepInv'
  OBVIOUS
<1> USE DEF Return, At, Goto, shared, args, history
<1>1. FlagTypes'
  BY Zenon DEF SleepInv, TypeOK, FlagTypes
<1>2. TypeOK'
  BY <1>1, SleepAssumption DEF SleepInv, TypeOK, LOW, FALLING, NoPin
<1>3. AttachedInCall' /\ WokenAttached' /\ AsleepServed'
  BY DEF SleepInv, AttachedInCall, WokenAttached, AsleepServed, InLoop
<1>4. WokenCounter' /\ NoSleepAfterWakeUp'
  BY DEF SleepInv, WokenCounter, NoSleepAfterWakeUp, AttachedInCall, WokenAttached,
           AsleepServed, InLoop
<1>5. FlagOfThisCall'
  BY DEF SleepInv, FlagOfThisCall, AttachedInCall, WokenAttached
<1>6. Counted' /\ Left' /\ RacedOnce'
  BY DEF SleepInv, Counted, Left, RacedOnce, Extra, Truncate, InLoop
<1> QED BY <1>1, <1>2, <1>3, <1>4, <1>5, <1>6 DEF SleepInv

\* wakeUp() comes only within the call and after the flag was reset.
LEMMA WakeUpStep == SleepInv /\ wakeUp => SleepInv'
<1> SUFFICES ASSUME SleepInv, wakeUp PROVE SleepInv'
  OBVIOUS
<1> USE DEF wakeUp, Pending, Requested, Wake, shared, args, history
<1>1. FlagTypes'
  BY Zenon DEF SleepInv, TypeOK, FlagTypes
<1>2. TypeOK'
  BY <1>1, SleepAssumption DEF SleepInv, TypeOK, LOW, FALLING, NoPin
<1>3. AttachedInCall' /\ WokenAttached' /\ AsleepServed'
  BY DEF SleepInv, AttachedInCall, WokenAttached, AsleepServed, InLoop
<1>4. WokenCounter' /\ NoSleepAfterWakeUp'
  BY DEF SleepInv, WokenCounter, NoSleepAfterWakeUp, AttachedInCall, WokenAttached,
           AsleepServed, InLoop
<1>5. FlagOfThisCall'
  BY DEF SleepInv, FlagOfThisCall, AttachedInCall, WokenAttached
<1>6. Counted' /\ Left' /\ RacedOnce'
  BY DEF SleepInv, Counted, Left, RacedOnce, Extra, Truncate, InLoop
<1> QED BY <1>1, <1>2, <1>3, <1>4, <1>5, <1>6 DEF SleepInv

\* A tick: it takes the counter below 0 at most once, since one that comes before the
\* node sleeps is the only one.
LEMMA WatchdogStep == SleepInv /\ WDT_vect => SleepInv'
<1> SUFFICES ASSUME SleepInv, WDT_vect PROVE SleepInv'
  OBVIOUS
<1> USE DEF WDT_vect, Pending, Requested, Wake, Decremented, InLoop, shared, args, history
<1>1. FlagTypes'
  BY Zenon DEF SleepInv, TypeOK, FlagTypes
<1>2. TypeOK'
  BY <1>1, SleepAssumption DEF SleepInv, TypeOK, LOW, FALLING, NoPin
<1>3. AttachedInCall' /\ WokenAttached' /\ AsleepServed'
  BY DEF SleepInv, AttachedInCall, WokenAttached, AsleepServed
<1>4. WokenCounter' /\ NoSleepAfterWakeUp'
  BY DEF SleepInv, WokenCounter, NoSleepAfterWakeUp, AttachedInCall, WokenAttached, AsleepServed
<1>5. FlagOfThisCall'
  BY DEF SleepInv, FlagOfThisCall, AttachedInCall, WokenAttached
<1>6. Counted' /\ Left' /\ RacedOnce'
  BY SleepAssumption DEF SleepInv, Counted, Left, RacedOnce, Extra, Truncate, TypeOK, FlagTypes
<1> QED BY <1>1, <1>2, <1>3, <1>4, <1>5, <1>6 DEF SleepInv

\* The pin changes nothing but itself.
LEMMA PinFallsStep == SleepInv /\ PinFalls => SleepInv'
<1> SUFFICES ASSUME SleepInv, PinFalls PROVE SleepInv'
  OBVIOUS
<1> USE DEF PinFalls, shared, args, history
<1>1. FlagTypes'
  BY Zenon DEF SleepInv, TypeOK, FlagTypes
<1>2. TypeOK'
  BY <1>1, SleepAssumption DEF SleepInv, TypeOK, LOW, FALLING, NoPin
<1>3. AttachedInCall' /\ WokenAttached' /\ AsleepServed'
  BY DEF SleepInv, AttachedInCall, WokenAttached, AsleepServed, InLoop
<1>4. WokenCounter' /\ NoSleepAfterWakeUp'
  BY DEF SleepInv, WokenCounter, NoSleepAfterWakeUp, AttachedInCall, WokenAttached,
           AsleepServed, InLoop
<1>5. FlagOfThisCall'
  BY DEF SleepInv, FlagOfThisCall, AttachedInCall, WokenAttached
<1>6. Counted' /\ Left' /\ RacedOnce'
  BY DEF SleepInv, Counted, Left, RacedOnce, Extra, Truncate, InLoop
<1> QED BY <1>1, <1>2, <1>3, <1>4, <1>5, <1>6 DEF SleepInv

\* Whoever pulls the pin low releases it.
LEMMA PinRisesStep == SleepInv /\ PinRises => SleepInv'
<1> SUFFICES ASSUME SleepInv, PinRises PROVE SleepInv'
  OBVIOUS
<1> USE DEF PinRises, At, shared, args, history
<1>1. FlagTypes'
  BY Zenon DEF SleepInv, TypeOK, FlagTypes
<1>2. TypeOK'
  BY <1>1, SleepAssumption DEF SleepInv, TypeOK, LOW, FALLING, NoPin
<1>3. AttachedInCall' /\ WokenAttached' /\ AsleepServed'
  BY DEF SleepInv, AttachedInCall, WokenAttached, AsleepServed, InLoop
<1>4. WokenCounter' /\ NoSleepAfterWakeUp'
  BY DEF SleepInv, WokenCounter, NoSleepAfterWakeUp, AttachedInCall, WokenAttached,
           AsleepServed, InLoop
<1>5. FlagOfThisCall'
  BY DEF SleepInv, FlagOfThisCall, AttachedInCall, WokenAttached
<1>6. Counted' /\ Left' /\ RacedOnce'
  BY DEF SleepInv, Counted, Left, RacedOnce, Extra, Truncate, InLoop
<1> QED BY <1>1, <1>2, <1>3, <1>4, <1>5, <1>6 DEF SleepInv

\* The invariant is inductive.
LEMMA SleepNextStep == SleepInv /\ [SleepNext]_sleepVars => SleepInv'
<1> SUFFICES ASSUME SleepInv, [SleepNext]_sleepVars PROVE SleepInv'
  OBVIOUS
<1>1. CASE UNCHANGED sleepVars
  <2>1. FlagTypes'
    BY <1>1 DEF sleepVars, shared, args, history, SleepInv, TypeOK, FlagTypes
  <2>2. TypeOK' /\ AttachedInCall' /\ WokenAttached' /\ WokenCounter' /\ AsleepServed'
    BY <1>1, <2>1 DEF sleepVars, SleepInv, TypeOK, AttachedInCall, WokenAttached, WokenCounter,
                      AsleepServed, InLoop
  <2>3. FlagOfThisCall' /\ Counted' /\ Left' /\ RacedOnce' /\ NoSleepAfterWakeUp'
    BY <1>1 DEF sleepVars, SleepInv, FlagOfThisCall, Counted, Left, RacedOnce, NoSleepAfterWakeUp,
                InLoop, Extra
  <2> QED BY <2>2, <2>3 DEF SleepInv
<1>2. ASSUME NEW c \in 0..MaxCycles, NEW pin \in {0, NoPin}, NEW m \in Modes,
             sleepNode(c, pin, m)
      PROVE  SleepInv'
  BY <1>2, SleepNodeStep
<1>3. CASE Program
  BY <1>3, AttachInterruptStep, EnableWatchdogStep, TestStep, SleepStep, DetachStep,
     DisableWatchdogStep, ReturnStep DEF Program
<1>4. CASE setup_watchdog
  BY <1>4, SetupWatchdogStep
<1>5. CASE PinFalls \/ PinRises
  BY <1>5, PinFallsStep, PinRisesStep
<1>6. CASE wakeUp \/ WDT_vect
  BY <1>6, WakeUpStep, WatchdogStep
<1> QED BY <1>1, <1>2, <1>3, <1>4, <1>5, <1>6 DEF SleepNext

\* The inductive invariant always holds.
LEMMA SleepInvariance == SleepSpec => []SleepInv
BY SleepInitStep, SleepNextStep, PTL DEF SleepSpec

\* Every variable of Sleep keeps its type; the counter stays in its byte.
THEOREM TypeCorrect == SleepSpec => []TypeOK
<1>1. SleepInv => TypeOK
  BY DEF SleepInv
<1> QED BY SleepInvariance, <1>1, PTL

\* With an interrupt pin, what sleepNode() returns tells whether the pin interrupted
\* this very call.
THEOREM InterruptsReported == SleepSpec => []InterruptReported
<1>1. SleepInv => InterruptReported
  BY DEF SleepInv, FlagOfThisCall, InterruptReported, result
<1> QED BY SleepInvariance, <1>1, PTL

\* A call that was not interrupted sleeps the cycles of its argument, truncated to a
\* byte, or exactly one full round of the byte more.
THEOREM CyclesSlept == SleepSpec => []SleepsAsAsked
<1>1. SleepInv => SleepsAsAsked
  BY DEF SleepInv, Left, SleepsAsAsked, Extra
<1> QED BY SleepInvariance, <1>1, PTL

\* A node that the pin woke sleeps on only in the one race that an edge can lose.
THEOREM WokenForGood == SleepSpec => []NoSleepAfterWakeUp
<1>1. SleepInv => NoSleepAfterWakeUp
  BY DEF SleepInv
<1> QED BY SleepInvariance, <1>1, PTL

-----------------------------------------------------------------------------
\* Induction up to n, for a set: one that holds 0 and with every number below n the
\* next holds n.  If not, k |-> k + 1 would map its part up to n one to one to that part
\* without 0, which is smaller.
HoldsNext(S, n) == \A k \in 0..(n - 1) : k \in S => k + 1 \in S

\* Induction over 0..n, by the finite set S of the numbers it holds for.
LEMMA SetInduction ==
  ASSUME NEW n \in Nat, NEW S, 0 \in S, HoldsNext(S, n)
  PROVE  n \in S
PROOF
  <1> SUFFICES ASSUME n \notin S PROVE FALSE
    OBVIOUS
  <1> DEFINE A    == S \cap (0..n)
             next == [ k \in A |-> k + 1 ]
  <1>1. IsFiniteSet(A)
    <2>1. IsFiniteSet(0..n)
      BY FS_Interval
    <2> QED  BY <2>1, FS_Subset
  <1>2. \A k \in A : k + 1 \in A \ {0}
    BY DEF HoldsNext
  <1>3. next \in Injection(A, A \ {0})
    <2>1. \A j, k \in A : j + 1 = k + 1 => j = k
      OBVIOUS
    <2> QED  BY <1>2, <2>1 DEF Injection, IsInjective
  <1>4. IsFiniteSet(A \ {0}) /\ Cardinality(A \ {0}) = Cardinality(A) - 1
    BY <1>1, FS_RemoveElement
  <1>5. Cardinality(A) <= Cardinality(A \ {0})
    BY <1>3, <1>4, FS_Injection
  <1>6. Cardinality(A) \in Nat
    BY <1>1, FS_CardinalityType
  <1> QED  BY <1>4, <1>5, <1>6

Tables == [ nodes : Lists, num : 0..max_active_nodes ]

\* The number of nodes handle_N() adds is where the list has its first 00.
LEMMA IncomingEnds ==
  ASSUME NEW incoming \in Lists
  PROVE  /\ Incoming(incoming) \in 0..max_active_nodes
         /\ \A i \in 0..(Incoming(incoming) - 1) : incoming[i] > 0
PROOF
  <1> DEFINE Before(c) == \A i \in 0..(c - 1) : incoming[i] > 0
             EndsAt(c)   == c = max_active_nodes \/ incoming[c] = 0
             S         == { c \in 0..max_active_nodes : Before(c) }
  <1>1. max_active_nodes \in Nat /\ \A i \in Slots : incoming[i] \in Nat
    BY PingAssumption DEF Lists
  <1>2. \E c \in 0..max_active_nodes : Before(c) /\ EndsAt(c)
    <2> SUFFICES ASSUME \A c \in 0..max_active_nodes : Before(c) => ~EndsAt(c)
                 PROVE  FALSE
      OBVIOUS
    <2>1. 0 \in S
      BY <1>1
    <2>2. ASSUME NEW c \in 0..(max_active_nodes - 1), c \in S
          PROVE  c + 1 \in S
      <3>1. Before(c) /\ c \in 0..max_active_nodes
        BY <2>2
      <3>2. incoming[c] # 0
        BY <1>1, <3>1
      <3>3. incoming[c] > 0 /\ c \in Nat
        BY <1>1, <3>2 DEF Slots
      <3>4. Before(c + 1) /\ c + 1 \in 0..max_active_nodes
        BY <1>1, <3>1, <3>3
      <3> QED  BY <3>4
    <2> HIDE DEF S
    <2>3. max_active_nodes \in S
      BY <1>1, <2>1, <2>2, SetInduction DEF HoldsNext
    <2>4. Before(max_active_nodes)
      BY <2>3 DEF S
    <2> QED  BY <1>1, <2>4
  <1>3. Incoming(incoming) = CHOOSE c \in 0..max_active_nodes : Before(c) /\ EndsAt(c)
    BY DEF Incoming
  <1> HIDE DEF Before, EndsAt
  <1>4. Incoming(incoming) \in 0..max_active_nodes /\ Before(Incoming(incoming))
    BY <1>2, <1>3
  <1> QED  BY <1>4 DEF Before

\* The function by which AddNodes is defined, and its existence: adding the nodes one
\* after the other.
IsAfter(after, t, incoming) ==
  after = [ k \in 0..max_active_nodes |->
              IF k = 0 THEN t ELSE add_node(after[k - 1], incoming[k - 1]) ]

\* The recursive function of Learn exists, whatever list arrives.
LEMMA AfterExists ==
  ASSUME NEW t, NEW incoming
  PROVE  \E after : IsAfter(after, t, incoming)
PROOF
  <1> DEFINE Upto(after, n) ==
               after = [ k \in 0..n |->
                           IF k = 0 THEN t ELSE add_node(after[k - 1], incoming[k - 1]) ]
             S == { n \in 0..max_active_nodes : \E after : Upto(after, n) }
  <1>1. max_active_nodes \in Nat
    BY PingAssumption
  <1>2. 0 \in S
    <2>1. [ k \in 0..0 |-> t ] =
            [ k \in 0..0 |-> IF k = 0 THEN t ELSE
                                 add_node([ j \in 0..0 |-> t ][k - 1], incoming[k - 1]) ]
      OBVIOUS
    <2>2. Upto([ k \in 0..0 |-> t ], 0)
      BY <2>1
    <2> HIDE DEF Upto
    <2> QED  BY <1>1, <2>2
  <1>3. HoldsNext(S, max_active_nodes)
    <2> SUFFICES ASSUME NEW n \in 0..(max_active_nodes - 1), NEW f, Upto(f, n)
                 PROVE  \E after : Upto(after, n + 1)
      BY <1>1 DEF HoldsNext
    <2> DEFINE g == [ k \in 0..(n + 1) |->
                        IF k <= n THEN f[k] ELSE add_node(f[n], incoming[n]) ]
    <2>1. \A k \in 0..(n + 1) :
            g[k] = IF k = 0 THEN t ELSE add_node(g[k - 1], incoming[k - 1])
      <3> TAKE k \in 0..(n + 1)
      <3>1. CASE k = 0
        BY <3>1
      <3>2. CASE k > 0 /\ k <= n
        <4>1. f[k] = add_node(f[k - 1], incoming[k - 1])
          BY <3>2
        <4> QED  BY <3>2, <4>1
      <3>3. CASE k = n + 1
        <4>1. g[k] = add_node(f[n], incoming[n]) /\ g[k - 1] = f[n] /\ k - 1 = n
          BY <3>3
        <4> QED  BY <3>3, <4>1
      <3> QED  BY <3>1, <3>2, <3>3
    <2>2. Upto(g, n + 1)
      <3> HIDE DEF g
      <3>1. g = [ k \in 0..(n + 1) |-> g[k] ]
        BY DEF g
      <3> QED  BY <2>1, <3>1
    <2> QED  BY <2>2
  <1> HIDE DEF S
  <1>4. max_active_nodes \in S
    BY <1>1, <1>2, <1>3, SetInduction
  <1> QED  BY <1>4 DEF S, IsAfter

\* A table that names nodes of a set P, none of them twice, and is 0 behind these.
TableOf(t, P) == /\ t \in Tables
                 /\ \A i \in 0..(t.num - 1) : t.nodes[i] \in P
                 /\ \A i, j \in 0..(t.num - 1) : t.nodes[i] = t.nodes[j] => i = j
                 /\ \A i \in Slots : i >= t.num => t.nodes[i] = 0

\* Adding a node of the set, or none, keeps this and forgets no node.
LEMMA AddNodeTable ==
  ASSUME NEW P \in SUBSET (Nodes \ {0}), NEW t, TableOf(t, P), NEW node \in P
  PROVE  TableOf(add_node(t, node), P) /\ add_node(t, node).num >= t.num
PROOF
  <1>1. /\ max_active_nodes \in Nat
        /\ t.num \in 0..max_active_nodes /\ t.nodes \in [ Slots -> Nodes ]
        /\ node \in Nodes
    <2>1. t \in Tables
      BY DEF TableOf
    <2> QED  BY <2>1, PingAssumption DEF Tables, Lists
  <1>2. CASE add_node(t, node) = t
    BY <1>1, <1>2
  <1>3. CASE /\ \A i \in 0..(t.num - 1) : t.nodes[i] # node
             /\ t.num < max_active_nodes
             /\ add_node(t, node) = Table([ t.nodes EXCEPT ![t.num] = node ], t.num + 1)
    <2> DEFINE l == [ t.nodes EXCEPT ![t.num] = node ]
    <2>1. add_node(t, node).nodes = l /\ add_node(t, node).num = t.num + 1
          /\ add_node(t, node) = [ nodes |-> l, num |-> t.num + 1 ]
      BY <1>3 DEF Table
    <2>2. t.num \in Slots /\ l \in [ Slots -> Nodes ]
          /\ l[t.num] = node /\ \A i \in Slots : i # t.num => l[i] = t.nodes[i]
      BY <1>1, <1>3 DEF Slots
    <2> HIDE DEF l
    <2>3. add_node(t, node) \in Tables
      BY <1>1, <1>3, <2>1, <2>2 DEF Tables, Lists
    <2>4. \A i \in 0..t.num : i # t.num => i \in 0..(t.num - 1) /\ i \in Slots
      BY <1>1, <1>3 DEF Slots
    <2>5. \A i \in 0..t.num : l[i] \in P
      BY <2>2, <2>4 DEF TableOf
    <2>6. \A i, j \in 0..t.num : l[i] = l[j] => i = j
      BY <1>3, <2>2, <2>4 DEF TableOf
    <2>7. \A i \in Slots : i >= t.num + 1 => l[i] = 0
      BY <1>1, <2>2 DEF TableOf, Slots
    <2>8. 0..(t.num + 1 - 1) = 0..t.num
      BY <1>1
    <2> QED  BY <1>1, <2>1, <2>3, <2>5, <2>6, <2>7, <2>8 DEF TableOf
  <1> QED  BY <1>2, <1>3 DEF add_node

\* So does adding the nodes of a list that names only nodes of the set.
LEMMA AddNodesTable ==
  ASSUME NEW P \in SUBSET (Nodes \ {0}), NEW t, TableOf(t, P),
         NEW incoming \in Lists, \A i \in Slots : incoming[i] \in P \cup {0}
  PROVE  TableOf(AddNodes(t, incoming), P) /\ AddNodes(t, incoming).num >= t.num
PROOF
  <1>1. PICK c \in 0..max_active_nodes : /\ c = Incoming(incoming)
                                        /\ \A i \in 0..(c - 1) : incoming[i] > 0
    BY IncomingEnds
  <1>2. PICK after : IsAfter(after, t, incoming) /\ AddNodes(t, incoming) = after[c]
    <2> DEFINE after == CHOOSE f : IsAfter(f, t, incoming)
    <2>1. IsAfter(after, t, incoming)
      BY AfterExists
    <2>2. AddNodes(t, incoming) = after[c]
      BY <1>1 DEF AddNodes, IsAfter
    <2> QED  BY <2>1, <2>2
  <1> DEFINE S == { k \in 0..c : TableOf(after[k], P) /\ after[k].num >= t.num }
  <1>3. max_active_nodes \in Nat
    BY PingAssumption
  <1>4. after[0] = t /\ \A k \in 0..(c - 1) : after[k + 1] = add_node(after[k], incoming[k])
    BY <1>1, <1>2, <1>3 DEF IsAfter
  <1>5. 0 \in S
    BY <1>3, <1>4 DEF TableOf, Tables
  <1>6. HoldsNext(S, c)
    <2> SUFFICES ASSUME NEW k \in 0..(c - 1), TableOf(after[k], P), after[k].num >= t.num
                 PROVE  TableOf(after[k + 1], P) /\ after[k + 1].num >= t.num
      BY <1>3 DEF HoldsNext
    <2>1. after[k + 1] = add_node(after[k], incoming[k])
      BY <1>4
    <2>2. incoming[k] \in P
      <3>1. k \in Slots /\ incoming[k] > 0
        BY <1>1, <1>3 DEF Slots
      <3> QED  BY <3>1
    <2>3. TableOf(after[k + 1], P) /\ after[k + 1].num >= after[k].num
      BY <2>1, <2>2, AddNodeTable
    <2> QED  BY <1>3, <2>3 DEF TableOf, Tables
  <1>7. c \in S
    <2> HIDE DEF S
    <2> QED  BY <1>3, <1>5, <1>6, SetInduction
  <1> QED  BY <1>2, <1>7
-----------------------------------------------------------------------------
\* Nobody knows a node that has not pinged the master yet, and it knows nobody: what is
\* on its way names such nodes only, comes from them or the master, and goes to them or
\* the master.
Messages == { T } \cup { N(l) : l \in Lists }
Carries(m, from, P) == /\ m = T => from \in P
                       /\ m.type = "N" => \A i \in Slots : m.incoming_nodes[i] \in P \cup {0}

TypesOK == /\ active_nodes \in [ Nodes -> Lists ]
           /\ num_active_nodes \in [ Nodes -> 0..max_active_nodes ]
           /\ next_ping_node_index \in [ Nodes -> Nat ]
           /\ mail \in [ Nodes \X Nodes -> Seq(Messages) ]
           /\ pinged \subseteq Nodes \ {0}
TablesOK == \A n \in Nodes : TableOf(Known(n), pinged)
IndexOK  == \A n \in Nodes : next_ping_node_index[n] <= num_active_nodes[n]
KnowsOK  == \A n \in Nodes : num_active_nodes[n] > 0 => n \in pinged \cup {0}
MailOK   == \A a, b \in Nodes : \A i \in 1..Len(mail[<< a, b >>]) :
              b \in pinged \cup {0} /\ Carries(mail[<< a, b >>][i], a, pinged)

PingInv == TypesOK /\ TablesOK /\ IndexOK /\ KnowsOK /\ MailOK

\* At first the tables are empty.
LEMMA PingInitStep == PingInit => PingInv
PROOF
  <1> SUFFICES ASSUME PingInit PROVE PingInv
    OBVIOUS
  <1>1. max_active_nodes \in Nat /\ 0 \in Nodes
    BY PingAssumption
  <1>2. NoNodes \in Lists /\ \A i \in Slots : NoNodes[i] = 0
    BY <1>1 DEF NoNodes, Lists
  <1>3. /\ active_nodes = [ n \in Nodes |-> NoNodes ]
        /\ num_active_nodes = [ n \in Nodes |-> 0 ]
        /\ next_ping_node_index = [ n \in Nodes |-> 0 ]
        /\ mail = [ p \in Nodes \X Nodes |-> << >> ]
        /\ pinged = {}
    BY DEF PingInit
  <1>4. TypesOK
    <2>1. << >> \in Seq(Messages)
      OBVIOUS
    <2> QED  BY <1>1, <1>2, <1>3, <2>1 DEF TypesOK
  <1>5. TablesOK
    <2> SUFFICES ASSUME NEW n \in Nodes PROVE TableOf(Known(n), pinged)
      BY DEF TablesOK
    <2>1. Known(n) = [ nodes |-> NoNodes, num |-> 0 ]
      BY <1>3 DEF Known, Table
    <2> QED  BY <1>1, <1>2, <2>1 DEF TableOf, Tables
  <1>6. IndexOK /\ KnowsOK
    BY <1>3 DEF IndexOK, KnowsOK
  <1>7. MailOK
    <2>1. \A from, n \in Nodes : Len(mail[<< from, n >>]) = 0
      BY <1>3
    <2> QED  BY <2>1 DEF MailOK
  <1> QED  BY <1>4, <1>5, <1>6, <1>7 DEF PingInv

\* Handling a message: the table of n becomes another, no smaller one, and a message
\* less waits.
Reads(n, from) == /\ mail' = [ mail EXCEPT ![<< from, n >>] = Tail(@) ]
                  /\ UNCHANGED << next_ping_node_index, pinged >>

\* The invariant when a table learns the nodes of a list.
LEMMA LearnStep ==
  ASSUME PingInv, NEW n \in Nodes, NEW from \in Nodes, NEW t,
         mail[<< from, n >>] # << >>,
         TableOf(t, pinged), t.num >= num_active_nodes[n],
         Learn(n, t), Reads(n, from)
  PROVE  PingInv'
PROOF
  <1> DEFINE p == << from, n >>
  <1>0. /\ active_nodes \in [ Nodes -> Lists ]
        /\ num_active_nodes \in [ Nodes -> 0..max_active_nodes ]
        /\ next_ping_node_index \in [ Nodes -> Nat ]
        /\ mail \in [ Nodes \X Nodes -> Seq(Messages) ]
        /\ max_active_nodes \in Nat
    BY PingAssumption DEF PingInv, TypesOK
  <1>1. /\ active_nodes' = [ active_nodes EXCEPT ![n] = t.nodes ]
        /\ num_active_nodes' = [ num_active_nodes EXCEPT ![n] = t.num ]
        /\ next_ping_node_index' = next_ping_node_index /\ pinged' = pinged
        /\ mail' = [ mail EXCEPT ![<< from, n >>] = Tail(@) ]
    BY DEF Learn, Reads
  <1>2. t \in Tables /\ t.nodes \in Lists /\ t.num \in 0..max_active_nodes
        /\ t = [ nodes |-> t.nodes, num |-> t.num ]
    BY DEF TableOf, Tables
  <1>3. mail[p] \in Seq(Messages) /\ mail[p] # << >>
    BY <1>0
  <1>4. Tail(mail[p]) \in Seq(Messages) /\ Len(Tail(mail[p])) = Len(mail[p]) - 1
        /\ Len(mail[p]) \in Nat
        /\ \A i \in 1..(Len(mail[p]) - 1) : Tail(mail[p])[i] = mail[p][i + 1]
    BY <1>3
  <1>5. TypesOK'
    BY <1>0, <1>1, <1>2, <1>4 DEF TypesOK, PingInv
  <1>6. TablesOK'
    <2> SUFFICES ASSUME NEW m \in Nodes PROVE TableOf(Known(m)', pinged)
      BY <1>1 DEF TablesOK, TableOf
    <2>1. CASE m = n
      BY <1>0, <1>1, <1>2, <2>1 DEF Known, Table
    <2>2. CASE m # n
      BY <1>0, <1>1, <2>2 DEF Known, Table, PingInv, TablesOK
    <2> QED  BY <2>1, <2>2
  <1>7. IndexOK'
    BY <1>0, <1>1, <1>2 DEF IndexOK, PingInv
  <1>8. n \in pinged \cup {0}
    BY <1>3 DEF PingInv, MailOK
  <1>9. KnowsOK'
    BY <1>0, <1>1, <1>8 DEF KnowsOK, PingInv
  <1>10. MailOK'
    <2>1. ASSUME NEW a \in Nodes, NEW b \in Nodes, NEW i \in 1..Len(mail'[<< a, b >>])
          PROVE  b \in pinged \cup {0} /\ Carries(mail'[<< a, b >>][i], a, pinged)
      <3>1. CASE << a, b >> = p
        <4>1. mail'[<< a, b >>] = Tail(mail[p])
          BY <1>0, <1>1, <3>1
        <4>2. i \in 1..(Len(mail[p]) - 1)
          BY <1>4, <4>1
        <4>4. i + 1 \in 1..Len(mail[p]) /\ mail'[<< a, b >>][i] = mail[p][i + 1]
          BY <1>4, <4>1, <4>2
        <4>3. a = from /\ b = n
          BY <3>1
        <4> QED  BY <4>3, <4>4 DEF PingInv, MailOK
      <3>2. CASE << a, b >> # p
        <4>1. mail'[<< a, b >>] = mail[<< a, b >>]
          BY <1>0, <1>1, <3>2
        <4> QED  BY <4>1 DEF PingInv, MailOK
      <3> QED  BY <3>1, <3>2
    <2>2. pinged' = pinged
      BY <1>1
    <2> QED  BY <2>1, <2>2 DEF MailOK
  <1> QED  BY <1>5, <1>6, <1>7, <1>9, <1>10 DEF PingInv

\* The invariant when a node handles a message.
LEMMA HandleStep ==
  ASSUME PingInv, NEW n \in Nodes, NEW from \in Nodes, Handle(n, from)
  PROVE  PingInv'
PROOF
  <1> DEFINE m == Head(mail[<< from, n >>])
  <1>1. /\ mail[<< from, n >>] # << >> /\ mail[<< from, n >>] \in Seq(Messages)
        /\ pinged \in SUBSET (Nodes \ {0})
    BY DEF Handle, PingInv, TypesOK
  <1>2. m \in Messages /\ Carries(m, from, pinged)
    <2>1. 1 \in 1..Len(mail[<< from, n >>]) /\ m = mail[<< from, n >>][1] /\ m \in Messages
      BY <1>1
    <2> QED  BY <2>1 DEF PingInv, MailOK
  <1>3. TableOf(Known(n), pinged) /\ Known(n).num = num_active_nodes[n]
    BY DEF PingInv, TablesOK, Known, Table
  <1>4. num_active_nodes[n] \in Nat
    BY PingAssumption DEF PingInv, TypesOK
  <1>5. Reads(n, from)
    BY DEF Handle, Reads
  <1>6. CASE handle_T(n, from)
    <2>1. m.type = "T" /\ Learn(n, IF Adds(n, from) THEN add_node(Known(n), from) ELSE Known(n))
      BY <1>6 DEF handle_T
    <2>2. from \in pinged
      <3>1. m = T
        <4>1. \A l \in Lists : N(l).type = "N"
          BY DEF N
        <4> QED  BY <1>2, <2>1, <4>1 DEF Messages
      <3> QED  BY <1>2, <3>1 DEF Carries
    <2>3. TableOf(add_node(Known(n), from), pinged)
          /\ add_node(Known(n), from).num >= num_active_nodes[n]
      BY <1>1, <1>3, <2>2, AddNodeTable
    <2>4. CASE Adds(n, from)
      BY <1>1, <1>5, <2>1, <2>3, <2>4, LearnStep
    <2>5. CASE ~Adds(n, from)
      BY <1>1, <1>3, <1>4, <1>5, <2>1, <2>5, LearnStep
    <2> QED  BY <2>4, <2>5
  <1>7. CASE handle_N(n, from)
    <2>1. m.type = "N" /\ Learn(n, AddNodes(Known(n), m.incoming_nodes))
      BY <1>7 DEF handle_N
    <2>2. m.incoming_nodes \in Lists
          /\ \A i \in Slots : m.incoming_nodes[i] \in pinged \cup {0}
      <3>1. PICK l \in Lists : m = N(l)
        BY <1>2, <2>1 DEF Messages, T
      <3> QED  BY <1>2, <2>1, <3>1 DEF N, Carries
    <2>3. TableOf(AddNodes(Known(n), m.incoming_nodes), pinged)
          /\ AddNodes(Known(n), m.incoming_nodes).num >= num_active_nodes[n]
      BY <1>1, <1>3, <2>2, AddNodesTable
    <2> QED  BY <1>1, <1>5, <2>1, <2>3, LearnStep
  <1> QED  BY <1>6, <1>7 DEF Handle

\* A node pings the master, or a node that is in its list.
LEMMA TargetKnown ==
  ASSUME PingInv, NEW n \in Nodes
  PROVE  /\ Target(n) = 0 \/ (Target(n) \in pinged /\ num_active_nodes[n] > 0)
         /\ NextIndex(n) \in Nat /\ NextIndex(n) <= num_active_nodes[n]
PROOF
  <1>1. /\ num_active_nodes[n] \in Nat /\ next_ping_node_index[n] \in Nat
        /\ next_ping_node_index[n] <= num_active_nodes[n]
    BY PingAssumption DEF PingInv, TypesOK, IndexOK
  <1>2. TableOf(Table(active_nodes[n], num_active_nodes[n]), pinged)
    BY DEF PingInv, TablesOK, Known
  <1>3. \A i \in 0..(num_active_nodes[n] - 1) : active_nodes[n][i] \in pinged
    BY <1>2 DEF TableOf, Table
  <1>4. Target(n) = 0 \/ (Target(n) \in pinged /\ num_active_nodes[n] > 0)
    BY <1>1, <1>3 DEF Target, RollsOver
  <1> QED  BY <1>1, <1>4 DEF NextIndex, RollsOver

\* The invariant when a node pings the next one.
LEMMA PingStep ==
  ASSUME PingInv, NEW n \in Nodes, NEW arrives \in BOOLEAN, Ping(n, arrives)
  PROVE  PingInv'
PROOF
  <1> DEFINE to == Target(n)
             m  == MessageFor(n, to)
  <1>0. /\ active_nodes \in [ Nodes -> Lists ]
        /\ num_active_nodes \in [ Nodes -> 0..max_active_nodes ]
        /\ next_ping_node_index \in [ Nodes -> Nat ]
        /\ mail \in [ Nodes \X Nodes -> Seq(Messages) ]
        /\ pinged \subseteq Nodes \ {0}
        /\ max_active_nodes \in Nat /\ \A k \in Nodes : k \in Nat
    BY PingAssumption DEF PingInv, TypesOK
  <1>1. /\ active_nodes' = active_nodes /\ num_active_nodes' = num_active_nodes
        /\ next_ping_node_index' = [ next_ping_node_index EXCEPT ![n] = NextIndex(n) ]
        /\ arrives => to # n /\ to \in Nodes
        /\ mail' = IF arrives THEN [ mail EXCEPT ![<< n, to >>] = Append(@, m) ] ELSE mail
        /\ pinged' = IF n > 0 /\ to = 0 THEN pinged \cup {n} ELSE pinged
    BY DEF Ping, list, Reaches
  <1>2. /\ to = 0 \/ (to \in pinged /\ num_active_nodes[n] > 0)
        /\ NextIndex(n) \in Nat /\ NextIndex(n) <= num_active_nodes[n]
    BY TargetKnown
  <1>3. pinged \subseteq pinged' /\ pinged' \subseteq Nodes \ {0}
    BY <1>0, <1>1
  <1>4. arrives => m \in Messages /\ Carries(m, n, pinged')
    <2> SUFFICES ASSUME arrives PROVE m \in Messages /\ Carries(m, n, pinged')
      OBVIOUS
    <2>1. CASE n > 0 \/ to = 0
      <3>1. m = T /\ m.type = "T"
        BY <2>1 DEF MessageFor, T
      <3>2. n > 0
        BY <1>0, <1>1, <2>1
      <3>3. n \in pinged'
        BY <1>1, <1>2, <3>2 DEF PingInv, KnowsOK
      <3> QED  BY <3>1, <3>3 DEF Messages, Carries
    <2>2. CASE ~(n > 0 \/ to = 0)
      <3>1. m = N(active_nodes[n])
        BY <2>2 DEF MessageFor
      <3>2. m.type = "N" /\ m # T /\ m.incoming_nodes = active_nodes[n]
        BY <3>1 DEF N, T
      <3>3. TableOf(Table(active_nodes[n], num_active_nodes[n]), pinged)
        BY DEF PingInv, TablesOK, Known
      <3>4. num_active_nodes[n] \in Nat
        BY <1>0
      <3>5. \A i \in Slots : active_nodes[n][i] \in pinged \cup {0}
        <4> SUFFICES ASSUME NEW i \in Slots PROVE active_nodes[n][i] \in pinged \cup {0}
          OBVIOUS
        <4>1. CASE i < num_active_nodes[n]
          BY <1>0, <3>3, <3>4, <4>1 DEF TableOf, Table, Slots
        <4>2. CASE i >= num_active_nodes[n]
          BY <3>3, <4>2 DEF TableOf, Table
        <4> QED  BY <1>0, <3>4, <4>1, <4>2 DEF Slots
      <3>6. m \in Messages
        BY <1>0, <3>1 DEF Messages
      <3> QED  BY <1>3, <3>2, <3>5, <3>6 DEF Carries
    <2> QED  BY <2>1, <2>2
  <1> HIDE DEF to, m
  <1>5. TypesOK'
    <2>1. mail' \in [ Nodes \X Nodes -> Seq(Messages) ]
      <3>1. CASE arrives
        <4>1. Append(mail[<< n, to >>], m) \in Seq(Messages)
          BY <1>0, <1>1, <1>4, <3>1
        <4> QED  BY <1>0, <1>1, <3>1, <4>1
      <3>2. CASE ~arrives
        BY <1>0, <1>1, <3>2
      <3> QED  BY <3>1, <3>2
    <2>2. next_ping_node_index' \in [ Nodes -> Nat ]
      BY <1>0, <1>1, <1>2
    <2> QED  BY <1>0, <1>1, <1>3, <2>1, <2>2 DEF TypesOK
  <1>6. TablesOK'
    <2>1. ASSUME NEW k \in Nodes PROVE TableOf(Known(k), pinged')
      BY <1>3 DEF PingInv, TablesOK, TableOf
    <2>2. \A k \in Nodes : Known(k)' = Known(k)
      BY <1>1 DEF Known
    <2> QED  BY <2>1, <2>2 DEF TablesOK, TableOf
  <1>7. IndexOK'
    BY <1>0, <1>1, <1>2 DEF PingInv, IndexOK
  <1>8. KnowsOK'
    BY <1>1, <1>3 DEF PingInv, KnowsOK
  <1>9. MailOK'
    <2>1. ASSUME NEW a \in Nodes, NEW b \in Nodes, NEW i \in 1..Len(mail'[<< a, b >>])
          PROVE  b \in pinged' \cup {0} /\ Carries(mail'[<< a, b >>][i], a, pinged')
      <3>1. CASE i \in 1..Len(mail[<< a, b >>])
                 /\ mail'[<< a, b >>][i] = mail[<< a, b >>][i]
        BY <1>3, <3>1 DEF PingInv, MailOK, Carries
      <3>2. CASE arrives /\ a = n /\ b = to /\ mail'[<< a, b >>][i] = m
        BY <1>2, <1>3, <1>4, <3>2
      <3>3. CASE ~arrives
        BY <1>1, <3>1, <3>3
      <3>4. CASE arrives /\ << a, b >> # << n, to >>
        <4>1. mail'[<< a, b >>] = mail[<< a, b >>]
          BY <1>0, <1>1, <3>4
        <4> QED  BY <3>1, <4>1
      <3>5. CASE arrives /\ << a, b >> = << n, to >>
        <4>1. a = n /\ b = to
          BY <3>5
        <4>2. mail'[<< a, b >>] = Append(mail[<< a, b >>], m)
              /\ mail[<< a, b >>] \in Seq(Messages)
          BY <1>0, <1>1, <3>5, <4>1
        <4> DEFINE s == mail[<< a, b >>]
        <4>3. /\ Len(s) \in Nat /\ Len(Append(s, m)) = Len(s) + 1
              /\ Append(s, m)[Len(s) + 1] = m
              /\ \A j \in 1..Len(s) : Append(s, m)[j] = s[j]
          <5> HIDE DEF s
          <5>1. s \in Seq(Messages) /\ m \in Messages
            BY <1>4, <3>5, <4>2 DEF s
          <5> QED  BY <5>1
        <4> QED  BY <3>1, <3>2, <3>5, <4>1, <4>2, <4>3
      <3> QED  BY <3>3, <3>4, <3>5
    <2> QED  BY <2>1 DEF MailOK
  <1> QED  BY <1>5, <1>6, <1>7, <1>8, <1>9 DEF PingInv

\* The invariant when a node restarts with an empty table.
LEMMA RestartStep ==
  ASSUME PingInv, NEW n \in Nodes, Restart(n)
  PROVE  PingInv'
PROOF
  <1>0. /\ active_nodes \in [ Nodes -> Lists ]
        /\ num_active_nodes \in [ Nodes -> 0..max_active_nodes ]
        /\ next_ping_node_index \in [ Nodes -> Nat ]
        /\ mail \in [ Nodes \X Nodes -> Seq(Messages) ]
        /\ max_active_nodes \in Nat /\ 0 \in Nodes
    BY PingAssumption DEF PingInv, TypesOK
  <1>1. /\ active_nodes' = [ active_nodes EXCEPT ![n] = NoNodes ]
        /\ num_active_nodes' = [ num_active_nodes EXCEPT ![n] = 0 ]
        /\ next_ping_node_index' = [ next_ping_node_index EXCEPT ![n] = 0 ]
        /\ mail' = [ p \in Nodes \X Nodes |-> IF p[2] = n THEN << >> ELSE mail[p] ]
        /\ pinged' = pinged
    BY DEF Restart
  <1>2. NoNodes \in Lists /\ \A i \in Slots : NoNodes[i] = 0
    BY <1>0 DEF NoNodes, Lists
  <1>3. TypesOK'
    <2>1. << >> \in Seq(Messages)
      OBVIOUS
    <2>2. mail' \in [ Nodes \X Nodes -> Seq(Messages) ]
      BY <1>0, <1>1, <2>1
    <2> QED  BY <1>0, <1>1, <1>2, <2>2 DEF TypesOK, PingInv
  <1>4. TablesOK'
    <2>1. ASSUME NEW k \in Nodes
          PROVE  TableOf(Table(active_nodes'[k], num_active_nodes'[k]), pinged)
      <3>1. CASE k = n
        <4>1. Table(active_nodes'[k], num_active_nodes'[k])
                = [ nodes |-> NoNodes, num |-> 0 ]
          BY <1>0, <1>1, <3>1 DEF Table
        <4> QED  BY <1>0, <1>2, <4>1 DEF TableOf, Tables
      <3>2. CASE k # n
        BY <1>0, <1>1, <3>2 DEF PingInv, TablesOK, Known
      <3> QED  BY <3>1, <3>2
    <2> QED  BY <1>1, <2>1 DEF TablesOK, Known, TableOf, Table
  <1>5. IndexOK'
    BY <1>0, <1>1 DEF PingInv, IndexOK
  <1>6. KnowsOK'
    BY <1>0, <1>1 DEF PingInv, KnowsOK
  <1>7. MailOK'
    <2>1. ASSUME NEW a \in Nodes, NEW b \in Nodes, NEW i \in 1..Len(mail'[<< a, b >>])
          PROVE  b \in pinged' \cup {0} /\ Carries(mail'[<< a, b >>][i], a, pinged')
      <3>1. mail'[<< a, b >>] = IF b = n THEN << >> ELSE mail[<< a, b >>]
        BY <1>1
      <3>2. Len(<< >>) = 0
        OBVIOUS
      <3>3. b # n
        BY <3>1, <3>2
      <3> QED  BY <1>1, <3>1, <3>3 DEF PingInv, MailOK
    <2> QED  BY <2>1 DEF MailOK
  <1> QED  BY <1>3, <1>4, <1>5, <1>6, <1>7 DEF PingInv

\* Every step of every node keeps the invariant.
LEMMA PingNextStep == PingInv /\ [PingNext]_pingVars => PingInv'
PROOF
  <1> SUFFICES ASSUME PingInv, [PingNext]_pingVars PROVE PingInv'
    OBVIOUS
  <1>1. ASSUME NEW n \in Nodes, NEW from \in Nodes, Handle(n, from) PROVE PingInv'
    BY <1>1, HandleStep
  <1>2. ASSUME NEW n \in Nodes, NEW arrives \in BOOLEAN, Ping(n, arrives) PROVE PingInv'
    BY <1>2, PingStep
  <1>3. ASSUME NEW n \in Nodes, Restart(n) PROVE PingInv'
    BY <1>3, RestartStep
  <1>4. ASSUME UNCHANGED << list, next_ping_node_index, mail, pinged >> PROVE PingInv'
    <2>1. /\ active_nodes' = active_nodes /\ num_active_nodes' = num_active_nodes
          /\ next_ping_node_index' = next_ping_node_index
          /\ mail' = mail /\ pinged' = pinged
      BY <1>4 DEF list
    <2>2. TypesOK' /\ IndexOK' /\ KnowsOK' /\ MailOK'
      BY <2>1 DEF PingInv, TypesOK, IndexOK, KnowsOK, MailOK
    <2>3. TablesOK'
      BY <2>1 DEF PingInv, TablesOK, Known
    <2> QED  BY <2>2, <2>3 DEF PingInv
  <1>5. ASSUME NEW n \in Nodes, GoToSleep(n) PROVE PingInv'
    BY <1>4, <1>5 DEF GoToSleep
  <1>6. CASE UNCHANGED pingVars
    BY <1>4, <1>6 DEF pingVars, list
  <1> QED  BY <1>1, <1>2, <1>3, <1>5, <1>6 DEF PingNext

\* The inductive invariant always holds.
LEMMA PingInvariance == PingSpec => []PingInv
PROOF
  BY PingInitStep, PingNextStep, PTL DEF PingSpec

\* The entries of a table are as many nodes as it counts, all of them known to have
\* pinged the master.
LEMMA TableCounts ==
  ASSUME PingInv, NEW n \in Nodes
  PROVE  /\ Listed(n) \subseteq pinged
         /\ IsFiniteSet(Listed(n))
         /\ Cardinality(Listed(n)) = num_active_nodes[n]
PROOF
  <1> DEFINE k     == num_active_nodes[n]
             entry == [ i \in 0..(k - 1) |-> active_nodes[n][i] ]
  <1>1. k \in Nat
    BY PingAssumption DEF PingInv, TypesOK
  <1>2. TableOf(Table(active_nodes[n], k), pinged)
    BY DEF PingInv, TablesOK, Known
  <1> HIDE DEF k
  <1>3. /\ \A i \in 0..(k - 1) : active_nodes[n][i] \in pinged
        /\ \A i, j \in 0..(k - 1) : active_nodes[n][i] = active_nodes[n][j] => i = j
    BY <1>2 DEF TableOf, Table
  <1>4. Listed(n) = { active_nodes[n][i] : i \in 0..(k - 1) }
    BY DEF Listed, k
  <1>5. entry \in Surjection(0..(k - 1), Listed(n))
    BY <1>4 DEF Surjection
  <1>6. entry \in Injection(0..(k - 1), Listed(n))
    BY <1>3, <1>4 DEF Injection, IsInjective
  <1>7. IsFiniteSet(0..(k - 1)) /\ Cardinality(0..(k - 1)) = k
    <2>1. /\ IsFiniteSet(0..(k - 1))
          /\ Cardinality(0..(k - 1)) = IF 0 > k - 1 THEN 0 ELSE (k - 1) - 0 + 1
      BY <1>1, FS_Interval
    <2> QED  BY <1>1, <2>1
  <1>8. IsFiniteSet(Listed(n)) /\ Cardinality(Listed(n)) = k
    BY <1>5, <1>6, <1>7, FS_Surjection
  <1> QED  BY <1>3, <1>4, <1>8 DEF k
-----------------------------------------------------------------------------
\* No node of any network lists a node twice, or the master, or one that never
\* pinged the master, whatever was lost and whoever was restarted: a copied list
\* brings no wrong or double entry.
THEOREM ListsOfNodes == PingSpec => []ListsAreNodes
PROOF
  <1>1. PingInv => ListsAreNodes
    BY TableCounts DEF ListsAreNodes
  <1> QED  BY PingInvariance, <1>1, PTL

\* A node reads active_nodes at an index of the table: the index may run one behind
\* the list, but a list without double entries and without the master never fills
\* a table that has an entry for every address.
THEOREM IndexStaysInTable == PingSpec => []IndexInTable
PROOF
  <1>1. ASSUME PingInv PROVE IndexInTable
    <2> SUFFICES ASSUME NEW n \in Nodes, num_active_nodes[n] > 0
                 PROVE  /\ next_ping_node_index[n] \in Slots
                        /\ next_ping_node_index[n] <= num_active_nodes[n]
      BY DEF IndexInTable
    <2>1. /\ num_active_nodes[n] \in Nat /\ next_ping_node_index[n] \in Nat
          /\ next_ping_node_index[n] <= num_active_nodes[n]
      BY <1>1, PingAssumption DEF PingInv, TypesOK, IndexOK
    <2>2. /\ IsFiniteSet(Nodes) /\ 0 \in Nodes
          /\ max_active_nodes \in Nat /\ Cardinality(Nodes) <= max_active_nodes
      <3>1. IsFiniteSet(Nodes) /\ 0 \in Nodes
            /\ max_active_nodes \in Nat /\ max_active_nodes >= Cardinality(Nodes)
        BY PingAssumption
      <3>2. Cardinality(Nodes) \in Nat
        BY <3>1, FS_CardinalityType
      <3> QED  BY <3>1, <3>2
    <2>3. /\ IsFiniteSet(Nodes \ {0})
          /\ Cardinality(Nodes \ {0}) = Cardinality(Nodes) - 1
      BY <2>2, FS_RemoveElement
    <2>4. Listed(n) \subseteq Nodes \ {0} /\ Cardinality(Listed(n)) = num_active_nodes[n]
      BY <1>1, TableCounts DEF PingInv, TypesOK
    <2>5. Cardinality(Listed(n)) <= Cardinality(Nodes \ {0})
      BY <2>3, <2>4, FS_Subset
    <2>6. Cardinality(Nodes) \in Nat
      BY <2>2, FS_CardinalityType
    <2> QED  BY <2>1, <2>2, <2>3, <2>4, <2>5, <2>6 DEF Slots
  <1> QED  BY PingInvariance, <1>1, PTL
==============================================================================
