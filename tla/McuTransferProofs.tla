-------------------------- MODULE McuTransferProofs --------------------------
(***************************************************************************)
(* That McuTransfer keeps the promises of MessageDelivery, but for the     *)
(* progress of write(), which is liveness, for one sender.  With two there *)
(* is no such theorem: their fragments mix in frag_queue (the run          *)
(* mcu_two_senders).  Nor is there one if the frames do not fill the       *)
(* buffer exactly: a repeated fragment may then overflow it, which ends    *)
(* the assembly of a message whose frames were all acknowledged.           *)
(***************************************************************************)
EXTENDS McuTransfer, FragmentsProofs

OneSender == \E s : Senders = {s}
Divides   == MAX_PAYLOAD_SIZE % max_frame_payload_size = 0

\* What is assembled in frag_queue, as the lemmas about receivers see it: there is
\* nothing if its field reserved is 0, although the bytes are still there.
View == [ id   |-> frag_queue.id,
          left |-> frag_queue.reserved,
          data |-> IF frag_queue.reserved = 0 THEN << >> ELSE frag_queue.data ]

Buffered == [ from : Senders, id : 0..(IdSpace - 1), type : Nat, reserved : Nat,
              data : Seq(Byte) ]

BufferTypes == /\ frag_queue \in Buffered
               /\ frag_queue.reserved # 0 => frag_queue.data # << >>

\* The inductive invariant.
DeliveryInv == /\ Basis /\ BufferTypes
               /\ \A s \in Senders : BytesInv(s, View) /\ DeliveryOf(s, View)

\* A record with these fields is what is assembled.
LEMMA Viewed ==
  ASSUME NEW b, frag_queue = b
  PROVE  /\ View.id = b.id /\ View.left = b.reserved
         /\ b.reserved = 0 => View.data = << >>
         /\ b.reserved # 0 => View.data = b.data
BY DEF View

\* The record after a step.
LEMMA ViewedNext ==
  ASSUME NEW b, frag_queue' = b, NEW d, d = View'
  PROVE  /\ d.id = b.id /\ d.left = b.reserved
         /\ b.reserved = 0 => d.data = << >>
         /\ b.reserved # 0 => d.data = b.data
BY DEF View

-----------------------------------------------------------------------------
(***************************************************************************)
(* enqueue() of f, frame q of message m of the only sender s, when c is    *)
(* what is assembled.                                                      *)
(***************************************************************************)
Meets(s, m, q, f, c) == /\ Comes(s, m, q, f, c) /\ c = View /\ Senders = {s}
                        /\ BufferTypes /\ f.reserved \in Nat

\* It leaves d.
Received(s, m, q, d) == /\ d = View' /\ BufferTypes' /\ Recorded /\ BytesInv(s, d)
                        /\ Handled(s, m, q, d)

\* The invariant, for the frame and the buffer.
LEMMA MeetsInv ==
  ASSUME NEW s, NEW m, NEW q, NEW f, NEW c, Meets(s, m, q, f, c)
  PROVE  /\ Comes(s, m, q, f, c) /\ Basis /\ written' = written /\ s \in Senders
         /\ BytesInv(s, c) /\ frag_queue \in Buffered /\ frag_queue.from = s
         /\ f.data \in Seq(Byte) /\ f.data # << >> /\ AllOf(f.data, s, f.id)
         /\ MsgOf(f) = m /\ MsgOf(f) \in 1..Len(written)
         /\ f.from = s /\ f.id \in 0..(IdSpace - 1) /\ f.type \in Nat /\ f.reserved \in Nat
         /\ f.type \in FragmentTypes <=> N(m) # 1
         /\ c.id = frag_queue.id /\ c.left = frag_queue.reserved
         /\ frag_queue.reserved = 0 => c.data = << >>
         /\ frag_queue.reserved # 0 => c.data = frag_queue.data /\ Filled(c)
         /\ Filled(c) <=> frag_queue.reserved # 0
<1>1. /\ Comes(s, m, q, f, c) /\ Senders = {s} /\ frag_queue \in Buffered /\ f.reserved \in Nat
      /\ c = View /\ (frag_queue.reserved # 0 => frag_queue.data # << >>)
  BY DEF Meets, BufferTypes
<1>2. Basis /\ BytesInv(s, c) /\ written' = written /\ frag_queue.from = s
  BY <1>1 DEF Comes, Sends, Buffered
<1>3. /\ f.data \in Seq(Byte) /\ f.data # << >> /\ AllOf(f.data, s, f.id)
      /\ MsgOf(f) = m /\ MsgOf(f) \in 1..Len(written)
      /\ f.from = s /\ s \in Senders /\ f.id \in 0..(IdSpace - 1) /\ f.type \in Nat
      /\ f.type \in FragmentTypes <=> N(m) # 1
  BY <1>1, FrameTraces
<1>4. /\ c.id = frag_queue.id /\ c.left = frag_queue.reserved
      /\ frag_queue.reserved = 0 => c.data = << >>
      /\ frag_queue.reserved # 0 => c.data = frag_queue.data
  BY <1>1, Viewed
<1>5. Filled(c) <=> frag_queue.reserved # 0
  BY <1>1, <1>4 DEF Filled
<1> QED BY <1>1, <1>2, <1>3, <1>4, <1>5

\* A message of one frame.
LEMMA ReceiveWhole ==
  ASSUME NEW s, NEW m, NEW q, NEW f, NEW c, Meets(s, m, q, f, c),
         EnqueueWhole(f) \/ EnqueueExternal(f), NEW d, d = View'
  PROVE  Received(s, m, q, d)
<1>1. /\ Comes(s, m, q, f, c) /\ Basis /\ written' = written /\ s \in Senders /\ BytesInv(s, c)
      /\ f.data \in Seq(Byte) /\ f.data # << >> /\ AllOf(f.data, s, f.id)
      /\ MsgOf(f) = m /\ MsgOf(f) \in 1..Len(written)
      /\ f.from = s /\ f.id \in 0..(IdSpace - 1) /\ f.type \in Nat /\ f.reserved \in Nat
      /\ f.type \in FragmentTypes <=> N(m) # 1
  BY MeetsInv
<1>2. f.type \notin FragmentTypes
  BY DEF EnqueueWhole, EnqueueExternal, FragmentTypes, EXTERNAL_DATA_TYPE,
         NETWORK_FIRST_FRAGMENT, NETWORK_MORE_FRAGMENTS, NETWORK_LAST_FRAGMENT
<1>3. Deliver(s, f.type, f.data) \/ Swallow(f)
  BY <1>1 DEF EnqueueWhole, EnqueueExternal, Push, HandOver
<1>4. Recorded
  BY <1>1, <1>3, Records
<1>5. /\ d = c \/ (Filled(d) => MsgOf(d) = m)
      /\ BufferTypes' /\ BytesInv(s, d)
  <2>1. CASE frag_queue' = frag_queue
    <3>1. d = c /\ BufferTypes'
      BY <2>1 DEF View, Meets, BufferTypes
    <3> QED BY <1>1, <3>1
  <2>2. CASE frag_queue' = Stored(f, f.reserved)
    <3>1. PICK b : b = Stored(f, f.reserved)
      OBVIOUS
    <3>2. b \in Buffered /\ b.data = f.data /\ b.id = f.id
      BY <1>1, <3>1 DEF Stored, Buffered
    <3>3. BufferTypes'
      BY <1>1, <2>2, <3>1, <3>2 DEF BufferTypes
    <3>4. d.id = f.id /\ (d.data = << >> \/ d.data = f.data)
      BY <2>2, <3>1, <3>2, ViewedNext
    <3>5. BytesInv(s, d)
      <4>1. f.data \in Seq(Byte) /\ AllOf(f.data, s, f.id)
        BY <1>1
      <4>2. d.data = f.data => d.data \in Seq(Byte) /\ AllOf(d.data, s, d.id)
        BY <3>4, <4>1, Zenon
      <4>3. d.data = << >> => d.data \in Seq(Byte)
        OBVIOUS
      <4> QED BY <3>4, <4>2, <4>3, Zenon DEF BytesInv, Filled
    <3>6. Filled(d) => MsgOf(d) = m
      BY <1>1, <3>4 DEF Filled, MsgOf
    <3> QED BY <3>3, <3>5, <3>6
  <2> QED BY <2>1, <2>2 DEF EnqueueWhole, EnqueueExternal
<1>6. Handled(s, m, q, d)
  BY <1>1, <1>2, <1>3, <1>5, WholeHandled
<1> QED BY <1>4, <1>5, <1>6 DEF Received

\* A first fragment.
LEMMA ReceiveFirst ==
  ASSUME NEW s, NEW m, NEW q, NEW f, NEW c, Meets(s, m, q, f, c), EnqueueFirst(f),
         NEW d, d = View'
  PROVE  Received(s, m, q, d)
<1>1. /\ Comes(s, m, q, f, c) /\ Basis /\ written' = written /\ s \in Senders
      /\ f.data \in Seq(Byte) /\ f.data # << >> /\ AllOf(f.data, s, f.id)
      /\ MsgOf(f) \in 1..Len(written)
      /\ f.from = s /\ f.id \in 0..(IdSpace - 1) /\ f.type \in Nat /\ f.reserved \in Nat
  BY MeetsInv
<1>2. /\ f.type = NETWORK_FIRST_FRAGMENT /\ f.reserved >= 2 /\ Nothing
      /\ frag_queue' = Stored(f, f.reserved - 1)
  BY DEF EnqueueFirst
<1>3. PICK b : b = Stored(f, f.reserved - 1)
  OBVIOUS
<1>4. b \in Buffered /\ b.data = f.data /\ b.id = f.id /\ b.reserved = f.reserved - 1 /\ b.reserved # 0
  BY <1>1, <1>2, <1>3 DEF Stored, Buffered
<1>5. d.id = f.id /\ d.data = f.data /\ d.left = f.reserved - 1
  BY <1>2, <1>3, <1>4, ViewedNext
<1>6. BufferTypes'
  BY <1>1, <1>2, <1>3, <1>4 DEF BufferTypes
<1>7. BytesInv(s, d)
  BY <1>1, <1>5 DEF BytesInv
<1>8. Recorded
  BY <1>1, <1>2, Records
<1>9. Handled(s, m, q, d)
  BY <1>1, <1>2, <1>5, FirstHandled
<1> QED BY <1>6, <1>7, <1>8, <1>9 DEF Received

\* What is in order continues the assembly.
LEMMA InOrderContinues ==
  ASSUME NEW s, NEW m, NEW q, NEW f, NEW c, Meets(s, m, q, f, c),
         f.type \in { NETWORK_MORE_FRAGMENTS, NETWORK_LAST_FRAGMENT }
  PROVE  InOrder(f) <=> Continues(c, f)
<1>1. /\ c.id = frag_queue.id /\ c.left = frag_queue.reserved
      /\ Filled(c) <=> frag_queue.reserved # 0
  BY MeetsInv
<1>2. NETWORK_MORE_FRAGMENTS # NETWORK_LAST_FRAGMENT
  BY DEF NETWORK_MORE_FRAGMENTS, NETWORK_LAST_FRAGMENT
<1>3. InOrder(f) <=> /\ frag_queue.reserved # 0
                     /\ frag_queue.id = f.id
                     /\ frag_queue.reserved = IF f.type = NETWORK_LAST_FRAGMENT THEN 1 ELSE f.reserved
  BY <1>2 DEF InOrder
<1> QED BY <1>1, <1>3 DEF Continues

\* A fragment in order.
LEMMA ReceiveMore ==
  ASSUME NEW s, NEW m, NEW q, NEW f, NEW c, Meets(s, m, q, f, c), EnqueueMore(f),
         NEW d, d = View'
  PROVE  Received(s, m, q, d)
<1>1. /\ Comes(s, m, q, f, c) /\ Basis /\ written' = written /\ s \in Senders /\ BytesInv(s, c)
      /\ f.data \in Seq(Byte) /\ AllOf(f.data, s, f.id)
      /\ MsgOf(f) \in 1..Len(written) /\ frag_queue \in Buffered
      /\ c.id = frag_queue.id /\ c.left = frag_queue.reserved
      /\ frag_queue.reserved # 0 => c.data = frag_queue.data
  BY MeetsInv
<1>2. /\ f.type = NETWORK_MORE_FRAGMENTS /\ f.reserved >= 2 /\ InOrder(f) /\ Nothing
      /\ frag_queue' = [ frag_queue EXCEPT !.data = @ \o f.data, !.reserved = @ - 1 ]
  BY DEF EnqueueMore
<1>3. Continues(c, f)
  BY <1>2, InOrderContinues
<1>4. /\ frag_queue.reserved \in Nat /\ frag_queue.reserved >= 2 /\ c.id = f.id
      /\ c.data = frag_queue.data /\ Filled(c)
  <2>1. NETWORK_MORE_FRAGMENTS # NETWORK_LAST_FRAGMENT
    BY DEF NETWORK_MORE_FRAGMENTS, NETWORK_LAST_FRAGMENT
  <2>2. frag_queue.reserved = f.reserved /\ frag_queue.reserved # 0
    BY <1>2, <2>1 DEF InOrder
  <2> QED BY <1>1, <1>2, <1>3, <2>2 DEF Buffered, Continues
<1>5. PICK x, n : x = c.data \o f.data /\ n = frag_queue.reserved - 1
  OBVIOUS
<1>6. x \in Seq(Byte) /\ x # << >> /\ AllOf(x, s, c.id)
  BY <1>1, <1>4, <1>5, GrownTraces
<1>7. PICK b : b = [ frag_queue EXCEPT !.data = x, !.reserved = n ]
  OBVIOUS
<1>8. frag_queue' = b
  BY <1>2, <1>4, <1>5, <1>7
<1>9. b \in Buffered /\ b.data = x /\ b.reserved = n /\ n # 0 /\ b.id = c.id
  <2>1. frag_queue \in Buffered /\ frag_queue.id = c.id /\ x \in Seq(Byte)
    BY <1>1, <1>6
  <2>2. n \in Nat /\ n # 0
    BY <1>4, <1>5
  <2> QED BY <1>7, <2>1, <2>2 DEF Buffered
<1>10. d.id = c.id /\ d.data = c.data \o f.data /\ d.left = c.left - 1
  BY <1>1, <1>5, <1>8, <1>9, ViewedNext
<1>11. BufferTypes'
  BY <1>6, <1>8, <1>9 DEF BufferTypes
<1>12. BytesInv(s, d)
  BY <1>5, <1>6, <1>10 DEF BytesInv
<1>13. Recorded
  BY <1>1, <1>2, Records
<1>14. Handled(s, m, q, d)
  BY <1>1, <1>2, <1>3, <1>10, MoreHandled
<1> QED BY <1>11, <1>12, <1>13, <1>14 DEF Received

\* The last fragment, in order.
LEMMA ReceiveLast ==
  ASSUME NEW s, NEW m, NEW q, NEW f, NEW c, Meets(s, m, q, f, c), EnqueueLast(f),
         NEW d, d = View'
  PROVE  Received(s, m, q, d)
<1>1. /\ Comes(s, m, q, f, c) /\ Basis /\ written' = written /\ s \in Senders /\ BytesInv(s, c)
      /\ f.data \in Seq(Byte) /\ AllOf(f.data, s, f.id) /\ f.reserved \in Nat
      /\ MsgOf(f) \in 1..Len(written) /\ frag_queue \in Buffered /\ frag_queue.from = s
      /\ c.id = frag_queue.id
      /\ frag_queue.reserved # 0 => c.data = frag_queue.data /\ Filled(c)
  BY MeetsInv
<1>2. /\ f.type = NETWORK_LAST_FRAGMENT /\ InOrder(f)
      /\ frag_queue.reserved # 0 /\ c.data = frag_queue.data /\ Filled(c) /\ c.id = f.id
  BY <1>1 DEF EnqueueLast, InOrder
<1>3. Continues(c, f)
  BY <1>2, InOrderContinues
<1>4. PICK x : x = c.data \o f.data
  OBVIOUS
<1>5. x \in Seq(Byte) /\ x # << >> /\ AllOf(x, s, c.id)
  BY <1>1, <1>2, <1>4, GrownTraces
<1>6. PICK b : b = [ frag_queue EXCEPT !.data = x, !.reserved = 0, !.type = f.reserved ]
  OBVIOUS
<1>7. /\ frag_queue' = b
      /\ Deliver(s, f.reserved, x) \/ Swallow(f)
  BY <1>1, <1>2, <1>4, <1>6 DEF EnqueueLast, Push, HandOver
<1>8. b \in Buffered /\ b.reserved = 0 /\ b.id = c.id
  BY <1>1, <1>5, <1>6 DEF Buffered
<1>9. d.data = << >> /\ BufferTypes'
  BY <1>7, <1>8, ViewedNext DEF BufferTypes
<1>10. BytesInv(s, d) /\ ~Filled(d)
  BY <1>9 DEF BytesInv, Filled
<1>11. Recorded
  BY <1>1, <1>5, <1>7, Records
<1>12. Handled(s, m, q, d)
  BY <1>1, <1>2, <1>3, <1>4, <1>7, <1>10, LastHandled
<1> QED BY <1>9, <1>10, <1>11, <1>12 DEF Received

\* A fragment that is dropped.  It ends the assembly of the present message only if it does
\* not fit, which cannot be.
LEMMA ReceiveDrop ==
  ASSUME Divides, NEW s, NEW m, NEW q, NEW f, NEW c, Meets(s, m, q, f, c), Drop(f),
         NEW d, d = View'
  PROVE  Received(s, m, q, d)
<1>1. /\ Comes(s, m, q, f, c) /\ Basis /\ written' = written /\ s \in Senders /\ BytesInv(s, c)
      /\ MsgOf(f) \in 1..Len(written) /\ frag_queue \in Buffered /\ f.data \in Seq(Byte)
      /\ c.id = frag_queue.id /\ c.left = frag_queue.reserved
      /\ frag_queue.reserved = 0 => c.data = << >>
      /\ frag_queue.reserved # 0 => c.data = frag_queue.data
      /\ Filled(c) <=> frag_queue.reserved # 0
  BY MeetsInv
<1>2. /\ f.type \in { NETWORK_MORE_FRAGMENTS, NETWORK_LAST_FRAGMENT }
      /\ Nothing
  BY DEF Drop
<1>3. f.type \in FragmentTypes /\ f.type # NETWORK_FIRST_FRAGMENT
  BY <1>2 DEF FragmentTypes, NETWORK_FIRST_FRAGMENT, NETWORK_MORE_FRAGMENTS,
              NETWORK_LAST_FRAGMENT
<1>4. Recorded
  BY <1>1, <1>2, Records
<1>5. CASE ~InOrder(f) /\ frag_queue' = frag_queue
  <2>1. d = c /\ BufferTypes'
    BY <1>5 DEF View, Meets, BufferTypes
  <2>2. ~Continues(c, f)
    BY <1>2, <1>5, InOrderContinues
  <2>3. Handled(s, m, q, d)
    BY <1>1, <1>2, <1>3, <2>1, <2>2, LaterHandled
  <2> QED BY <1>1, <1>4, <2>1, <2>3 DEF Received
<1>6. CASE TooLong(f) /\ frag_queue' = [ frag_queue EXCEPT !.reserved = 0 ]
  <2>1. PICK b : b = [ frag_queue EXCEPT !.reserved = 0 ]
    OBVIOUS
  <2>2. b \in Buffered /\ b.reserved = 0
    BY <1>1, <2>1 DEF Buffered
  <2>3. d.data = << >> /\ BufferTypes'
    BY <1>6, <2>1, <2>2, ViewedNext DEF BufferTypes
  <2>4. BytesInv(s, d) /\ ~Filled(d)
    BY <2>3 DEF BytesInv, Filled
  <2>5. ~(Filled(c) /\ MsgOf(c) = m)
    <3> SUFFICES ASSUME Filled(c), MsgOf(c) = m PROVE FALSE
      OBVIOUS
    <3>1. Len(c.data) + Len(f.data) <= MAX_PAYLOAD_SIZE
      BY <1>1, <1>3, BeginningFits DEF Divides
    <3>2. c.data = frag_queue.data
      BY <1>1
    <3>3. Len(c.data) + Len(f.data) > MAX_PAYLOAD_SIZE
      BY <1>6, <3>2 DEF TooLong
    <3>4. PICK k, l, max : k = Len(c.data) /\ l = Len(f.data) /\ max = MAX_PAYLOAD_SIZE
      OBVIOUS
    <3>5. k \in Nat /\ l \in Nat /\ max \in Nat
      BY <1>1, <3>4, FragmentsAssumption DEF BytesInv
    <3>6. k + l <= max /\ k + l > max
      BY <3>1, <3>3, <3>4
    <3> QED BY <3>5, <3>6
  <2>6. Handled(s, m, q, d)
    BY <1>1, <1>2, <1>3, <2>4, <2>5, LaterHandled
  <2> QED BY <1>4, <2>3, <2>4, <2>6 DEF Received
<1> QED BY <1>5, <1>6 DEF Drop

LEMMA Receive ==
  ASSUME Divides, NEW s, NEW m, NEW q, NEW f, NEW c, Meets(s, m, q, f, c), Enqueue(f),
         NEW d, d = View'
  PROVE  Received(s, m, q, d)
BY ReceiveWhole, ReceiveFirst, ReceiveMore, ReceiveLast, ReceiveDrop DEF Enqueue

-----------------------------------------------------------------------------
(***************************************************************************)
(* The invariant, and the steps of MessageDelivery.                        *)
(***************************************************************************)
LEMMA DeliveryInitial ==
  ASSUME OneSender, Init
  PROVE  DeliveryInv
<1>1. PICK s : Senders = {s}
  BY DEF OneSender
<1>2. PICK x : x = CHOOSE t \in Senders : TRUE
  OBVIOUS
<1>3. x \in Senders
  BY <1>1, <1>2
<1>4. PICK b : b = [ from |-> x, id |-> 0, type |-> 0, reserved |-> 0, data |-> << >> ]
  OBVIOUS
<1>5. frag_queue = b /\ SenderInit
  BY <1>2, <1>4 DEF Init
<1>6. b \in Buffered /\ b.reserved = 0
  <2>1. IdSpace \in Nat \ {0}
    BY FragmentsAssumption
  <2> QED BY <1>3, <1>4, <2>1 DEF Buffered
<1>7. BufferTypes /\ View.data = << >>
  BY <1>5, <1>6, Viewed DEF BufferTypes
<1>8. BytesInv(s, View) /\ ~Filled(View)
  BY <1>7 DEF BytesInv, Filled
<1>9. DeliveryOf(s, View)
  BY <1>1, <1>5, <1>8, DeliveryInit
<1> QED BY <1>1, <1>5, <1>7, <1>8, <1>9, BasisInit DEF DeliveryInv

\* Where frag_queue stays as it is.
LEMMA SameBuffer ==
  ASSUME BufferTypes, UNCHANGED frag_queue
  PROVE  BufferTypes' /\ View' = View
BY DEF BufferTypes, View

\* What a step has to keep of the invariant if there is one sender.
LEMMA OneKeeps ==
  ASSUME NEW s, Senders = {s}, Basis', BufferTypes', NEW d, d = View',
         BytesInv(s, d)', DeliveryOf(s, d)'
  PROVE  DeliveryInv'
<1>1. BytesInv(s, View)' /\ DeliveryOf(s, View)'
  OBVIOUS
<1> QED BY <1>1 DEF DeliveryInv

\* A message is written.
LEMMA McuWrite ==
  ASSUME MaxMsgs <= IdSpace, NEW s, Senders = {s}, DeliveryInv,
         NEW len \in Lens, NEW type \in MsgTypes,
         Write(s, len, type), Nothing, UNCHANGED frag_queue
  PROVE  DeliveryInv' /\ Abstract!Write(s)
<1>1. PICK c : c = View
  OBVIOUS
<1>2. /\ Basis /\ BufferTypes /\ BytesInv(s, c) /\ DeliveryOf(s, c)
      /\ \A t \in Senders : EpochInv(t)
      /\ s \in Senders /\ Senders \ {s} = {}
  BY <1>1 DEF DeliveryInv, DeliveryOf
<1>3. BufferTypes' /\ c = View'
  BY <1>1, <1>2, SameBuffer
<1>4. Basis' /\ BytesInv(s, c)'
  BY <1>2, BasisWrite
<1>5. DeliveryOf(s, c)' /\ \A t \in Senders \ {s} : Untouched(t)
  BY <1>2, DeliveryWrite
<1>6. Abstract!Write(s)
  BY <1>2, <1>5, WriteMaps
<1> QED BY <1>3, <1>4, <1>5, <1>6, OneKeeps

\* It is written again.
LEMMA McuRetry ==
  ASSUME NEW s, Senders = {s}, DeliveryInv,
         Retry(s), Forget(job[s].msg), UNCHANGED frag_queue
  PROVE  DeliveryInv' /\ Abstract!Retry(s)
<1>1. PICK c : c = View
  OBVIOUS
<1>2. /\ Basis /\ BufferTypes /\ BytesInv(s, c) /\ DeliveryOf(s, c) /\ CallInv(s, c)
      /\ \A t \in Senders : EpochInv(t)
      /\ s \in Senders /\ Senders \ {s} = {}
  BY <1>1 DEF DeliveryInv, DeliveryOf
<1>3. BufferTypes' /\ c = View'
  BY <1>1, <1>2, SameBuffer
<1>4. Basis' /\ BytesInv(s, c)'
  BY <1>2, BasisRetry
<1>5. DeliveryOf(s, c)' /\ \A t \in Senders \ {s} : Untouched(t)
  BY <1>2, DeliveryRetry
<1>6. Abstract!Retry(s)
  BY <1>2, <1>5, RetryMaps
<1> QED BY <1>3, <1>4, <1>5, <1>6, OneKeeps

\* The sender restarts.
LEMMA McuReboot ==
  ASSUME NEW s, Senders = {s}, DeliveryInv, Reboot(s), Nothing, UNCHANGED frag_queue
  PROVE  DeliveryInv' /\ Abstract!Reboot(s)
<1>1. PICK c : c = View
  OBVIOUS
<1>2. /\ Basis /\ BufferTypes /\ BytesInv(s, c) /\ DeliveryOf(s, c)
      /\ \A t \in Senders : EpochInv(t)
      /\ s \in Senders /\ Senders \ {s} = {}
  BY <1>1 DEF DeliveryInv, DeliveryOf
<1>3. BufferTypes' /\ c = View'
  BY <1>1, <1>2, SameBuffer
<1>4. Basis' /\ BytesInv(s, c)'
  BY <1>2, BasisReboot
<1>5. DeliveryOf(s, c)' /\ \A t \in Senders \ {s} : Untouched(t)
  BY <1>2, DeliveryReboot
<1>6. Abstract!Reboot(s)
  BY <1>2, <1>5, RebootMaps
<1> QED BY <1>3, <1>4, <1>5, <1>6, OneKeeps

\* The field reserved of a frame.
LEMMA FrameReserved ==
  ASSUME Basis, NEW s \in Senders, NEW o, SendFrame(s, o), NEW garbage \in Nat,
         NEW f, f = Frame(s, garbage)
  PROVE  f.reserved \in Nat
<1>1. PICK m, q : m = job[s].msg /\ q = job[s].msgCount
  OBVIOUS
<1>2. Types /\ JobInv(s) /\ job[s].phase = "sending"
  BY DEF Basis, SenderInv, SendFrame
<1>3. /\ m \in 1..Len(written) /\ q \in 0..(N(m) - 1) /\ FrameIs(f, s, m, q)
      /\ N(m) = 1 => f.reserved = garbage
  BY <1>1, <1>2, FrameSent
<1>4. N(m) # 1 => f.reserved \in Nat
  BY <1>2, <1>3, FragmentReserved
<1> QED BY <1>3, <1>4

\* A frame is sent, and received or not.
LEMMA McuTransfers ==
  ASSUME Divides, NEW s, Senders = {s}, DeliveryInv, Transfer(s)
  PROVE  DeliveryInv' /\ Abstract!Progress(s)
<1>1. PICK o \in Outcomes, garbage \in Garbage :
        /\ SendFrame(s, o)
        /\ IF o \in Arriving THEN Enqueue(Frame(s, garbage))
           ELSE Vanish(Frame(s, garbage), o) /\ UNCHANGED frag_queue
  BY DEF Transfer
<1>2. PICK f, m, q : f = Frame(s, garbage) /\ m = job[s].msg /\ q = job[s].msgCount
  OBVIOUS
<1>3. PICK c, d : c = View /\ d = View'
  OBVIOUS
<1>4. Basis /\ BufferTypes /\ BytesInv(s, c) /\ DeliveryOf(s, c) /\ s \in Senders
  BY <1>3 DEF DeliveryInv
<1>5. Comes(s, m, q, f, c)
  BY <1>1, <1>2, <1>4, SendsReady
<1>6. garbage \in Nat
  BY DEF Garbage
<1>7. f.reserved \in Nat
  BY <1>1, <1>2, <1>4, <1>6, FrameReserved
<1>8. /\ BufferTypes' /\ Recorded /\ BytesInv(s, d)
      /\ IF o \in Arriving THEN Handled(s, m, q, d) ELSE Vanish(f, o) /\ d = c
  <2>1. CASE o \in Arriving
    <3>1. Enqueue(f)
      BY <1>1, <1>2, <2>1
    <3>2. Meets(s, m, q, f, c)
      BY <1>3, <1>4, <1>5, <1>7 DEF Meets
    <3>3. Received(s, m, q, d)
      BY <1>3, <3>1, <3>2, Receive
    <3> QED BY <2>1, <3>3 DEF Received
  <2>2. CASE o \notin Arriving
    <3>1. Vanish(f, o) /\ UNCHANGED frag_queue
      BY <1>1, <1>2, <2>2
    <3>2. BufferTypes' /\ d = c
      BY <1>3, <1>4, <3>1, SameBuffer
    <3>3. Nothing \/ Swallow(f)
      BY <3>1 DEF Vanish
    <3>4. MsgOf(f) \in 1..Len(written) /\ written' = written
      BY <1>5, FrameTraces DEF Comes, Sends
    <3>5. Recorded
      BY <1>4, <3>3, <3>4, Records
    <3> QED BY <1>4, <2>2, <3>1, <3>2, <3>5
  <2> QED BY <2>1, <2>2
<1>9. Basis' /\ BytesInv(s, d)'
  <2>1. /\ delivered' \in Seq(Delivery) /\ swallowed' \subseteq 1..Len(written)
        /\ DeliveredHeader'
    BY <1>8 DEF Recorded
  <2>2. Basis' /\ \A t, x : BytesInv(t, x)' <=> BytesInv(t, x)
    BY <1>1, <1>4, <2>1, BasisSend
  <2> QED BY <1>8, <2>2
<1>10. Happens(s, m, q, o, c, d)
  BY <1>1, <1>5, <1>8, SendHappens
<1>11. DeliveryOf(s, d)'
  BY <1>4, <1>10, DeliverySend
<1>12. Abstract!Progress(s)
  <2>1. \A t \in Senders \ {s} : Untouched(t)
    OBVIOUS
  <2> QED BY <1>4, <1>10, <2>1, ProgressMaps
<1>13. BufferTypes'
  BY <1>8
<1> QED BY <1>3, <1>9, <1>11, <1>12, <1>13, OneKeeps

\* Every step is one of MessageDelivery, or nothing that it sees.
LEMMA DeliveryStep ==
  ASSUME MaxMsgs <= IdSpace, OneSender, Divides, DeliveryInv, [Next]_vars
  PROVE  DeliveryInv' /\ [Abstract!Next]_(Abstract!vars)
<1>1. PICK s : Senders = {s}
  BY DEF OneSender
<1>2. s \in Senders /\ \A t \in Senders : t = s
  BY <1>1
<1>3. CASE Next
  <2>1. ASSUME NEW len \in Lens, NEW type \in MsgTypes,
               Write(s, len, type) /\ Nothing /\ UNCHANGED frag_queue
        PROVE  DeliveryInv' /\ Abstract!Write(s)
    BY <1>1, <2>1, McuWrite
  <2>2. ASSUME Retry(s) /\ Forget(job[s].msg) /\ UNCHANGED frag_queue
        PROVE  DeliveryInv' /\ Abstract!Retry(s)
    BY <1>1, <2>2, McuRetry
  <2>3. ASSUME Reboot(s) /\ Nothing /\ UNCHANGED frag_queue
        PROVE  DeliveryInv' /\ Abstract!Reboot(s)
    BY <1>1, <2>3, McuReboot
  <2>4. ASSUME Transfer(s) PROVE DeliveryInv' /\ Abstract!Progress(s)
    BY <1>1, <2>4, McuTransfers
  <2>5. /\ DeliveryInv'
        /\ Abstract!Write(s) \/ Abstract!Retry(s) \/ Abstract!Progress(s) \/ Abstract!Reboot(s)
    BY <1>2, <1>3, <2>1, <2>2, <2>3, <2>4 DEF Next
  <2> QED BY <1>2, <2>5 DEF Abstract!Next
<1>4. CASE UNCHANGED vars
  <2>1. UNCHANGED << senderVars, delivered, swallowed >> /\ UNCHANGED frag_queue
    BY <1>4 DEF vars
  <2>2. PICK c : c = View
    OBVIOUS
  <2>3. Basis /\ BufferTypes /\ BytesInv(s, c) /\ DeliveryOf(s, c) /\ EpochInv(s)
    BY <1>2, <2>2 DEF DeliveryInv, DeliveryOf
  <2>4. BufferTypes' /\ c = View'
    BY <2>1, <2>2, <2>3, SameBuffer
  <2>5. Basis' /\ BytesInv(s, c)'
    BY <2>1, <2>3, BasisStays
  <2>6. Untouched(s)
    BY <1>2, <2>1, <2>3, DeliveryStays
  <2>7. DeliveryOf(s, c)'
    <3>1. Types' /\ Len(written)' >= Len(written)
      <4>1. written' = written /\ Len(written) \in Nat
        BY <2>1, <2>3 DEF senderVars, Basis, SenderInv, Types
      <4> QED BY <2>5, <4>1 DEF Basis, SenderInv
    <3> QED BY <1>2, <2>3, <2>6, <3>1, OthersKept
  <2>8. DeliveryInv'
    BY <1>1, <2>4, <2>5, <2>7, OneKeeps
  <2>9. UNCHANGED Abstract!vars
    BY <2>1, StaysMaps
  <2> QED BY <2>8, <2>9
<1> QED BY <1>3, <1>4

\* Whatever happens to frames, the sender and the queue, and however often messages are
\* written again: the messages of one sender reach the queues of a microcontroller whole,
\* while they are written, at most once per call of write(), and a call that returned true
\* has delivered its message or a part of it was spoilt (enqueue() with frag_queue and
\* main_write()).  As many messages are written as there are ids, and frames fill the
\* buffer exactly, as 24 bytes do the default of 144.
THEOREM McuDeliversAsPromised ==
  OneSender /\ Divides /\ MaxMsgs <= IdSpace => (Spec => Abstract!Safety)
<1> SUFFICES ASSUME OneSender, Divides, MaxMsgs <= IdSpace
             PROVE  Spec => Abstract!Safety
  OBVIOUS
<1>1. Init => DeliveryInv /\ Abstract!Init
  BY DeliveryInitial, InitMaps DEF Init
<1>2. DeliveryInv /\ [Next]_vars => DeliveryInv' /\ [Abstract!Next]_(Abstract!vars)
  BY DeliveryStep
<1> QED BY <1>1, <1>2, PTL DEF Spec, Abstract!Safety
=============================================================================
