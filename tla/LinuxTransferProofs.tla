------------------------- MODULE LinuxTransferProofs -------------------------
(***************************************************************************)
(* The theorems about LinuxTransfer, for any number of senders, messages,  *)
(* attempts and restarts, any lengths, any frame and message size and any  *)
(* width of the ids.                                                       *)
(*                                                                         *)
(* Ids come round, and a restart begins them anew: a cached frame tells    *)
(* its messages apart by the id alone.  What holds then is that all its    *)
(* bytes are of messages with its id, from the sender whose entry it is    *)
(* (HeaderInv).                                                            *)
(*                                                                         *)
(* As long as no id comes round, a cached frame can be continued by the    *)
(* message it was begun with only, unless the sender has restarted         *)
(* (DeliveryInv): the receiver then implements MessageDelivery.            *)
(***************************************************************************)
EXTENDS LinuxTransfer, FragmentsProofs

-----------------------------------------------------------------------------
(***************************************************************************)
(* Whose bytes are where: those in the cache are of messages of the        *)
(* sender, with the id of the cached frame, and those that were delivered  *)
(* are of messages of one sender with one id.                              *)
(***************************************************************************)
Cached == [ id : 0..(IdSpace - 1), type : Nat, reserved : Nat, data : Seq(Byte) ]

\* b may be the entry of sender s.
Entry(s, b) == b \in Cached /\ BytesInv(s, b) /\ (b # NoFrame => Filled(b))

CacheInv == /\ cache = [ s \in Senders |-> cache[s] ]
            /\ \A s \in Senders : Entry(s, cache[s])

HeaderInv == Basis /\ CacheInv

\* NoFrame is what the cache holds when it holds nothing.
LEMMA NoFrameCached == NoFrame \in Cached /\ NoFrame.data = << >>
<1>1. IdSpace \in Nat \ {0}
  BY FragmentsAssumption
<1> QED BY <1>1 DEF NoFrame, Cached

LEMMA NoEntry == \A s : Entry(s, NoFrame)
BY NoFrameCached DEF Entry, BytesInv, Filled

\* What sender s may have in the cache after a step.
LEMMA EntryTaken ==
  ASSUME CacheInv, NEW s \in Senders, NEW e, cache' = [ cache EXCEPT ![s] = e ], Entry(s, e)',
         \A t, b : BytesInv(t, b) => BytesInv(t, b)'
  PROVE  CacheInv' /\ cache'[s] = e /\ \A t \in Senders \ {s} : cache'[t] = cache[t]
<1>1. /\ cache' = [ t \in Senders |-> cache'[t] ] /\ cache'[s] = e
      /\ \A t \in Senders \ {s} : cache'[t] = cache[t]
  BY DEF CacheInv
<1>2. ASSUME NEW t \in Senders, NEW b, Entry(t, b) PROVE Entry(t, b)'
  BY <1>2 DEF Entry
<1>3. ASSUME NEW t \in Senders, NEW b, b = cache'[t] PROVE Entry(t, b)'
  <2>1. t # s => Entry(t, b)
    BY <1>1, <1>3 DEF CacheInv
  <2> QED BY <1>1, <1>2, <1>3, <2>1
<1>4. \A t \in Senders : Entry(t, cache[t])'
  BY <1>3
<1> QED BY <1>1, <1>4 DEF CacheInv

LEMMA CacheKept ==
  ASSUME CacheInv, UNCHANGED cache, \A t, b : BytesInv(t, b) => BytesInv(t, b)'
  PROVE  CacheInv'
<1>1. ASSUME NEW t \in Senders, NEW b, Entry(t, b) PROVE Entry(t, b)'
  BY <1>1 DEF Entry
<1> QED BY <1>1 DEF CacheInv

\* The cached frame with a fragment at its end.
LEMMA ExtendBytes ==
  ASSUME NEW s, NEW b, Entry(s, b), b # NoFrame, NEW f, f.id = b.id, f.type \in Nat,
         f.reserved \in Nat, f.data \in Seq(Byte), AllOf(f.data, s, f.id)
  PROVE  Entry(s, Extend(b, f)) /\ Extend(b, f).id = f.id
<1>1. BytesInv(s, b) /\ Filled(b) /\ b.id \in 0..(IdSpace - 1)
  BY DEF Entry, Cached
<1>2. PICK d : d = b.data \o f.data
  OBVIOUS
<1>3. d \in Seq(Byte) /\ d # << >> /\ AllOf(d, s, b.id)
  BY <1>1, <1>2, GrownTraces
<1>4. PICK e : e = Extend(b, f)
  OBVIOUS
<1>5. e \in Cached /\ e.id = f.id /\ e.data = d
  BY <1>1, <1>2, <1>3, <1>4 DEF Extend, Cached
<1>6. BytesInv(s, e) /\ Filled(e)
  BY <1>3, <1>5 DEF BytesInv, Filled
<1> QED BY <1>4, <1>5, <1>6 DEF Entry

\* What enqueue() leaves in the cache and in the queues.
LEMMA EnqueueHeader ==
  ASSUME HeaderInv, written' = written, NEW s \in Senders,
         NEW m \in 1..Len(written), written[m].from = s,
         NEW q \in 0..(N(m) - 1), NEW f, FrameIs(f, s, m, q), Enqueue(f)
  PROVE  Recorded /\ \E e : cache' = [ cache EXCEPT ![s] = e ] /\ Entry(s, e)
<1>0. Basis /\ Types /\ cache = [ t \in Senders |-> cache[t] ] /\ Entry(s, cache[s])
  BY DEF HeaderInv, Basis, SenderInv, CacheInv
<1>1. /\ f.data \in Seq(Byte) /\ f.data # << >> /\ \A i \in DOMAIN f.data : f.data[i][1] = m
      /\ MsgOf(f) = m /\ f.id \in 0..(IdSpace - 1) /\ f.type \in Nat
      /\ f.from = s /\ Slot(f) = s /\ f.id = written[m].id
  BY <1>0, FrameBytes DEF FrameIs, Slot
<1>2. AllOf(f.data, s, f.id)
  BY <1>1 DEF Of, AllOf
<1>3. PICK b : b = cache[s]
  OBVIOUS
<1>4. cache' = cache => cache' = [ cache EXCEPT ![s] = b ] /\ Entry(s, b)
  BY <1>0, <1>3
<1>5. Nothing \/ Swallow(f) => Recorded
  BY <1>0, <1>1, Records
<1>6. ASSUME NEW type, NEW id, NEW data \in Seq(Byte), Deliver(s, type, data), AllOf(data, s, id)
      PROVE  Recorded
  BY <1>0, <1>1, <1>6, Records
<1>7. ASSUME f.type \in FragmentTypes, IsNext(b, f)
      PROVE  Entry(s, Extend(b, f)) /\ Extend(b, f).id = f.id
  <2>1. f.reserved \in Nat
    BY <1>0, <1>7, FragmentReserved
  <2>2. b # NoFrame /\ b.id = f.id
    BY <1>7 DEF IsNext, Fits
  <2> QED BY <1>0, <1>1, <1>2, <1>3, <2>1, <2>2, ExtendBytes
<1>8. CASE EnqueueWhole(f)
  <2>1. Deliver(s, f.type, f.data) /\ cache' = cache
    BY <1>1, <1>8 DEF EnqueueWhole, Push
  <2> QED BY <1>1, <1>2, <1>4, <1>6, <2>1
<1>9. CASE EnqueueFirst(f)
  <2>1. PICK e : e = [ id |-> f.id, type |-> f.type, reserved |-> f.reserved, data |-> f.data ]
    OBVIOUS
  <2>2. f.reserved \in Nat
    BY <1>0, <1>9, FragmentReserved DEF EnqueueFirst, IsNewFirst, FragmentTypes
  <2>3. e \in Cached /\ e.data = f.data /\ e.id = f.id
    BY <1>1, <2>1, <2>2 DEF Cached
  <2>4. BytesInv(s, e) /\ Filled(e)
    BY <1>1, <1>2, <2>3 DEF BytesInv, Filled
  <2>5. cache' = [ cache EXCEPT ![s] = e ] /\ Nothing
    BY <1>1, <1>9, <2>1 DEF EnqueueFirst
  <2> QED BY <1>5, <2>3, <2>4, <2>5 DEF Entry
<1>10. CASE EnqueueMore(f)
  <2>1. f.type \in FragmentTypes /\ IsNext(b, f)
    BY <1>1, <1>3, <1>10 DEF EnqueueMore, FragmentTypes
  <2>2. cache' = [ cache EXCEPT ![s] = Extend(b, f) ] /\ Nothing
    BY <1>1, <1>3, <1>10 DEF EnqueueMore
  <2> QED BY <1>5, <1>7, <2>1, <2>2
<1>11. CASE EnqueueLast(f)
  <2>1. PICK e : e = Extend(b, f)
    OBVIOUS
  <2>2. f.type \in FragmentTypes /\ IsNext(b, f)
    BY <1>1, <1>3, <1>11 DEF EnqueueLast, FragmentTypes
  <2>3. cache' = [ cache EXCEPT ![s] = NoFrame ] /\ Entry(s, NoFrame)
    BY <1>1, <1>11, NoEntry DEF EnqueueLast
  <2>4. Deliver(s, e.type, e.data) \/ Swallow(f)
    BY <1>1, <1>3, <1>11, <2>1 DEF EnqueueLast, Push
  <2>5. Entry(s, e)
    BY <1>7, <2>1, <2>2
  <2>6. e.data \in Seq(Byte) /\ AllOf(e.data, s, e.id)
    BY <2>5, NoFrameCached DEF Entry, BytesInv, AllOf, Filled
  <2>7. CASE Deliver(s, e.type, e.data)
    BY <1>6, <2>3, <2>6, <2>7
  <2>8. CASE Swallow(f)
    BY <1>5, <2>3, <2>8
  <2> QED BY <2>4, <2>7, <2>8
<1>12. CASE Drop(f)
  <2>1. cache' = cache /\ (Swallow(f) \/ Nothing)
    BY <1>12 DEF Drop
  <2> QED BY <1>4, <1>5, <2>1
<1> QED BY <1>8, <1>9, <1>10, <1>11, <1>12 DEF Enqueue

-----------------------------------------------------------------------------
\* The initial state.
LEMMA HeaderInit == Init => HeaderInv
<1> SUFFICES ASSUME Init PROVE HeaderInv
  OBVIOUS
<1>1. CacheInv
  BY NoEntry DEF Init, CacheInv
<1> QED BY <1>1, BasisInit DEF Init, HeaderInv

\* A frame is sent, and received or not.
LEMMA HeaderTransfer ==
  ASSUME HeaderInv, NEW s \in Senders, Transfer(s)
  PROVE  /\ HeaderInv' /\ Recorded
         /\ \A t \in Senders \ {s} : cache'[t] = cache[t]
         /\ \A t, b : BytesInv(t, b)' <=> BytesInv(t, b)
<1>1. PICK o \in Outcomes :
        /\ SendFrame(s, o)
        /\ IF o \in Arriving THEN Enqueue(Frame(s, 0))
           ELSE Vanish(Frame(s, 0), o) /\ UNCHANGED cache
  BY DEF Transfer
<1>2. PICK f, m, q : f = Frame(s, 0) /\ m = job[s].msg /\ q = job[s].msgCount
  OBVIOUS
<1>3. Basis /\ Types /\ JobInv(s) /\ CacheInv
  BY DEF HeaderInv, Basis, SenderInv
<1>4. job[s].phase = "sending" /\ written' = written
  BY <1>1, <1>2, <1>3, SendStep
<1>5. m \in 1..Len(written) /\ written[m].from = s /\ q \in 0..(N(m) - 1) /\ FrameIs(f, s, m, q)
  BY <1>2, <1>3, <1>4, FrameSent DEF Of
<1>6. Recorded /\ \E e : cache' = [ cache EXCEPT ![s] = e ] /\ Entry(s, e)
  <2>1. CASE o \in Arriving
    BY <1>1, <1>2, <1>4, <1>5, <2>1, EnqueueHeader
  <2>2. CASE o \notin Arriving
    <3>1. Vanish(f, o) /\ cache' = cache
      BY <1>1, <1>2, <2>2
    <3>2. MsgOf(f) \in 1..Len(written) /\ (Nothing \/ Swallow(f))
      BY <1>3, <1>5, <3>1, FrameBytes DEF Vanish
    <3>3. Recorded
      BY <1>3, <1>4, <3>2, Records
    <3>4. cache' = [ cache EXCEPT ![s] = cache[s] ] /\ Entry(s, cache[s])
      BY <1>3, <3>1 DEF CacheInv
    <3> QED BY <3>3, <3>4
  <2> QED BY <2>1, <2>2
<1>7. Basis' /\ \A t, b : BytesInv(t, b)' <=> BytesInv(t, b)
  <2>1. /\ delivered' \in Seq(Delivery) /\ swallowed' \subseteq 1..Len(written)
        /\ DeliveredHeader'
    BY <1>6 DEF Recorded
  <2> QED BY <1>1, <1>3, <2>1, BasisSend
<1>8. PICK e : cache' = [ cache EXCEPT ![s] = e ] /\ Entry(s, e)
  BY <1>6
<1>9. Entry(s, e)'
  BY <1>7, <1>8 DEF Entry
<1>10. CacheInv' /\ \A t \in Senders \ {s} : cache'[t] = cache[t]
  BY <1>3, <1>7, <1>8, <1>9, EntryTaken
<1> QED BY <1>6, <1>7, <1>10 DEF HeaderInv

\* The other steps leave the cache alone.
LEMMA HeaderKept ==
  ASSUME HeaderInv, UNCHANGED cache,
         \/ UNCHANGED << senderVars, delivered, swallowed >>
         \/ \E s \in Senders :
              \/ \E len \in Lens, type \in MsgTypes : Write(s, len, type) /\ Nothing
              \/ Retry(s) /\ Forget(job[s].msg)
              \/ Reboot(s) /\ Nothing
  PROVE  HeaderInv'
<1>1. Basis /\ CacheInv
  BY DEF HeaderInv
<1>2. CASE UNCHANGED << senderVars, delivered, swallowed >>
  BY <1>1, <1>2, BasisStays, CacheKept DEF HeaderInv
<1>3. ASSUME NEW s \in Senders, NEW len \in Lens, NEW type \in MsgTypes,
             Write(s, len, type), Nothing
      PROVE  HeaderInv'
  BY <1>1, <1>3, BasisWrite, CacheKept DEF HeaderInv
<1>4. ASSUME NEW s \in Senders, Retry(s), Forget(job[s].msg)
      PROVE  HeaderInv'
  BY <1>1, <1>4, BasisRetry, CacheKept DEF HeaderInv
<1>5. ASSUME NEW s \in Senders, Reboot(s), Nothing
      PROVE  HeaderInv'
  BY <1>1, <1>5, BasisReboot, CacheKept DEF HeaderInv
<1> QED BY <1>2, <1>3, <1>4, <1>5

\* Every step keeps the headers apart.
LEMMA HeaderStep == HeaderInv /\ [Next]_vars => HeaderInv'
<1> SUFFICES ASSUME HeaderInv, [Next]_vars PROVE HeaderInv'
  OBVIOUS
<1>1. ASSUME NEW s \in Senders, NEW len \in Lens, NEW type \in MsgTypes,
             Write(s, len, type) /\ Nothing /\ UNCHANGED cache
      PROVE  HeaderInv'
  BY <1>1, HeaderKept
<1>2. ASSUME NEW s \in Senders, Retry(s) /\ Forget(job[s].msg) /\ UNCHANGED cache
      PROVE  HeaderInv'
  BY <1>2, HeaderKept
<1>3. ASSUME NEW s \in Senders, Reboot(s) /\ Nothing /\ UNCHANGED cache
      PROVE  HeaderInv'
  BY <1>3, HeaderKept
<1>4. ASSUME NEW s \in Senders, Transfer(s) PROVE HeaderInv'
  BY <1>4, HeaderTransfer
<1>5. CASE UNCHANGED vars
  <2>1. UNCHANGED << senderVars, delivered, swallowed >> /\ UNCHANGED cache
    BY <1>5 DEF vars
  <2> QED BY <2>1, HeaderKept
<1> QED BY <1>1, <1>2, <1>3, <1>4, <1>5 DEF Next

\* Whatever is lost, repeated or restarted, and although ids come round: what is delivered
\* consists of bytes of messages of its sender with one id (enqueue() of the Linux build).
THEOREM HeadersKeptApart == Spec => []OneHeader
<1>1. HeaderInv => OneHeader
  BY DEF HeaderInv, Basis, DeliveredHeader, OneHeader, Of
<1> QED BY <1>1, HeaderInit, HeaderStep, PTL DEF Spec

-----------------------------------------------------------------------------
(***************************************************************************)
(* That LinuxTransfer implements MessageDelivery.                          *)
(***************************************************************************)
\* The entry b, as the lemmas about receivers see it.
View(b) == [ id |-> b.id, left |-> b.reserved - 1, data |-> b.data ]

DeliveryInv == HeaderInv /\ \A s \in Senders : DeliveryOf(s, View(cache[s]))

LEMMA Viewed ==
  ASSUME NEW b, NEW c, c = View(b)
  PROVE  /\ c.id = b.id /\ c.left = b.reserved - 1 /\ c.data = b.data
         /\ Filled(c) <=> Filled(b)
         /\ MsgOf(c) = MsgOf(b)
         /\ \A s : BytesInv(s, c) <=> BytesInv(s, b)
<1>1. c.id = b.id /\ c.left = b.reserved - 1 /\ c.data = b.data
  BY DEF View
<1> QED BY <1>1 DEF Filled, MsgOf, BytesInv

\* f, frame q of message m of sender s, comes where b is in the cache, seen as c.
Meets(s, m, q, f, b, c) == /\ Comes(s, m, q, f, c) /\ Entry(s, b)
                           /\ b = cache[s] /\ c = View(b)

LEMMA MeetsInv ==
  ASSUME NEW s, NEW m, NEW q, NEW f, NEW b, NEW c, Meets(s, m, q, f, b, c)
  PROVE  /\ Comes(s, m, q, f, c) /\ s \in Senders /\ f.from = s /\ Slot(f) = s /\ MsgOf(f) = m
         /\ f.data \in Seq(Byte) /\ (f.type \in FragmentTypes <=> N(m) # 1)
         /\ b = cache[s] /\ b.reserved \in Nat /\ MsgOf(b) = MsgOf(c)
         /\ c.id = b.id /\ c.left = b.reserved - 1 /\ c.data = b.data
         /\ b # NoFrame => Filled(c)
         /\ Filled(c) => b # NoFrame
<1>1. Comes(s, m, q, f, c) /\ Entry(s, b) /\ b = cache[s] /\ c = View(b)
  BY DEF Meets
<1>2. /\ f.data \in Seq(Byte) /\ MsgOf(f) = m /\ f.from = s /\ s \in Senders
      /\ f.type \in FragmentTypes <=> N(m) # 1
  BY <1>1, FrameTraces
<1>3. /\ c.id = b.id /\ c.left = b.reserved - 1 /\ c.data = b.data
      /\ Filled(c) <=> Filled(b)
      /\ MsgOf(c) = MsgOf(b)
  BY <1>1, Viewed
<1>4. Filled(b) <=> b # NoFrame
  BY <1>1, NoFrameCached DEF Entry, Filled
<1>5. b.reserved \in Nat
  BY <1>1 DEF Entry, Cached
<1> QED BY <1>1, <1>2, <1>3, <1>4, <1>5 DEF Slot

\* The next fragment continues the cached frame, if it fits.
LEMMA NextIs ==
  ASSUME NEW s, NEW m, NEW q, NEW f, NEW b, NEW c, Meets(s, m, q, f, b, c),
         f.type \in FragmentTypes, f.type # NETWORK_FIRST_FRAGMENT
  PROVE  IsNext(b, f) <=> /\ Continues(c, f)
                          /\ Len(c.data) + Len(f.data) <= MAX_PAYLOAD_SIZE
<1>1. /\ Comes(s, m, q, f, c) /\ b.reserved \in Nat
      /\ c.id = b.id /\ c.left = b.reserved - 1 /\ c.data = b.data
      /\ Filled(c) <=> b # NoFrame
      /\ f.type \in FragmentTypes <=> N(m) # 1
  BY MeetsInv
<1>2. f.reserved \in Nat
  BY <1>1, FrameTraces
<1>3. PICK x, y, r : x = b.reserved /\ y = f.reserved /\ r = c.left
  OBVIOUS
<1>4. /\ x = 2 <=> r = 1
      /\ x = y + 1 <=> r = y
  BY <1>1, <1>2, <1>3
<1>5. (b.reserved = IF f.type = NETWORK_LAST_FRAGMENT THEN 2 ELSE f.reserved + 1)
        <=> (c.left = IF f.type = NETWORK_LAST_FRAGMENT THEN 1 ELSE f.reserved)
  BY <1>3, <1>4
<1> QED BY <1>1, <1>5 DEF IsNext, Fits, Continues

\* A message of one frame; the first fragment of a message.
LEMMA ReceiveWhole ==
  ASSUME NEW s, NEW m, NEW q, NEW f, NEW b, NEW c, Meets(s, m, q, f, b, c), EnqueueWhole(f),
         NEW d, d = View(cache[s])'
  PROVE  Handled(s, m, q, d)
<1>1. Comes(s, m, q, f, c) /\ f.from = s /\ N(m) = 1
  BY MeetsInv DEF EnqueueWhole
<1>2. d = c /\ Deliver(s, f.type, f.data)
  BY <1>1 DEF EnqueueWhole, Push, Meets, View
<1> QED BY <1>1, <1>2, WholeHandled

LEMMA ReceiveFirst ==
  ASSUME CacheInv, NEW s, NEW m, NEW q, NEW f, NEW b, NEW c, Meets(s, m, q, f, b, c),
         EnqueueFirst(f), NEW d, d = View(cache[s])'
  PROVE  Handled(s, m, q, d)
<1>1. Comes(s, m, q, f, c) /\ Slot(f) = s /\ s \in Senders
  BY MeetsInv
<1>2. PICK e : e = [ id |-> f.id, type |-> f.type, reserved |-> f.reserved, data |-> f.data ]
  OBVIOUS
<1>3. cache'[s] = e /\ Nothing /\ f.type = NETWORK_FIRST_FRAGMENT
  BY <1>1, <1>2 DEF EnqueueFirst, IsNewFirst, CacheInv
<1>4. d.data = f.data /\ d.left = f.reserved - 1
  BY <1>2, <1>3 DEF View
<1> QED BY <1>1, <1>3, <1>4, FirstHandled

\* A fragment that is neither the first nor the last, taken into the cache.
LEMMA ReceiveMore ==
  ASSUME CacheInv, NEW s, NEW m, NEW q, NEW f, NEW b, NEW c, Meets(s, m, q, f, b, c),
         EnqueueMore(f), NEW d, d = View(cache[s])'
  PROVE  Handled(s, m, q, d)
<1>1. /\ Comes(s, m, q, f, c) /\ Slot(f) = s /\ s \in Senders /\ b = cache[s]
      /\ c.data = b.data
  BY MeetsInv
<1>2. /\ f.type = NETWORK_MORE_FRAGMENTS /\ f.type \in FragmentTypes
      /\ f.type # NETWORK_FIRST_FRAGMENT /\ f.type # NETWORK_LAST_FRAGMENT
      /\ IsNext(b, f) /\ Nothing
  BY <1>1 DEF EnqueueMore, FragmentTypes, NETWORK_FIRST_FRAGMENT, NETWORK_MORE_FRAGMENTS,
              NETWORK_LAST_FRAGMENT
<1>3. Continues(c, f)
  BY <1>2, NextIs
<1>4. PICK e : e = Extend(b, f)
  OBVIOUS
<1>5. cache'[s] = e
  BY <1>1, <1>4 DEF EnqueueMore, CacheInv
<1>6. e.data = c.data \o f.data /\ e.reserved = f.reserved
  BY <1>1, <1>2, <1>4 DEF Extend
<1>7. d.data = c.data \o f.data /\ d.left = f.reserved - 1
  BY <1>5, <1>6 DEF View
<1>8. c.left = f.reserved
  BY <1>2, <1>3 DEF Continues
<1> QED BY <1>1, <1>2, <1>3, <1>7, <1>8, MoreHandled

\* The last one: the message leaves the cache.
LEMMA ReceiveLast ==
  ASSUME CacheInv, NEW s, NEW m, NEW q, NEW f, NEW b, NEW c, Meets(s, m, q, f, b, c),
         EnqueueLast(f), NEW d, d = View(cache[s])'
  PROVE  Handled(s, m, q, d)
<1>1. /\ Comes(s, m, q, f, c) /\ Slot(f) = s /\ f.from = s /\ s \in Senders /\ b = cache[s]
      /\ c.data = b.data
  BY MeetsInv
<1>2. /\ f.type = NETWORK_LAST_FRAGMENT /\ f.type \in FragmentTypes
      /\ f.type # NETWORK_FIRST_FRAGMENT
      /\ IsNext(b, f)
  BY <1>1 DEF EnqueueLast, FragmentTypes, NETWORK_FIRST_FRAGMENT, NETWORK_LAST_FRAGMENT
<1>3. Continues(c, f)
  BY <1>2, NextIs
<1>4. PICK e : e = Extend(b, f)
  OBVIOUS
<1>5. e.data = c.data \o f.data /\ e.type = f.reserved
  BY <1>1, <1>2, <1>4 DEF Extend
<1>6. Deliver(s, e.type, e.data) \/ Swallow(f)
  BY <1>1, <1>4 DEF EnqueueLast, Push
<1>7. cache'[s] = NoFrame
  BY <1>1 DEF EnqueueLast, CacheInv
<1>8. ~Filled(d)
  BY <1>7, NoFrameCached DEF View, Filled
<1> QED BY <1>1, <1>2, <1>3, <1>5, <1>6, <1>8, LastHandled

\* A fragment that is dropped.
LEMMA ReceiveDrop ==
  ASSUME NEW s, NEW m, NEW q, NEW f, NEW b, NEW c, Meets(s, m, q, f, b, c), Drop(f),
         NEW d, d = View(cache[s])'
  PROVE  Handled(s, m, q, d)
<1>1. /\ Comes(s, m, q, f, c) /\ Slot(f) = s /\ b = cache[s] /\ MsgOf(b) = MsgOf(c)
      /\ MsgOf(f) = m /\ (b # NoFrame => Filled(c))
  BY MeetsInv
<1>2. /\ f.type \in FragmentTypes /\ ~IsNewFirst(b, f) /\ ~IsNext(b, f)
      /\ IF Mistaken(f) THEN Swallow(f) ELSE Nothing
  BY <1>1 DEF Drop
<1>3. d = c
  BY DEF Drop, Meets, View
<1>4. CASE f.type = NETWORK_FIRST_FRAGMENT
  <2>1. Filled(c)
    BY <1>1, <1>2, <1>4 DEF IsNewFirst
  <2>2. Mistaken(f) <=> MsgOf(c) # m
    BY <1>1, <1>4 DEF Mistaken
  <2>3. IF MsgOf(c) # m THEN Swallow(f) ELSE Nothing
    BY <1>2, <2>2
  <2> QED BY <1>1, <1>3, <1>4, <2>1, <2>3, RepeatHandled
<1>5. CASE f.type # NETWORK_FIRST_FRAGMENT
  <2>1. Nothing
    BY <1>2, <1>5 DEF Mistaken
  <2>2. ASSUME MsgOf(c) = m, Continues(c, f) PROVE FALSE
    <3>1. Len(c.data) + Len(f.data) <= MAX_PAYLOAD_SIZE
      BY <1>1, <1>2, <1>5, <2>2, ContinuedFits
    <3> QED BY <1>2, <1>5, <2>2, <3>1, NextIs
  <2> QED BY <1>1, <1>2, <1>3, <1>5, <2>1, <2>2, LaterHandled
<1> QED BY <1>4, <1>5

LEMMA Receive ==
  ASSUME CacheInv, NEW s, NEW m, NEW q, NEW f, NEW b, NEW c, Meets(s, m, q, f, b, c),
         Enqueue(f), NEW d, d = View(cache[s])'
  PROVE  Handled(s, m, q, d)
BY ReceiveWhole, ReceiveFirst, ReceiveMore, ReceiveLast, ReceiveDrop DEF Enqueue

-----------------------------------------------------------------------------
(***************************************************************************)
(* The invariant, and the steps of MessageDelivery.                        *)
(***************************************************************************)
LEMMA DeliveryInitial == Init => DeliveryInv
<1> SUFFICES ASSUME Init PROVE DeliveryInv
  OBVIOUS
<1>1. HeaderInv /\ SenderInit
  BY HeaderInit DEF Init
<1>2. ASSUME NEW s \in Senders PROVE DeliveryOf(s, View(cache[s]))
  <2>1. PICK c : c = View(cache[s])
    OBVIOUS
  <2>2. ~Filled(c)
    BY <2>1, NoFrameCached DEF Init, View, Filled
  <2>3. DeliveryOf(s, c)
    BY <1>1, <2>2, DeliveryInit
  <2> QED BY <2>1, <2>3
<1> QED BY <1>1, <1>2 DEF DeliveryInv

\* The part of the invariant about sender s, before and after a step.
LEMMA EntryInvs ==
  ASSUME DeliveryInv, NEW s \in Senders, NEW b, b = cache[s], NEW c, c = View(b)
  PROVE  /\ Basis /\ CacheInv /\ Entry(s, b) /\ BytesInv(s, c) /\ DeliveryOf(s, c)
         /\ CallInv(s, c) /\ \A t \in Senders : EpochInv(t)
<1>1. /\ Basis /\ CacheInv /\ Entry(s, b) /\ DeliveryOf(s, c)
      /\ \A t \in Senders : DeliveryOf(t, View(cache[t]))
  BY DEF DeliveryInv, HeaderInv, CacheInv
<1>2. BytesInv(s, c)
  BY <1>1, Viewed DEF Entry
<1> QED BY <1>1, <1>2 DEF DeliveryOf

\* A step of sender s that keeps its part of the invariant keeps the whole.
LEMMA OneKeeps ==
  ASSUME DeliveryInv, HeaderInv', NEW s \in Senders, NEW d, d = View(cache[s])',
         DeliveryOf(s, d)', Len(written)' >= Len(written),
         \A t \in Senders \ {s} : Untouched(t) /\ cache'[t] = cache[t]
  PROVE  DeliveryInv'
<1>1. ASSUME NEW t \in Senders, t # s PROVE DeliveryOf(t, View(cache[t]))'
  <2>1. PICK b, c : b = cache[t] /\ c = View(b)
    OBVIOUS
  <2>2. Basis /\ BytesInv(t, c) /\ DeliveryOf(t, c)
    BY <2>1, EntryInvs
  <2>3. Types'
    BY DEF HeaderInv, Basis, SenderInv
  <2>4. Untouched(t)
    BY <1>1
  <2>5. DeliveryOf(t, c)'
    BY <2>2, <2>3, <2>4, OthersKept
  <2>6. c = View(cache[t])'
    BY <1>1, <2>1 DEF View
  <2> QED BY <2>5, <2>6
<1>2. DeliveryOf(s, View(cache[s]))'
  OBVIOUS
<1> QED BY <1>1, <1>2 DEF DeliveryInv

\* A message is written.
LEMMA LinuxWrite ==
  ASSUME MaxMsgs <= IdSpace, DeliveryInv, HeaderInv', NEW s \in Senders,
         NEW len \in Lens, NEW type \in MsgTypes,
         Write(s, len, type), Nothing, UNCHANGED cache
  PROVE  DeliveryInv' /\ Abstract!Write(s)
<1>1. PICK b, c : b = cache[s] /\ c = View(b)
  OBVIOUS
<1>2. /\ Basis /\ BytesInv(s, c) /\ DeliveryOf(s, c)
      /\ \A t \in Senders : EpochInv(t)
  BY <1>1, EntryInvs
<1>3. DeliveryOf(s, c)' /\ \A t \in Senders \ {s} : Untouched(t)
  BY <1>2, DeliveryWrite
<1>4. Abstract!Write(s)
  BY <1>2, <1>3, WriteMaps
<1>5. Len(written)' >= Len(written)
  <2>1. Types
    BY <1>2 DEF Basis, SenderInv
  <2>2. Len(written) \in Nat /\ Len(written)' = Len(written) + 1
    BY <2>1, WriteAppends DEF Types
  <2> QED BY <2>2
<1>6. c = View(cache[s])' /\ \A t \in Senders \ {s} : cache'[t] = cache[t]
  BY <1>1 DEF View
<1> QED BY <1>3, <1>4, <1>5, <1>6, OneKeeps

\* It is written again.
LEMMA LinuxRetry ==
  ASSUME DeliveryInv, HeaderInv', NEW s \in Senders,
         Retry(s), Forget(job[s].msg), UNCHANGED cache
  PROVE  DeliveryInv' /\ Abstract!Retry(s)
<1>1. PICK b, c : b = cache[s] /\ c = View(b)
  OBVIOUS
<1>2. /\ Basis /\ BytesInv(s, c) /\ DeliveryOf(s, c) /\ CallInv(s, c)
      /\ \A t \in Senders : EpochInv(t)
  BY <1>1, EntryInvs
<1>3. DeliveryOf(s, c)' /\ \A t \in Senders \ {s} : Untouched(t)
  BY <1>2, DeliveryRetry
<1>4. Abstract!Retry(s)
  BY <1>2, <1>3, RetryMaps
<1>5. Len(written)' >= Len(written)
  <2>1. written' = written /\ Len(written) \in Nat
    BY <1>2 DEF Retry, Basis, SenderInv, Types
  <2> QED BY <2>1
<1>6. c = View(cache[s])' /\ \A t \in Senders \ {s} : cache'[t] = cache[t]
  BY <1>1 DEF View
<1> QED BY <1>3, <1>4, <1>5, <1>6, OneKeeps

\* A sender restarts.
LEMMA LinuxReboot ==
  ASSUME DeliveryInv, HeaderInv', NEW s \in Senders, Reboot(s), Nothing, UNCHANGED cache
  PROVE  DeliveryInv' /\ Abstract!Reboot(s)
<1>1. PICK b, c : b = cache[s] /\ c = View(b)
  OBVIOUS
<1>2. /\ Basis /\ BytesInv(s, c) /\ DeliveryOf(s, c)
      /\ \A t \in Senders : EpochInv(t)
  BY <1>1, EntryInvs
<1>3. DeliveryOf(s, c)' /\ \A t \in Senders \ {s} : Untouched(t)
  BY <1>2, DeliveryReboot
<1>4. Abstract!Reboot(s)
  BY <1>2, <1>3, RebootMaps
<1>5. Len(written)' >= Len(written)
  <2>1. written' = written /\ Len(written) \in Nat
    BY <1>2 DEF Reboot, Basis, SenderInv, Types
  <2> QED BY <2>1
<1>6. c = View(cache[s])' /\ \A t \in Senders \ {s} : cache'[t] = cache[t]
  BY <1>1 DEF View
<1> QED BY <1>3, <1>4, <1>5, <1>6, OneKeeps

\* A frame is sent, and received or not.
LEMMA LinuxTransfers ==
  ASSUME DeliveryInv, NEW s \in Senders, Transfer(s)
  PROVE  DeliveryInv' /\ Abstract!Progress(s)
<1>1. PICK o \in Outcomes :
        /\ SendFrame(s, o)
        /\ IF o \in Arriving THEN Enqueue(Frame(s, 0))
           ELSE Vanish(Frame(s, 0), o) /\ UNCHANGED cache
  BY DEF Transfer
<1>2. PICK f, m, q : f = Frame(s, 0) /\ m = job[s].msg /\ q = job[s].msgCount
  OBVIOUS
<1>3. PICK b, c, d : b = cache[s] /\ c = View(b) /\ d = View(cache[s])'
  OBVIOUS
<1>4. /\ Basis /\ CacheInv /\ Entry(s, b) /\ BytesInv(s, c) /\ DeliveryOf(s, c)
      /\ \A t \in Senders : EpochInv(t)
  BY <1>3, EntryInvs
<1>5. Comes(s, m, q, f, c)
  BY <1>1, <1>2, <1>4, SendsReady
<1>6. IF o \in Arriving THEN Handled(s, m, q, d) ELSE Vanish(f, o) /\ d = c
  <2>1. CASE o \in Arriving
    <3>1. Enqueue(f)
      BY <1>1, <1>2, <2>1
    <3>2. Meets(s, m, q, f, b, c)
      BY <1>3, <1>4, <1>5 DEF Meets
    <3> QED BY <1>3, <1>4, <2>1, <3>1, <3>2, Receive
  <2>2. CASE o \notin Arriving
    <3>1. Vanish(f, o) /\ UNCHANGED cache
      BY <1>1, <1>2, <2>2
    <3>2. d = c
      BY <1>3, <3>1 DEF View
    <3> QED BY <2>2, <3>1, <3>2
  <2> QED BY <2>1, <2>2
<1>7. Happens(s, m, q, o, c, d)
  BY <1>1, <1>5, <1>6, SendHappens
<1>8. \A t \in Senders \ {s} : Untouched(t)
  BY <1>4, <1>7, OthersUntouched
<1>9. DeliveryOf(s, d)'
  BY <1>4, <1>7, DeliverySend
<1>10. Abstract!Progress(s)
  BY <1>4, <1>7, <1>8, ProgressMaps
<1>11. HeaderInv' /\ \A t \in Senders \ {s} : cache'[t] = cache[t]
  BY HeaderTransfer DEF DeliveryInv
<1>12. Len(written)' >= Len(written)
  <2>1. written' = written /\ Len(written) \in Nat
    BY <1>4, <1>7 DEF Happens, Basis, SenderInv, Types
  <2> QED BY <2>1
<1> QED BY <1>3, <1>8, <1>9, <1>10, <1>11, <1>12, OneKeeps

\* Every step is one of MessageDelivery, or nothing that it sees.
LEMMA DeliveryStep ==
  ASSUME MaxMsgs <= IdSpace, DeliveryInv, [Next]_vars
  PROVE  DeliveryInv' /\ [Abstract!Next]_(Abstract!vars)
<1>0. HeaderInv'
  BY HeaderStep DEF DeliveryInv
<1>1. ASSUME NEW s \in Senders, NEW len \in Lens, NEW type \in MsgTypes,
             Write(s, len, type) /\ Nothing /\ UNCHANGED cache
      PROVE  DeliveryInv' /\ Abstract!Write(s)
  BY <1>0, <1>1, LinuxWrite
<1>2. ASSUME NEW s \in Senders, Retry(s) /\ Forget(job[s].msg) /\ UNCHANGED cache
      PROVE  DeliveryInv' /\ Abstract!Retry(s)
  BY <1>0, <1>2, LinuxRetry
<1>3. ASSUME NEW s \in Senders, Reboot(s) /\ Nothing /\ UNCHANGED cache
      PROVE  DeliveryInv' /\ Abstract!Reboot(s)
  BY <1>0, <1>3, LinuxReboot
<1>4. ASSUME NEW s \in Senders, Transfer(s)
      PROVE  DeliveryInv' /\ Abstract!Progress(s)
  BY <1>4, LinuxTransfers
<1>5. CASE UNCHANGED vars
  <2>1. UNCHANGED << senderVars, delivered, swallowed >> /\ UNCHANGED cache
    BY <1>5 DEF vars
  <2>2. ASSUME NEW s \in Senders PROVE DeliveryOf(s, View(cache[s]))'
    <3>1. PICK b, c : b = cache[s] /\ c = View(b)
      OBVIOUS
    <3>2. Basis /\ BytesInv(s, c) /\ DeliveryOf(s, c) /\ EpochInv(s)
      BY <3>1, EntryInvs
    <3>3. Untouched(s)
      BY <2>1, <3>2, DeliveryStays
    <3>4. Types' /\ Len(written)' >= Len(written)
      <4>1. written' = written /\ Len(written) \in Nat
        BY <2>1, <3>2 DEF senderVars, Basis, SenderInv, Types
      <4> QED BY <1>0, <4>1 DEF HeaderInv, Basis, SenderInv
    <3>5. DeliveryOf(s, c)'
      BY <3>2, <3>3, <3>4, OthersKept
    <3>6. c = View(cache[s])'
      BY <2>1, <3>1 DEF View
    <3> QED BY <3>5, <3>6
  <2>3. UNCHANGED Abstract!vars
    BY <2>1, StaysMaps
  <2> QED BY <1>0, <2>2, <2>3 DEF DeliveryInv
<1>6. CASE Next
  BY <1>1, <1>2, <1>3, <1>4, <1>6 DEF Next, Abstract!Next
<1> QED BY <1>5, <1>6

\* The Linux build delivers as MessageDelivery demands (all but that write() ends): whole
\* messages, each one while it is being written and at most once per call of write(), at
\* least once if write() returned true, unless a part of it was spoilt after it had been
\* acknowledged; and there are no more mixtures than restarts.  As long as no id returns.
THEOREM DeliversAsPromised == MaxMsgs <= IdSpace => (Spec => Abstract!Safety)
<1> SUFFICES ASSUME MaxMsgs <= IdSpace PROVE Spec => Abstract!Safety
  OBVIOUS
<1>1. Init => DeliveryInv /\ Abstract!Init
  BY DeliveryInitial, InitMaps DEF Init
<1>2. DeliveryInv /\ [Next]_vars => DeliveryInv' /\ [Abstract!Next]_(Abstract!vars)
  BY DeliveryStep
<1> QED BY <1>1, <1>2, PTL DEF Spec, Abstract!Safety
=============================================================================
