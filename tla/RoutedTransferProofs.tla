------------------------- MODULE RoutedTransferProofs -------------------------
(***************************************************************************)
(* The theorems about RoutedTransfer, for any number of messages and       *)
(* attempts, any lengths, any frame and message size, any width of the ids *)
(* and any depth of the FIFOs, and either build of the destination.        *)
(***************************************************************************)
EXTENDS RoutedTransfer, FragmentsProofs

\* There is one sender.
LEMMA Origin == origin \in Senders /\ Senders = { origin }
<1>1. PICK s \in Senders : Senders = { s }
  BY RoutedTransferAssumption
<1> QED BY <1>1 DEF origin

\* The instances speak of the same histories.
LEMMA SameNames ==
  /\ Linux!Nothing <=> Nothing
  /\ Mcu!Nothing <=> Nothing
  /\ \A f : Linux!Swallow(f) <=> Swallow(f)
  /\ \A f : Mcu!Swallow(f) <=> Swallow(f)
  /\ \A from, type, data : Linux!Deliver(from, type, data) <=> Deliver(from, type, data)
  /\ \A from, type, data : Mcu!Deliver(from, type, data) <=> Deliver(from, type, data)
<1>1. \A f : Linux!MsgOf(f) = MsgOf(f) /\ Mcu!MsgOf(f) = MsgOf(f)
  BY DEF Linux!MsgOf, Mcu!MsgOf, MsgOf
<1>2. \A f : (Linux!Swallow(f) <=> Swallow(f)) /\ (Mcu!Swallow(f) <=> Swallow(f))
  BY <1>1 DEF Linux!Swallow, Mcu!Swallow, Swallow
<1>3. (Linux!Nothing <=> Nothing) /\ (Mcu!Nothing <=> Nothing)
  BY DEF Linux!Nothing, Mcu!Nothing, Nothing
<1>4. \A from, type, data : Linux!Deliver(from, type, data) <=> Deliver(from, type, data)
  BY DEF Linux!Deliver, Linux!IsMessage, Linux!Whole, Deliver, IsMessage, Whole
<1>5. \A from, type, data : Mcu!Deliver(from, type, data) <=> Deliver(from, type, data)
  BY DEF Mcu!Deliver, Mcu!IsMessage, Mcu!Whole, Deliver, IsMessage, Whole
<1> QED BY <1>2, <1>3, <1>4, <1>5

-----------------------------------------------------------------------------
(***************************************************************************)
(* Types, and what the frames on their way are.                            *)
(***************************************************************************)
Fragment == [ from : Senders, id : 0..(IdSpace - 1), type : Nat, reserved : Nat,
              data : Seq(Byte) ]
Sent     == [ frame : Fragment, call : Nat ]
Answer   == Nat \X Byte
Kept     == [ id : 0..(IdSpace - 1), type : Nat, reserved : Nat, data : Seq(Byte) ]

CacheTypes == /\ cache \in [ Senders -> Kept ]
              /\ Len(cache[origin].data) <= MAX_PAYLOAD_SIZE
QueueTypes == /\ frag_queue \in Fragment
              /\ frag_queue.reserved <= FrameCount(MAX_PAYLOAD_SIZE)
              /\ Len(frag_queue.data) <= MAX_PAYLOAD_SIZE

\* The frames at the router.
Pending == { atRouter[i] : i \in DOMAIN atRouter }

\* One that was sent in an earlier or in the present call of write().
FrameInv(x) ==
  LET m == MsgOf(x.frame)
  IN  /\ m \in 1..Len(written) /\ written[m].len <= MAX_PAYLOAD_SIZE
      /\ x.call \in 1..attempts[m]
      /\ N(m) = 1 => x.frame.reserved <= 2
      /\ \E q \in 0..(N(m) - 1) : FrameIs(x.frame, origin, m, q)

\* The counters of main_write() and of the application.
CountersInv == /\ job[origin].retries <= IF job[origin].phase = "sending" THEN 2 ELSE 3
               /\ \A m \in Msg : attempts[m] <= MaxAttempts
               /\ \A m \in 1..Len(written) : attempts[m] >= 1

FifoTypes == /\ atRouter \in Seq(Sent) /\ Len(atRouter) <= RxDepth
             /\ atOrigin \in Seq(Answer) /\ Len(atOrigin) <= RxDepth

TypeInv == /\ SenderInv /\ CountersInv
           /\ restarts = << >>
           /\ CacheTypes /\ QueueTypes /\ FifoTypes
           /\ build \in { "linux", "mcu" }
           /\ waiting \in BOOLEAN /\ fast \in BOOLEAN
           /\ waiting => job[origin].phase = "sending"
           /\ deceived \subseteq 1..Len(written)
           /\ swallowed \subseteq 1..Len(written)
           /\ \A x \in Pending : FrameInv(x)

-----------------------------------------------------------------------------
\* The message being written is the last one.
LEMMA PresentMessage ==
  ASSUME SenderInv, job[origin].msg # 0
  PROVE  /\ job[origin].msg = Len(written) /\ job[origin].msg \in 1..Len(written)
         /\ job[origin].msg \in Msg
<1>1. Types /\ JobInv(origin) /\ Len(written) \in Nat
  BY Origin DEF SenderInv, Types
<1>2. PICK m, l : m = job[origin].msg /\ l = Len(written)
  OBVIOUS
<1>3. m \in 1..l /\ \A k \in 1..l : written[k].from = origin => k <= m
  BY <1>1, <1>2 DEF JobInv
<1>4. l \in 1..l /\ l \in Nat
  BY <1>1, <1>2, <1>3
<1>5. written[l].from = origin
  BY <1>1, <1>2, <1>4, WrittenMessage, Origin
<1>6. m = l
  BY <1>3, <1>4, <1>5
<1>7. m \in Msg
  BY <1>1, <1>2, <1>3, WrittenMessage
<1> QED BY <1>2, <1>3, <1>6, <1>7

\* What is written stays, and the calls are counted up.
Grows == /\ Len(written) <= Len(written)'
         /\ \A m \in 1..Len(written) : /\ m \in 1..Len(written)'
                                       /\ written'[m] = written[m]
                                       /\ attempts[m] <= attempts'[m]

\* So frames stay what they are.
LEMMA FrameIsKept ==
  ASSUME NEW m, written'[m] = written[m], NEW f, NEW s, NEW q
  PROVE  FrameIs(f, s, m, q)' <=> FrameIs(f, s, m, q)
<1>1. N(m)' = N(m) /\ Whole(m)' = Whole(m)
  BY DEF N, Whole
<1>2. Part(m, At(q), End(m, q))' = Part(m, At(q), End(m, q))
  BY <1>1 DEF Part, End
<1> QED BY <1>1, <1>2 DEF FrameIs

LEMMA FrameInvKept ==
  ASSUME Types, Types', Grows, NEW x, FrameInv(x)
  PROVE  FrameInv(x)'
<1>1. PICK m : m = MsgOf(x.frame)
  OBVIOUS
<1>2. /\ m \in 1..Len(written) /\ written[m].len <= MAX_PAYLOAD_SIZE
      /\ x.call \in 1..attempts[m]
      /\ N(m) = 1 => x.frame.reserved <= 2
      /\ \E q \in 0..(N(m) - 1) : FrameIs(x.frame, origin, m, q)
  BY <1>1 DEF FrameInv
<1>3. /\ m \in 1..Len(written)' /\ written'[m] = written[m] /\ attempts[m] <= attempts'[m]
      /\ N(m)' = N(m)
  BY <1>2 DEF Grows, N
<1>4. \A q : FrameIs(x.frame, origin, m, q)' <=> FrameIs(x.frame, origin, m, q)
  BY <1>3, FrameIsKept
<1>5. x.call \in 1..attempts'[m]
  <2>1. m \in Msg
    BY <1>2, WrittenMessage
  <2>2. attempts[m] \in Nat /\ attempts'[m] \in Nat
    BY <2>1 DEF Types
  <2> QED BY <1>2, <1>3, <2>2
<1> QED BY <1>1, <1>2, <1>3, <1>4, <1>5 DEF FrameInv

\* A frame at the router has bytes of its message only.
LEMMA FrameKnown ==
  ASSUME Types, NEW x, FrameInv(x), NEW m, m = MsgOf(x.frame)
  PROVE  /\ m \in 1..Len(written) /\ m \in Msg /\ m \in Nat /\ m # 0
         /\ written[m].len <= MAX_PAYLOAD_SIZE /\ N(m) \in Nat \ {0}
         /\ x.call \in Nat /\ x.call >= 1 /\ x.call <= attempts[m] /\ attempts[m] \in Nat
         /\ \E q \in 0..(N(m) - 1) : FrameIs(x.frame, origin, m, q)
<1>1. /\ m \in 1..Len(written) /\ written[m].len <= MAX_PAYLOAD_SIZE /\ x.call \in 1..attempts[m]
      /\ \E q \in 0..(N(m) - 1) : FrameIs(x.frame, origin, m, q)
  BY DEF FrameInv
<1>2. m \in Msg /\ m \in Nat /\ m # 0 /\ N(m) \in Nat \ {0}
  BY <1>1, WrittenMessage
<1>3. attempts[m] \in Nat
  BY <1>2 DEF Types
<1> QED BY <1>1, <1>2, <1>3

\* The frames of a FIFO with one more behind, or without the first.
LEMMA PendingAppend ==
  ASSUME atRouter \in Seq(Sent), NEW y \in Sent, atRouter' = Append(atRouter, y)
  PROVE  Pending' = Pending \cup { y } /\ atRouter' \in Seq(Sent)
         /\ Len(atRouter') = Len(atRouter) + 1
<1>1. PICK l : l = Len(atRouter)
  OBVIOUS
<1>2. /\ l \in Nat /\ DOMAIN atRouter = 1..l /\ DOMAIN atRouter' = 1..(l + 1)
      /\ \A i \in 1..l : atRouter'[i] = atRouter[i]
      /\ atRouter'[l + 1] = y /\ atRouter' \in Seq(Sent) /\ Len(atRouter') = l + 1
  BY <1>1
<1>3. 1..(l + 1) = (1..l) \cup { l + 1 }
  BY <1>2
<1> QED BY <1>1, <1>2, <1>3 DEF Pending

LEMMA PendingTail ==
  ASSUME atRouter \in Seq(Sent), atRouter # << >>, atRouter' = Tail(atRouter)
  PROVE  /\ Pending' \subseteq Pending /\ Head(atRouter) \in Pending /\ Head(atRouter) \in Sent
         /\ atRouter' \in Seq(Sent) /\ Len(atRouter') <= Len(atRouter)
         /\ Head(atRouter) = atRouter[1]
         /\ \A i \in DOMAIN atRouter' : i + 1 \in DOMAIN atRouter /\ atRouter'[i] = atRouter[i + 1]
<1>1. PICK l : l = Len(atRouter)
  OBVIOUS
<1>2. /\ l \in Nat \ {0} /\ DOMAIN atRouter = 1..l /\ DOMAIN atRouter' = 1..(l - 1)
      /\ \A i \in 1..(l - 1) : atRouter'[i] = atRouter[i + 1]
      /\ Head(atRouter) = atRouter[1] /\ atRouter' \in Seq(Sent) /\ Len(atRouter') = l - 1
      /\ atRouter[1] \in Sent
  BY <1>1
<1>3. 1 \in 1..l /\ \A i \in 1..(l - 1) : i + 1 \in 1..l
  BY <1>2
<1> QED BY <1>1, <1>2, <1>3 DEF Pending
\* The answers without the first.
LEMMA AnswersTail ==
  ASSUME FifoTypes, atOrigin # << >>
  PROVE  Tail(atOrigin) \in Seq(Answer) /\ Len(Tail(atOrigin)) <= RxDepth
<1>1. PICK l : l = Len(atOrigin)
  OBVIOUS
<1>2. atOrigin \in Seq(Answer) /\ l \in Nat \ {0} /\ l <= RxDepth /\ RxDepth \in Nat
  BY <1>1, RoutedTransferAssumption DEF FifoTypes
<1>3. Tail(atOrigin) \in Seq(Answer) /\ Len(Tail(atOrigin)) = l - 1
  BY <1>1, <1>2
<1> QED BY <1>2, <1>3

-----------------------------------------------------------------------------
\* The frame main_write() sends, with its call.
LEMMA SentFrame ==
  ASSUME SenderInv, CountersInv, job[origin].phase = "sending", NEW garbage \in Mcu!Garbage,
         NEW y, y = Sending(Frame(origin, garbage))
  PROVE  LET m == job[origin].msg
         IN  /\ y \in Sent /\ MsgOf(y.frame) = m /\ y.call = attempts[m]
             /\ m \in 1..Len(written) /\ job[origin].msgCount \in 0..(N(m) - 1)
             /\ FrameIs(y.frame, origin, m, job[origin].msgCount)
             /\ y.frame = Frame(origin, garbage)
             /\ FrameInv(y)
<1>1. PICK f, m, q : f = Frame(origin, garbage) /\ m = job[origin].msg /\ q = job[origin].msgCount
  OBVIOUS
<1>2. Types /\ JobInv(origin) /\ origin \in Senders
  BY Origin DEF SenderInv
<1>3. /\ m \in 1..Len(written) /\ q \in 0..(N(m) - 1) /\ FrameIs(f, origin, m, q)
      /\ written[m].len <= MAX_PAYLOAD_SIZE
      /\ N(m) = 1 => f.reserved = garbage
  BY <1>1, <1>2, FrameSent DEF Of
<1>4. m \in Msg /\ N(m) \in Nat \ {0} /\ written[m].type \in Nat
  BY <1>2, <1>3, WrittenMessage, PlainTypes
<1>5. /\ f.data \in Seq(Byte) /\ MsgOf(f) = m /\ f.id \in 0..(IdSpace - 1) /\ f.type \in Nat
      /\ f.from = origin
  BY <1>2, <1>3, FrameBytes DEF FrameIs
<1>6. garbage \in Nat /\ garbage <= 2
  BY DEF Mcu!Garbage
<1>7. f.reserved \in Nat
  BY <1>3, <1>4, <1>6 DEF FrameIs
<1>8. f = [ from |-> f.from, id |-> f.id, type |-> f.type, reserved |-> f.reserved,
            data |-> f.data ]
  BY <1>1 DEF Frame
<1>9. f \in Fragment
  BY <1>2, <1>5, <1>7, <1>8 DEF Fragment
<1>10. attempts[m] \in Nat /\ attempts[m] >= 1
  BY <1>2, <1>3, <1>4 DEF Types, CountersInv
<1>11. y = [ frame |-> f, call |-> attempts[m] ]
  BY <1>1, <1>5 DEF Sending
<1>12. y \in Sent /\ y.frame = f /\ y.call = attempts[m]
  BY <1>9, <1>10, <1>11 DEF Sent
<1>13. FrameInv(y)
  BY <1>3, <1>5, <1>6, <1>10, <1>12 DEF FrameInv
<1> QED BY <1>1, <1>3, <1>5, <1>12, <1>13

\* How often a frame was repeated.
LEMMA RetriesBounded ==
  ASSUME SenderInv, CountersInv, NEW o, SendFrame(origin, o)
  PROVE  job'[origin].retries <= IF job'[origin].phase = "sending" THEN 2 ELSE 3
<1>1. PICK j, len, a : /\ j = job[origin] /\ len = written[j.msg].len
                       /\ a = AfterFrame(j, o \in Believed)
  OBVIOUS
<1>2. /\ job \in [ Senders -> Job ] /\ origin \in Senders /\ j \in Job /\ j.phase = "sending"
      /\ j.retries <= 2
  BY <1>1, Origin DEF SenderInv, Types, SendFrame, CountersInv
<1>3. \/ job' = [ job EXCEPT ![origin] = [ Idle EXCEPT !.msg = j.msg ] ]
      \/ GivesUp(len, a.retries) /\ job' = [ job EXCEPT ![origin] = [ a EXCEPT !.phase = "failed" ] ]
      \/ ~GivesUp(len, a.retries) /\ job' = [ job EXCEPT ![origin] = a ]
  BY <1>1 DEF SendFrame
<1>4. a.retries \in Nat /\ a.retries <= 3 /\ a.phase = "sending"
  <2>1. CASE o \in Believed
    <3>1. a = [ j EXCEPT !.retries = 0, !.fragment_id = @ - 1, !.msgCount = @ + 1 ]
      BY <1>1, <2>1 DEF AfterFrame
    <3> QED BY <1>2, <3>1 DEF Job
  <2>2. CASE o \notin Believed
    <3>1. a = [ j EXCEPT !.retries = @ + 1 ]
      BY <1>1, <2>2 DEF AfterFrame
    <3> QED BY <1>2, <3>1 DEF Job
  <2> QED BY <2>1, <2>2
<1>5. CASE job' = [ job EXCEPT ![origin] = [ Idle EXCEPT !.msg = j.msg ] ]
  BY <1>2, <1>5 DEF Idle
<1>6. CASE GivesUp(len, a.retries) /\ job' = [ job EXCEPT ![origin] = [ a EXCEPT !.phase = "failed" ] ]
  <2>1. PICK b : b = [ a EXCEPT !.phase = "failed" ]
    OBVIOUS
  <2>2. b.retries = a.retries /\ b.phase = "failed"
    <3>1. a = [ j EXCEPT !.retries = 0, !.fragment_id = @ - 1, !.msgCount = @ + 1 ]
          \/ a = [ j EXCEPT !.retries = @ + 1 ]
      BY <1>1 DEF AfterFrame
    <3> QED BY <1>2, <2>1, <3>1 DEF Job
  <2>3. job'[origin] = b
    BY <1>2, <1>6, <2>1
  <2> QED BY <1>4, <2>2, <2>3
<1>7. CASE ~GivesUp(len, a.retries) /\ job' = [ job EXCEPT ![origin] = a ]
  <2>1. a.retries <= 2
    BY <1>4, <1>7 DEF GivesUp
  <2> QED BY <1>2, <1>4, <1>7, <2>1
<1> QED BY <1>3, <1>5, <1>6, <1>7
\* What the origin does leaves the destination alone.
LEMMA TypeOrigin ==
  ASSUME TypeInv, SenderInv', CountersInv', Grows, FifoTypes',
         UNCHANGED << cache, frag_queue, build >>, swallowed' \subseteq swallowed,
         restarts' = restarts, waiting' \in BOOLEAN, fast' \in BOOLEAN,
         waiting' => job'[origin].phase = "sending",
         deceived' \subseteq 1..Len(written)', \A x \in Pending' \ Pending : FrameInv(x)'
  PROVE  TypeInv'
<1>2. CacheTypes' /\ QueueTypes'
  BY DEF TypeInv, CacheTypes, QueueTypes
<1>3. \A x \in Pending' : FrameInv(x)'
  <2>1. Types /\ Types'
    BY DEF TypeInv, SenderInv
  <2>2. \A x \in Pending : FrameInv(x)'
    BY <2>1, FrameInvKept DEF TypeInv
  <2> QED BY <2>2
<1>4. swallowed' \subseteq 1..Len(written)'
  BY DEF TypeInv, Grows
<1> QED BY <1>2, <1>3, <1>4 DEF TypeInv

\* A message is written.
LEMMA TypeWrite ==
  ASSUME TypeInv, NEW len \in Lens, NEW type \in MsgTypes, AppWrite(len, type)
  PROVE  TypeInv' /\ Grows
<1>1. PICK m : m = Len(written) + 1
  OBVIOUS
<1>2. /\ Write(origin, len, type) /\ Begins(len)
      /\ UNCHANGED << receiver, build, atRouter, atOrigin, waiting, deceived >>
  BY DEF AppWrite
<1>3. Types /\ SenderInv /\ origin \in Senders /\ Queues'
  BY <1>2, Origin DEF TypeInv, SenderInv, Types, Queues, receiver
<1>4. SenderInv'
  BY <1>2, <1>3, SenderWrite
<1>5. /\ Len(written) \in Nat /\ Len(written)' = m /\ m \in Msg
      /\ \A k \in 1..Len(written) : written'[k] = written[k]
  BY <1>1, <1>2, <1>3, WriteAppends
<1>6. attempts \in [ Msg -> Nat ] /\ attempts' = [ attempts EXCEPT ![m] = 1 ]
  BY <1>1, <1>2, <1>3 DEF Types, Write
<1>7. 1..m = (1..Len(written)) \cup { m } /\ m \notin 1..Len(written)
      /\ (1..Len(written)) \subseteq Msg
  BY <1>1, <1>3, <1>5, WrittenMessage
<1>8. \A k \in Msg : attempts'[k] = IF k = m THEN 1 ELSE attempts[k]
  BY <1>6
<1>9. Grows
  BY <1>1, <1>5, <1>6, <1>7, <1>8 DEF Grows
<1>10. CountersInv'
  <2>1. job'[origin].retries = 0
    <3>1. \/ job' = [ job EXCEPT ![origin] = Begin(m, len) ]
          \/ job' = [ job EXCEPT ![origin] = [ Idle EXCEPT !.msg = m ] ]
      BY <1>1, <1>2 DEF Write
    <3>2. Begin(m, len).retries = 0 /\ [ Idle EXCEPT !.msg = m ].retries = 0
      BY DEF Begin, Idle
    <3> QED BY <1>3, <3>1, <3>2 DEF Types
  <2>2. MaxAttempts >= 1 /\ MaxAttempts \in Nat
    BY FragmentsAssumption
  <2>3. \A k \in Msg : attempts[k] <= MaxAttempts
    BY DEF TypeInv, CountersInv
  <2>4. \A k \in Msg : attempts'[k] <= MaxAttempts
    BY <1>8, <2>2, <2>3
  <2>5. \A k \in 1..Len(written)' : attempts'[k] >= 1
    <3>1. \A k \in 1..Len(written) : attempts[k] >= 1
      BY DEF TypeInv, CountersInv
    <3> QED BY <1>5, <1>7, <1>8, <3>1
  <2> QED BY <2>1, <2>4, <2>5 DEF CountersInv
<1>11. job[origin].phase # "sending"
  BY <1>2 DEF Write
<1>12. waiting' = FALSE /\ fast' \in BOOLEAN /\ restarts' = restarts
  BY <1>2, <1>11 DEF TypeInv, Begins, Write
<1>13. FifoTypes' /\ Pending' = Pending /\ deceived' \subseteq 1..Len(written)'
  BY <1>2, <1>5, <1>7 DEF TypeInv, FifoTypes, Pending
<1> QED BY <1>2, <1>4, <1>9, <1>10, <1>12, <1>13, TypeOrigin DEF receiver

\* A message that failed is written again.
LEMMA TypeRetry ==
  ASSUME TypeInv, AppRetry
  PROVE  TypeInv' /\ Grows
<1>1. PICK m : m = job[origin].msg
  OBVIOUS
<1>2. /\ Retry(origin) /\ fast' \in BOOLEAN /\ deceived' \subseteq deceived
      /\ swallowed' \subseteq swallowed
      /\ UNCHANGED << cache, frag_queue, delivered, build, atRouter, atOrigin, waiting >>
  BY DEF AppRetry, Begins, Forget
<1>3. Types /\ SenderInv /\ JobInv(origin) /\ origin \in Senders /\ Queues'
  BY <1>2, Origin DEF TypeInv, SenderInv, Types, Queues
<1>4. SenderInv'
  BY <1>2, <1>3, SenderRetry
<1>5. /\ job[origin].phase = "failed" /\ attempts[m] < MaxAttempts
      /\ job' = [ job EXCEPT ![origin] = Begin(m, written[m].len) ]
      /\ attempts' = [ attempts EXCEPT ![m] = @ + 1 ]
      /\ UNCHANGED << written, restarts >>
  BY <1>1, <1>2 DEF Retry
<1>6. m \in 1..Len(written) /\ m \in Msg
  <2>1. m # 0
    BY <1>1, <1>3, <1>5 DEF JobInv
  <2> QED BY <1>1, <1>3, <2>1, PresentMessage
<1>7. \A k \in Msg : attempts[k] \in Nat /\ attempts'[k] = IF k = m THEN attempts[m] + 1 ELSE attempts[k]
  BY <1>3, <1>5, <1>6 DEF Types
<1>8. Grows
  <2>1. \A k \in 1..Len(written) : k \in Msg
    BY <1>3, WrittenMessage
  <2>2. Len(written) \in Nat
    BY <1>3 DEF Types
  <2> QED BY <1>5, <1>7, <2>1, <2>2 DEF Grows
<1>9. CountersInv'
  <2>1. job'[origin].retries = 0
    BY <1>3, <1>5 DEF Begin, Types
  <2>2. \A k \in Msg : attempts[k] <= MaxAttempts
    BY DEF TypeInv, CountersInv
  <2>3. \A k \in Msg : attempts'[k] <= MaxAttempts
    BY <1>5, <1>6, <1>7, <2>2, FragmentsAssumption
  <2>4. \A k \in 1..Len(written)' : attempts'[k] >= 1
    <3>1. \A k \in 1..Len(written) : k \in Msg /\ attempts[k] >= 1
      BY <1>3, WrittenMessage DEF TypeInv, CountersInv
    <3> QED BY <1>5, <1>6, <1>7, <3>1
  <2> QED BY <2>1, <2>3, <2>4 DEF CountersInv
<1>10. waiting' = FALSE
  BY <1>2, <1>5 DEF TypeInv
<1>11. FifoTypes' /\ Pending' = Pending /\ deceived' \subseteq 1..Len(written)'
  BY <1>2, <1>5 DEF TypeInv, FifoTypes, Pending
<1> QED BY <1>2, <1>4, <1>5, <1>8, <1>9, <1>10, <1>11, TypeOrigin

\* The origin goes on with the next frame, or with the same, or stops.
LEMMA TypeGoesOn ==
  ASSUME TypeInv, NEW o, SendFrame(origin, o), UNCHANGED receiver
  PROVE  SenderInv' /\ CountersInv' /\ Grows /\ restarts' = restarts
         /\ written' = written /\ attempts' = attempts
<1>1. Types /\ SenderInv /\ origin \in Senders /\ Queues'
  BY Origin DEF TypeInv, SenderInv, Types, Queues, receiver
<1>2. SenderInv'
  BY <1>1, SenderSend
<1>3. UNCHANGED << written, attempts, restarts >>
  BY DEF SendFrame
<1>4. Grows
  <2>1. \A k \in 1..Len(written) : attempts[k] \in Nat
    BY <1>1, WrittenMessage DEF Types
  <2>2. Len(written) \in Nat
    BY <1>1 DEF Types
  <2> QED BY <1>3, <2>1, <2>2 DEF Grows
<1>5. CountersInv'
  <2>1. job'[origin].retries <= IF job'[origin].phase = "sending" THEN 2 ELSE 3
    BY <1>1, RetriesBounded DEF TypeInv
  <2> QED BY <1>3, <2>1 DEF TypeInv, CountersInv
<1> QED BY <1>2, <1>3, <1>4, <1>5
\* The histories that a step leaves alone.
LEMMA NothingWritten ==
  ASSUME TypeInv, UNCHANGED senderVars, UNCHANGED << delivered, swallowed >>
  PROVE  SenderInv' /\ CountersInv' /\ Grows /\ restarts' = restarts
<1>1. UNCHANGED << next_id, job, written, attempts, outcome, restarts, delivered, swallowed >>
  BY DEF senderVars
<1>2. SenderInv'
  BY <1>1 DEF TypeInv, SenderInv, Types, JobInv, N
<1>3. CountersInv'
  BY <1>1 DEF TypeInv, CountersInv
<1>4. Grows
  <2>1. \A k \in 1..Len(written) : attempts[k] \in Nat
    BY WrittenMessage DEF TypeInv, SenderInv, Types
  <2>2. Len(written) \in Nat
    BY DEF TypeInv, SenderInv, Types
  <2> QED BY <1>1, <2>1, <2>2 DEF Grows
<1> QED BY <1>1, <1>2, <1>3, <1>4

\* A frame leaves the origin, or is lost.
LEMMA TypeSend ==
  ASSUME TypeInv, NEW o \in Outcomes, NEW garbage \in Mcu!Garbage, SendHop(o, garbage)
  PROVE  TypeInv' /\ Grows
<1>1. PICK f, y : f = Frame(origin, garbage) /\ y = Sending(f)
  OBVIOUS
<1>2. /\ job[origin].phase = "sending" /\ ~waiting
      /\ o \in Arriving => HasRoom(atRouter)
      /\ atRouter' = IF o \in Arriving THEN Append(atRouter, y) ELSE atRouter
      /\ \/ waiting' = TRUE /\ fast' = FALSE /\ UNCHANGED senderVars
         \/ /\ SendFrame(origin, IF o \in Believed THEN "ok" ELSE "lost")
            /\ UNCHANGED << waiting, fast >>
      /\ UNCHANGED << receiver, build, atOrigin, deceived >>
  BY <1>1 DEF SendHop
<1>3. y \in Sent /\ FrameInv(y)
  BY <1>1, <1>2, SentFrame DEF TypeInv
<1>4. SenderInv' /\ CountersInv' /\ Grows /\ restarts' = restarts
  BY <1>2, TypeGoesOn, NothingWritten DEF receiver
<1>5. FifoTypes' /\ (\A x \in Pending' \ Pending : x = y)
  <2>1. CASE o \in Arriving
    <3>1. /\ atRouter' = Append(atRouter, y) /\ Len(atRouter) < RxDepth /\ atRouter \in Seq(Sent)
          /\ RxDepth \in Nat
      BY <1>2, <2>1, RoutedTransferAssumption DEF HasRoom, TypeInv, FifoTypes
    <3>2. Pending' = Pending \cup { y } /\ atRouter' \in Seq(Sent) /\ Len(atRouter') = Len(atRouter) + 1
      BY <1>3, <3>1, PendingAppend
    <3>3. Len(atRouter') <= RxDepth
      BY <3>1, <3>2
    <3> QED BY <1>2, <3>2, <3>3 DEF TypeInv, FifoTypes
  <2>2. CASE o \notin Arriving
    <3>1. atRouter' = atRouter
      BY <1>2, <2>2
    <3> QED BY <1>2, <3>1 DEF TypeInv, FifoTypes, Pending
  <2> QED BY <2>1, <2>2
<1>6. FrameInv(y)'
  <2>1. Types /\ Types'
    BY <1>4 DEF TypeInv, SenderInv
  <2> QED BY <1>3, <1>4, <2>1, FrameInvKept
<1>7. waiting' \in BOOLEAN /\ fast' \in BOOLEAN /\ (waiting' => job'[origin].phase = "sending")
  <2>1. waiting \in BOOLEAN /\ fast \in BOOLEAN
    BY DEF TypeInv
  <2>2. CASE waiting' = TRUE /\ fast' = FALSE /\ UNCHANGED senderVars
    BY <1>2, <2>2 DEF senderVars
  <2>3. CASE UNCHANGED << waiting, fast >>
    BY <1>2, <2>1, <2>3, Zenon
  <2> QED BY <1>2, <2>2, <2>3
<1>8. deceived' \subseteq 1..Len(written)'
  BY <1>2, <1>4 DEF TypeInv, Grows
<1> QED BY <1>2, <1>4, <1>5, <1>6, <1>7, <1>8, TypeOrigin DEF receiver

\* A wait ends.
LEMMA TypeWait ==
  ASSUME TypeInv, TakeAnswer \/ Timeout
  PROVE  TypeInv' /\ Grows
<1>1. PICK m : m = job[origin].msg
  OBVIOUS
<1>2. /\ waiting /\ waiting' = FALSE
      /\ atOrigin' = atOrigin \/ (atOrigin # << >> /\ atOrigin' = Tail(atOrigin))
      /\ \E o : SendFrame(origin, o)
      /\ deceived' \subseteq deceived \cup {m}
      /\ UNCHANGED << receiver, build, atRouter, fast >>
  BY <1>1 DEF TakeAnswer, Timeout
<1>3. /\ SenderInv' /\ CountersInv' /\ Grows /\ restarts' = restarts
      /\ written' = written /\ attempts' = attempts
  BY <1>2, TypeGoesOn
<1>4. m \in 1..Len(written)
  <2>1. SenderInv /\ JobInv(origin) /\ job[origin].phase = "sending"
    BY <1>2, Origin DEF TypeInv, SenderInv
  <2>2. m # 0
    BY <1>1, <2>1 DEF JobInv
  <2> QED BY <1>1, <2>1, <2>2, PresentMessage
<1>5. deceived' \subseteq 1..Len(written)'
  BY <1>2, <1>3, <1>4 DEF TypeInv
<1>6. FifoTypes' /\ Pending' = Pending
  <2>1. Pending' = Pending
    BY <1>2 DEF Pending
  <2> QED BY <1>2, <2>1, AnswersTail DEF TypeInv, FifoTypes
<1> QED BY <1>2, <1>3, <1>5, <1>6, TypeOrigin DEF TypeInv, receiver

\* An answer that nobody waits for.
LEMMA TypeDrop ==
  ASSUME TypeInv, DropAnswer
  PROVE  TypeInv' /\ Grows
<1>1. /\ atOrigin # << >> /\ atOrigin' = Tail(atOrigin)
      /\ UNCHANGED << senderVars, receiver, build, atRouter, waiting, fast, deceived >>
  BY DEF DropAnswer
<1>2. SenderInv' /\ CountersInv' /\ Grows /\ restarts' = restarts
  BY <1>1, NothingWritten DEF receiver
<1>3. FifoTypes' /\ Pending' = Pending
  <2>1. Pending' = Pending
    BY <1>1 DEF Pending
  <2> QED BY <1>1, <2>1, AnswersTail DEF TypeInv, FifoTypes
<1>4. /\ waiting' \in BOOLEAN /\ fast' \in BOOLEAN /\ (waiting' => job'[origin].phase = "sending")
      /\ deceived' \subseteq 1..Len(written)'
  BY <1>1 DEF TypeInv, senderVars
<1> QED BY <1>1, <1>2, <1>3, <1>4, TypeOrigin DEF receiver

-----------------------------------------------------------------------------
\* What enqueue() may do with the histories, and with its two buffers.
LEMMA FrameTaken ==
  ASSUME Types, NEW x \in Sent, FrameInv(x), NEW f, f = x.frame
  PROVE  /\ f \in Fragment /\ f.from \in Senders /\ f.data \in Seq(Byte) /\ f.id \in 0..(IdSpace - 1)
         /\ f.type \in Nat /\ f.reserved \in Nat /\ f.from = origin
         /\ MsgOf(f) \in 1..Len(written)
         /\ Len(f.data) \in Nat /\ Len(f.data) <= MAX_PAYLOAD_SIZE /\ MAX_PAYLOAD_SIZE \in Nat
         /\ f.reserved <= FrameCount(MAX_PAYLOAD_SIZE) \/ f.type = NETWORK_LAST_FRAGMENT
<1>1. PICK m, q : /\ m = MsgOf(f) /\ q \in 0..(N(m) - 1) /\ FrameIs(f, origin, m, q)
                  /\ m \in 1..Len(written) /\ written[m].len <= MAX_PAYLOAD_SIZE
                  /\ N(m) = 1 => f.reserved <= 2
  BY DEF FrameInv
<1>2. /\ f \in Fragment /\ f.from \in Senders /\ f.data \in Seq(Byte) /\ f.id \in 0..(IdSpace - 1)
      /\ f.type \in Nat /\ f.reserved \in Nat /\ f.from = origin
  BY <1>1 DEF Sent, Fragment, FrameIs
<1>3. /\ written[m].len \in Nat \ {0} /\ N(m) \in Nat \ {0} /\ MAX_PAYLOAD_SIZE \in Nat
      /\ max_frame_payload_size \in Nat \ {0} /\ max_frame_payload_size < MAX_PAYLOAD_SIZE
  BY <1>1, WrittenMessage, FragmentsAssumption, RoutedTransferAssumption
<1>4. Len(f.data) = End(m, q) - At(q) /\ At(q) \in Nat /\ End(m, q) \in Nat /\ End(m, q) <= written[m].len
  BY <1>1, FrameBytes, FrameEnds
<1>5. Len(f.data) \in Nat /\ Len(f.data) <= MAX_PAYLOAD_SIZE
  <2>1. Len(f.data) \in Nat
    BY <1>2
  <2> QED BY <1>1, <1>3, <1>4, <2>1
<1>6. PICK M : M = FrameCount(MAX_PAYLOAD_SIZE)
  OBVIOUS
<1>7. M \in Nat \ {0} /\ M # 1 /\ MAX_PAYLOAD_SIZE <= At(M)
  BY <1>3, <1>6, FramesOfMessage
<1>8. N(m) <= M
  <2>1. At(N(m) - 1) < written[m].len
    BY <1>3, FramesOfMessage DEF N
  <2>2. N(m) - 1 \in Nat /\ At(N(m) - 1) \in Nat /\ At(M) \in Nat
    <3>1. N(m) - 1 \in Nat /\ M \in Nat
      BY <1>3, <1>7
    <3> QED BY <3>1, Offsets
  <2>3. At(N(m) - 1) < At(M)
    BY <1>1, <1>3, <1>7, <2>1, <2>2
  <2>4. ~(M <= N(m) - 1)
    BY <1>7, <2>2, <2>3, Offsets
  <2> QED BY <1>3, <1>7, <2>4
<1>9. f.reserved <= M \/ f.type = NETWORK_LAST_FRAGMENT
  <2>1. CASE N(m) = 1
    BY <1>1, <1>2, <1>7, <2>1
  <2>2. CASE N(m) # 1 /\ q # N(m) - 1
    <3>1. f.reserved = N(m) - q
      BY <1>1, <2>2 DEF FrameIs
    <3> QED BY <1>1, <1>3, <1>7, <1>8, <3>1
  <2>3. CASE N(m) # 1 /\ q = N(m) - 1
    BY <1>1, <2>3 DEF FrameIs
  <2> QED BY <2>1, <2>2, <2>3
<1> QED BY <1>1, <1>2, <1>3, <1>5, <1>6, <1>9
\* enqueue() of the Linux build and the types.
LEMMA LinuxTypes ==
  ASSUME TypeInv, NEW x \in Pending, NEW f, f = x.frame, Linux!Enqueue(f)
  PROVE  CacheTypes' /\ Queues' /\ swallowed' \subseteq 1..Len(written)
<1>0. Types /\ x \in Sent /\ FrameInv(x) /\ origin \in Senders
  BY Origin DEF TypeInv, SenderInv, FifoTypes, Pending
<1>1. /\ f.data \in Seq(Byte) /\ f.id \in 0..(IdSpace - 1) /\ f.from \in Senders
      /\ f.type \in Nat /\ f.reserved \in Nat /\ f.from = origin
      /\ MsgOf(f) \in 1..Len(written)
      /\ Len(f.data) \in Nat /\ Len(f.data) <= MAX_PAYLOAD_SIZE
  BY <1>0, FrameTaken
<1>2. /\ cache \in [ Senders -> Kept ] /\ Len(cache[origin].data) <= MAX_PAYLOAD_SIZE
      /\ cache[origin] \in Kept /\ swallowed \subseteq 1..Len(written)
      /\ delivered \in Seq(Delivery)
  BY <1>0 DEF TypeInv, CacheTypes, Types
<1>3. Linux!Slot(f) = origin
  BY <1>1 DEF Linux!Slot
<1>4. Nothing => Queues' /\ swallowed' \subseteq 1..Len(written)
  BY <1>0, <1>2 DEF Nothing, Queues, Types
<1>5. Swallow(f) => Queues' /\ swallowed' \subseteq 1..Len(written)
  <2>1. (1..Len(written)) \subseteq Nat
    BY <1>0, WrittenMessage
  <2> QED BY <1>1, <1>2, <2>1 DEF Swallow, Queues
<1>6. ASSUME NEW type, NEW data \in Seq(Byte), Deliver(origin, type, data)
      PROVE  Queues' /\ swallowed' \subseteq 1..Len(written)
  BY <1>0, <1>2, <1>6, DeliverNotes DEF Queues, Types
<1>7. cache' = cache => CacheTypes'
  BY <1>2 DEF CacheTypes
<1>8. ASSUME NEW c \in Kept, Len(c.data) <= MAX_PAYLOAD_SIZE, cache' = [ cache EXCEPT ![origin] = c ]
      PROVE  CacheTypes'
  BY <1>0, <1>2, <1>8 DEF CacheTypes
<1>9. CASE Linux!EnqueueWhole(f)
  <2>1. Deliver(origin, f.type, f.data) /\ cache' = cache
    BY <1>1, <1>9, SameNames DEF Linux!EnqueueWhole, Linux!Push
  <2> QED BY <1>1, <1>6, <1>7, <2>1
<1>10. CASE Linux!EnqueueFirst(f)
  <2>1. PICK c : c = [ id |-> f.id, type |-> f.type, reserved |-> f.reserved, data |-> f.data ]
    OBVIOUS
  <2>2. c \in Kept /\ Len(c.data) <= MAX_PAYLOAD_SIZE
    BY <1>1, <2>1 DEF Kept
  <2>3. cache' = [ cache EXCEPT ![origin] = c ] /\ Nothing
    BY <1>3, <1>10, <2>1, SameNames DEF Linux!EnqueueFirst
  <2> QED BY <1>4, <1>8, <2>2, <2>3
<1>11. ASSUME Linux!IsNext(cache[origin], f)
       PROVE  LET c == Linux!Extend(cache[origin], f)
              IN  c \in Kept /\ c.data \in Seq(Byte) /\ Len(c.data) <= MAX_PAYLOAD_SIZE
  <2>1. PICK a, b, d : a = cache[origin].data /\ b = f.data /\ d = a \o b
    OBVIOUS
  <2>2. a \in Seq(Byte) /\ b \in Seq(Byte)
    BY <1>1, <1>2, <2>1 DEF Kept
  <2>3. d \in Seq(Byte) /\ Len(d) = Len(a) + Len(b)
    BY <2>1, <2>2
  <2>4. Len(a) + Len(b) <= MAX_PAYLOAD_SIZE
    BY <1>11, <2>1 DEF Linux!IsNext, Linux!Fits
  <2>5. PICK c : c = Linux!Extend(cache[origin], f)
    OBVIOUS
  <2>6. c.data = d /\ c \in Kept
    BY <1>1, <2>1, <2>3, <2>5 DEF Linux!Extend, Kept
  <2> QED BY <2>3, <2>4, <2>5, <2>6
<1>12. CASE Linux!EnqueueMore(f)
  <2>1. PICK c : c = Linux!Extend(cache[origin], f)
    OBVIOUS
  <2>2. /\ Linux!IsNext(cache[origin], f) /\ Nothing
        /\ cache' = [ cache EXCEPT ![origin] = c ]
    BY <1>3, <1>12, <2>1, SameNames DEF Linux!EnqueueMore
  <2>3. c \in Kept /\ Len(c.data) <= MAX_PAYLOAD_SIZE
    BY <1>11, <2>1, <2>2
  <2> QED BY <1>4, <1>8, <2>2, <2>3
<1>13. CASE Linux!EnqueueLast(f)
  <2>1. PICK c : c = Linux!Extend(cache[origin], f)
    OBVIOUS
  <2>2. /\ Linux!IsNext(cache[origin], f)
        /\ cache' = [ cache EXCEPT ![origin] = Linux!NoFrame ]
        /\ Deliver(origin, c.type, c.data) \/ Swallow(f)
    BY <1>1, <1>3, <1>13, <2>1, SameNames DEF Linux!EnqueueLast, Linux!Push
  <2>3. c.data \in Seq(Byte)
    BY <1>11, <2>1, <2>2
  <2>4. Linux!NoFrame \in Kept /\ Len(Linux!NoFrame.data) <= MAX_PAYLOAD_SIZE
    <3>1. IdSpace \in Nat \ {0} /\ MAX_PAYLOAD_SIZE \in Nat
      BY FragmentsAssumption
    <3> QED BY <3>1 DEF Linux!NoFrame, Kept
  <2> QED BY <1>5, <1>6, <1>8, <2>2, <2>3, <2>4
<1>14. CASE Linux!Drop(f)
  <2>1. cache' = cache /\ (Nothing \/ Swallow(f))
    BY <1>14, SameNames DEF Linux!Drop
  <2> QED BY <1>4, <1>5, <1>7, <2>1
<1> QED BY <1>9, <1>10, <1>12, <1>13, <1>14 DEF Linux!Enqueue
\* enqueue() of the microcontroller build and the types.
LEMMA McuTypes ==
  ASSUME TypeInv, NEW x \in Pending, NEW f, f = x.frame, Mcu!Enqueue(f)
  PROVE  QueueTypes' /\ Queues' /\ swallowed' \subseteq 1..Len(written)
<1>0. Types /\ x \in Sent /\ FrameInv(x) /\ origin \in Senders
  BY Origin DEF TypeInv, SenderInv, FifoTypes, Pending
<1>1. PICK M : M = FrameCount(MAX_PAYLOAD_SIZE)
  OBVIOUS
<1>2. /\ f \in Fragment /\ f.data \in Seq(Byte) /\ f.id \in 0..(IdSpace - 1) /\ f.from \in Senders
      /\ f.type \in Nat /\ f.reserved \in Nat
      /\ Len(f.data) \in Nat /\ Len(f.data) <= MAX_PAYLOAD_SIZE
      /\ f.reserved <= M \/ f.type = NETWORK_LAST_FRAGMENT
      /\ MsgOf(f) \in 1..Len(written)
  BY <1>0, <1>1, FrameTaken
<1>3. /\ frag_queue \in Fragment /\ frag_queue.reserved <= M /\ frag_queue.reserved \in Nat
      /\ Len(frag_queue.data) <= MAX_PAYLOAD_SIZE
      /\ frag_queue.data \in Seq(Byte) /\ frag_queue.from \in Senders
      /\ swallowed \subseteq 1..Len(written) /\ delivered \in Seq(Delivery)
      /\ M \in Nat
  <2>1. MAX_PAYLOAD_SIZE \in Nat \ {0}
    BY FragmentsAssumption, RoutedTransferAssumption
  <2>2. M \in Nat
    BY <1>1, <2>1, FramesOfMessage
  <2> QED BY <1>0, <1>1, <2>2 DEF TypeInv, QueueTypes, Types, Fragment
<1>4. Nothing => Queues' /\ swallowed' \subseteq 1..Len(written)
  BY <1>0, <1>3 DEF Nothing, Queues, Types
<1>5. ASSUME NEW from \in Senders, NEW type, NEW data \in Seq(Byte), Deliver(from, type, data)
      PROVE  Queues' /\ swallowed' \subseteq 1..Len(written)
  BY <1>0, <1>3, <1>5, DeliverNotes DEF Queues, Types
<1>17. Swallow(f) => Queues' /\ swallowed' \subseteq 1..Len(written)
  <2>1. (1..Len(written)) \subseteq Nat
    BY <1>0, WrittenMessage
  <2> QED BY <1>2, <1>3, <2>1 DEF Swallow, Queues
<1>6. ASSUME NEW a \in Fragment, a.reserved <= M, Len(a.data) <= MAX_PAYLOAD_SIZE, frag_queue' = a
      PROVE  QueueTypes'
  BY <1>1, <1>6 DEF QueueTypes
<1>7. frag_queue' = frag_queue => QueueTypes'
  BY <1>3, <1>6
<1>8. ASSUME NEW r \in Nat, r <= M, frag_queue' = Mcu!Stored(f, r) PROVE QueueTypes'
  <2>1. PICK a : a = Mcu!Stored(f, r)
    OBVIOUS
  <2>2. a \in Fragment /\ a.reserved = r /\ a.data = f.data
    BY <1>2, <2>1 DEF Mcu!Stored, Fragment
  <2> QED BY <1>2, <1>6, <1>8, <2>1, <2>2
<1>9. CASE Mcu!EnqueueWhole(f)
  <2>1. /\ Deliver(f.from, f.type, f.data) \/ Swallow(f)
        /\ frag_queue' = frag_queue
    BY <1>9, SameNames DEF Mcu!EnqueueWhole, Mcu!Push
  <2> QED BY <1>2, <1>5, <1>7, <1>17, <2>1
<1>10. CASE Mcu!EnqueueExternal(f)
  <2>1. /\ frag_queue' = Mcu!Stored(f, f.reserved)
        /\ Deliver(f.from, EXTERNAL_DATA_TYPE, f.data)
        /\ f.type = EXTERNAL_DATA_TYPE
    BY <1>10, SameNames DEF Mcu!EnqueueExternal, Mcu!HandOver, Mcu!EXTERNAL_DATA_TYPE, EXTERNAL_DATA_TYPE
  <2>2. f.reserved <= M
    BY <1>2, <2>1 DEF EXTERNAL_DATA_TYPE, NETWORK_LAST_FRAGMENT
  <2> QED BY <1>2, <1>5, <1>8, <2>1, <2>2
<1>11. CASE Mcu!EnqueueFirst(f)
  <2>1. /\ frag_queue' = Mcu!Stored(f, f.reserved - 1) /\ f.reserved >= 2 /\ Nothing
        /\ f.type = NETWORK_FIRST_FRAGMENT
    BY <1>11, SameNames DEF Mcu!EnqueueFirst, Mcu!NETWORK_FIRST_FRAGMENT, NETWORK_FIRST_FRAGMENT
  <2>2. f.reserved - 1 \in Nat /\ f.reserved - 1 <= M
    BY <1>2, <1>3, <2>1 DEF NETWORK_FIRST_FRAGMENT, NETWORK_LAST_FRAGMENT
  <2> QED BY <1>4, <1>8, <2>1, <2>2
<1>12. ASSUME ~Mcu!TooLong(f)
       PROVE  frag_queue.data \o f.data \in Seq(Byte) /\ Len(frag_queue.data \o f.data) <= MAX_PAYLOAD_SIZE
  <2>1. PICK a, b, d : a = frag_queue.data /\ b = f.data /\ d = a \o b
    OBVIOUS
  <2>2. a \in Seq(Byte) /\ b \in Seq(Byte)
    BY <1>2, <1>3, <2>1
  <2>3. Len(a) + Len(b) <= MAX_PAYLOAD_SIZE
    <3>1. MAX_PAYLOAD_SIZE \in Nat
      BY FragmentsAssumption
    <3>2. Len(a) \in Nat /\ Len(b) \in Nat
      BY <2>2
    <3>3. ~(Len(a) + Len(b) > MAX_PAYLOAD_SIZE)
      BY <1>12, <2>1 DEF Mcu!TooLong
    <3> QED BY <3>1, <3>2, <3>3
  <2>4. d \in Seq(Byte) /\ Len(d) = Len(a) + Len(b)
    BY <2>1, <2>2
  <2> QED BY <2>1, <2>3, <2>4
<1>13. CASE Mcu!EnqueueMore(f)
  <2>1. PICK d, r : d = frag_queue.data \o f.data /\ r = frag_queue.reserved - 1
    OBVIOUS
  <2>2. /\ ~Mcu!TooLong(f) /\ frag_queue.reserved # 0 /\ Nothing
        /\ frag_queue' = [ frag_queue EXCEPT !.data = d, !.reserved = r ]
    BY <1>13, <2>1, SameNames DEF Mcu!EnqueueMore, Mcu!InOrder
  <2>3. d \in Seq(Byte) /\ Len(d) <= MAX_PAYLOAD_SIZE
    BY <1>12, <2>1, <2>2
  <2>4. PICK a : a = [ frag_queue EXCEPT !.data = d, !.reserved = r ]
    OBVIOUS
  <2>5. r \in Nat /\ r <= M
    BY <1>3, <2>1, <2>2
  <2>6. a \in Fragment /\ a.reserved = r /\ a.data = d
    BY <1>3, <2>3, <2>4, <2>5 DEF Fragment
  <2> QED BY <1>4, <1>6, <2>2, <2>3, <2>4, <2>5, <2>6
<1>14. CASE Mcu!EnqueueLast(f)
  <2>1. PICK d, a : /\ d = frag_queue.data \o f.data
                    /\ a = [ frag_queue EXCEPT !.data = d, !.reserved = 0, !.type = f.reserved ]
    OBVIOUS
  <2>2. /\ ~Mcu!TooLong(f) /\ frag_queue' = a
        /\ Swallow(f) \/ \E type : Deliver(frag_queue.from, type, d)
    BY <1>14, <2>1, SameNames DEF Mcu!EnqueueLast, Mcu!HandOver, Mcu!Push
  <2>3. d \in Seq(Byte) /\ Len(d) <= MAX_PAYLOAD_SIZE
    BY <1>12, <2>1, <2>2
  <2>4. a \in Fragment /\ a.reserved = 0 /\ a.data = d
    BY <1>2, <1>3, <2>1, <2>3 DEF Fragment
  <2>5. 0 <= M
    BY <1>3
  <2>6. QueueTypes'
    BY <1>6, <2>2, <2>3, <2>4, <2>5
  <2>7. Queues' /\ swallowed' \subseteq 1..Len(written)
    BY <1>3, <1>5, <1>17, <2>2, <2>3
  <2> QED BY <2>6, <2>7
<1>15. CASE Mcu!Drop(f)
  <2>1. PICK a : a = [ frag_queue EXCEPT !.reserved = 0 ]
    OBVIOUS
  <2>2. Nothing /\ (frag_queue' = frag_queue \/ frag_queue' = a)
    BY <1>15, <2>1, SameNames DEF Mcu!Drop
  <2>3. a \in Fragment /\ a.reserved = 0 /\ a.data = frag_queue.data
    BY <1>3, <2>1 DEF Fragment
  <2>4. 0 <= M
    BY <1>3
  <2>5. QueueTypes'
    BY <1>3, <1>6, <1>7, <2>2, <2>3, <2>4
  <2> QED BY <1>4, <2>2, <2>5
<1> QED BY <1>9, <1>10, <1>11, <1>13, <1>14, <1>15 DEF Mcu!Enqueue

\* A frame leaves the router.
LEMMA TypeRoute ==
  ASSUME TypeInv, NEW o, Route(o)
  PROVE  TypeInv' /\ Grows
<1>1. PICK x, f : x = Head(atRouter) /\ f = x.frame
  OBVIOUS
<1>2. /\ atRouter # << >> /\ atRouter' = Tail(atRouter)
      /\ Enqueue(f) \/ UNCHANGED receiver
      /\ \/ atOrigin' = atOrigin
         \/ HasRoom(atOrigin) /\ atOrigin' = Append(atOrigin, FrameId(x))
      /\ UNCHANGED << senderVars, build, waiting, fast, deceived >>
  BY <1>1 DEF Route
<1>3. /\ Pending' \subseteq Pending /\ x \in Pending /\ x \in Sent
      /\ atRouter' \in Seq(Sent) /\ Len(atRouter') <= Len(atRouter)
  BY <1>1, <1>2, PendingTail DEF TypeInv, FifoTypes
<1>4. /\ CacheTypes' /\ QueueTypes' /\ Queues' /\ swallowed' \subseteq 1..Len(written)
  <2>1. CacheTypes /\ QueueTypes /\ Queues /\ swallowed \subseteq 1..Len(written)
    BY DEF TypeInv, SenderInv, Types, Queues
  <2>2. CASE UNCHANGED receiver
    BY <2>1, <2>2 DEF receiver, CacheTypes, QueueTypes, Queues
  <2>3. CASE Linux!Enqueue(f) /\ UNCHANGED frag_queue
    BY <1>1, <1>3, <2>1, <2>3, LinuxTypes DEF QueueTypes
  <2>4. CASE Mcu!Enqueue(f) /\ UNCHANGED cache
    BY <1>1, <1>3, <2>1, <2>4, McuTypes DEF CacheTypes
  <2> QED BY <1>2, <2>2, <2>3, <2>4 DEF Enqueue
<1>5. UNCHANGED << next_id, job, written, attempts, outcome, restarts >>
  BY <1>2 DEF senderVars
<1>6. SenderInv' /\ CountersInv'
  <2>1. SenderInv'
    BY <1>4, <1>5 DEF TypeInv, SenderInv, Types, JobInv, N, Queues
  <2>2. CountersInv'
    BY <1>5 DEF TypeInv, CountersInv
  <2> QED BY <2>1, <2>2
<1>7. Types /\ Types'
  BY <1>6 DEF TypeInv, SenderInv
<1>8. Grows
  <2>1. \A k \in 1..Len(written) : attempts[k] \in Nat
    BY <1>7, WrittenMessage DEF Types
  <2>2. Len(written) \in Nat
    BY <1>7 DEF Types
  <2> QED BY <1>5, <2>1, <2>2 DEF Grows
<1>9. \A y \in Pending' : FrameInv(y)'
  BY <1>3, <1>7, <1>8, FrameInvKept DEF TypeInv
<1>10. FifoTypes'
  <2>1. Len(atRouter') <= RxDepth
    <3>1. Len(atRouter) \in Nat /\ Len(atRouter) <= RxDepth /\ RxDepth \in Nat /\ Len(atRouter') \in Nat
      BY <1>3, RoutedTransferAssumption DEF TypeInv, FifoTypes
    <3> QED BY <1>3, <3>1
  <2>2. atOrigin' \in Seq(Answer) /\ Len(atOrigin') <= RxDepth
    <3>1. atOrigin \in Seq(Answer) /\ Len(atOrigin) <= RxDepth /\ RxDepth \in Nat
      BY RoutedTransferAssumption DEF TypeInv, FifoTypes
    <3>2. CASE HasRoom(atOrigin) /\ atOrigin' = Append(atOrigin, FrameId(x))
      <4>1. FrameId(x) \in Answer
        <5>1. x.call \in Nat /\ f.data \in Seq(Byte)
          BY <1>1, <1>3 DEF Sent, Fragment
        <5>2. f.data # << >>
          <6>1. FrameInv(x)
            BY <1>3 DEF TypeInv
          <6> QED BY <1>1, <1>7, <6>1, FrameBytes DEF FrameInv
        <5>3. Head(f.data) \in Byte
          BY <5>1, <5>2
        <5> QED BY <1>1, <5>1, <5>3 DEF FrameId, Answer
      <4>2. PICK y : y = FrameId(x)
        OBVIOUS
      <4>3. atOrigin' \in Seq(Answer) /\ Len(atOrigin') = Len(atOrigin) + 1
        BY <3>1, <3>2, <4>1, <4>2
      <4> QED BY <3>1, <3>2, <4>3 DEF HasRoom
    <3> QED BY <1>2, <3>1, <3>2
  <2> QED BY <1>3, <2>1, <2>2 DEF FifoTypes
<1> QED BY <1>2, <1>4, <1>5, <1>6, <1>8, <1>9, <1>10 DEF TypeInv
\* The beginning.
LEMMA NothingSent == Init => SenderInv /\ CountersInv
<1> SUFFICES ASSUME Init PROVE SenderInv /\ CountersInv
  OBVIOUS
<1>1. SenderInit /\ IdSpace \in Nat \ {0} /\ MaxAttempts \in Nat /\ MaxMsgs \in Nat
  BY FragmentsAssumption DEF Init
<1>2. 1 % IdSpace \in 0..(IdSpace - 1)
  BY <1>1
<1>3. Idle \in Job /\ Idle.msg = 0 /\ Idle.phase = "idle" /\ Idle.retries = 0
  BY DEF Idle, Job
<1>4. Types
  <2>1. written \in Seq(Header) /\ Len(written) = 0 /\ restarts \in Seq(Senders)
        /\ delivered \in Seq(Delivery)
    BY <1>1 DEF SenderInit
  <2> QED BY <1>1, <1>2, <1>3, <2>1 DEF Types, SenderInit, Results
<1>5. \A s \in Senders : job[s] = Idle
  BY <1>1 DEF SenderInit
<1>6. \A s \in Senders : JobInv(s)
  BY <1>3, <1>5 DEF JobInv
<1>7. CountersInv
  <2>1. job[origin].retries = 0
    BY <1>3, <1>5, Origin
  <2>2. Len(written) = 0 /\ \A m \in Msg : attempts[m] = 0
    BY <1>1 DEF SenderInit
  <2> QED BY <1>1, <2>1, <2>2 DEF CountersInv
<1> QED BY <1>4, <1>6, <1>7 DEF SenderInv

LEMMA TypeInit == Init => TypeInv
<1> SUFFICES ASSUME Init PROVE TypeInv
  OBVIOUS
<1>1. IdSpace \in Nat \ {0} /\ MAX_PAYLOAD_SIZE \in Nat \ {0} /\ RxDepth \in Nat
  BY FragmentsAssumption, RoutedTransferAssumption
<1>2. SenderInv /\ CountersInv
  BY NothingSent
<1>3. CacheTypes
  <2>1. cache = [ s \in Senders |-> Linux!NoFrame ]
    BY DEF Init, Linux!Init
  <2>2. Linux!NoFrame \in Kept /\ Linux!NoFrame.data = << >>
    BY <1>1 DEF Linux!NoFrame, Kept
  <2>3. Len(<< >>) = 0
    OBVIOUS
  <2> QED BY <1>1, <2>1, <2>2, <2>3, Origin DEF CacheTypes
<1>4. QueueTypes
  <2>1. frag_queue = [ from |-> origin, id |-> 0, type |-> 0, reserved |-> 0, data |-> << >> ]
    BY DEF Init, Mcu!Init, origin
  <2>2. frag_queue \in Fragment /\ frag_queue.reserved = 0 /\ Len(frag_queue.data) = 0
    BY <1>1, <2>1, Origin DEF Fragment
  <2>3. FrameCount(MAX_PAYLOAD_SIZE) \in Nat
    BY <1>1, FramesOfMessage
  <2> QED BY <1>1, <2>2, <2>3 DEF QueueTypes
<1>5. FifoTypes /\ Pending = {}
  <2>1. atRouter = << >> /\ atOrigin = << >>
    BY DEF Init
  <2> QED BY <1>1, <2>1 DEF FifoTypes, Pending
<1>6. restarts = << >> /\ swallowed = {}
  BY DEF Init, SenderInit
<1> QED BY <1>2, <1>3, <1>4, <1>5, <1>6 DEF TypeInv, Init

\* Every step.
LEMMA TypeStep ==
  ASSUME TypeInv, [Next]_vars
  PROVE  TypeInv' /\ Grows
<1>1. CASE \E len \in Lens, type \in MsgTypes : AppWrite(len, type)
  BY <1>1, TypeWrite
<1>2. CASE AppRetry
  BY <1>2, TypeRetry
<1>3. CASE \E o \in Outcomes, garbage \in Mcu!Garbage : SendHop(o, garbage)
  BY <1>3, TypeSend
<1>4. CASE TakeAnswer \/ Timeout
  BY <1>4, TypeWait
<1>5. CASE DropAnswer
  BY <1>5, TypeDrop
<1>6. CASE \E o \in Outcomes : Route(o)
  BY <1>6, TypeRoute
<1>7. CASE UNCHANGED vars
  <2>1. UNCHANGED << senderVars, receiver, build, atRouter, atOrigin, waiting, fast, deceived >>
    BY <1>7 DEF vars
  <2>2. SenderInv' /\ CountersInv' /\ Grows /\ restarts' = restarts
    BY <2>1, NothingWritten DEF receiver
  <2>3. FifoTypes' /\ Pending' = Pending
    BY <2>1 DEF TypeInv, FifoTypes, Pending
  <2>4. waiting' \in BOOLEAN /\ fast' \in BOOLEAN /\ (waiting' => job'[origin].phase = "sending")
        /\ deceived' \subseteq 1..Len(written)'
    BY <2>1 DEF TypeInv, senderVars
  <2> QED BY <2>1, <2>2, <2>3, <2>4, TypeOrigin DEF receiver
<1> QED BY <1>1, <1>2, <1>3, <1>4, <1>5, <1>6, <1>7 DEF Next

\* The types in the words of the modules.
LEMMA TypeOKFollows == TypeInv => TypeOK
<1> SUFFICES ASSUME TypeInv PROVE TypeOK
  OBVIOUS
<1>1. Types /\ (\A s \in Senders : JobInv(s)) /\ CountersInv /\ MaxReboots \in Nat /\ restarts = << >>
  BY FragmentsAssumption DEF TypeInv, SenderInv
<1>2. \A s \in Senders :
        /\ job[s].phase \in { "idle", "sending", "failed" }
        /\ job[s].msg \in 0..Len(written)
        /\ job[s].retries \in 0..3
        /\ job[s].phase = "sending" => job[s].fragment_id > 0
  <2> SUFFICES ASSUME NEW s \in Senders
               PROVE  /\ job[s].phase \in { "idle", "sending", "failed" }
                      /\ job[s].msg \in 0..Len(written)
                      /\ job[s].retries \in 0..3
                      /\ job[s].phase = "sending" => job[s].fragment_id > 0
    OBVIOUS
  <2>1. job[s] \in Job /\ s = origin /\ Len(written) \in Nat
    BY <1>1, Origin DEF Types
  <2>2. job[s].phase \in { "idle", "sending", "failed" } /\ job[s].retries \in Nat /\ job[s].msg \in Nat
    BY <2>1 DEF Job
  <2>3. job[s].retries <= 3
    BY <1>1, <2>1, <2>2 DEF CountersInv
  <2>4. job[s].msg <= Len(written)
    BY <1>1, <2>1, <2>2 DEF JobInv
  <2>5. ASSUME job[s].phase = "sending" PROVE job[s].fragment_id > 0
    <3>1. job[s].msg \in 1..Len(written) /\ job[s].fragment_id \in 1..N(job[s].msg)
      BY <1>1, <2>5 DEF JobInv
    <3>2. N(job[s].msg) \in Nat
      BY <1>1, <3>1, WrittenMessage
    <3> QED BY <3>1, <3>2
  <2> QED BY <2>1, <2>2, <2>3, <2>4, <2>5
<1>3. attempts \in [ Msg -> 0..MaxAttempts ]
  <2>1. attempts \in [ Msg -> Nat ] /\ (\A m \in Msg : attempts[m] <= MaxAttempts) /\ MaxAttempts \in Nat
    BY <1>1, FragmentsAssumption DEF Types, CountersInv
  <2>2. \A m \in Msg : attempts[m] \in 0..MaxAttempts
    BY <2>1
  <2> QED BY <2>1, <2>2
<1>4. /\ next_id \in [ Senders -> 0..(IdSpace - 1) ] /\ Len(written) <= MaxMsgs
      /\ outcome \in [ Msg -> { "none", "pending", "true", "false" } ]
      /\ Len(restarts) <= MaxReboots /\ swallowed \subseteq 1..Len(written)
  BY <1>1 DEF Types, Results, TypeInv
<1>5. Linux!SenderTypeOK /\ Mcu!SenderTypeOK
  BY <1>2, <1>3, <1>4 DEF Linux!SenderTypeOK, Mcu!SenderTypeOK, Linux!Msg, Mcu!Msg, Msg
<1>6. Linux!TypeOK
  <2>1. \A s \in Senders : cache[s].id \in 0..(IdSpace - 1) /\ Len(cache[s].data) <= MAX_PAYLOAD_SIZE
    BY Origin DEF TypeInv, CacheTypes, Kept
  <2> QED BY <1>5, <2>1 DEF Linux!TypeOK
<1>7. Mcu!TypeOK
  <2>1. FrameCount(MAX_PAYLOAD_SIZE) = Mcu!FrameCount(MAX_PAYLOAD_SIZE)
    BY DEF FrameCount, Mcu!FrameCount
  <2>2. FrameCount(MAX_PAYLOAD_SIZE) \in Nat
    <3>1. MAX_PAYLOAD_SIZE \in Nat \ {0}
      BY FragmentsAssumption, RoutedTransferAssumption
    <3> QED BY <3>1, FramesOfMessage
  <2>3. /\ frag_queue.from \in Senders /\ frag_queue.id \in 0..(IdSpace - 1)
        /\ frag_queue.reserved \in Nat /\ frag_queue.reserved <= FrameCount(MAX_PAYLOAD_SIZE)
        /\ Len(frag_queue.data) <= MAX_PAYLOAD_SIZE
    BY DEF TypeInv, QueueTypes, Fragment
  <2>4. frag_queue.reserved \in 0..FrameCount(MAX_PAYLOAD_SIZE)
    BY <2>2, <2>3
  <2> QED BY <1>5, <2>1, <2>3, <2>4 DEF Mcu!TypeOK
<1>8. { waiting, fast } \subseteq BOOLEAN
  <2>1. waiting \in BOOLEAN /\ fast \in BOOLEAN
    BY DEF TypeInv
  <2> QED BY <2>1, Zenon
<1> QED BY <1>6, <1>7, <1>8 DEF TypeOK, TypeInv, FifoTypes

\* The state of the origin, of the router's and its own FIFO and of both builds of the
\* destination has its types: no more retries than main_write() counts, no frame and
\* no message longer than MAX_PAYLOAD_SIZE, no more in a FIFO than the radio holds.
THEOREM TypeCorrect == Spec => []TypeOK
<1>1. TypeInv /\ [Next]_vars => TypeInv'
  BY TypeStep
<1> QED BY <1>1, TypeInit, TypeOKFollows, PTL DEF Spec
-----------------------------------------------------------------------------
(***************************************************************************)
(* What the destination holds of an unfinished message, in either build.   *)
(***************************************************************************)
Assembly == IF build = "linux" THEN cache[origin] ELSE frag_queue

\* The first i frames of message m.  The Linux build counts one more as missing.
Held(m, i) ==
  /\ m \in 1..Len(written) /\ i \in 1..(N(m) - 1) /\ written[m].len <= MAX_PAYLOAD_SIZE
  /\ Assembly.id = written[m].id /\ Assembly.data = Part(m, 0, At(i))
  /\ Assembly.reserved = N(m) - i + IF build = "linux" THEN 1 ELSE 0
Holds(m)   == \E i \in 1..(N(m) - 1) : Held(m, i)
HoldsNone  == \A m, i : ~Held(m, i)

\* Nothing: frag_queue may keep the EXTERNAL message it has handed over, with a field
\* reserved that no sender has set.
Clear == IF build = "linux" THEN cache[origin] = Linux!NoFrame
         ELSE \/ frag_queue.reserved = 0
              \/ \E m \in 1..Len(written) : N(m) = 1 /\ frag_queue.id = written[m].id

\* Ids are given out in order.
NumInv == /\ next_id[origin] = Id(Len(written) + 1)
          /\ \A i \in 1..Len(written) : written[i].id = Id(i)
AsmInv == Clear \/ \E m \in 1..Len(written) : Holds(m)
HoldInv == TypeInv /\ NumInv /\ AsmInv

\* So no two messages have the same.
LEMMA IdsDiffer ==
  ASSUME MaxMsgs <= IdSpace, Types, NumInv, NEW m \in 1..Len(written), NEW k \in 1..Len(written),
         written[m].id = written[k].id
  PROVE  m = k
<1>1. PICK l : l = Len(written)
  OBVIOUS
<1>2. l \in Nat /\ l <= MaxMsgs /\ MaxMsgs \in Nat /\ IdSpace \in Nat
  BY <1>1, FragmentsAssumption DEF Types
<1>3. m \in 1..IdSpace /\ k \in 1..IdSpace
  BY <1>1, <1>2
<1>4. Id(m) = Id(k)
  BY DEF NumInv
<1> QED BY <1>3, <1>4, Ids

\* What it holds is the beginning of a single message.
LEMMA HeldBytes ==
  ASSUME Types, NEW m, NEW i, Held(m, i)
  PROVE  /\ m \in 1..Len(written) /\ i \in 1..(N(m) - 1) /\ N(m) \in Nat /\ N(m) # 1 /\ i \in Nat
         /\ Assembly.data \in Seq(Byte) /\ Assembly.data # << >> /\ Len(Assembly.data) = At(i)
         /\ At(i) \in Nat /\ At(i) < written[m].len /\ written[m].len <= MAX_PAYLOAD_SIZE
         /\ Head(Assembly.data) = << m, 1 >>
         /\ MsgOf(Assembly) = m
         /\ Assembly.reserved = N(m) - i + IF build = "linux" THEN 1 ELSE 0
         /\ Assembly.id = written[m].id
         /\ build = "linux" => cache[origin] # Linux!NoFrame
<1>1. /\ m \in 1..Len(written) /\ i \in 1..(N(m) - 1) /\ written[m].len <= MAX_PAYLOAD_SIZE
      /\ Assembly.data = Part(m, 0, At(i))
      /\ Assembly.reserved = N(m) - i + IF build = "linux" THEN 1 ELSE 0
      /\ Assembly.id = written[m].id
  BY DEF Held
<1>2. N(m) \in Nat \ {0}
  BY <1>1, WrittenMessage
<1>3. PICK d : d = Assembly.data
  OBVIOUS
<1>4. /\ d \in Seq(Byte) /\ d # << >> /\ Len(d) = At(i) /\ At(i) \in Nat /\ At(i) < written[m].len
      /\ Head(d) = << m, 1 >>
  BY <1>1, <1>3, BeginningBytes
<1>5. MsgOf(Assembly) = m
  BY <1>3, <1>4 DEF MsgOf
<1>6. ASSUME build = "linux" PROVE cache[origin] # Linux!NoFrame
  <2>1. cache[origin].data # << >>
    BY <1>3, <1>4, <1>6 DEF Assembly
  <2> QED BY <2>1 DEF Linux!NoFrame
<1> QED BY <1>1, <1>2, <1>3, <1>4, <1>5, <1>6

LEMMA HeldOnce ==
  ASSUME Types, NEW m, NEW i, Held(m, i), NEW k, NEW j, Held(k, j)
  PROVE  m = k /\ i = j
<1>1. m = k /\ At(i) = At(j) /\ i \in Nat /\ j \in Nat
  <2>1. Head(Assembly.data) = << m, 1 >> /\ Len(Assembly.data) = At(i) /\ i \in Nat
    BY HeldBytes
  <2>2. Head(Assembly.data) = << k, 1 >> /\ Len(Assembly.data) = At(j) /\ j \in Nat
    BY HeldBytes
  <2> QED BY <2>1, <2>2
<1>2. /\ At(i) \in Nat /\ At(j) \in Nat /\ max_frame_payload_size \in Nat \ {0}
      /\ At(i + 1) = At(i) + max_frame_payload_size /\ At(j + 1) = At(j) + max_frame_payload_size
  BY <1>1, Offsets, FragmentsAssumption
<1>3. ~(i + 1 <= j) /\ ~(j + 1 <= i)
  <2>1. i + 1 \in Nat /\ j + 1 \in Nat
    BY <1>1
  <2>2. (i + 1 <= j => At(i + 1) <= At(j)) /\ (j + 1 <= i => At(j + 1) <= At(i))
    BY <1>1, <2>1, Offsets
  <2> QED BY <1>1, <1>2, <2>2
<1> QED BY <1>1, <1>3

\* What is held, is so while the buffers and the message stay.
LEMMA HeldKept ==
  ASSUME UNCHANGED << build, cache, frag_queue >>, NEW m \in 1..Len(written), m \in 1..Len(written)',
         written'[m] = written[m]
  PROVE  /\ \A i : Held(m, i)' <=> Held(m, i)
         /\ N(m)' = N(m) /\ (Holds(m)' <=> Holds(m))
<1>1. Assembly' = Assembly
  BY DEF Assembly
<1>2. N(m)' = N(m) /\ Whole(m)' = Whole(m)
  BY DEF N, Whole
<1>3. \A i : Part(m, 0, At(i))' = Part(m, 0, At(i))
  BY <1>2 DEF Part
<1>4. \A i : Held(m, i)' <=> Held(m, i)
  BY <1>1, <1>2, <1>3 DEF Held
<1> QED BY <1>2, <1>4 DEF Holds

-----------------------------------------------------------------------------
(***************************************************************************)
(* What enqueue() does with frame q of message m.                          *)
(***************************************************************************)
Forwarded(f, m, q) ==
  /\ HoldInv /\ MaxMsgs <= IdSpace
  /\ m \in 1..Len(written) /\ q \in 0..(N(m) - 1) /\ FrameIs(f, origin, m, q)
  /\ written[m].len <= MAX_PAYLOAD_SIZE
  /\ UNCHANGED << written, build, restarts >>
  /\ f.reserved \in Nat

\* Whole frames fill the frag_queue of a microcontroller exactly.
Divides == build = "linux" \/ MAX_PAYLOAD_SIZE % max_frame_payload_size = 0

\* A microcontroller throws message m away for want of room in frame_queue.
NoRoom(m) == Spoils(m) /\ build = "mcu" /\ m \in swallowed'

Same == \A k, i : Held(k, i)' <=> Held(k, i)
Received(m, q) ==
  /\ AsmInv'
  /\ \/ N(m) = 1 /\ (Delivers(m) \/ NoRoom(m)) /\ \A k, i : Held(k, i)' => Held(k, i)
     \/ N(m) # 1 /\ q = 0 /\ Leaves /\ Held(m, 1)'
     \/ N(m) # 1 /\ q = 0 /\ Leaves /\ Same /\ Holds(m)
     \/ N(m) # 1 /\ q > 0 /\ Leaves /\ Same /\ ~Held(m, q)
     \/ N(m) # 1 /\ q > 0 /\ Leaves /\ HoldsNone' /\ ~Held(m, q) /\ (Divides => ~Holds(m))
     \/ N(m) # 1 /\ q > 0 /\ q < N(m) - 1 /\ Leaves /\ Held(m, q) /\ Held(m, q + 1)'
     \/ /\ N(m) # 1 /\ q > 0 /\ q = N(m) - 1 /\ Held(m, q) /\ HoldsNone'
        /\ Delivers(m) \/ NoRoom(m) \/ (written[m].id = 0 /\ Spoils(m))

\* The facts about such a frame.
LEMMA ComesWith ==
  ASSUME NEW f, NEW m, NEW q, Forwarded(f, m, q)
  PROVE  /\ Types /\ MaxMsgs <= IdSpace /\ NumInv /\ AsmInv /\ origin \in Senders
         /\ m \in 1..Len(written) /\ q \in 0..(N(m) - 1) /\ FrameIs(f, origin, m, q)
         /\ q \in Nat /\ N(m) \in Nat \ {0} /\ m \in Nat /\ m # 0
         /\ written' = written /\ build' = build /\ restarts' = restarts /\ build \in { "linux", "mcu" }
         /\ written[m].from = origin /\ f.from = origin /\ f.id = written[m].id
         /\ f.data \in Seq(Byte) /\ f.data # << >> /\ MsgOf(f) = m
         /\ Len(f.data) = End(m, q) - At(q) /\ At(q) \in Nat /\ End(m, q) \in Nat
         /\ End(m, q) <= MAX_PAYLOAD_SIZE /\ MAX_PAYLOAD_SIZE \in Nat
         /\ Len(f.data) \in Nat
         /\ f.type \in FragmentTypes <=> N(m) # 1
         /\ f.type = NETWORK_FIRST_FRAGMENT <=> (N(m) # 1 /\ q = 0)
         /\ f.type = NETWORK_LAST_FRAGMENT <=> (N(m) # 1 /\ q = N(m) - 1)
         /\ N(m) # 1 => f.reserved = IF q = N(m) - 1 THEN written[m].type ELSE N(m) - q
<1>1. /\ HoldInv /\ MaxMsgs <= IdSpace
      /\ m \in 1..Len(written) /\ q \in 0..(N(m) - 1) /\ FrameIs(f, origin, m, q)
      /\ written[m].len <= MAX_PAYLOAD_SIZE
      /\ UNCHANGED << written, build, restarts >>
  BY DEF Forwarded
<1>2. Types /\ NumInv /\ AsmInv /\ build \in { "linux", "mcu" } /\ origin \in Senders
  BY <1>1, Origin DEF HoldInv, TypeInv, SenderInv
<1>3. /\ N(m) \in Nat \ {0} /\ m \in Nat /\ m # 0 /\ written[m].from = origin
      /\ written[m].len \in Nat /\ MAX_PAYLOAD_SIZE \in Nat
  <2>1. written[m].from \in Senders
    BY <1>1, <1>2, WrittenMessage
  <2> QED BY <1>1, <1>2, <2>1, WrittenMessage, Origin, FragmentsAssumption
<1>4. q \in Nat
  BY <1>1, <1>3
<1>5. /\ f.data \in Seq(Byte) /\ f.data # << >> /\ MsgOf(f) = m
      /\ Len(f.data) = End(m, q) - At(q) /\ At(q) \in Nat /\ End(m, q) \in Nat
      /\ End(m, q) <= written[m].len
  BY <1>1, <1>2, FrameBytes, FrameEnds
<1>6. Len(f.data) \in Nat /\ End(m, q) <= MAX_PAYLOAD_SIZE
  BY <1>1, <1>3, <1>5
<1>7. f.type \in FragmentTypes <=> N(m) # 1
  BY <1>1, <1>2, FragmentReserved
<1>8. f.from = origin /\ f.id = written[m].id
  BY <1>1 DEF FrameIs
<1>9. /\ f.type = NETWORK_FIRST_FRAGMENT <=> (N(m) # 1 /\ q = 0)
      /\ f.type = NETWORK_LAST_FRAGMENT <=> (N(m) # 1 /\ q = N(m) - 1)
      /\ N(m) # 1 => f.reserved = IF q = N(m) - 1 THEN written[m].type ELSE N(m) - q
  <2>1. CASE N(m) = 1
    <3>1. f.type # NETWORK_FIRST_FRAGMENT /\ f.type # NETWORK_LAST_FRAGMENT
      BY <1>7, <2>1 DEF FragmentTypes
    <3> QED BY <2>1, <3>1
  <2>2. CASE N(m) # 1
    <3>1. CASE q = N(m) - 1
      <4>1. f.type = NETWORK_LAST_FRAGMENT /\ f.reserved = written[m].type /\ q # 0
        BY <1>1, <1>3, <2>2, <3>1 DEF FrameIs
      <4> QED BY <2>2, <3>1, <4>1 DEF NETWORK_LAST_FRAGMENT, NETWORK_FIRST_FRAGMENT
    <3>2. CASE q # N(m) - 1
      <4>1. /\ f.type = IF q = 0 THEN NETWORK_FIRST_FRAGMENT ELSE NETWORK_MORE_FRAGMENTS
            /\ f.reserved = N(m) - q
        BY <1>1, <2>2, <3>2 DEF FrameIs
      <4> QED BY <2>2, <3>2, <4>1 DEF NETWORK_LAST_FRAGMENT, NETWORK_FIRST_FRAGMENT,
                                      NETWORK_MORE_FRAGMENTS
    <3> QED BY <3>1, <3>2
  <2> QED BY <2>1, <2>2
<1> QED BY <1>1, <1>2, <1>3, <1>4, <1>5, <1>6, <1>7, <1>8, <1>9
\* What is held with the id of the frame is of its message.
LEMMA OfItsMessage ==
  ASSUME NEW f, NEW m, NEW q, Forwarded(f, m, q), Assembly.id = f.id, ~Clear
  PROVE  N(m) # 1 /\ \E j \in 1..(N(m) - 1) : Held(m, j)
<1>1. /\ Types /\ NumInv /\ AsmInv /\ MaxMsgs <= IdSpace
      /\ f.id = written[m].id /\ m \in 1..Len(written)
  BY ComesWith
<1>2. PICK k \in 1..Len(written) : Holds(k)
  BY <1>1 DEF AsmInv
<1>3. PICK j \in 1..(N(k) - 1) : Held(k, j)
  BY <1>2 DEF Holds
<1>4. Assembly.id = written[k].id /\ N(k) # 1
  BY <1>1, <1>3, HeldBytes
<1>5. k = m
  BY <1>1, <1>4, IdsDiffer
<1> QED BY <1>3, <1>4, <1>5

\* The frame that comes next fits, and goes to the end.
LEMMA NextFrame ==
  ASSUME NEW f, NEW m, NEW q, Forwarded(f, m, q), Held(m, q), NEW d, d = Assembly.data \o f.data
  PROVE  /\ Len(Assembly.data) + Len(f.data) <= MAX_PAYLOAD_SIZE
         /\ q < N(m) - 1 => d = Part(m, 0, At(q + 1)) /\ q + 1 \in 1..(N(m) - 1)
         /\ q = N(m) - 1 => d = Whole(m)
<1>1. /\ Types /\ FrameIs(f, origin, m, q) /\ At(q) \in Nat /\ End(m, q) \in Nat
      /\ Len(f.data) = End(m, q) - At(q) /\ End(m, q) <= MAX_PAYLOAD_SIZE
      /\ MAX_PAYLOAD_SIZE \in Nat
  BY ComesWith
<1>2. m \in 1..Len(written) /\ q \in 1..(N(m) - 1) /\ Len(Assembly.data) = At(q)
  BY <1>1, HeldBytes
<1>3. PICK b : b = Assembly.data
  OBVIOUS
<1>4. b = Part(m, 0, At(q)) /\ d = b \o f.data
  BY <1>3 DEF Held
<1>5. /\ q < N(m) - 1 => d = Part(m, 0, At(q + 1)) /\ q + 1 \in 1..(N(m) - 1)
      /\ q = N(m) - 1 => d = Whole(m)
  BY <1>1, <1>2, <1>4, BeginningGrows
<1>6. Len(Assembly.data) + Len(f.data) <= MAX_PAYLOAD_SIZE
  BY <1>1, <1>2
<1> QED BY <1>5, <1>6, Zenon

\* What the buffers hold after a step that writes no message.
LEMMA HeldThen ==
  ASSUME NEW f, NEW m, NEW q, Forwarded(f, m, q)
  PROVE  /\ \A i : /\ i \in 1..(N(m) - 1)
                   /\ Assembly'.id = f.id /\ Assembly'.data = Part(m, 0, At(i))
                   /\ Assembly'.reserved = N(m) - i + IF build = "linux" THEN 1 ELSE 0
                   => Held(m, i)' /\ AsmInv'
         /\ UNCHANGED << cache, frag_queue >> => Same /\ AsmInv'
<1>1. /\ written' = written /\ build' = build /\ f.id = written[m].id /\ m \in 1..Len(written)
      /\ AsmInv
  BY ComesWith
<1>2. \A k : N(k)' = N(k) /\ Whole(k)' = Whole(k)
  BY <1>1 DEF N, Whole
<1>3. \A k, i : Part(k, 0, At(i))' = Part(k, 0, At(i))
  BY <1>2 DEF Part
<1>4. ASSUME NEW i \in 1..(N(m) - 1),
             Assembly'.id = f.id, Assembly'.data = Part(m, 0, At(i)),
             Assembly'.reserved = N(m) - i + IF build = "linux" THEN 1 ELSE 0
      PROVE  Held(m, i)' /\ AsmInv'
  <2>1. written[m].len <= MAX_PAYLOAD_SIZE
    BY DEF Forwarded
  <2>2. Held(m, i)'
    BY <1>1, <1>2, <1>3, <1>4, <2>1 DEF Held
  <2>3. Holds(m)'
    BY <1>2, <2>2 DEF Holds
  <2> QED BY <1>1, <2>2, <2>3 DEF AsmInv
<1>5. ASSUME UNCHANGED << cache, frag_queue >> PROVE Same /\ AsmInv'
  <2>1. Assembly' = Assembly
    BY <1>1, <1>5 DEF Assembly
  <2>2. Same
    BY <1>1, <1>2, <1>3, <2>1 DEF Same, Held
  <2>3. Clear' <=> Clear
    BY <1>1, <1>2, <1>5 DEF Clear
  <2>4. \A k : Holds(k)' <=> Holds(k)
    BY <1>2, <2>2 DEF Same, Holds
  <2> QED BY <1>1, <2>2, <2>3, <2>4 DEF AsmInv
<1> QED BY <1>4, <1>5

\* A cleared buffer holds nothing.
LEMMA ClearHoldsNone ==
  ASSUME NEW f, NEW m, NEW q, Forwarded(f, m, q), Types'
  PROVE  Clear' => AsmInv' /\ HoldsNone'
<1> SUFFICES ASSUME Clear' PROVE AsmInv' /\ HoldsNone'
  OBVIOUS
<1>1. /\ Types /\ NumInv /\ MaxMsgs <= IdSpace /\ written' = written /\ build' = build
      /\ build \in { "linux", "mcu" }
  BY ComesWith
<1>2. \A k : N(k)' = N(k)
  BY <1>1 DEF N
<1>3. ASSUME NEW k, NEW i, Held(k, i)' PROVE FALSE
  <2>1. /\ k \in 1..Len(written) /\ i \in 1..(N(k) - 1) /\ N(k) \in Nat /\ N(k) # 1
        /\ Assembly'.reserved = N(k) - i + IF build = "linux" THEN 1 ELSE 0
        /\ Assembly'.id = written[k].id
        /\ Assembly'.data = Part(k, 0, At(i))
    <3>1. \A j : Part(k, 0, At(j))' = Part(k, 0, At(j))
      BY <1>1 DEF Part, Whole
    <3>2. k \in 1..Len(written) /\ i \in 1..(N(k) - 1)
      BY <1>1, <1>2, <1>3 DEF Held
    <3>3. N(k) \in Nat /\ N(k) # 1
      BY <1>1, <3>2, WrittenMessage
    <3> QED BY <1>1, <1>2, <1>3, <3>1, <3>2, <3>3 DEF Held
  <2>2. build = "mcu"
    <3>1. PICK d : d = Assembly'.data
      OBVIOUS
    <3>2. d # << >>
      BY <1>1, <2>1, <3>1, BeginningBytes
    <3>3. cache'[origin] = Linux!NoFrame => Assembly'.data # d \/ build # "linux"
      BY <1>1, <3>2 DEF Assembly, Linux!NoFrame
    <3> QED BY <1>1, <3>1, <3>3 DEF Clear
  <2>3. Assembly' = frag_queue'
    BY <1>1, <2>2 DEF Assembly
  <2>4. frag_queue'.reserved # 0
    BY <2>1, <2>2, <2>3
  <2>5. PICK j \in 1..Len(written) : N(j) = 1 /\ frag_queue'.id = written[j].id
    BY <1>1, <1>2, <2>2, <2>4 DEF Clear
  <2>6. j = k
    BY <1>1, <2>1, <2>3, <2>5, IdsDiffer
  <2> QED BY <2>1, <2>5, <2>6
<1> QED BY <1>3 DEF AsmInv, HoldsNone
\* A message is thrown away.
LEMMA ThrownAway ==
  ASSUME NEW f, NEW m, NEW q, Forwarded(f, m, q), build = "mcu", Swallow(f)
  PROVE  NoRoom(m)
<1>1. MsgOf(f) = m /\ restarts' = restarts
  BY ComesWith
<1>2. Spoils(m)
  BY <1>1, SwallowSpoils
<1>3. m \in swallowed'
  BY <1>1 DEF Swallow
<1> QED BY <1>2, <1>3 DEF NoRoom

\* A frame that is a message.
LEMMA WholeReceived ==
  ASSUME NEW f, NEW m, NEW q, Forwarded(f, m, q), N(m) = 1,
         Deliver(origin, f.type, f.data) \/ (build = "mcu" /\ Swallow(f)),
         AsmInv', \A k, i : Held(k, i)' => Held(k, i)
  PROVE  Received(m, q)
<1>1. /\ Types /\ origin \in Senders /\ m \in 1..Len(written) /\ q \in 0..(N(m) - 1)
      /\ FrameIs(f, origin, m, q) /\ restarts' = restarts /\ written[m].from = origin
  BY ComesWith
<1>2. f.type = written[m].type /\ f.data = Whole(m)
  BY <1>1, WholeFrame
<1>3. IsMessage(origin, f.type, Whole(m), m)
  BY <1>1, <1>2 DEF IsMessage
<1>4. CASE Deliver(origin, f.type, f.data)
  <2>1. Delivers(m)
    BY <1>1, <1>2, <1>3, <1>4, WholeDelivers
  <2> QED BY <2>1 DEF Received
<1>5. CASE build = "mcu" /\ Swallow(f)
  BY <1>5, ThrownAway DEF Received
<1> QED BY <1>4, <1>5

\* The last fragment: the message is handed over.
LEMMA LastReceived ==
  ASSUME NEW f, NEW m, NEW q, Forwarded(f, m, q), N(m) # 1, q > 0, q = N(m) - 1, Held(m, q),
         AsmInv', HoldsNone',
         \/ Deliver(origin, written[m].type, Whole(m))
         \/ build = "mcu" /\ Swallow(f)
         \/ written[m].id = 0 /\ Swallow(f)
  PROVE  Received(m, q)
<1>1. /\ Types /\ origin \in Senders /\ m \in 1..Len(written)
      /\ restarts' = restarts /\ written[m].from = origin /\ MsgOf(f) = m
  BY ComesWith
<1>2. CASE Deliver(origin, written[m].type, Whole(m))
  <2>1. IsMessage(origin, written[m].type, Whole(m), m)
    BY <1>1 DEF IsMessage
  <2>2. Delivers(m)
    BY <1>1, <1>2, <2>1, WholeDelivers
  <2> QED BY <2>2 DEF Received
<1>3. CASE written[m].id = 0 /\ Swallow(f)
  <2>1. Spoils(m)
    BY <1>1, <1>3, SwallowSpoils
  <2> QED BY <1>3, <2>1 DEF Received
<1>4. CASE build = "mcu" /\ Swallow(f)
  BY <1>4, ThrownAway DEF Received
<1> QED BY <1>2, <1>3, <1>4

\* enqueue() of the Linux build.
LEMMA LinuxReceives ==
  ASSUME NEW f, NEW m, NEW q, Forwarded(f, m, q), Types', build = "linux", Linux!Enqueue(f),
         UNCHANGED frag_queue
  PROVE  Received(m, q)
<1>1. /\ Types /\ origin \in Senders
      /\ m \in 1..Len(written) /\ q \in 0..(N(m) - 1) /\ FrameIs(f, origin, m, q)
      /\ q \in Nat /\ N(m) \in Nat \ {0}
      /\ written' = written /\ build' = build /\ restarts' = restarts
      /\ f.from = origin /\ f.id = written[m].id
  BY ComesWith
<1>2. /\ f.type \in FragmentTypes <=> N(m) # 1
      /\ f.type = NETWORK_FIRST_FRAGMENT <=> (N(m) # 1 /\ q = 0)
      /\ f.type = NETWORK_LAST_FRAGMENT <=> (N(m) # 1 /\ q = N(m) - 1)
      /\ N(m) # 1 => f.reserved = IF q = N(m) - 1 THEN written[m].type ELSE N(m) - q
  BY ComesWith
<1>3. PICK c : c = cache[origin]
  OBVIOUS
<1>4. Linux!Slot(f) = origin /\ Assembly = c /\ (Clear <=> c = Linux!NoFrame)
  BY <1>1, <1>3 DEF Linux!Slot, Assembly, Clear
<1>5. ASSUME cache' = cache PROVE Same /\ AsmInv'
  BY <1>5, HeldThen
<1>6. Nothing => Leaves
  BY <1>1, NothingLeaves
<1>7. cache \in [ Senders -> Kept ]
  BY DEF Forwarded, HoldInv, TypeInv, CacheTypes
<1>8. ASSUME NEW d, cache' = [ cache EXCEPT ![origin] = d ]
      PROVE  Assembly' = d /\ (d = Linux!NoFrame => Clear')
  <2>1. cache'[origin] = d
    BY <1>1, <1>7, <1>8
  <2> QED BY <1>1, <2>1 DEF Assembly, Clear
<1>9. CASE Linux!EnqueueWhole(f)
  <2>1. f.type \notin FragmentTypes /\ Deliver(origin, f.type, f.data) /\ cache' = cache
    BY <1>1, <1>9, SameNames
       DEF Linux!EnqueueWhole, Linux!Push, Linux!FragmentTypes, FragmentTypes,
           Linux!NETWORK_FIRST_FRAGMENT, Linux!NETWORK_MORE_FRAGMENTS, Linux!NETWORK_LAST_FRAGMENT,
           NETWORK_FIRST_FRAGMENT, NETWORK_MORE_FRAGMENTS, NETWORK_LAST_FRAGMENT
  <2>2. N(m) = 1
    BY <1>2, <2>1
  <2>3. AsmInv' /\ \A k, i : Held(k, i)' => Held(k, i)
    BY <1>5, <2>1 DEF Same
  <2> QED BY <2>1, <2>2, <2>3, WholeReceived
<1>10. CASE Linux!EnqueueFirst(f)
  <2>1. PICK d : d = [ id |-> f.id, type |-> f.type, reserved |-> f.reserved, data |-> f.data ]
    OBVIOUS
  <2>2. /\ f.type = NETWORK_FIRST_FRAGMENT /\ Nothing
        /\ cache' = [ cache EXCEPT ![origin] = d ]
    BY <1>4, <1>10, <2>1, SameNames
       DEF Linux!EnqueueFirst, Linux!IsNewFirst, Linux!NETWORK_FIRST_FRAGMENT, NETWORK_FIRST_FRAGMENT
  <2>3. N(m) # 1 /\ q = 0 /\ f.reserved = N(m) - 0
    BY <1>1, <1>2, <2>2
  <2>4. f.data = Part(m, 0, At(1))
    <3>1. f.data = Part(m, At(0), End(m, 0))
      BY <1>1, <2>3 DEF FrameIs
    <3>2. At(0) = 0 /\ End(m, 0) = At(1)
      BY <1>1, <2>3, Offsets DEF End
    <3> QED BY <3>1, <3>2
  <2>5. Assembly' = d
    BY <1>8, <2>2
  <2>6. d.id = f.id /\ d.data = Part(m, 0, At(1)) /\ d.reserved = N(m) - 1 + 1 /\ 1 \in 1..(N(m) - 1)
    BY <1>1, <2>1, <2>3, <2>4
  <2>7. Held(m, 1)' /\ AsmInv'
    BY <2>5, <2>6, HeldThen
  <2> QED BY <1>6, <2>2, <2>3, <2>7 DEF Received
<1>11. ASSUME Linux!IsNext(c, f), f.type \in FragmentTypes
       PROVE  N(m) # 1 /\ q > 0 /\ Held(m, q)
  <2>1. c # Linux!NoFrame /\ c.id = f.id /\ f.type # NETWORK_FIRST_FRAGMENT
        /\ c.reserved = IF f.type = NETWORK_LAST_FRAGMENT THEN 2 ELSE f.reserved + 1
    BY <1>11 DEF Linux!IsNext, Linux!Fits, Linux!NETWORK_FIRST_FRAGMENT, NETWORK_FIRST_FRAGMENT,
                 Linux!NETWORK_LAST_FRAGMENT, NETWORK_LAST_FRAGMENT
  <2>2. PICK j \in 1..(N(m) - 1) : Held(m, j)
    BY <1>4, <2>1, OfItsMessage
  <2>3. N(m) # 1 /\ q > 0
    BY <1>1, <1>2, <1>11, <2>1
  <2>4. c.reserved = N(m) - j + 1 /\ j \in Nat
    BY <1>1, <1>4, <2>2, HeldBytes
  <2>5. j = q
    BY <1>1, <1>2, <2>1, <2>3, <2>4
  <2> QED BY <2>2, <2>3, <2>5
<1>12. CASE Linux!EnqueueMore(f)
  <2>1. PICK d : d = Linux!Extend(c, f)
    OBVIOUS
  <2>2. /\ f.type = NETWORK_MORE_FRAGMENTS /\ Linux!IsNext(c, f) /\ Nothing
        /\ cache' = [ cache EXCEPT ![origin] = d ]
    BY <1>3, <1>4, <1>12, <2>1, SameNames
       DEF Linux!EnqueueMore, Linux!NETWORK_MORE_FRAGMENTS, NETWORK_MORE_FRAGMENTS
  <2>3. f.type \in FragmentTypes /\ f.type # NETWORK_LAST_FRAGMENT
    BY <2>2 DEF FragmentTypes, NETWORK_MORE_FRAGMENTS, NETWORK_LAST_FRAGMENT
  <2>4. N(m) # 1 /\ q > 0 /\ Held(m, q) /\ q < N(m) - 1 /\ f.reserved = N(m) - q
    BY <1>1, <1>2, <1>11, <2>2, <2>3
  <2>5. PICK b : b = c.data \o f.data
    OBVIOUS
  <2>6. b = Part(m, 0, At(q + 1)) /\ q + 1 \in 1..(N(m) - 1)
    BY <1>4, <2>4, <2>5, NextFrame
  <2>7. d.id = f.id /\ d.data = b /\ d.reserved = f.reserved
    BY <2>1, <2>3, <2>5 DEF Linux!Extend, Linux!NETWORK_LAST_FRAGMENT, NETWORK_LAST_FRAGMENT
  <2>8. Assembly' = d
    BY <1>8, <2>2
  <2>9. d.reserved = N(m) - (q + 1) + 1
    BY <1>1, <2>4, <2>7
  <2>10. Held(m, q + 1)' /\ AsmInv'
    BY <2>6, <2>7, <2>8, <2>9, HeldThen
  <2> QED BY <1>6, <2>2, <2>4, <2>10 DEF Received
<1>13. CASE Linux!EnqueueLast(f)
  <2>1. PICK d : d = Linux!Extend(c, f)
    OBVIOUS
  <2>2. /\ f.type = NETWORK_LAST_FRAGMENT /\ Linux!IsNext(c, f)
        /\ cache' = [ cache EXCEPT ![origin] = Linux!NoFrame ]
        /\ IF d.id > 0 /\ d.data # << >> /\ Len(d.data) <= MAX_PAYLOAD_SIZE
           THEN Deliver(origin, d.type, d.data) ELSE Swallow(f)
    BY <1>1, <1>3, <1>4, <1>13, <2>1, SameNames
       DEF Linux!EnqueueLast, Linux!Push, Linux!NETWORK_LAST_FRAGMENT, NETWORK_LAST_FRAGMENT
  <2>3. f.type \in FragmentTypes
    BY <2>2 DEF FragmentTypes
  <2>4. N(m) # 1 /\ q > 0 /\ Held(m, q) /\ q = N(m) - 1 /\ f.reserved = written[m].type
    BY <1>1, <1>2, <1>11, <2>2, <2>3
  <2>5. PICK b : b = c.data \o f.data
    OBVIOUS
  <2>6. b = Whole(m)
    BY <1>4, <2>4, <2>5, NextFrame
  <2>7. d.id = f.id /\ d.data = b /\ d.type = f.reserved
    BY <2>1, <2>2, <2>5 DEF Linux!Extend, Linux!NETWORK_LAST_FRAGMENT, NETWORK_LAST_FRAGMENT
  <2>8. b # << >> /\ Len(b) <= MAX_PAYLOAD_SIZE
    <3>1. Len(b) = written[m].len /\ written[m].len \in Nat \ {0} /\ written[m].len <= MAX_PAYLOAD_SIZE
      BY <1>1, <2>6, WrittenMessage DEF Forwarded
    <3>2. Whole(m) # << >>
      BY <1>1, FirstByte
    <3> QED BY <2>6, <3>1, <3>2
  <2>9. \/ Deliver(origin, written[m].type, Whole(m))
        \/ written[m].id = 0 /\ Swallow(f)
    <3>1. CASE d.id > 0
      <4>1. d.data # << >> /\ Len(d.data) <= MAX_PAYLOAD_SIZE
        BY <2>7, <2>8
      <4>2. Deliver(origin, d.type, d.data)
        BY <2>2, <3>1, <4>1
      <4>3. d.type = written[m].type /\ d.data = Whole(m)
        BY <2>4, <2>6, <2>7
      <4> QED BY <4>2, <4>3
    <3>2. CASE ~(d.id > 0)
      <4>1. written[m].id \in 0..(IdSpace - 1) /\ IdSpace \in Nat
        BY <1>1, WrittenMessage, FragmentsAssumption
      <4>2. written[m].id = 0
        BY <1>1, <2>7, <3>2, <4>1
      <4> QED BY <2>2, <3>2, <4>2
    <3> QED BY <3>1, <3>2
  <2>10. Clear'
    BY <1>8, <2>2
  <2>11. AsmInv' /\ HoldsNone'
    BY <2>10, ClearHoldsNone
  <2> QED BY <2>4, <2>9, <2>11, LastReceived
<1>14. CASE Linux!Drop(f)
  <2>1. /\ f.type \in FragmentTypes /\ ~Linux!IsNewFirst(c, f) /\ ~Linux!IsNext(c, f)
        /\ IF Linux!Mistaken(f) THEN Swallow(f) ELSE Nothing
        /\ cache' = cache
    BY <1>3, <1>4, <1>14, SameNames
       DEF Linux!Drop, Linux!FragmentTypes, FragmentTypes,
           Linux!NETWORK_FIRST_FRAGMENT, Linux!NETWORK_MORE_FRAGMENTS, Linux!NETWORK_LAST_FRAGMENT,
           NETWORK_FIRST_FRAGMENT, NETWORK_MORE_FRAGMENTS, NETWORK_LAST_FRAGMENT
  <2>2. N(m) # 1 /\ Same /\ AsmInv'
    BY <1>2, <1>5, <2>1
  <2>3. CASE q = 0
    <3>1. f.type = NETWORK_FIRST_FRAGMENT
      BY <1>2, <2>2, <2>3
    <3>2. c # Linux!NoFrame /\ c.id = f.id
      BY <2>1, <3>1 DEF Linux!IsNewFirst, Linux!NETWORK_FIRST_FRAGMENT, NETWORK_FIRST_FRAGMENT
    <3>3. PICK j \in 1..(N(m) - 1) : Held(m, j)
      BY <1>4, <3>2, OfItsMessage
    <3>4. MsgOf(c) = m /\ MsgOf(f) = m
      BY <1>1, <1>4, <3>3, HeldBytes, ComesWith
    <3>5. ~Linux!Mistaken(f)
      BY <1>3, <1>4, <3>4 DEF Linux!Mistaken, Linux!MsgOf, MsgOf
    <3>6. Leaves /\ Holds(m)
      BY <1>6, <2>1, <3>3, <3>5 DEF Holds
    <3> QED BY <2>2, <2>3, <3>6 DEF Received
  <2>4. CASE q # 0
    <3>1. f.type # NETWORK_FIRST_FRAGMENT
      BY <1>2, <2>4
    <3>2. Leaves
      BY <1>6, <2>1, <3>1 DEF Linux!Mistaken, Linux!NETWORK_FIRST_FRAGMENT, NETWORK_FIRST_FRAGMENT
    <3>3. ~Held(m, q)
      <4> SUFFICES ASSUME Held(m, q) PROVE FALSE
        OBVIOUS
      <4>1. Len(c.data) + Len(f.data) <= MAX_PAYLOAD_SIZE
        BY <1>4, NextFrame
      <4>2. c # Linux!NoFrame /\ c.id = f.id /\ c.reserved = N(m) - q + 1
        BY <1>1, <1>3, <1>4, HeldBytes
      <4>3. c.reserved = IF f.type = NETWORK_LAST_FRAGMENT THEN 2 ELSE f.reserved + 1
        BY <1>1, <1>2, <2>2, <4>2
      <4> QED BY <2>1, <3>1, <4>1, <4>2, <4>3
              DEF Linux!IsNext, Linux!Fits, Linux!NETWORK_FIRST_FRAGMENT, NETWORK_FIRST_FRAGMENT,
                  Linux!NETWORK_LAST_FRAGMENT, NETWORK_LAST_FRAGMENT
    <3>4. q > 0
      BY <1>1, <2>4
    <3> QED BY <2>2, <3>2, <3>3, <3>4 DEF Received
  <2> QED BY <2>3, <2>4
<1> QED BY <1>9, <1>10, <1>12, <1>13, <1>14 DEF Linux!Enqueue
\* A frame that would overflow frag_queue is one that comes out of order, and there is
\* none if MAX_PAYLOAD_SIZE is a number of whole frames.
LEMMA Overflows ==
  ASSUME NEW f, NEW m, NEW q, Forwarded(f, m, q), build = "mcu", Mcu!TooLong(f)
  PROVE  ~Held(m, q) /\ (Divides => ~Holds(m))
<1>1. /\ Types /\ m \in 1..Len(written) /\ q \in 0..(N(m) - 1) /\ q \in Nat
      /\ MAX_PAYLOAD_SIZE \in Nat /\ Len(f.data) \in Nat
      /\ Len(f.data) = End(m, q) - At(q) /\ End(m, q) \in Nat /\ At(q) \in Nat
  BY ComesWith
<1>2. ~(Len(Assembly.data) + Len(f.data) <= MAX_PAYLOAD_SIZE)
  <2>1. PICK a, b : a = Len(frag_queue.data) /\ b = Len(f.data)
    OBVIOUS
  <2>2. a \in Nat
    BY <2>1 DEF Forwarded, HoldInv, TypeInv, QueueTypes, Fragment
  <2>3. a + b > MAX_PAYLOAD_SIZE
    BY <2>1 DEF Mcu!TooLong
  <2>4. ~(a + b <= MAX_PAYLOAD_SIZE)
    BY <1>1, <2>1, <2>2, <2>3
  <2>5. Len(Assembly.data) = a
    BY <2>1 DEF Assembly
  <2> QED BY <2>1, <2>4, <2>5
<1>3. ~Held(m, q)
  BY <1>2, NextFrame
<1>4. ASSUME Divides, NEW j, Held(m, j) PROVE FALSE
  <2>1. PICK F, M, K : /\ F = max_frame_payload_size /\ M = MAX_PAYLOAD_SIZE /\ K = M \div F
    OBVIOUS
  <2>2. F \in Nat \ {0} /\ M \in Nat /\ M % F = 0
    BY <1>1, <1>4, <2>1, FragmentsAssumption DEF Divides
  <2>3. K \in Nat /\ M = K * F
    BY <2>1, <2>2
  <2>4. M = At(K)
    BY <2>1, <2>3 DEF At
  <2>5. /\ j \in Nat /\ At(j) \in Nat /\ At(j) < M /\ Len(Assembly.data) = At(j)
    <3>1. /\ j \in Nat /\ At(j) \in Nat /\ At(j) < written[m].len
          /\ written[m].len <= MAX_PAYLOAD_SIZE /\ Len(Assembly.data) = At(j)
      BY <1>1, <1>4, HeldBytes
    <3>2. written[m].len \in Nat
      BY <1>1, WrittenMessage
    <3> QED BY <1>1, <2>1, <3>1, <3>2
  <2>6. j + 1 <= K
    <3>1. K <= j => At(K) <= At(j)
      BY <2>3, <2>5, Offsets
    <3> QED BY <2>2, <2>3, <2>4, <2>5, <3>1
  <2>7. At(j + 1) = At(j) + F /\ At(j + 1) <= At(K) /\ At(j + 1) \in Nat
    <3>1. j + 1 \in Nat
      BY <2>5
    <3> QED BY <2>1, <2>3, <2>5, <2>6, <3>1, Offsets
  <2>8. Len(f.data) <= F
    <3>1. N(m) \in Nat \ {0} /\ written[m].len \in Nat \ {0}
      BY <1>1, WrittenMessage
    <3>2. At(q + 1) = At(q) + F /\ F \in Nat
      BY <1>1, <2>1, <2>2, Offsets
    <3>3. CASE q = N(m) - 1
      <4>1. written[m].len <= At(N(m)) /\ End(m, q) = written[m].len /\ N(m) = q + 1
        BY <1>1, <3>1, <3>3, FramesOfMessage DEF N, End
      <4> QED BY <1>1, <3>1, <3>2, <4>1
    <3>4. CASE q # N(m) - 1
      <4>1. End(m, q) = At(q + 1)
        BY <3>4 DEF End
      <4> QED BY <1>1, <3>2, <4>1
    <3> QED BY <3>3, <3>4
  <2> QED BY <1>1, <1>2, <2>1, <2>2, <2>4, <2>5, <2>7, <2>8
<1> QED BY <1>3, <1>4 DEF Holds

\* enqueue() of the microcontroller build.
LEMMA McuReceives ==
  ASSUME NEW f, NEW m, NEW q, Forwarded(f, m, q), Types', build = "mcu", Mcu!Enqueue(f),
         UNCHANGED cache
  PROVE  Received(m, q)
<1>1. /\ Types /\ NumInv /\ MaxMsgs <= IdSpace /\ origin \in Senders
      /\ m \in 1..Len(written) /\ q \in 0..(N(m) - 1) /\ FrameIs(f, origin, m, q)
      /\ q \in Nat /\ N(m) \in Nat \ {0}
      /\ written' = written /\ build' = build /\ restarts' = restarts
      /\ f.from = origin /\ f.id = written[m].id
  BY ComesWith
<1>2. /\ f.type \in FragmentTypes <=> N(m) # 1
      /\ f.type = NETWORK_FIRST_FRAGMENT <=> (N(m) # 1 /\ q = 0)
      /\ f.type = NETWORK_LAST_FRAGMENT <=> (N(m) # 1 /\ q = N(m) - 1)
      /\ N(m) # 1 => f.reserved = IF q = N(m) - 1 THEN written[m].type ELSE N(m) - q
  BY ComesWith
<1>3. PICK c : c = frag_queue
  OBVIOUS
<1>4. Assembly = c /\ Assembly' = frag_queue' /\ build # "linux"
  BY <1>1, <1>3 DEF Assembly
<1>5. ASSUME frag_queue' = frag_queue PROVE Same /\ AsmInv'
  BY <1>5, HeldThen
<1>6. Nothing => Leaves
  BY <1>1, NothingLeaves
<1>7. c \in Fragment /\ c.from = origin /\ c.reserved \in Nat
  BY <1>3, Origin DEF Forwarded, HoldInv, TypeInv, QueueTypes, Fragment
<1>8. \A k : N(k)' = N(k)
  BY <1>1 DEF N
<1>9. ASSUME NEW r PROVE /\ Mcu!Stored(f, r).id = f.id /\ Mcu!Stored(f, r).reserved = r
                         /\ Mcu!Stored(f, r).data = f.data
  BY DEF Mcu!Stored
<1>10. CASE Mcu!EnqueueWhole(f)
  <2>1. /\ f.type \notin FragmentTypes /\ frag_queue' = frag_queue
        /\ Deliver(origin, f.type, f.data) \/ Swallow(f)
    BY <1>1, <1>10, SameNames
       DEF Mcu!EnqueueWhole, Mcu!Push, Mcu!FragmentTypes, FragmentTypes,
           Mcu!NETWORK_FIRST_FRAGMENT, Mcu!NETWORK_MORE_FRAGMENTS, Mcu!NETWORK_LAST_FRAGMENT,
           NETWORK_FIRST_FRAGMENT, NETWORK_MORE_FRAGMENTS, NETWORK_LAST_FRAGMENT
  <2>2. N(m) = 1
    BY <1>2, <2>1
  <2>3. AsmInv' /\ \A k, i : Held(k, i)' => Held(k, i)
    BY <1>5, <2>1 DEF Same
  <2> QED BY <2>1, <2>2, <2>3, WholeReceived
<1>11. CASE Mcu!EnqueueExternal(f)
  <2>1. /\ frag_queue' = Mcu!Stored(f, f.reserved) /\ f.type = EXTERNAL_DATA_TYPE
        /\ Deliver(origin, f.type, f.data)
    BY <1>1, <1>11, SameNames
       DEF Mcu!EnqueueExternal, Mcu!HandOver, Mcu!EXTERNAL_DATA_TYPE, EXTERNAL_DATA_TYPE
  <2>2. N(m) = 1
    <3>1. f.type \notin FragmentTypes
      BY <2>1 DEF EXTERNAL_DATA_TYPE, FragmentTypes, NETWORK_FIRST_FRAGMENT,
                  NETWORK_MORE_FRAGMENTS, NETWORK_LAST_FRAGMENT
    <3> QED BY <1>2, <3>1
  <2>3. frag_queue'.id = written[m].id
    BY <1>1, <1>9, <2>1
  <2>4. Clear'
    BY <1>1, <1>4, <1>8, <2>2, <2>3 DEF Clear
  <2>5. AsmInv' /\ HoldsNone'
    BY <2>4, ClearHoldsNone
  <2> QED BY <2>1, <2>2, <2>5, WholeReceived DEF HoldsNone
<1>12. CASE Mcu!EnqueueFirst(f)
  <2>1. /\ f.type = NETWORK_FIRST_FRAGMENT /\ Nothing
        /\ frag_queue' = Mcu!Stored(f, f.reserved - 1)
    BY <1>12, SameNames DEF Mcu!EnqueueFirst, Mcu!NETWORK_FIRST_FRAGMENT, NETWORK_FIRST_FRAGMENT
  <2>2. N(m) # 1 /\ q = 0 /\ f.reserved = N(m) - 0
    BY <1>1, <1>2, <2>1
  <2>3. f.data = Part(m, 0, At(1))
    <3>1. f.data = Part(m, At(0), End(m, 0))
      BY <1>1, <2>2 DEF FrameIs
    <3>2. At(0) = 0 /\ End(m, 0) = At(1)
      BY <1>1, <2>2, Offsets DEF End
    <3> QED BY <3>1, <3>2
  <2>4. /\ Assembly'.id = f.id /\ Assembly'.data = f.data /\ Assembly'.reserved = f.reserved - 1
    BY <1>4, <1>9, <2>1
  <2>5. Assembly'.reserved = N(m) - 1 + 0 /\ 1 \in 1..(N(m) - 1)
    BY <1>1, <2>2, <2>4
  <2>6. Held(m, 1)' /\ AsmInv'
    BY <1>4, <2>3, <2>4, <2>5, HeldThen
  <2> QED BY <1>6, <2>1, <2>2, <2>6 DEF Received
<1>13. ASSUME Mcu!InOrder(f), f.type \in FragmentTypes, f.type # NETWORK_FIRST_FRAGMENT
       PROVE  N(m) # 1 /\ q > 0 /\ Held(m, q)
  <2>1. /\ c.reserved # 0 /\ c.id = f.id
        /\ f.type = NETWORK_MORE_FRAGMENTS => f.reserved = c.reserved
        /\ f.type = NETWORK_LAST_FRAGMENT => c.reserved = 1
    BY <1>3, <1>13 DEF Mcu!InOrder, Mcu!NETWORK_MORE_FRAGMENTS, NETWORK_MORE_FRAGMENTS,
                       Mcu!NETWORK_LAST_FRAGMENT, NETWORK_LAST_FRAGMENT
  <2>2. N(m) # 1 /\ q > 0
    BY <1>1, <1>2, <1>13
  <2>3. ~Clear
    <3> SUFFICES ASSUME Clear PROVE FALSE
      OBVIOUS
    <3>1. PICK k \in 1..Len(written) : N(k) = 1 /\ c.id = written[k].id
      BY <1>3, <1>4, <2>1 DEF Clear
    <3>2. k = m
      BY <1>1, <2>1, <3>1, IdsDiffer
    <3> QED BY <2>2, <3>1, <3>2
  <2>4. PICK j \in 1..(N(m) - 1) : Held(m, j)
    BY <1>4, <2>1, <2>3, OfItsMessage
  <2>5. c.reserved = N(m) - j + 0 /\ j \in Nat
    BY <1>1, <1>4, <2>4, HeldBytes
  <2>6. j = q
    <3>1. CASE q = N(m) - 1
      <4>1. c.reserved = 1
        BY <1>2, <2>1, <2>2, <3>1
      <4> QED BY <1>1, <2>5, <3>1, <4>1
    <3>2. CASE q # N(m) - 1
      <4>1. f.type = NETWORK_MORE_FRAGMENTS
        BY <1>2, <1>13, <3>2 DEF FragmentTypes
      <4>2. f.reserved = N(m) - q
        BY <1>2, <2>2, <3>2
      <4> QED BY <1>1, <2>1, <2>5, <4>1, <4>2
    <3> QED BY <3>1, <3>2
  <2> QED BY <2>2, <2>4, <2>6
<1>14. CASE Mcu!EnqueueMore(f)
  <2>1. PICK b, d : b = c.data \o f.data /\ d = [ c EXCEPT !.data = b, !.reserved = c.reserved - 1 ]
    OBVIOUS
  <2>2. /\ f.type = NETWORK_MORE_FRAGMENTS /\ Mcu!InOrder(f) /\ Nothing
        /\ frag_queue' = d
    BY <1>3, <1>14, <2>1, SameNames
       DEF Mcu!EnqueueMore, Mcu!NETWORK_MORE_FRAGMENTS, NETWORK_MORE_FRAGMENTS
  <2>3. f.type \in FragmentTypes /\ f.type # NETWORK_LAST_FRAGMENT /\ f.type # NETWORK_FIRST_FRAGMENT
    BY <2>2 DEF FragmentTypes, NETWORK_MORE_FRAGMENTS, NETWORK_LAST_FRAGMENT, NETWORK_FIRST_FRAGMENT
  <2>4. N(m) # 1 /\ q > 0 /\ Held(m, q) /\ q < N(m) - 1
    BY <1>1, <1>2, <1>13, <2>2, <2>3
  <2>5. b = Part(m, 0, At(q + 1)) /\ q + 1 \in 1..(N(m) - 1)
    BY <1>4, <2>1, <2>4, NextFrame
  <2>6. c.reserved = N(m) - q + 0 /\ c.id = f.id
    BY <1>1, <1>4, <2>4, HeldBytes
  <2>7. d.id = f.id /\ d.data = b /\ d.reserved = c.reserved - 1
    BY <1>7, <2>1, <2>6 DEF Fragment
  <2>8. d.reserved = N(m) - (q + 1) + 0
    BY <1>1, <2>6, <2>7
  <2>9. Assembly' = d
    BY <1>4, <2>2
  <2>10. Held(m, q + 1)' /\ AsmInv'
    BY <1>4, <2>5, <2>7, <2>8, <2>9, HeldThen
  <2> QED BY <1>6, <2>2, <2>4, <2>10 DEF Received
<1>15. CASE Mcu!EnqueueLast(f)
  <2>1. PICK b, d : /\ b = c.data \o f.data
                    /\ d = [ c EXCEPT !.data = b, !.reserved = 0, !.type = f.reserved ]
    OBVIOUS
  <2>2. /\ f.type = NETWORK_LAST_FRAGMENT /\ Mcu!InOrder(f)
        /\ frag_queue' = d /\ (Deliver(c.from, f.reserved, b) \/ Swallow(f))
    BY <1>3, <1>15, <2>1, SameNames
       DEF Mcu!EnqueueLast, Mcu!HandOver, Mcu!Push, Mcu!NETWORK_LAST_FRAGMENT, NETWORK_LAST_FRAGMENT
  <2>3. f.type \in FragmentTypes /\ f.type # NETWORK_FIRST_FRAGMENT
    BY <2>2 DEF FragmentTypes, NETWORK_LAST_FRAGMENT, NETWORK_FIRST_FRAGMENT
  <2>4. N(m) # 1 /\ q > 0 /\ Held(m, q) /\ q = N(m) - 1 /\ f.reserved = written[m].type
    BY <1>1, <1>2, <1>13, <2>2, <2>3
  <2>5. b = Whole(m)
    BY <1>4, <2>1, <2>4, NextFrame
  <2>6. Deliver(origin, written[m].type, Whole(m)) \/ Swallow(f)
    BY <1>7, <2>2, <2>4, <2>5
  <2>7. d.reserved = 0
    BY <1>7, <2>1 DEF Fragment
  <2>8. Clear'
    BY <1>1, <1>4, <2>2, <2>7 DEF Clear
  <2>9. AsmInv' /\ HoldsNone'
    BY <2>8, ClearHoldsNone
  <2> QED BY <2>4, <2>6, <2>9, LastReceived
<1>16. CASE Mcu!Drop(f)
  <2>1. /\ f.type \in FragmentTypes /\ f.type # NETWORK_FIRST_FRAGMENT /\ Nothing
        /\ \/ Mcu!TooLong(f) /\ frag_queue' = [ frag_queue EXCEPT !.reserved = 0 ]
           \/ ~Mcu!TooLong(f) /\ ~Mcu!InOrder(f) /\ frag_queue' = frag_queue
    BY <1>16, SameNames
       DEF Mcu!Drop, FragmentTypes,
           Mcu!NETWORK_MORE_FRAGMENTS, Mcu!NETWORK_LAST_FRAGMENT,
           NETWORK_FIRST_FRAGMENT, NETWORK_MORE_FRAGMENTS, NETWORK_LAST_FRAGMENT
  <2>2. N(m) # 1 /\ q > 0 /\ Leaves
    BY <1>1, <1>2, <1>6, <2>1
  <2>3. CASE Mcu!TooLong(f) /\ frag_queue' = [ frag_queue EXCEPT !.reserved = 0 ]
    <3>1. ~Held(m, q) /\ (Divides => ~Holds(m))
      BY <2>3, Overflows
    <3>2. frag_queue'.reserved = 0
      BY <1>3, <1>7, <2>3 DEF Fragment
    <3>3. Clear'
      BY <1>1, <1>4, <3>2 DEF Clear
    <3>4. AsmInv' /\ HoldsNone'
      BY <3>3, ClearHoldsNone
    <3> QED BY <2>2, <3>1, <3>4 DEF Received
  <2>4. CASE ~Mcu!TooLong(f) /\ ~Mcu!InOrder(f) /\ frag_queue' = frag_queue
    <3>1. ~Held(m, q)
      <4> SUFFICES ASSUME Held(m, q) PROVE FALSE
        OBVIOUS
      <4>1. c.reserved = N(m) - q + 0 /\ c.id = f.id
        BY <1>1, <1>4, HeldBytes
      <4>2. c.reserved # 0
        BY <1>1, <4>1
      <4>3. f.type = NETWORK_MORE_FRAGMENTS => f.reserved = c.reserved
        <5>1. f.type = NETWORK_MORE_FRAGMENTS => f.type # NETWORK_LAST_FRAGMENT
          BY DEF NETWORK_MORE_FRAGMENTS, NETWORK_LAST_FRAGMENT
        <5> QED BY <1>1, <1>2, <2>2, <4>1, <5>1
      <4>4. f.type = NETWORK_LAST_FRAGMENT => c.reserved = 1
        BY <1>1, <1>2, <4>1
      <4> QED BY <1>3, <2>4, <4>1, <4>2, <4>3, <4>4
              DEF Mcu!InOrder, Mcu!NETWORK_MORE_FRAGMENTS, NETWORK_MORE_FRAGMENTS,
                  Mcu!NETWORK_LAST_FRAGMENT, NETWORK_LAST_FRAGMENT
    <3>2. Same /\ AsmInv'
      BY <1>5, <2>4
    <3> QED BY <2>2, <3>1, <3>2 DEF Received
  <2> QED BY <2>1, <2>3, <2>4
<1> QED BY <1>10, <1>11, <1>12, <1>14, <1>15, <1>16 DEF Mcu!Enqueue
-----------------------------------------------------------------------------
(***************************************************************************)
(* Why there is no message too many: frames come in the order in which     *)
(* they were sent, and one of a call for which the destination has its     *)
(* copy finds nothing that it could go on with.                            *)
(***************************************************************************)
First(x) == Head(x.frame.data)[2]

\* Frame x was sent before y.  Only a fragment is sent twice in one call.
Before(x, y) ==
  LET m == MsgOf(x.frame)  n == MsgOf(y.frame)
  IN  \/ m < n
      \/ m = n /\ x.call < y.call
      \/ m = n /\ x.call = y.call /\ First(x) <= First(y) /\ N(m) # 1
Ordered == \A i, j \in DOMAIN atRouter : i < j => Before(atRouter[i], atRouter[j])

\* The present message, its call of write(), and where main_write() is in it.
IsSending == job[origin].phase = "sending"
Present   == job[origin].msg
Call      == attempts[job[origin].msg]
Position  == At(job[origin].msgCount) + 1

PresentInv ==
  IsSending => \A x \in Pending :
                 MsgOf(x.frame) = Present /\ x.call = Call =>
                   First(x) <= Position /\ (N(Present) = 1 => waiting)

\* A frame of message m, sent in call c, that begins at byte p may yet complete a copy.
May(m, c, p) == Copies(m) < c \/ (p > 1 /\ ~Holds(m))
CopiesInv    == /\ \A m \in 1..Len(written) : Copies(m) <= attempts[m]
                /\ \A i \in DOMAIN delivered : delivered[i].msg \in 1..Len(written)
PendingMay   == \A x \in Pending : May(MsgOf(x.frame), x.call, First(x))
PresentMay   == IsSending /\ (N(Present) = 1 => ~waiting) => May(Present, Call, Position)

RouteInv == HoldInv /\ Ordered /\ PresentInv /\ CopiesInv /\ PendingMay /\ PresentMay

\* The facts about a frame at the router.
LEMMA AtTheRouter ==
  ASSUME TypeInv, NEW x \in Pending, NEW m, m = MsgOf(x.frame)
  PROVE  /\ x \in Sent /\ FrameInv(x) /\ Types
         /\ m \in 1..Len(written) /\ m \in Msg /\ m \in Nat /\ m # 0
         /\ written[m].len <= MAX_PAYLOAD_SIZE /\ N(m) \in Nat \ {0}
         /\ x.call \in Nat /\ x.call >= 1 /\ x.call <= attempts[m] /\ attempts[m] \in Nat
         /\ First(x) \in Nat /\ First(x) >= 1
         /\ \E q \in 0..(N(m) - 1) : FrameIs(x.frame, origin, m, q) /\ First(x) = At(q) + 1
<1>1. x \in Sent /\ FrameInv(x) /\ Types
  BY DEF TypeInv, SenderInv, FifoTypes, Pending
<1>2. /\ m \in 1..Len(written) /\ m \in Msg /\ m \in Nat /\ m # 0
      /\ written[m].len <= MAX_PAYLOAD_SIZE /\ N(m) \in Nat \ {0}
      /\ x.call \in Nat /\ x.call >= 1 /\ x.call <= attempts[m] /\ attempts[m] \in Nat
      /\ \E q \in 0..(N(m) - 1) : FrameIs(x.frame, origin, m, q)
  BY <1>1, FrameKnown
<1>3. PICK q \in 0..(N(m) - 1) : FrameIs(x.frame, origin, m, q)
  BY <1>2
<1>4. Head(x.frame.data) = << m, At(q) + 1 >>
  BY <1>1, <1>2, <1>3, FrameStarts
<1>5. First(x) = At(q) + 1
  BY <1>4 DEF First
<1>6. At(q) \in Nat
  <2>1. q \in Nat
    BY <1>2, <1>3
  <2> QED BY <2>1, Offsets
<1> QED BY <1>1, <1>2, <1>3, <1>5, <1>6

\* The numbers of the present message.
LEMMA AtTheOrigin ==
  ASSUME TypeInv, IsSending
  PROVE  /\ Types /\ JobInv(origin) /\ origin \in Senders
         /\ Present = Len(written) /\ Present \in 1..Len(written) /\ Present \in Nat /\ Present # 0
         /\ Present \in Msg /\ Call \in Nat /\ Call >= 1
         /\ N(Present) \in Nat \ {0}
         /\ job[origin].msgCount \in 0..(N(Present) - 1) /\ job[origin].msgCount \in Nat
         /\ Position \in Nat /\ Position >= 1
<1>1. Types /\ JobInv(origin) /\ origin \in Senders /\ SenderInv
  BY Origin DEF TypeInv, SenderInv
<1>2. Present # 0
  BY <1>1 DEF JobInv, IsSending, Present
<1>3. Present = Len(written) /\ Present \in 1..Len(written) /\ Present \in Msg
  BY <1>1, <1>2, PresentMessage DEF Present
<1>4. N(Present) \in Nat \ {0} /\ Present \in Nat
  BY <1>1, <1>3, WrittenMessage
<1>5. Call \in Nat /\ Call >= 1
  BY <1>1, <1>3 DEF Types, TypeInv, CountersInv, Call, Present
<1>6. job[origin].msgCount \in 0..(N(Present) - 1) /\ job[origin].msgCount \in Nat
  <2>1. /\ job[origin].fragment_id \in 1..N(Present)
        /\ job[origin].msgCount = N(Present) - job[origin].fragment_id
    BY <1>1 DEF JobInv, IsSending, Present
  <2> QED BY <1>4, <2>1
<1>7. Position \in Nat /\ Position >= 1
  <2>1. At(job[origin].msgCount) \in Nat
    BY <1>6, Offsets
  <2> QED BY <2>1 DEF Position
<1> QED BY <1>1, <1>2, <1>3, <1>4, <1>5, <1>6, <1>7

\* What a step of the origin leaves as it was.
LEMMA OriginLeaves ==
  ASSUME RouteInv, TypeInv', Grows, UNCHANGED << cache, frag_queue, delivered, build >>
  PROVE  /\ \A k \in 1..Len(written) : N(k)' = N(k) /\ (Holds(k)' <=> Holds(k))
         /\ \A k : Copies(k)' = Copies(k)
         /\ \A k \in 1..Len(written) : \A c, p : May(k, c, p)' <=> May(k, c, p)
         /\ \A x \in Pending : \A y : Before(x, y)' <=> Before(x, y)
         /\ \A x \in Pending : May(MsgOf(x.frame), x.call, First(x))'
         /\ \A k \in 1..Len(written) : Copies(k)' <= attempts'[k]
         /\ \A i \in DOMAIN delivered' : delivered'[i].msg \in 1..Len(written)'
         /\ AsmInv'
<1>1. UNCHANGED << build, cache, frag_queue, delivered >>
  OBVIOUS
<1>2. Types /\ Types' /\ TypeInv
  BY DEF RouteInv, HoldInv, TypeInv, SenderInv
<1>3. \A k \in 1..Len(written) :
        k \in 1..Len(written)' /\ written'[k] = written[k] /\ attempts[k] <= attempts'[k]
  BY DEF Grows
<1>4. \A k \in 1..Len(written) :
        /\ N(k)' = N(k) /\ (Holds(k)' <=> Holds(k))
  BY <1>1, <1>3, HeldKept
<1>5. \A k : Copies(k)' = Copies(k)
  BY <1>1 DEF Copies, Places
<1>6. \A k \in 1..Len(written) : \A c, p : May(k, c, p)' <=> May(k, c, p)
  BY <1>4, <1>5 DEF May
<1>7. \A x \in Pending : MsgOf(x.frame) \in 1..Len(written)
  BY <1>2, AtTheRouter
<1>8. \A x \in Pending : \A y : Before(x, y)' <=> Before(x, y)
  BY <1>4, <1>7 DEF Before
<1>9. \A x \in Pending : May(MsgOf(x.frame), x.call, First(x))'
  <2>1. \A x \in Pending : May(MsgOf(x.frame), x.call, First(x))
    BY DEF RouteInv, PendingMay
  <2> QED BY <1>6, <1>7, <2>1
<1>10. ASSUME NEW k \in 1..Len(written) PROVE Copies(k)' <= attempts'[k]
  <2>1. k \in Msg
    BY <1>2, WrittenMessage
  <2>2. Copies(k) \in Nat
    BY <1>2, PlacesFinite DEF Types
  <2>3. attempts[k] \in Nat /\ attempts'[k] \in Nat /\ Copies(k) <= attempts[k]
    BY <1>2, <2>1 DEF Types, RouteInv, CopiesInv
  <2> QED BY <1>3, <1>5, <2>2, <2>3
<1>11. \A i \in DOMAIN delivered' : delivered'[i].msg \in 1..Len(written)'
  BY <1>1, <1>3 DEF RouteInv, CopiesInv
<1>12. AsmInv'
  <2>1. CASE \E k \in 1..Len(written) : Holds(k)
    BY <1>3, <1>4, <2>1 DEF AsmInv
  <2>2. CASE Clear
    <3>1. Clear'
      BY <1>1, <1>3, <1>4, <2>2 DEF Clear
    <3> QED BY <3>1 DEF AsmInv
  <2> QED BY <2>1, <2>2 DEF RouteInv, HoldInv, AsmInv
<1> QED BY <1>4, <1>5, <1>6, <1>8, <1>9, <1>10, <1>11, <1>12
\* The ids after a step that writes nothing.
LEMMA NumsStay ==
  ASSUME NumInv, written' = written, next_id' = next_id
  PROVE  NumInv'
BY DEF NumInv

\* The order after a step of the origin that sends nothing.
LEMMA OrderStays ==
  ASSUME RouteInv, TypeInv', Grows, UNCHANGED << cache, frag_queue, delivered, build >>, atRouter' = atRouter
  PROVE  Pending' = Pending /\ Ordered' /\ PendingMay'
<1>1. Pending' = Pending
  BY DEF Pending
<1>2. PendingMay'
  BY <1>1, OriginLeaves DEF PendingMay
<1>3. Ordered'
  <2> SUFFICES ASSUME NEW i \in DOMAIN atRouter, NEW j \in DOMAIN atRouter, i < j
               PROVE  Before(atRouter[i], atRouter[j])'
    BY DEF Ordered
  <2>1. PICK x, y : x = atRouter[i] /\ y = atRouter[j]
    OBVIOUS
  <2>2. x \in Pending /\ Before(x, y)
    BY <2>1 DEF Pending, RouteInv, Ordered
  <2>3. Before(x, y)'
    BY <2>2, OriginLeaves
  <2>4. atRouter'[i] = x /\ atRouter'[j] = y
    BY <2>1
  <2> QED BY <2>3, <2>4 DEF Before, MsgOf, First
<1> QED BY <1>1, <1>2, <1>3

\* A message is written.
LEMMA RouteWrite ==
  ASSUME RouteInv, NEW len \in Lens, NEW type \in MsgTypes, AppWrite(len, type)
  PROVE  RouteInv'
<1>1. TypeInv' /\ Grows /\ TypeInv /\ Types /\ origin \in Senders
  BY TypeWrite, Origin DEF RouteInv, HoldInv, TypeInv, SenderInv
<1>2. /\ Write(origin, len, type)
      /\ UNCHANGED << receiver, build, atRouter >>
  BY DEF AppWrite
<1>3. PICK m : m = Len(written) + 1
  OBVIOUS
<1>4. /\ Len(written) \in Nat /\ Len(written)' = m /\ m \in Msg
      /\ \A k \in 1..Len(written) : written'[k] = written[k]
      /\ written'[m].id = next_id[origin]
  BY <1>1, <1>2, <1>3, WriteAppends
<1>5. NumInv'
  <2>1. NumInv
    BY DEF RouteInv, HoldInv
  <2>2. next_id' = [ next_id EXCEPT ![origin] = (@ + 1) % IdSpace ] /\ next_id \in [ Senders -> 0..(IdSpace - 1) ]
    BY <1>1, <1>2 DEF Write, Types
  <2>3. next_id[origin] = Id(m)
    BY <1>3, <2>1 DEF NumInv
  <2>4. next_id'[origin] = Id(m + 1)
    <3>1. next_id'[origin] = (next_id[origin] + 1) % IdSpace
      BY <1>1, <2>2
    <3>2. m \in Nat
      BY <1>3, <1>4
    <3> QED BY <2>3, <3>1, <3>2, Ids
  <2>5. \A k \in 1..m : k \in 1..Len(written) \/ k = m
    BY <1>3, <1>4
  <2> QED BY <1>4, <2>1, <2>3, <2>4, <2>5 DEF NumInv
<1>6. /\ Pending' = Pending /\ Ordered' /\ PendingMay' /\ AsmInv'
      /\ \A k \in 1..Len(written) : Copies(k)' <= attempts'[k]
      /\ \A i \in DOMAIN delivered' : delivered'[i].msg \in 1..Len(written)'
      /\ \A k : Copies(k)' = Copies(k)
  BY <1>1, <1>2, OrderStays, OriginLeaves DEF receiver
<1>7. Copies(m) = 0
  <2>1. \A i \in DOMAIN delivered : delivered[i].msg # m
    BY <1>3, <1>4 DEF RouteInv, CopiesInv
  <2>2. Places(m) = {}
    BY <2>1 DEF Places
  <2> QED BY <2>2, FS_EmptySet DEF Copies
<1>8. attempts'[m] = 1
  BY <1>1, <1>2, <1>3, <1>4 DEF Write, Types
<1>9. job'[origin].msg = m
  BY <1>1, <1>2, <1>3, WriteJobs
<1>10. CopiesInv'
  <2>1. \A k \in 1..m : k \in 1..Len(written) \/ k = m
    BY <1>3, <1>4
  <2>2. Copies(m)' <= attempts'[m]
    BY <1>6, <1>7, <1>8
  <2> QED BY <1>4, <1>6, <2>1, <2>2 DEF CopiesInv
<1>11. PresentInv'
  <2>1. Present' = m
    BY <1>9 DEF Present
  <2>2. \A x \in Pending : MsgOf(x.frame) # m
    <3>1. \A x \in Pending : MsgOf(x.frame) \in 1..Len(written)
      BY <1>1, AtTheRouter
    <3> QED BY <1>3, <1>4, <3>1
  <2> QED BY <1>6, <2>1, <2>2 DEF PresentInv
<1>12. PresentMay'
  <2>1. Copies(m)' < attempts'[m]
    BY <1>6, <1>7, <1>8
  <2>2. Present' = m /\ Call' = attempts'[m]
    BY <1>9 DEF Present, Call
  <2>3. May(Present, Call, Position)' <=> (Copies(m)' < Call' \/ (Position' > 1 /\ ~Holds(m)'))
    BY <2>2 DEF May, Copies, Places, Holds, Held, N, Part, Whole
  <2> QED BY <2>1, <2>2, <2>3 DEF PresentMay
<1> QED BY <1>1, <1>5, <1>6, <1>10, <1>11, <1>12 DEF RouteInv, HoldInv

\* A message is written again.
LEMMA RouteRetry ==
  ASSUME RouteInv, AppRetry
  PROVE  RouteInv'
<1>1. TypeInv' /\ Grows /\ TypeInv /\ Types /\ origin \in Senders /\ JobInv(origin) /\ SenderInv
  BY TypeRetry, Origin DEF RouteInv, HoldInv, TypeInv, SenderInv
<1>2. PICK m : m = job[origin].msg
  OBVIOUS
<1>3. /\ job[origin].phase = "failed"
      /\ job' = [ job EXCEPT ![origin] = Begin(m, written[m].len) ]
      /\ attempts' = [ attempts EXCEPT ![m] = @ + 1 ]
      /\ UNCHANGED << next_id, written, cache, frag_queue, delivered, build, atRouter >>
  BY <1>2 DEF AppRetry, Retry, Forget
<1>4. m \in 1..Len(written) /\ m \in Msg
  <2>1. m # 0
    BY <1>1, <1>2, <1>3 DEF JobInv
  <2> QED BY <1>1, <1>2, <2>1, PresentMessage
<1>5. /\ Pending' = Pending /\ Ordered' /\ PendingMay' /\ AsmInv'
      /\ \A k \in 1..Len(written) : Copies(k)' <= attempts'[k]
      /\ \A i \in DOMAIN delivered' : delivered'[i].msg \in 1..Len(written)'
      /\ \A k : Copies(k)' = Copies(k)
  BY <1>1, <1>3, OrderStays, OriginLeaves
<1>6. NumInv' /\ CopiesInv'
  BY <1>3, <1>5, NumsStay DEF RouteInv, HoldInv, CopiesInv
<1>7. attempts[m] \in Nat /\ attempts'[m] = attempts[m] + 1
  BY <1>1, <1>3, <1>4 DEF Types
<1>8. Present' = m /\ Call' = attempts'[m]
  <2>1. job'[origin].msg = m
    BY <1>1, <1>3 DEF Types, Begin
  <2> QED BY <2>1 DEF Present, Call
<1>9. PresentInv'
  <2>1. ASSUME NEW x \in Pending, MsgOf(x.frame) = m PROVE x.call # attempts[m] + 1
    BY <1>1, <1>7, <2>1, AtTheRouter
  <2> QED BY <1>5, <1>7, <1>8, <2>1 DEF PresentInv
<1>10. PresentMay'
  <2>1. Copies(m) \in Nat /\ Copies(m) <= attempts[m]
    BY <1>1, <1>4, PlacesFinite DEF RouteInv, CopiesInv, Types
  <2>2. Copies(m)' < Call'
    BY <1>5, <1>7, <1>8, <2>1
  <2>3. May(Present, Call, Position)' <=> (Copies(m)' < Call' \/ (Position' > 1 /\ ~Holds(m)'))
    BY <1>8 DEF May, Copies, Places, Holds, Held, N, Part, Whole
  <2> QED BY <2>2, <2>3 DEF PresentMay
<1> QED BY <1>1, <1>5, <1>6, <1>9, <1>10 DEF RouteInv, HoldInv
\* main_write() goes on: not with a message of one frame, and never back.
LEMMA Progresses ==
  ASSUME TypeInv, NEW o, SendFrame(origin, o)
  PROVE  /\ IsSending /\ UNCHANGED << next_id, written, attempts >>
         /\ IsSending' => /\ N(Present) # 1 /\ N(Present)' = N(Present)
                          /\ Present' = Present /\ Call' = Call /\ Position' >= Position
                          /\ job'[origin].msgCount \in { job[origin].msgCount, job[origin].msgCount + 1 }
                          /\ o \notin Believed => job'[origin].msgCount = job[origin].msgCount
<1>1. Types /\ JobInv(origin) /\ origin \in Senders
  BY Origin DEF TypeInv, SenderInv
<1>2. PICK m, q : m = Present /\ q = job[origin].msgCount
  OBVIOUS
<1>3. IsSending /\ JobAfter(origin, m, q, o) /\ UNCHANGED << next_id, written, attempts >>
  BY <1>1, <1>2, SendStep DEF IsSending, Present
<1>4. N(m) \in Nat \ {0} /\ q \in 0..(N(m) - 1) /\ q \in Nat
  BY <1>2, <1>3, AtTheOrigin
<1>5. ASSUME IsSending'
      PROVE  /\ N(m) # 1 /\ job'[origin].msgCount \in { q, q + 1 }
             /\ o \notin Believed => job'[origin].msgCount = q
  BY <1>3, <1>4, <1>5 DEF JobAfter, IsSending
<1>6. job'[origin].msg = m
  BY <1>3 DEF JobAfter
<1>7. Present' = m /\ Call' = Call /\ N(m)' = N(m)
  BY <1>2, <1>3, <1>6 DEF Present, Call, N
<1>8. ASSUME IsSending' PROVE Position' >= Position
  <2>1. PICK p : p = job'[origin].msgCount
    OBVIOUS
  <2>2. p \in { q, q + 1 }
    BY <1>5, <1>8, <2>1
  <2>3. p \in Nat /\ q <= p
    BY <1>4, <2>2
  <2>4. At(q) <= At(p) /\ At(q) \in Nat /\ At(p) \in Nat
    BY <1>4, <2>3, Offsets
  <2>5. Position = At(q) + 1 /\ Position' = At(p) + 1
    BY <1>2, <2>1 DEF Position, At
  <2> QED BY <2>4, <2>5
<1>9. N(Present)' = N(m)'
  BY <1>2, <1>7 DEF N
<1> QED BY <1>2, <1>3, <1>5, <1>7, <1>8, <1>9

\* What main_write() may yet send, after a step of its loop.
LEMMA MayStill ==
  ASSUME RouteInv, TypeInv', Grows, UNCHANGED << receiver, build >>, NEW o, SendFrame(origin, o),
         May(Present, Call, Position)
  PROVE  PresentMay'
<1> SUFFICES ASSUME IsSending' PROVE May(Present, Call, Position)'
  BY DEF PresentMay
<1>1. TypeInv
  BY DEF RouteInv, HoldInv
<1>2. IsSending /\ Present' = Present /\ Call' = Call /\ Position' >= Position
  BY <1>1, Progresses
<1>3. PICK m, c, p, r : m = Present /\ c = Call /\ p = Position /\ r = Position'
  OBVIOUS
<1>4. m \in 1..Len(written) /\ p \in Nat
  BY <1>1, <1>2, <1>3, AtTheOrigin
<1>5. May(m, c, p) => May(m, c, r)
  <2>1. r \in Nat
    <3>1. PICK q : q = job'[origin].msgCount
      OBVIOUS
    <3>2. q \in Nat
      <4>1. job' \in [ Senders -> Job ]
        BY DEF TypeInv, SenderInv, Types
      <4> QED BY <3>1, <4>1, Origin DEF Job
    <3>3. At(q) \in Nat
      BY <3>2, Offsets
    <3>4. r = At(q) + 1
      BY <1>3, <3>1 DEF Position, At
    <3> QED BY <3>3, <3>4
  <2> QED BY <1>2, <1>3, <1>4, <2>1 DEF May
<1>6. May(m, c, r)'
  BY <1>3, <1>4, <1>5, OriginLeaves DEF receiver
<1>7. Present' = m /\ Call' = c /\ Position' = r
  BY <1>2, <1>3
<1> QED BY <1>6, <1>7 DEF May, Copies, Places, Holds, Held, N, Part, Whole

\* A wait ends.
LEMMA RouteWait ==
  ASSUME RouteInv, TakeAnswer \/ Timeout
  PROVE  RouteInv'
<1>1. TypeInv' /\ Grows /\ TypeInv
  BY TypeWait DEF RouteInv, HoldInv
<1>2. PICK o : SendFrame(origin, o)
  BY DEF TakeAnswer, Timeout
<1>3. UNCHANGED << receiver, build, atRouter >> /\ waiting
  BY DEF TakeAnswer, Timeout
<1>4. /\ IsSending /\ UNCHANGED << next_id, written, attempts >>
      /\ IsSending' => /\ N(Present) # 1 /\ N(Present)' = N(Present)
                       /\ Present' = Present /\ Call' = Call /\ Position' >= Position
  BY <1>1, <1>2, Progresses
<1>5. /\ Pending' = Pending /\ Ordered' /\ PendingMay' /\ AsmInv'
      /\ \A k \in 1..Len(written) : Copies(k)' <= attempts'[k]
      /\ \A i \in DOMAIN delivered' : delivered'[i].msg \in 1..Len(written)'
  BY <1>1, <1>3, OrderStays, OriginLeaves DEF receiver
<1>6. NumInv' /\ CopiesInv'
  BY <1>4, <1>5, NumsStay DEF RouteInv, HoldInv, CopiesInv
<1>7. PresentInv'
  <2> SUFFICES ASSUME IsSending', NEW x \in Pending, MsgOf(x.frame) = Present, x.call = Call
               PROVE  First(x) <= Position'
    BY <1>4, <1>5 DEF PresentInv
  <2>1. First(x) <= Position /\ First(x) \in Nat
    BY <1>1, <1>4, AtTheRouter DEF RouteInv, PresentInv
  <2>2. Position \in Nat /\ Position' \in Int
    <3>1. job' \in [ Senders -> Job ]
      BY <1>1 DEF TypeInv, SenderInv, Types
    <3>2. PICK q : q = job'[origin].msgCount
      OBVIOUS
    <3>3. q \in Nat
      BY <3>1, <3>2, Origin DEF Job
    <3>4. At(q) \in Nat /\ Position' = At(q) + 1
      BY <3>2, <3>3, Offsets DEF Position, At
    <3> QED BY <1>1, <1>4, <3>4, AtTheOrigin
  <2> QED BY <1>4, <2>1, <2>2
<1>8. PresentMay'
  <2>1. CASE N(Present) = 1
    BY <1>4, <2>1 DEF PresentMay
  <2>2. CASE N(Present) # 1
    <3>1. May(Present, Call, Position)
      BY <1>4, <2>2 DEF RouteInv, PresentMay
    <3> QED BY <1>1, <1>2, <1>3, <3>1, MayStill
  <2> QED BY <2>1, <2>2
<1> QED BY <1>1, <1>5, <1>6, <1>7, <1>8 DEF RouteInv, HoldInv

\* An answer is dropped, or nothing happens.
LEMMA RouteIdle ==
  ASSUME RouteInv, TypeInv', Grows, UNCHANGED << senderVars, receiver, build, atRouter, waiting >>
  PROVE  RouteInv'
<1>1. TypeInv /\ UNCHANGED << next_id, job, written, attempts >>
  BY DEF RouteInv, HoldInv, senderVars
<1>2. /\ Pending' = Pending /\ Ordered' /\ PendingMay' /\ AsmInv'
      /\ \A k \in 1..Len(written) : Copies(k)' <= attempts'[k]
      /\ \A i \in DOMAIN delivered' : delivered'[i].msg \in 1..Len(written)'
  BY OrderStays, OriginLeaves DEF receiver
<1>3. NumInv' /\ CopiesInv'
  BY <1>1, <1>2, NumsStay DEF RouteInv, HoldInv, CopiesInv
<1>4. /\ IsSending' <=> IsSending
      /\ Present' = Present /\ Call' = Call /\ Position' = Position /\ N(Present)' = N(Present)
  BY <1>1 DEF IsSending, Present, Call, Position, N, At
<1>5. PresentInv'
  BY <1>2, <1>4 DEF PresentInv, RouteInv
<1>6. PresentMay'
  <2> SUFFICES ASSUME IsSending, N(Present) = 1 => ~waiting PROVE May(Present, Call, Position)'
    BY <1>4 DEF PresentMay
  <2>1. PICK m, c, p : m = Present /\ c = Call /\ p = Position
    OBVIOUS
  <2>2. May(m, c, p) /\ m \in 1..Len(written)
    BY <1>1, <2>1, AtTheOrigin DEF RouteInv, PresentMay
  <2>3. May(m, c, p)'
    BY <2>2, OriginLeaves DEF receiver
  <2>4. Present' = m /\ Call' = c /\ Position' = p
    BY <1>4, <2>1
  <2> QED BY <2>3, <2>4 DEF May, Copies, Places, Holds, Held, N, Part, Whole
<1> QED BY <1>2, <1>3, <1>5, <1>6 DEF RouteInv, HoldInv
\* The order with one more frame behind.
LEMMA OrderGrows ==
  ASSUME RouteInv, TypeInv', Grows, UNCHANGED << receiver, build >>,
         NEW y \in Sent, atRouter' = Append(atRouter, y), MsgOf(y.frame) \in 1..Len(written),
         \A x \in Pending : Before(x, y), May(MsgOf(y.frame), y.call, First(y))
  PROVE  Pending' = Pending \cup { y } /\ Ordered' /\ PendingMay'
<1>1. atRouter \in Seq(Sent)
  BY DEF RouteInv, HoldInv, TypeInv, FifoTypes
<1>2. Pending' = Pending \cup { y }
  BY <1>1, PendingAppend
<1>3. PendingMay'
  <2>1. May(MsgOf(y.frame), y.call, First(y))'
    <3>1. PICK m, c, p : m = MsgOf(y.frame) /\ c = y.call /\ p = First(y)
      OBVIOUS
    <3>2. May(m, c, p)'
      BY <3>1, OriginLeaves DEF receiver
    <3> QED BY <3>1, <3>2 DEF First, MsgOf
  <2>2. \A x \in Pending : May(MsgOf(x.frame), x.call, First(x))'
    BY OriginLeaves DEF receiver
  <2> QED BY <1>2, <2>1, <2>2 DEF PendingMay
<1>4. PICK l : l = Len(atRouter)
  OBVIOUS
<1>5. /\ l \in Nat /\ DOMAIN atRouter = 1..l /\ DOMAIN atRouter' = 1..(l + 1)
      /\ \A i \in 1..l : atRouter'[i] = atRouter[i]
      /\ atRouter'[l + 1] = y
  BY <1>1, <1>4
<1>6. Ordered'
  <2> SUFFICES ASSUME NEW i \in 1..(l + 1), NEW j \in 1..(l + 1), i < j
               PROVE  Before(atRouter[i], atRouter[j])'
    BY <1>5 DEF Ordered
  <2>1. i \in 1..l
    BY <1>5
  <2>2. PICK x, z : x = atRouter[i] /\ z = atRouter'[j]
    OBVIOUS
  <2>3. x \in Pending
    BY <1>5, <2>1, <2>2 DEF Pending
  <2>4. Before(x, z)
    <3>1. CASE j = l + 1
      BY <1>5, <2>2, <2>3, <3>1
    <3>2. CASE j # l + 1
      <4>1. j \in 1..l
        BY <1>5, <3>2
      <4> QED BY <1>5, <2>1, <2>2, <4>1 DEF RouteInv, Ordered
    <3> QED BY <3>1, <3>2
  <2>5. Before(x, z)'
    BY <2>3, <2>4, OriginLeaves DEF receiver
  <2>6. atRouter'[i] = x
    BY <1>5, <2>1, <2>2
  <2> QED BY <2>2, <2>5, <2>6 DEF Before, MsgOf, First
<1> QED BY <1>2, <1>3, <1>6

\* A frame is sent: it is the last one.
LEMMA SentLast ==
  ASSUME RouteInv, IsSending, ~waiting, NEW garbage \in Mcu!Garbage,
         NEW y, y = Sending(Frame(origin, garbage))
  PROVE  /\ y \in Sent /\ MsgOf(y.frame) = Present /\ y.call = Call /\ First(y) = Position
         /\ FrameIs(y.frame, origin, Present, job[origin].msgCount)
         /\ y.frame = Frame(origin, garbage)
         /\ \A x \in Pending : Before(x, y)
         /\ May(Present, Call, Position)
         /\ Head(y.frame.data) = << Present, Position >>
<1>1. TypeInv /\ SenderInv /\ CountersInv /\ Types
  BY DEF RouteInv, HoldInv, TypeInv, SenderInv
<1>2. /\ y \in Sent /\ MsgOf(y.frame) = Present /\ y.call = Call
      /\ FrameIs(y.frame, origin, Present, job[origin].msgCount)
      /\ y.frame = Frame(origin, garbage)
  BY <1>1, SentFrame DEF IsSending, Present, Call
<1>3. /\ Present \in 1..Len(written) /\ Present \in Nat /\ Present = Len(written)
      /\ job[origin].msgCount \in 0..(N(Present) - 1) /\ Call \in Nat /\ Position \in Nat
  BY <1>1, AtTheOrigin
<1>4. Head(y.frame.data) = << Present, Position >>
  BY <1>1, <1>2, <1>3, FrameStarts DEF Position
<1>5. First(y) = Position
  BY <1>4 DEF First
<1>6. May(Present, Call, Position)
  BY DEF RouteInv, PresentMay
<1>7. ASSUME NEW x \in Pending PROVE Before(x, y)
  <2>1. PICK m : m = MsgOf(x.frame)
    OBVIOUS
  <2>2. /\ m \in 1..Len(written) /\ x.call \in Nat /\ x.call <= attempts[m] /\ First(x) \in Nat
    BY <1>1, <2>1, AtTheRouter
  <2>3. m < Present \/ m = Present
    BY <1>3, <2>2
  <2>4. CASE m < Present
    BY <1>2, <2>1, <2>4 DEF Before
  <2>5. CASE m = Present
    <3>1. x.call <= Call
      BY <2>2, <2>5 DEF Call, Present
    <3>2. CASE x.call < Call
      BY <1>2, <2>1, <2>5, <3>2 DEF Before
    <3>3. CASE x.call = Call
      <4>1. First(x) <= Position /\ N(Present) # 1
        BY <2>1, <2>5, <3>3 DEF RouteInv, PresentInv
      <4> QED BY <1>2, <1>5, <2>1, <2>5, <3>3, <4>1 DEF Before
    <3> QED BY <1>3, <2>2, <3>1, <3>2, <3>3
  <2> QED BY <2>3, <2>4, <2>5
<1> QED BY <1>2, <1>4, <1>5, <1>6, <1>7

LEMMA RouteSend ==
  ASSUME RouteInv, NEW o \in Outcomes, NEW garbage \in Mcu!Garbage, SendHop(o, garbage)
  PROVE  RouteInv'
<1>1. TypeInv' /\ Grows /\ TypeInv
  BY TypeSend DEF RouteInv, HoldInv
<1>2. PICK y : y = Sending(Frame(origin, garbage))
  OBVIOUS
<1>3. /\ IsSending /\ ~waiting
      /\ atRouter' = Append(atRouter, y) \/ atRouter' = atRouter
      /\ UNCHANGED << receiver, build >>
      /\ \/ waiting' = TRUE /\ UNCHANGED senderVars
         \/ (\E p : SendFrame(origin, p)) /\ waiting' = waiting
  BY <1>2 DEF SendHop, IsSending
<1>4. /\ y \in Sent /\ MsgOf(y.frame) = Present /\ y.call = Call /\ First(y) = Position
      /\ \A x \in Pending : Before(x, y)
      /\ May(Present, Call, Position)
  BY <1>2, <1>3, SentLast
<1>5. /\ Present \in 1..Len(written) /\ Present \in Nat /\ Position \in Nat
  BY <1>1, <1>3, AtTheOrigin
<1>6. (\A x \in Pending' : x \in Pending \/ x = y) /\ Ordered' /\ PendingMay'
  <2>1. CASE atRouter' = Append(atRouter, y)
    BY <1>1, <1>3, <1>4, <1>5, <2>1, OrderGrows
  <2>2. CASE atRouter' = atRouter
    BY <1>1, <1>3, <2>2, OrderStays DEF receiver
  <2> QED BY <1>3, <2>1, <2>2
<1>7. /\ AsmInv' /\ \A k \in 1..Len(written) : Copies(k)' <= attempts'[k]
      /\ \A i \in DOMAIN delivered' : delivered'[i].msg \in 1..Len(written)'
  BY <1>1, <1>3, OriginLeaves DEF receiver
<1>8. \A x \in Pending' : MsgOf(x.frame) = Present /\ x.call = Call => First(x) <= Position
  BY <1>3, <1>4, <1>5, <1>6 DEF RouteInv, PresentInv
<1>9. CASE waiting' = TRUE /\ UNCHANGED senderVars
  <2>1. UNCHANGED << next_id, job, written, attempts >>
    BY <1>9 DEF senderVars
  <2>2. NumInv' /\ CopiesInv'
    BY <1>7, <2>1, NumsStay DEF RouteInv, HoldInv, CopiesInv
  <2>3. Present' = Present /\ Call' = Call /\ Position' = Position /\ N(Present)' = N(Present)
    BY <2>1 DEF Present, Call, Position, N, At
  <2>4. PresentInv'
    BY <1>8, <1>9, <2>3 DEF PresentInv
  <2>5. PresentMay'
    <3>1. PICK m, c, p : m = Present /\ c = Call /\ p = Position
      OBVIOUS
    <3>2. May(m, c, p)'
      BY <1>1, <1>3, <1>4, <1>5, <3>1, OriginLeaves DEF receiver
    <3>3. Present' = m /\ Call' = c /\ Position' = p
      BY <2>3, <3>1
    <3> QED BY <3>2, <3>3 DEF PresentMay, May, Copies, Places, Holds, Held, N, Part, Whole
  <2> QED BY <1>1, <1>6, <1>7, <2>2, <2>4, <2>5 DEF RouteInv, HoldInv
<1>10. CASE (\E p : SendFrame(origin, p)) /\ waiting' = waiting
  <2>1. PICK p : SendFrame(origin, p)
    BY <1>10
  <2>2. /\ UNCHANGED << next_id, written, attempts >>
        /\ IsSending' => /\ N(Present) # 1 /\ N(Present)' = N(Present)
                         /\ Present' = Present /\ Call' = Call /\ Position' >= Position
    BY <1>1, <2>1, Progresses
  <2>3. NumInv' /\ CopiesInv'
    BY <1>7, <2>2, NumsStay DEF RouteInv, HoldInv, CopiesInv
  <2>4. PresentMay'
    BY <1>1, <1>3, <1>4, <2>1, MayStill
  <2>5. PresentInv'
    <3> SUFFICES ASSUME IsSending', NEW x \in Pending', MsgOf(x.frame) = Present, x.call = Call
                 PROVE  First(x) <= Position'
      BY <2>2 DEF PresentInv
    <3>1. First(x) <= Position /\ First(x) \in Nat
      <4>1. \A z \in Pending : First(z) \in Nat
        BY <1>1, AtTheRouter
      <4> QED BY <1>4, <1>5, <1>6, <1>8, <4>1
    <3>2. Position' \in Int
      <4>1. job' \in [ Senders -> Job ]
        BY <1>1 DEF TypeInv, SenderInv, Types
      <4>2. PICK q : q = job'[origin].msgCount
        OBVIOUS
      <4>3. q \in Nat
        BY <4>1, <4>2, Origin DEF Job
      <4>4. At(q) \in Nat /\ Position' = At(q) + 1
        BY <4>2, <4>3, Offsets DEF Position, At
      <4> QED BY <4>4
    <3> QED BY <1>5, <2>2, <3>1, <3>2
  <2> QED BY <1>1, <1>6, <1>7, <2>3, <2>4, <2>5 DEF RouteInv, HoldInv
<1> QED BY <1>3, <1>9, <1>10
\* What a frame does that the router takes from its FIFO.
Arrives(m, q) == Received(m, q) \/ (Leaves /\ Same /\ AsmInv')

LEMMA Routes ==
  ASSUME RouteInv, MaxMsgs <= IdSpace, NEW o, Route(o), NEW x, x = Head(atRouter),
         NEW m, m = MsgOf(x.frame)
  PROVE  /\ x \in Pending /\ m \in 1..Len(written) /\ N(m) \in Nat \ {0}
         /\ atRouter # << >> /\ atRouter' = Tail(atRouter)
         /\ UNCHANGED << next_id, job, written, attempts, outcome, waiting, build, deceived >>
         /\ \E q \in 0..(N(m) - 1) : /\ FrameIs(x.frame, origin, m, q) /\ First(x) = At(q) + 1
                                     /\ Arrives(m, q)
                                     /\ o \in Arriving => Received(m, q)
<1>1. TypeInv /\ TypeInv' /\ HoldInv
  BY TypeRoute DEF RouteInv, HoldInv
<1>2. PICK f : f = x.frame
  OBVIOUS
<1>3. /\ atRouter # << >> /\ atRouter' = Tail(atRouter)
      /\ Enqueue(f) \/ (o \notin Arriving /\ UNCHANGED receiver)
      /\ UNCHANGED << senderVars, build, waiting, deceived >>
  BY <1>2 DEF Route
<1>4. x \in Pending
  BY <1>1, <1>3, PendingTail DEF TypeInv, FifoTypes
<1>5. /\ x \in Sent /\ m \in 1..Len(written) /\ N(m) \in Nat \ {0} /\ written[m].len <= MAX_PAYLOAD_SIZE
      /\ \E q \in 0..(N(m) - 1) : FrameIs(x.frame, origin, m, q) /\ First(x) = At(q) + 1
  BY <1>1, <1>4, AtTheRouter
<1>6. PICK q \in 0..(N(m) - 1) : FrameIs(f, origin, m, q) /\ First(x) = At(q) + 1
  BY <1>2, <1>5
<1>7. UNCHANGED << next_id, job, written, attempts, outcome, restarts >>
  BY <1>3 DEF senderVars
<1>8. f.reserved \in Nat
  BY <1>2, <1>5 DEF Sent, Fragment
<1>9. Forwarded(f, m, q)
  BY <1>1, <1>3, <1>5, <1>6, <1>7, <1>8 DEF Forwarded
<1>10. Types'
  BY <1>1 DEF TypeInv, SenderInv
<1>11. Arrives(m, q) /\ (o \in Arriving => Received(m, q))
  <2>1. CASE build = "linux" /\ Linux!Enqueue(f) /\ UNCHANGED frag_queue
    BY <1>9, <1>10, <2>1, LinuxReceives DEF Arrives
  <2>2. CASE build = "mcu" /\ Mcu!Enqueue(f) /\ UNCHANGED cache
    BY <1>9, <1>10, <2>2, McuReceives DEF Arrives
  <2>3. CASE o \notin Arriving /\ UNCHANGED receiver
    <3>1. UNCHANGED << cache, frag_queue, delivered, swallowed >>
      BY <2>3 DEF receiver
    <3>2. Leaves
      BY <1>7, <3>1, NothingLeaves DEF Nothing
    <3>3. Same /\ AsmInv'
      BY <1>9, <3>1, HeldThen
    <3> QED BY <2>3, <3>2, <3>3 DEF Arrives
  <2> QED BY <1>3, <2>1, <2>2, <2>3 DEF Enqueue
<1> QED BY <1>2, <1>3, <1>4, <1>5, <1>6, <1>7, <1>11

\* What is held next is of one message, too.
LEMMA HeldOnceThen ==
  ASSUME Types, written' = written, build' = build, NEW m, NEW i, Held(m, i)', NEW k, NEW j, Held(k, j)'
  PROVE  m = k
<1>1. \A l, n : Part(l, 0, At(n))' = Part(l, 0, At(n))
  BY DEF Part, Whole
<1>2. \A l : N(l)' = N(l)
  BY DEF N
<1>3. PICK d : d = Assembly'.data
  OBVIOUS
<1>4. /\ m \in 1..Len(written) /\ i \in 1..(N(m) - 1) /\ d = Part(m, 0, At(i))
      /\ k \in 1..Len(written) /\ j \in 1..(N(k) - 1) /\ d = Part(k, 0, At(j))
  BY <1>1, <1>2, <1>3 DEF Held
<1>5. Head(d) = << m, 1 >> /\ Head(d) = << k, 1 >>
  BY <1>4, BeginningBytes
<1> QED BY <1>5

\* What a frame leaves to be done by those behind it.
LEMMA StillMay ==
  ASSUME Types, written' = written, build' = build, NEW m \in 1..Len(written), NEW q \in 0..(N(m) - 1),
         Arrives(m, q), NEW c \in Nat, NEW p, p = At(q) + 1, May(m, c, p),
         NEW k \in 1..Len(written), NEW d \in Nat, NEW r \in Nat, May(k, d, r),
         k # m \/ c < d \/ (c = d /\ p <= r /\ N(m) # 1)
  PROVE  May(k, d, r)'
<1>1. N(m) \in Nat \ {0} /\ q \in Nat /\ N(k)' = N(k)
  BY WrittenMessage DEF N
<1>2. Copies(k) \in Nat /\ Copies(m) \in Nat
  BY PlacesFinite DEF Types
<1>3. May(k, d, r)' <=> (Copies(k)' < d \/ (r > 1 /\ ~Holds(k)'))
  BY DEF May, Copies, Places, Holds, Held, N, Part, Whole
<1>4. ASSUME \A i : Held(k, i)' => Held(k, i), Copies(k)' = Copies(k) PROVE May(k, d, r)'
  <2>1. Holds(k)' => Holds(k)
    BY <1>1, <1>4 DEF Holds
  <2> QED BY <1>3, <1>4, <2>1 DEF May
<1>5. ASSUME HoldsNone', Copies(k)' = Copies(k) PROVE May(k, d, r)'
  <2>1. \A i : ~Held(k, i)'
    BY <1>5 DEF HoldsNone
  <2> QED BY <1>4, <1>5, <2>1
<1>6. ASSUME k # m, NEW j, Held(m, j)', Copies(k)' = Copies(k) PROVE May(k, d, r)'
  <2>1. \A i : ~Held(k, i)'
    BY <1>6, HeldOnceThen
  <2> QED BY <1>4, <1>6, <2>1
<1>7. ASSUME k = m, Copies(m) < c, Copies(k)' = Copies(k) PROVE May(k, d, r)'
  BY <1>2, <1>3, <1>7
<1>8. q = 0 => p = 1
  BY Offsets
<1>9. q > 0 => p > 1
  <2>1. q > 0 => At(1) <= At(q)
    BY <1>1, Offsets
  <2>2. At(0 + 1) = At(0) + max_frame_payload_size /\ At(0) = 0 /\ At(q) \in Nat
        /\ max_frame_payload_size \in Nat \ {0}
    BY <1>1, Offsets, FragmentsAssumption
  <2> QED BY <2>1, <2>2
<1>10. q = 0 => Copies(m) < c
  BY <1>8 DEF May
<1>11. ASSUME NEW i \in 1..(N(m) - 1), Held(m, i) PROVE Copies(m) < c
  BY <1>11 DEF May, Holds
<1>12. Leaves \/ Spoils(m) \/ NoRoom(m) => Copies(k)' = Copies(k)
  BY DEF Leaves, Spoils, NoRoom
<1>13. Delivers(m) => Copies(k)' = IF k = m THEN Copies(m) + 1 ELSE Copies(k)
  BY DEF Delivers
<1>14. CASE Leaves /\ Same
  BY <1>4, <1>12, <1>14 DEF Same
<1>20. CASE NoRoom(m) /\ \A l, i : Held(l, i)' => Held(l, i)
  BY <1>4, <1>12, <1>20
<1>15. CASE N(m) = 1 /\ Delivers(m) /\ \A l, i : Held(l, i)' => Held(l, i)
  <2>1. CASE k = m
    <3>1. Copies(m) < c /\ c < d /\ Copies(k)' = Copies(m) + 1
      BY <1>1, <1>10, <1>13, <1>15, <2>1
    <3> QED BY <1>2, <1>3, <3>1
  <2>2. CASE k # m
    BY <1>4, <1>13, <1>15, <2>2
  <2> QED BY <2>1, <2>2
<1>16. CASE N(m) # 1 /\ q = 0 /\ Leaves /\ Held(m, 1)'
  BY <1>6, <1>7, <1>10, <1>12, <1>16
<1>17. CASE Leaves /\ HoldsNone'
  BY <1>5, <1>12, <1>17
<1>18. CASE N(m) # 1 /\ q > 0 /\ Leaves /\ Held(m, q) /\ Held(m, q + 1)'
  <2>1. q \in 1..(N(m) - 1)
    BY <1>1, <1>18
  <2> QED BY <1>6, <1>7, <1>11, <1>12, <1>18, <2>1
<1>19. CASE N(m) # 1 /\ q > 0 /\ Held(m, q) /\ HoldsNone'
             /\ (Delivers(m) \/ NoRoom(m) \/ Spoils(m))
  <2>1. CASE NoRoom(m) \/ Spoils(m)
    BY <1>5, <1>12, <1>19, <2>1
  <2>2. CASE Delivers(m) /\ k # m
    BY <1>5, <1>13, <1>19, <2>2
  <2>3. CASE Delivers(m) /\ k = m
    <3>1. q \in 1..(N(m) - 1)
      BY <1>1, <1>19
    <3>2. Copies(m) < c /\ Copies(k)' = Copies(m) + 1
      BY <1>11, <1>13, <1>19, <2>3, <3>1
    <3>3. CASE c < d
      BY <1>2, <1>3, <3>2, <3>3
    <3>4. CASE c = d /\ p <= r
      <4>1. r > 1 /\ ~Holds(k)'
        <5>1. At(q) \in Nat
          BY <1>1, Offsets
        <5>2. p > 1 /\ p \in Nat
          BY <1>9, <1>19, <5>1
        <5>3. ~Holds(k)'
          BY <1>19 DEF HoldsNone, Holds
        <5> QED BY <3>4, <5>2, <5>3
      <4> QED BY <1>3, <4>1
    <3> QED BY <2>3, <3>3, <3>4
  <2> QED BY <1>19, <2>1, <2>2, <2>3
<1> QED BY <1>14, <1>15, <1>16, <1>17, <1>18, <1>19, <1>20 DEF Arrives, Received

\* And the copies of its own message.
LEMMA CopiesAfter ==
  ASSUME Types, NEW m \in 1..Len(written), NEW q \in 0..(N(m) - 1),
         Arrives(m, q), NEW c \in Nat, May(m, c, At(q) + 1)
  PROVE  /\ \A k : k # m => Copies(k)' = Copies(k)
         /\ Copies(m)' = Copies(m) \/ (Copies(m)' = Copies(m) + 1 /\ Copies(m) < c)
         /\ delivered' = delivered \/ \E e \in Delivery : delivered' = Append(delivered, e) /\ e.msg = m
<1>1. N(m) \in Nat \ {0} /\ q \in Nat
  BY WrittenMessage
<1>2. q = 0 => Copies(m) < c
  <2>1. At(0) + 1 = 1
    BY Offsets
  <2> QED BY <2>1 DEF May
<1>3. q > 0 /\ Held(m, q) => Copies(m) < c
  BY <1>1 DEF May, Holds
<1>4. Leaves \/ Spoils(m) \/ NoRoom(m) => (\A k : Copies(k)' = Copies(k)) /\ delivered' = delivered
  BY DEF Leaves, Spoils, NoRoom
<1>5. Delivers(m) => /\ \A k : k # m => Copies(k)' = Copies(k)
                     /\ Copies(m)' = Copies(m) + 1
                     /\ \E e \in Delivery : delivered' = Append(delivered, e) /\ e.msg = m
  BY DEF Delivers
<1>6. CASE Leaves \/ Spoils(m) \/ NoRoom(m)
  BY <1>4, <1>6
<1>7. CASE Delivers(m) /\ (q = 0 \/ (q > 0 /\ Held(m, q)))
  BY <1>2, <1>3, <1>5, <1>7
<1>8. \/ Leaves \/ Spoils(m) \/ NoRoom(m)
      \/ Delivers(m) /\ (q = 0 \/ (q > 0 /\ Held(m, q)))
  BY <1>1 DEF Arrives, Received
<1> QED BY <1>6, <1>7, <1>8
\* A frame leaves the router.
LEMMA RouteForward ==
  ASSUME RouteInv, MaxMsgs <= IdSpace, NEW o, Route(o)
  PROVE  RouteInv'
<1>1. TypeInv' /\ TypeInv /\ Types
  BY TypeRoute DEF RouteInv, HoldInv, TypeInv, SenderInv
<1>2. PICK x, m : x = Head(atRouter) /\ m = MsgOf(x.frame)
  OBVIOUS
<1>3. /\ x \in Pending /\ m \in 1..Len(written) /\ N(m) \in Nat \ {0}
      /\ atRouter # << >> /\ atRouter' = Tail(atRouter)
      /\ UNCHANGED << next_id, job, written, attempts, waiting, build >>
      /\ \E q \in 0..(N(m) - 1) : First(x) = At(q) + 1 /\ Arrives(m, q)
  BY <1>2, Routes
<1>4. PICK q \in 0..(N(m) - 1) : First(x) = At(q) + 1 /\ Arrives(m, q)
  BY <1>3
<1>5. PICK c, p : c = x.call /\ p = First(x)
  OBVIOUS
<1>6. c \in Nat /\ c <= attempts[m] /\ attempts[m] \in Nat /\ p \in Nat
  BY <1>1, <1>2, <1>3, <1>5, AtTheRouter
<1>7. May(m, c, p)
  BY <1>2, <1>3, <1>5 DEF RouteInv, PendingMay
<1>8. \A k \in 1..Len(written) : \A d, r \in Nat :
        May(k, d, r) /\ (k # m \/ c < d \/ (c = d /\ p <= r /\ N(m) # 1)) => May(k, d, r)'
  BY <1>1, <1>3, <1>4, <1>5, <1>6, <1>7, StillMay
<1>9. /\ \A k : k # m => Copies(k)' = Copies(k)
      /\ Copies(m)' = Copies(m) \/ (Copies(m)' = Copies(m) + 1 /\ Copies(m) < c)
      /\ delivered' = delivered \/ \E e \in Delivery : delivered' = Append(delivered, e) /\ e.msg = m
  BY <1>1, <1>3, <1>4, <1>5, <1>6, <1>7, CopiesAfter
<1>10. /\ Pending' \subseteq Pending
       /\ x = atRouter[1]
       /\ \A i \in DOMAIN atRouter' : i + 1 \in DOMAIN atRouter /\ atRouter'[i] = atRouter[i + 1]
       /\ 1 \in DOMAIN atRouter
       /\ DOMAIN atRouter' \subseteq Nat \ {0}
  <2>1. atRouter \in Seq(Sent)
    BY <1>1 DEF TypeInv, FifoTypes
  <2>2. /\ Pending' \subseteq Pending /\ x = atRouter[1] /\ atRouter' \in Seq(Sent)
        /\ \A i \in DOMAIN atRouter' : i + 1 \in DOMAIN atRouter /\ atRouter'[i] = atRouter[i + 1]
    BY <1>2, <1>3, <2>1, PendingTail
  <2>3. 1 \in DOMAIN atRouter /\ DOMAIN atRouter' \subseteq Nat \ {0}
    BY <1>3, <2>1, <2>2
  <2> QED BY <2>2, <2>3
<1>11. \A y \in Pending' : Before(x, y)
  <2> SUFFICES ASSUME NEW i \in DOMAIN atRouter' PROVE Before(x, atRouter'[i])
    BY DEF Pending
  <2>1. i + 1 \in DOMAIN atRouter /\ 1 < i + 1 /\ atRouter'[i] = atRouter[i + 1]
    BY <1>10
  <2> QED BY <1>10, <2>1 DEF RouteInv, Ordered
<1>12. \A k : N(k)' = N(k)
  BY <1>3 DEF N
<1>13. Ordered'
  <2> SUFFICES ASSUME NEW i \in DOMAIN atRouter', NEW j \in DOMAIN atRouter', i < j
               PROVE  Before(atRouter'[i], atRouter'[j])
    BY <1>12 DEF Ordered, Before, MsgOf, First
  <2>1. i + 1 < j + 1
    BY <1>10
  <2> QED BY <1>10, <2>1 DEF RouteInv, Ordered
<1>14. PendingMay'
  <2> SUFFICES ASSUME NEW y \in Pending' PROVE May(MsgOf(y.frame), y.call, First(y))'
    BY DEF PendingMay
  <2>1. PICK k, d, r : k = MsgOf(y.frame) /\ d = y.call /\ r = First(y)
    OBVIOUS
  <2>2. k \in 1..Len(written) /\ d \in Nat /\ r \in Nat
    BY <1>1, <1>10, <2>1, AtTheRouter
  <2>3. May(k, d, r)
    BY <1>10, <2>1 DEF RouteInv, PendingMay
  <2>4. k # m \/ c < d \/ (c = d /\ p <= r /\ N(m) # 1)
    BY <1>2, <1>3, <1>5, <1>11, <2>1, <2>2 DEF Before
  <2>5. May(k, d, r)'
    BY <1>8, <2>2, <2>3, <2>4
  <2> QED BY <2>1, <2>5 DEF MsgOf, First
<1>15. /\ IsSending' <=> IsSending
       /\ Present' = Present /\ Call' = Call /\ Position' = Position /\ N(Present)' = N(Present)
  BY <1>3 DEF IsSending, Present, Call, Position, N, At
<1>16. PresentInv'
  BY <1>3, <1>10, <1>15 DEF RouteInv, PresentInv
<1>17. PresentMay'
  <2> SUFFICES ASSUME IsSending, N(Present) = 1 => ~waiting PROVE May(Present, Call, Position)'
    BY <1>3, <1>15 DEF PresentMay
  <2>1. PICK k, d, r : k = Present /\ d = Call /\ r = Position
    OBVIOUS
  <2>2. k \in 1..Len(written) /\ d \in Nat /\ r \in Nat
    BY <1>1, <2>1, AtTheOrigin
  <2>3. May(k, d, r)
    BY <2>1 DEF RouteInv, PresentMay
  <2>4. k # m \/ c < d \/ (c = d /\ p <= r /\ N(m) # 1)
    <3>1. CASE k = m
      <4>1. c <= d
        BY <1>6, <2>1, <3>1 DEF Call, Present
      <4>2. c = d => p <= r /\ N(m) # 1
        BY <1>2, <1>3, <1>5, <2>1, <3>1 DEF RouteInv, PresentInv
      <4> QED BY <1>6, <2>2, <4>1, <4>2
    <3> QED BY <3>1
  <2>5. May(k, d, r)'
    BY <1>8, <2>2, <2>3, <2>4
  <2>6. Present' = k /\ Call' = d /\ Position' = r
    BY <1>15, <2>1
  <2> QED BY <2>5, <2>6 DEF May, Copies, Places, Holds, Held, N, Part, Whole
<1>18. CopiesInv'
  <2>1. \A k \in 1..Len(written) : Copies(k) <= attempts[k]
    BY DEF RouteInv, CopiesInv
  <2>2. Copies(m) \in Nat
    BY <1>1, PlacesFinite DEF Types
  <2>3. \A k \in 1..Len(written) : Copies(k)' <= attempts[k]
    BY <1>3, <1>6, <1>9, <2>1, <2>2
  <2>4. \A i \in DOMAIN delivered' : delivered'[i].msg \in 1..Len(written)
    <3>1. delivered \in Seq(Delivery) /\ \A i \in DOMAIN delivered : delivered[i].msg \in 1..Len(written)
      BY <1>1 DEF Types, RouteInv, CopiesInv
    <3>2. CASE delivered' = delivered
      BY <3>1, <3>2
    <3>3. ASSUME NEW e \in Delivery, delivered' = Append(delivered, e), e.msg = m
          PROVE  \A i \in DOMAIN delivered' : delivered'[i].msg \in 1..Len(written)
      <4>1. PICK l : l = Len(delivered)
        OBVIOUS
      <4>2. /\ l \in Nat /\ DOMAIN delivered = 1..l /\ DOMAIN delivered' = 1..(l + 1)
            /\ delivered'[l + 1] = e /\ \A i \in 1..l : delivered'[i] = delivered[i]
        BY <3>1, <3>3, <4>1
      <4>3. \A i \in 1..(l + 1) : i \in 1..l \/ i = l + 1
        BY <4>2
      <4> QED BY <1>3, <3>1, <3>3, <4>2, <4>3
    <3> QED BY <1>9, <3>2, <3>3
  <2> QED BY <1>3, <2>3, <2>4 DEF CopiesInv
<1>19. AsmInv' /\ NumInv'
  BY <1>3, <1>4, NumsStay DEF Arrives, Received, RouteInv, HoldInv
<1> QED BY <1>1, <1>13, <1>14, <1>16, <1>17, <1>18, <1>19 DEF RouteInv, HoldInv

-----------------------------------------------------------------------------
LEMMA RouteInit == Init => RouteInv
<1> SUFFICES ASSUME Init PROVE RouteInv
  OBVIOUS
<1>1. TypeInv
  BY TypeInit
<1>2. SenderInit /\ atRouter = << >>
  BY DEF Init
<1>3. Len(written) = 0 /\ DOMAIN atRouter = {} /\ Pending = {} /\ DOMAIN delivered = {}
  BY <1>2 DEF SenderInit, Pending
<1>4. NumInv
  <2>1. next_id[origin] = Id(1)
    BY <1>2, Origin DEF SenderInit, Id
  <2> QED BY <1>3, <2>1 DEF NumInv
<1>5. AsmInv
  <2>1. CASE build = "linux"
    <3>1. cache[origin] = Linux!NoFrame
      BY Origin DEF Init, Linux!Init
    <3> QED BY <2>1, <3>1 DEF AsmInv, Clear
  <2>2. CASE build # "linux"
    <3>1. frag_queue.reserved = 0
      BY DEF Init, Mcu!Init
    <3> QED BY <2>2, <3>1 DEF AsmInv, Clear
  <2> QED BY <2>1, <2>2
<1>6. ~IsSending
  BY <1>2, Origin DEF SenderInit, IsSending, Idle
<1> QED BY <1>1, <1>3, <1>4, <1>5, <1>6
        DEF RouteInv, HoldInv, Ordered, PresentInv, CopiesInv, PendingMay, PresentMay

LEMMA RouteStep ==
  ASSUME MaxMsgs <= IdSpace, RouteInv, [Next]_vars
  PROVE  RouteInv'
<1>1. TypeInv /\ TypeInv' /\ Grows
  BY TypeStep DEF RouteInv, HoldInv
<1>2. CASE \E len \in Lens, type \in MsgTypes : AppWrite(len, type)
  BY <1>2, RouteWrite
<1>3. CASE AppRetry
  BY <1>3, RouteRetry
<1>4. CASE \E o \in Outcomes, garbage \in Mcu!Garbage : SendHop(o, garbage)
  BY <1>4, RouteSend
<1>5. CASE TakeAnswer \/ Timeout
  BY <1>5, RouteWait
<1>6. CASE DropAnswer
  BY <1>1, <1>6, RouteIdle DEF DropAnswer
<1>7. CASE \E o \in Outcomes : Route(o)
  BY <1>7, RouteForward
<1>8. CASE UNCHANGED vars
  BY <1>1, <1>8, RouteIdle DEF vars
<1> QED BY <1>2, <1>3, <1>4, <1>5, <1>6, <1>7, <1>8 DEF Next

\* With fewer messages than there are ids, whatever reaches the queues of the destination,
\* of either build, is a message that was written, whole, with its sender and type: also
\* when frames of several rounds and calls of write() are on their way.
THEOREM WholeMessages == MaxMsgs <= IdSpace => (Spec => []Integrity)
<1> SUFFICES ASSUME MaxMsgs <= IdSpace PROVE Spec => []Integrity
  OBVIOUS
<1>1. RouteInv /\ [Next]_vars => RouteInv'
  BY RouteStep
<1>2. RouteInv => Integrity
  <2>1. \A k \in 1..Len(written) : k # 0
    OBVIOUS
  <2> QED BY <2>1 DEF RouteInv, CopiesInv, Integrity
<1> QED BY <1>1, <1>2, RouteInit, PTL DEF Spec

\* And it gets there at most once for every call of write(), however late its frames come.
THEOREM OneCopyPerCall == MaxMsgs <= IdSpace => (Spec => []OncePerWrite)
<1> SUFFICES ASSUME MaxMsgs <= IdSpace PROVE Spec => []OncePerWrite
  OBVIOUS
<1>1. RouteInv /\ [Next]_vars => RouteInv'
  BY RouteStep
<1>2. RouteInv => OncePerWrite
  BY DEF RouteInv, CopiesInv, OncePerWrite, Copies
<1> QED BY <1>1, <1>2, RouteInit, PTL DEF Spec
-----------------------------------------------------------------------------
(***************************************************************************)
(* Why true means delivered: an answer says that no earlier frame is on    *)
(* its way, and that the destination holds the message at least that far.  *)
(***************************************************************************)
Answers == { atOrigin[i] : i \in DOMAIN atOrigin }

\* Frame x comes before what call c sends of message m at byte p.
Sooner(x, m, c, p) == \/ MsgOf(x.frame) < m
                      \/ MsgOf(x.frame) = m /\ x.call < c
                      \/ MsgOf(x.frame) = m /\ x.call = c /\ First(x) < p

\* The destination has got message m up to and with frame j of call c, or had the whole
\* of it and no room.
Got(m, c, j) == /\ \A x \in Pending : ~Sooner(x, m, c, At(j) + 1)
                /\ Copies(m) > 0 \/ FoundNoRoom(m) \/ \E i \in 1..(N(m) - 1) : i > j /\ Held(m, i)

AnswersKnown == \A a \in Answers : /\ a[2][1] \in 1..Len(written)
                                   /\ a[1] <= attempts[a[2][1]]
Trusted      == IsSending /\ Present \notin deceived
GotSoFar     == Trusted => \A j \in Nat : job[origin].msgCount = j + 1 => Got(Present, Call, j)
AnswersTrue  == Trusted => \A q \in 0..(N(Present) - 1) :
                             << Call, << Present, At(q) + 1 >> >> \in Answers =>
                               q <= job[origin].msgCount /\ Got(Present, Call, q)
TrueInv == AnswersKnown /\ GotSoFar /\ AnswersTrue /\ TrueMeansDelivered

\* The answers without the first.
LEMMA FirstAnswer ==
  ASSUME FifoTypes, atOrigin # << >>, atOrigin' = Tail(atOrigin)
  PROVE  Answers' \subseteq Answers /\ Head(atOrigin) \in Answers
<1>1. PICK l : l = Len(atOrigin)
  OBVIOUS
<1>2. /\ l \in Nat \ {0} /\ DOMAIN atOrigin = 1..l /\ DOMAIN atOrigin' = 1..(l - 1)
      /\ \A i \in 1..(l - 1) : atOrigin'[i] = atOrigin[i + 1]
      /\ Head(atOrigin) = atOrigin[1]
  BY <1>1 DEF FifoTypes
<1>3. 1 \in 1..l /\ \A i \in 1..(l - 1) : i + 1 \in 1..l
  BY <1>2
<1> QED BY <1>1, <1>2, <1>3 DEF Answers

LEMMA AnswerTypes == FifoTypes => \A a \in Answers : a[1] \in Nat
<1> SUFFICES ASSUME FifoTypes, NEW i \in DOMAIN atOrigin PROVE atOrigin[i][1] \in Nat
  BY DEF Answers
<1>1. atOrigin[i] \in Answer
  BY DEF FifoTypes
<1> QED BY <1>1 DEF Answer

\* Answers that are known stay so.
LEMMA KnownKept ==
  ASSUME AnswersKnown, FifoTypes, Types, Types', Grows, Answers' \subseteq Answers
  PROVE  AnswersKnown'
<1> SUFFICES ASSUME NEW a \in Answers
             PROVE  a[2][1] \in 1..Len(written)' /\ a[1] <= attempts'[a[2][1]]
  BY DEF AnswersKnown
<1>1. PICK m, c : m = a[2][1] /\ c = a[1]
  OBVIOUS
<1>2. m \in 1..Len(written) /\ c <= attempts[m]
  BY <1>1 DEF AnswersKnown
<1>3. m \in 1..Len(written)' /\ attempts[m] <= attempts'[m]
  BY <1>2 DEF Grows
<1>4. m \in Msg /\ attempts[m] \in Nat /\ attempts'[m] \in Nat
  BY <1>2, WrittenMessage DEF Types
<1>5. c \in Nat
  BY <1>1, AnswerTypes
<1> QED BY <1>1, <1>2, <1>3, <1>4, <1>5

\* A message was delivered if there is a place for it.
LEMMA CopiesPlaces ==
  ASSUME Types, NEW m
  PROVE  Copies(m) \in Nat /\ (Copies(m) > 0 <=> Places(m) # {})
<1>1. IsFiniteSet(Places(m)) /\ Copies(m) \in Nat
  BY PlacesFinite DEF Types
<1>2. Copies(m) = 0 <=> Places(m) = {}
  BY <1>1, FS_EmptySet DEF Copies
<1> QED BY <1>1, <1>2

\* What the destination has got does not change while nothing comes, if no frame is sent that
\* comes before.
LEMMA GotKept ==
  ASSUME RouteInv, TypeInv', Grows, UNCHANGED << receiver, build >>,
         NEW m \in 1..Len(written), NEW c, NEW j, Got(m, c, j),
         \A x \in Pending' : x \in Pending \/ ~Sooner(x, m, c, At(j) + 1)
  PROVE  Got(m, c, j)'
<1>1. \A x \in Pending' : ~Sooner(x, m, c, At(j) + 1)
  BY DEF Got
<1>2. Copies(m)' = Copies(m) /\ N(m)' = N(m)
  BY OriginLeaves DEF receiver
<1>3. \A i : Held(m, i)' <=> Held(m, i)
  <2>1. UNCHANGED << build, cache, frag_queue >> /\ m \in 1..Len(written)' /\ written'[m] = written[m]
    BY DEF receiver, Grows
  <2> QED BY <2>1, HeldKept
<1>5. FoundNoRoom(m)' <=> FoundNoRoom(m)
  BY DEF receiver, FoundNoRoom
<1>4. Copies(m)' > 0 \/ FoundNoRoom(m)' \/ \E i \in 1..(N(m)' - 1) : i > j /\ Held(m, i)'
  BY <1>2, <1>3, <1>5 DEF Got
<1> QED BY <1>1, <1>4 DEF Got, Sooner

\* Offsets tell the frames of a message apart.
LEMMA OffsetOrder ==
  ASSUME NEW q \in Nat, NEW j \in Nat, At(j) <= At(q)
  PROVE  j <= q
<1>1. /\ At(q) \in Nat /\ At(j) \in Nat /\ At(q + 1) = At(q) + max_frame_payload_size
      /\ max_frame_payload_size \in Nat \ {0}
  BY Offsets, FragmentsAssumption
<1>2. ASSUME q + 1 <= j PROVE FALSE
  <2>1. q + 1 \in Nat
    OBVIOUS
  <2>2. At(q + 1) <= At(j)
    BY <1>2, <2>1, Offsets
  <2> QED BY <1>1, <2>2
<1> QED BY <1>2
\* The origin goes on, or waits, or does something else: what answers say stays true.
LEMMA TrueKept ==
  ASSUME RouteInv, TypeInv', Grows, UNCHANGED << receiver, build >>,
         AnswersKnown, GotSoFar, AnswersTrue,
         Answers' \subseteq Answers, deceived \subseteq deceived',
         \A x \in Pending' :
           x \in Pending \/ (MsgOf(x.frame) = Present /\ x.call = Call /\ First(x) = Position),
         IsSending' => /\ IsSending /\ Present' = Present /\ Call' = Call
                       /\ \/ job'[origin].msgCount = job[origin].msgCount
                          \/ /\ job'[origin].msgCount = job[origin].msgCount + 1
                             /\ Present \in deceived' \/ Got(Present, Call, job[origin].msgCount)
  PROVE  AnswersKnown' /\ GotSoFar' /\ AnswersTrue'
<1>1. TypeInv /\ Types /\ Types' /\ FifoTypes
  BY DEF RouteInv, HoldInv, TypeInv, SenderInv
<1>2. AnswersKnown'
  BY <1>1, KnownKept
<1> SUFFICES ASSUME Trusted' PROVE GotSoFar' /\ AnswersTrue'
  BY <1>2 DEF GotSoFar, AnswersTrue
<1>3. PICK m, c, q, r : /\ m = Present /\ c = Call
                        /\ q = job[origin].msgCount /\ r = job'[origin].msgCount
  OBVIOUS
<1>4. /\ Trusted /\ IsSending /\ Present' = m /\ Call' = c
      /\ r = q \/ (r = q + 1 /\ Got(m, c, q))
  BY <1>3 DEF Trusted
<1>5. m \in 1..Len(written) /\ q \in Nat /\ c \in Nat /\ N(m) \in Nat \ {0}
  BY <1>1, <1>3, <1>4, AtTheOrigin
<1>6. ASSUME NEW j \in Nat, j <= q, Got(m, c, j) PROVE Got(m, c, j)'
  <2>1. At(j) <= At(q) /\ At(j) \in Nat /\ At(q) \in Nat
    BY <1>5, <1>6, Offsets
  <2>2. ASSUME NEW x, MsgOf(x.frame) = Present, x.call = Call, First(x) = Position
        PROVE  ~Sooner(x, m, c, At(j) + 1)
    <3>1. First(x) = At(q) + 1
      BY <1>3, <2>2 DEF Position
    <3>2. ~(m < m) /\ ~(c < c) /\ ~(At(q) + 1 < At(j) + 1)
      BY <1>5, <2>1
    <3> QED BY <1>3, <2>2, <3>1, <3>2 DEF Sooner
  <2> QED BY <1>5, <1>6, <2>2, GotKept
<1>7. \A j : Got(Present, Call, j)' <=> Got(m, c, j)'
  BY <1>4 DEF Got, Sooner, Copies, Places, FoundNoRoom, Held, N, Part, Whole
<1>8. GotSoFar'
  <2> SUFFICES ASSUME NEW j \in Nat, r = j + 1 PROVE Got(m, c, j)'
    BY <1>3, <1>4, <1>7 DEF GotSoFar
  <2>1. CASE r = q
    <3>1. Got(m, c, j) /\ j <= q
      BY <1>3, <1>4, <1>5, <2>1 DEF GotSoFar
    <3> QED BY <1>6, <3>1
  <2>2. CASE r = q + 1 /\ Got(m, c, q)
    <3>1. j = q
      BY <1>5, <2>2
    <3> QED BY <1>5, <1>6, <2>2, <3>1
  <2> QED BY <1>4, <2>1, <2>2
<1>9. AnswersTrue'
  <2>1. N(m)' = N(m)
    BY <1>5, OriginLeaves DEF receiver
  <2> SUFFICES ASSUME NEW j \in 0..(N(m) - 1), << c, << m, At(j) + 1 >> >> \in Answers
               PROVE  j <= r /\ Got(m, c, j)'
    <3>1. N(Present)' = N(m)
      BY <1>4, <2>1 DEF N
    <3> QED BY <1>3, <1>4, <1>7, <3>1 DEF AnswersTrue, At
  <2>2. j <= q /\ Got(m, c, j)
    BY <1>3, <1>4 DEF AnswersTrue
  <2>3. j \in Nat /\ j <= r
    BY <1>4, <1>5, <2>2
  <2> QED BY <1>6, <2>2, <2>3
<1> QED BY <1>8, <1>9

\* A call of write() begins: no answer is to one of its frames.
LEMMA TrueBegins ==
  ASSUME IsSending' => job'[origin].msgCount = 0,
         \A a \in Answers' : ~(a[1] = Call' /\ a[2][1] = Present')
  PROVE  GotSoFar' /\ AnswersTrue'
<1>1. GotSoFar'
  <2>1. \A j \in Nat : 0 # j + 1
    OBVIOUS
  <2> QED BY <2>1 DEF GotSoFar, Trusted
<1>2. AnswersTrue'
  <2>1. PICK m, c : m = Present' /\ c = Call'
    OBVIOUS
  <2>2. ASSUME NEW j, << c, << m, At(j) + 1 >> >> \in Answers' PROVE FALSE
    <3>1. PICK a : a = << c, << m, At(j) + 1 >> >>
      OBVIOUS
    <3>2. a[1] = c /\ a[2][1] = m
      BY <3>1
    <3> QED BY <2>1, <2>2, <3>1, <3>2
  <2> QED BY <2>1, <2>2 DEF AnswersTrue
<1> QED BY <1>1, <1>2

\* A message that counts as received still is there.
LEMMA TrueStays ==
  ASSUME RouteInv, TypeInv', Grows, UNCHANGED << delivered, build >>, TrueMeansDelivered,
         NEW m \in 1..Len(written), outcome[m] = "true", m \in deceived => m \in deceived',
         m \in swallowed => m \in swallowed',
         isAckType(written'[m].type) \/ FrameCount(written'[m].len) > 1
  PROVE  Places(m)' # {} \/ m \in deceived' \/ FoundNoRoom(m)'
<1>1. Places(m)' = Places(m)
  BY DEF Places
<1>2. written'[m] = written[m]
  BY DEF Grows
<1>3. FoundNoRoom(m) => FoundNoRoom(m)'
  BY DEF FoundNoRoom
<1> QED BY <1>1, <1>2, <1>3 DEF TrueMeansDelivered
LEMMA TrueWrite ==
  ASSUME RouteInv, TrueInv, NEW len \in Lens, NEW type \in MsgTypes, AppWrite(len, type)
  PROVE  TrueInv'
<1>1. TypeInv' /\ Grows /\ TypeInv /\ Types /\ Types' /\ FifoTypes /\ origin \in Senders
  BY TypeWrite, Origin DEF RouteInv, HoldInv, TypeInv, SenderInv
<1>2. /\ Write(origin, len, type)
      /\ UNCHANGED << receiver, build, atOrigin, deceived >>
  BY DEF AppWrite
<1>3. PICK m : m = Len(written) + 1
  OBVIOUS
<1>4. Len(written) \in Nat /\ Len(written)' = m /\ m \in Nat
  BY <1>1, <1>2, <1>3, WriteAppends
<1>5. /\ job'[origin].msg = m
      /\ \/ /\ job'[origin] = Begin(m, len)
            /\ outcome' = [ outcome EXCEPT ![m] = "pending" ]
         \/ /\ job'[origin].phase = "idle"
            /\ outcome' = [ outcome EXCEPT ![m] = "false" ]
  BY <1>1, <1>2, <1>3, WriteJobs
<1>6. Answers' = Answers
  BY <1>2 DEF Answers
<1>7. AnswersKnown'
  BY <1>1, <1>6, KnownKept DEF TrueInv
<1>8. GotSoFar' /\ AnswersTrue'
  <2>1. IsSending' => job'[origin].msgCount = 0
    <3>1. CASE job'[origin] = Begin(m, len)
      BY <3>1 DEF Begin
    <3>2. CASE job'[origin].phase = "idle"
      BY <3>2 DEF IsSending
    <3> QED BY <1>5, <3>1, <3>2
  <2>2. ASSUME NEW a \in Answers PROVE a[2][1] # m
    <3>1. a[2][1] \in 1..Len(written)
      BY DEF TrueInv, AnswersKnown
    <3> QED BY <1>3, <1>4, <3>1
  <2>3. Present' = m
    BY <1>5 DEF Present
  <2> QED BY <1>6, <2>1, <2>2, <2>3, TrueBegins
<1>9. TrueMeansDelivered'
  <2> SUFFICES ASSUME NEW k \in 1..m, outcome'[k] = "true",
                      isAckType(written'[k].type) \/ FrameCount(written'[k].len) > 1
               PROVE  Places(k)' # {} \/ k \in deceived' \/ FoundNoRoom(k)'
    BY <1>4 DEF TrueMeansDelivered
  <2>1. \A j \in Msg : outcome'[j] = "true" => j # m /\ outcome[j] = "true"
    BY <1>1, <1>5 DEF Types
  <2>2. k \in Msg
    <3>1. Len(written') <= MaxMsgs /\ MaxMsgs \in Nat
      BY <1>1, FragmentsAssumption DEF Types
    <3> QED BY <1>4, <3>1 DEF Msg
  <2>3. k \in 1..Len(written) /\ outcome[k] = "true"
    BY <1>3, <1>4, <2>1, <2>2
  <2> QED BY <1>1, <1>2, <2>3, TrueStays DEF TrueInv, receiver
<1> QED BY <1>7, <1>8, <1>9 DEF TrueInv

LEMMA TrueRetry ==
  ASSUME RouteInv, TrueInv, AppRetry
  PROVE  TrueInv'
<1>1. /\ TypeInv' /\ Grows /\ TypeInv /\ Types /\ Types' /\ FifoTypes /\ origin \in Senders
      /\ JobInv(origin) /\ SenderInv
  BY TypeRetry, Origin DEF RouteInv, HoldInv, TypeInv, SenderInv
<1>2. PICK m, len : m = job[origin].msg /\ len = written[m].len
  OBVIOUS
<1>3. /\ job[origin].phase = "failed"
      /\ job' = [ job EXCEPT ![origin] = Begin(m, len) ]
      /\ attempts' = [ attempts EXCEPT ![m] = @ + 1 ]
      /\ outcome' = [ outcome EXCEPT ![m] = "pending" ]
      /\ deceived' = deceived \ {m}
      /\ swallowed' = swallowed \ {m}
      /\ UNCHANGED << next_id, written, delivered, build, atOrigin >>
  BY <1>2 DEF AppRetry, Retry, Forget
<1>4. m \in 1..Len(written) /\ m \in Msg
  <2>1. m # 0
    BY <1>1, <1>2, <1>3 DEF JobInv
  <2> QED BY <1>1, <1>2, <2>1, PresentMessage
<1>5. Answers' = Answers
  BY <1>3 DEF Answers
<1>6. AnswersKnown'
  BY <1>1, <1>5, KnownKept DEF TrueInv
<1>7. job'[origin] = Begin(m, len)
  BY <1>1, <1>3 DEF Types
<1>8. GotSoFar' /\ AnswersTrue'
  <2>1. job'[origin].msgCount = 0 /\ job'[origin].msg = m
    BY <1>7 DEF Begin
  <2>2. attempts[m] \in Nat /\ attempts'[m] = attempts[m] + 1
    BY <1>1, <1>3, <1>4 DEF Types
  <2>3. Present' = m /\ Call' = attempts[m] + 1
    BY <2>1, <2>2 DEF Present, Call
  <2>4. ASSUME NEW a \in Answers, a[2][1] = m PROVE a[1] # attempts[m] + 1
    <3>1. a[1] <= attempts[m] /\ a[1] \in Nat
      BY <1>1, <2>4, AnswerTypes DEF TrueInv, AnswersKnown
    <3> QED BY <2>2, <3>1
  <2> QED BY <1>5, <2>1, <2>3, <2>4, TrueBegins
<1>9. TrueMeansDelivered'
  <2> SUFFICES ASSUME NEW k \in 1..Len(written), outcome'[k] = "true",
                      isAckType(written'[k].type) \/ FrameCount(written'[k].len) > 1
               PROVE  Places(k)' # {} \/ k \in deceived' \/ FoundNoRoom(k)'
    BY <1>3 DEF TrueMeansDelivered
  <2>1. k \in Msg
    BY <1>1, WrittenMessage
  <2>2. k # m /\ outcome[k] = "true"
    BY <1>1, <1>3, <2>1 DEF Types
  <2>3. (k \in deceived => k \in deceived') /\ (k \in swallowed => k \in swallowed')
    BY <1>3, <2>2
  <2> QED BY <1>1, <1>3, <2>2, <2>3, TrueStays DEF TrueInv
<1> QED BY <1>6, <1>8, <1>9 DEF TrueInv

\* No message is written, no wait ends: a frame may be sent, or an answer be dropped.
LEMMA TrueWaits ==
  ASSUME RouteInv, TrueInv, TypeInv', Grows, UNCHANGED << senderVars, receiver, build, deceived >>,
         Answers' \subseteq Answers,
         \A x \in Pending' :
           x \in Pending \/ (MsgOf(x.frame) = Present /\ x.call = Call /\ First(x) = Position)
  PROVE  TrueInv'
<1>1. UNCHANGED << job, written, attempts, outcome >>
  BY DEF senderVars
<1>2. /\ IsSending' <=> IsSending
      /\ Present' = Present /\ Call' = Call /\ job'[origin].msgCount = job[origin].msgCount
  BY <1>1 DEF IsSending, Present, Call
<1>3. AnswersKnown' /\ GotSoFar' /\ AnswersTrue'
  BY <1>2, TrueKept DEF TrueInv
<1>4. TrueMeansDelivered'
  <2>1. \A m : Places(m)' = Places(m) /\ (FoundNoRoom(m)' <=> FoundNoRoom(m))
    BY DEF receiver, Places, FoundNoRoom
  <2> QED BY <1>1, <2>1 DEF TrueInv, TrueMeansDelivered
<1> QED BY <1>3, <1>4 DEF TrueInv

\* A round of main_write() ends.
LEMMA TrueGoesOn ==
  ASSUME RouteInv, TrueInv, TypeInv', Grows, UNCHANGED << receiver, build >>,
         NEW o, SendFrame(origin, o),
         Answers' \subseteq Answers, deceived \subseteq deceived',
         \A x \in Pending' :
           x \in Pending \/ (MsgOf(x.frame) = Present /\ x.call = Call /\ First(x) = Position),
         o \in Believed =>
           \/ Present \in deceived' \/ Got(Present, Call, job[origin].msgCount)
           \/ N(Present) = 1 /\ ~isAckType(written[Present].type)
  PROVE  TrueInv'
<1>1. TypeInv /\ Types /\ JobInv(origin) /\ origin \in Senders
  BY Origin DEF RouteInv, HoldInv, TypeInv, SenderInv
<1>2. PICK m, q : m = Present /\ q = job[origin].msgCount
  OBVIOUS
<1>3. /\ IsSending /\ JobAfter(origin, m, q, o)
      /\ UNCHANGED << next_id, written, attempts >>
  BY <1>1, <1>2, SendStep DEF IsSending, Present
<1>4. /\ m \in 1..Len(written) /\ m \in Msg /\ q \in 0..(N(m) - 1) /\ N(m) \in Nat \ {0}
  BY <1>1, <1>2, <1>3, AtTheOrigin
<1>5. AnswersKnown' /\ GotSoFar' /\ AnswersTrue'
  <2> SUFFICES ASSUME IsSending'
               PROVE  /\ Present' = Present /\ Call' = Call
                      /\ \/ job'[origin].msgCount = job[origin].msgCount
                         \/ /\ job'[origin].msgCount = job[origin].msgCount + 1
                            /\ Present \in deceived' \/ Got(Present, Call, job[origin].msgCount)
    BY <1>3, TrueKept DEF TrueInv
  <2>1. Present' = Present /\ Call' = Call /\ N(Present) # 1
    BY <1>1, Progresses
  <2>2. CASE o \in Believed
    <3>1. job'[origin].msgCount = q + 1
      BY <1>3, <2>2 DEF JobAfter, IsSending
    <3> QED BY <1>2, <2>1, <2>2, <3>1
  <2>3. CASE o \notin Believed
    <3>1. job'[origin].msgCount = q
      BY <1>3, <2>3 DEF JobAfter, IsSending
    <3> QED BY <1>2, <2>1, <3>1
  <2> QED BY <2>2, <2>3
<1>6. TrueMeansDelivered'
  <2> SUFFICES ASSUME NEW k \in 1..Len(written), outcome'[k] = "true",
                      isAckType(written'[k].type) \/ FrameCount(written'[k].len) > 1
               PROVE  Places(k)' # {} \/ k \in deceived' \/ FoundNoRoom(k)'
    BY <1>3 DEF TrueMeansDelivered
  <2>1. k \in Msg /\ outcome \in [ Msg -> Results ]
    BY <1>1, WrittenMessage DEF Types
  <2>2. CASE outcome[k] = "true"
    BY <1>1, <2>2, TrueStays DEF TrueInv, receiver
  <2>3. CASE outcome[k] # "true"
    <3>1. k = m /\ o \in Believed /\ q = N(m) - 1
      BY <1>3, <1>4, <2>1, <2>3 DEF JobAfter
    <3>2. isAckType(written[m].type) \/ N(m) > 1
      BY <1>3, <3>1 DEF N
    <3>3. m \in deceived' \/ Got(m, Call, q)
      BY <1>2, <3>1, <3>2
    <3>4. ASSUME Got(m, Call, q) PROVE Places(m)' # {} \/ FoundNoRoom(m)'
      <4>1. Copies(m) > 0 \/ FoundNoRoom(m)
        BY <1>4, <3>1, <3>4 DEF Got
      <4>2. Places(m)' = Places(m) /\ (FoundNoRoom(m)' <=> FoundNoRoom(m))
        BY DEF receiver, Places, FoundNoRoom
      <4> QED BY <1>1, <4>1, <4>2, CopiesPlaces
    <3> QED BY <3>1, <3>3, <3>4
  <2> QED BY <2>2, <2>3
<1> QED BY <1>5, <1>6 DEF TrueInv
\* The types that fragments have get a NETWORK_ACK.
LEMMA FragmentsAcked ==
  ASSUME NEW f, NEW s, NEW m, NEW q, FrameIs(f, s, m, q), ~isAckType(f.type)
  PROVE  N(m) = 1 /\ ~isAckType(written[m].type)
<1>1. isAckType(148) /\ isAckType(149) /\ isAckType(150)
  BY DEF isAckType
<1>2. N(m) # 1 => f.type = 148 \/ f.type = 149 \/ f.type = 150
  BY DEF FrameIs, NETWORK_FIRST_FRAGMENT, NETWORK_MORE_FRAGMENTS, NETWORK_LAST_FRAGMENT
<1>3. N(m) = 1
  BY <1>1, <1>2
<1> QED BY <1>3 DEF FrameIs

LEMMA TrueSend ==
  ASSUME RouteInv, TrueInv, NEW o \in Outcomes, NEW garbage \in Mcu!Garbage, SendHop(o, garbage)
  PROVE  TrueInv'
<1>1. TypeInv' /\ Grows /\ TypeInv
  BY TypeSend DEF RouteInv, HoldInv
<1>2. PICK y : y = Sending(Frame(origin, garbage))
  OBVIOUS
<1>3. /\ IsSending /\ ~waiting
      /\ atRouter' = Append(atRouter, y) \/ atRouter' = atRouter
      /\ UNCHANGED << receiver, build, atOrigin, deceived >>
      /\ \/ UNCHANGED senderVars
         \/ o \notin Believed /\ SendFrame(origin, "lost")
         \/ ~isAckType(Frame(origin, garbage).type) /\ SendFrame(origin, "ok")
         \/ ~isAckType(Frame(origin, garbage).type) /\ SendFrame(origin, "lost")
  BY <1>2 DEF SendHop, IsSending
<1>4. /\ y \in Sent /\ MsgOf(y.frame) = Present /\ y.call = Call /\ First(y) = Position
      /\ FrameIs(y.frame, origin, Present, job[origin].msgCount)
      /\ y.frame = Frame(origin, garbage)
  BY <1>2, <1>3, SentLast
<1>5. Answers' = Answers
  BY <1>3 DEF Answers
<1>6. \A x \in Pending' :
        x \in Pending \/ (MsgOf(x.frame) = Present /\ x.call = Call /\ First(x) = Position)
  <2>1. CASE atRouter' = Append(atRouter, y)
    <3>1. atRouter \in Seq(Sent)
      BY <1>1 DEF TypeInv, FifoTypes
    <3>2. Pending' = Pending \cup { y }
      BY <1>4, <2>1, <3>1, PendingAppend
    <3> QED BY <1>4, <3>2
  <2>2. CASE atRouter' = atRouter
    BY <2>2 DEF Pending
  <2> QED BY <1>3, <2>1, <2>2
<1>7. CASE UNCHANGED senderVars
  BY <1>1, <1>3, <1>5, <1>6, <1>7, TrueWaits
<1>8. CASE SendFrame(origin, "lost")
  <2>1. "lost" \notin Believed
    BY DEF Believed
  <2> QED BY <1>1, <1>3, <1>5, <1>6, <1>8, <2>1, TrueGoesOn
<1>9. CASE ~isAckType(Frame(origin, garbage).type) /\ SendFrame(origin, "ok")
  <2>1. N(Present) = 1 /\ ~isAckType(written[Present].type)
    BY <1>4, <1>9, FragmentsAcked
  <2> QED BY <1>1, <1>3, <1>5, <1>6, <1>9, <2>1, TrueGoesOn
<1> QED BY <1>3, <1>7, <1>8, <1>9

LEMMA TrueWait ==
  ASSUME RouteInv, TrueInv, TakeAnswer \/ Timeout
  PROVE  TrueInv'
<1>1. TypeInv' /\ Grows /\ TypeInv /\ FifoTypes /\ SenderInv /\ CountersInv /\ Types
  BY TypeWait DEF RouteInv, HoldInv, TypeInv, SenderInv
<1>2. UNCHANGED << receiver, build >> /\ Pending' = Pending
  BY DEF TakeAnswer, Timeout, Pending
<1>3. CASE TakeAnswer
  <2>1. PICK y : y = Sending(Frame(origin, 0))
    OBVIOUS
  <2>2. /\ atOrigin # << >> /\ atOrigin' = Tail(atOrigin) /\ SendFrame(origin, "ok")
        /\ deceived' = IF Head(atOrigin) = FrameId(y) THEN deceived ELSE deceived \cup { Present }
    BY <1>3, <2>1 DEF TakeAnswer, Present
  <2>3. Answers' \subseteq Answers /\ Head(atOrigin) \in Answers
    BY <1>1, <2>2, FirstAnswer
  <2>4. IsSending
    BY <2>2 DEF SendFrame, IsSending
  <2>5. Present \in deceived' \/ Got(Present, Call, job[origin].msgCount)
    <3> SUFFICES ASSUME Present \notin deceived' PROVE Got(Present, Call, job[origin].msgCount)
      OBVIOUS
    <3>1. Head(atOrigin) = FrameId(y) /\ Present \notin deceived
      BY <2>2
    <3>2. 0 \in Mcu!Garbage
      BY DEF Mcu!Garbage
    <3>3. /\ y.call = Call /\ Present \in 1..Len(written)
          /\ job[origin].msgCount \in 0..(N(Present) - 1)
          /\ FrameIs(y.frame, origin, Present, job[origin].msgCount)
      BY <1>1, <2>1, <2>4, <3>2, SentFrame DEF IsSending, Present, Call
    <3>4. Head(y.frame.data) = << Present, At(job[origin].msgCount) + 1 >>
      BY <1>1, <3>3, FrameStarts
    <3>5. << Call, << Present, At(job[origin].msgCount) + 1 >> >> \in Answers
      BY <2>3, <3>1, <3>3, <3>4 DEF FrameId
    <3> QED BY <2>4, <3>1, <3>3, <3>5 DEF TrueInv, AnswersTrue, Trusted
  <2> QED BY <1>1, <1>2, <2>2, <2>3, <2>5, TrueGoesOn
<1>4. CASE Timeout
  <2>1. SendFrame(origin, "lost") /\ Answers' = Answers /\ deceived' = deceived
    BY <1>4 DEF Timeout, Answers
  <2>2. "lost" \notin Believed
    BY DEF Believed
  <2> QED BY <1>1, <1>2, <2>1, <2>2, TrueGoesOn
<1> QED BY <1>3, <1>4

LEMMA TrueIdle ==
  ASSUME RouteInv, TrueInv, DropAnswer \/ UNCHANGED vars
  PROVE  TrueInv'
<1>1. TypeInv' /\ Grows /\ FifoTypes
  <2>1. [Next]_vars /\ TypeInv
    BY DEF Next, RouteInv, HoldInv
  <2> QED BY <2>1, TypeStep DEF TypeInv
<1>2. UNCHANGED << senderVars, receiver, build, deceived >> /\ Pending' = Pending
  BY DEF DropAnswer, vars, Pending
<1>3. Answers' \subseteq Answers
  <2>1. CASE DropAnswer
    BY <1>1, <2>1, FirstAnswer DEF DropAnswer
  <2>2. CASE UNCHANGED vars
    BY <2>2 DEF vars, Answers
  <2> QED BY <2>1, <2>2
<1> QED BY <1>1, <1>2, <1>3, TrueWaits
-----------------------------------------------------------------------------
\* With more ids than messages none has the id 0, which Linux does not take.
LEMMA IdsFromOne ==
  ASSUME MaxMsgs < IdSpace, RouteInv, NEW m \in 1..Len(written)
  PROVE  written[m].id # 0
<1>1. Types /\ NumInv
  BY DEF RouteInv, HoldInv, TypeInv, SenderInv
<1>2. Len(written) \in Nat /\ Len(written) <= MaxMsgs /\ MaxMsgs \in Nat /\ IdSpace \in Nat \ {0}
  BY <1>1, FragmentsAssumption DEF Types
<1>3. m \in 1..(IdSpace - 1)
  BY <1>2
<1>4. m % IdSpace = m
  BY <1>2, <1>3
<1>5. written[m].id = m
  BY <1>1, <1>4 DEF NumInv, Id
<1> QED BY <1>3, <1>5

\* A frame that the router takes from its FIFO while the origin sends.
Takes(x, m, q) ==
  /\ RouteInv /\ MaxMsgs < IdSpace /\ Divides /\ IsSending
  /\ UNCHANGED << job, written, attempts, build >>
  /\ x \in Pending /\ m = MsgOf(x.frame) /\ q \in 0..(N(m) - 1) /\ First(x) = At(q) + 1
  /\ Pending' \subseteq Pending /\ \A y \in Pending' : Before(x, y)
  /\ Arrives(m, q) /\ swallowed \subseteq swallowed'

\* What such a frame leaves as it was.
LEMMA TakesLeaves ==
  ASSUME NEW x, NEW m, NEW q, Takes(x, m, q)
  PROVE  /\ TypeInv /\ Types /\ m \in 1..Len(written) /\ q \in Nat /\ N(m) \in Nat \ {0}
         /\ m \in Nat /\ x.call \in Nat /\ x.call <= attempts[m] /\ attempts[m] \in Nat
         /\ \A k : N(k)' = N(k)
         /\ \A k : Copies(k) \in Nat /\ (Copies(k) > 0 => Copies(k)' > 0)
         /\ \A k : FoundNoRoom(k) => FoundNoRoom(k)'
         /\ NoRoom(m) => FoundNoRoom(m)'
         /\ written[m].id # 0
<1>1. TypeInv /\ Types /\ x \in Pending /\ m = MsgOf(x.frame) /\ written' = written
  BY DEF Takes, RouteInv, HoldInv, TypeInv, SenderInv
<1>2. /\ m \in 1..Len(written) /\ N(m) \in Nat \ {0} /\ m \in Nat
      /\ x.call \in Nat /\ x.call <= attempts[m] /\ attempts[m] \in Nat
  BY <1>1, AtTheRouter
<1>3. q \in 0..(N(m) - 1) /\ q \in Nat
  BY <1>2 DEF Takes
<1>4. \A k : N(k)' = N(k)
  BY <1>1 DEF N
<1>5. \A k : Copies(k) \in Nat
  BY <1>1, CopiesPlaces
<1>6. May(m, x.call, At(q) + 1)
  BY <1>1 DEF Takes, RouteInv, PendingMay
<1>7. /\ \A k : k # m => Copies(k)' = Copies(k)
      /\ Copies(m)' = Copies(m) \/ Copies(m)' = Copies(m) + 1
  BY <1>1, <1>2, <1>3, <1>6, CopiesAfter DEF Takes
<1>8. ASSUME NEW k, Copies(k) > 0 PROVE Copies(k)' > 0
  BY <1>5, <1>7, <1>8
<1>9. written[m].id # 0
  BY <1>2, IdsFromOne DEF Takes
<1>10. /\ \A k : FoundNoRoom(k) => FoundNoRoom(k)'
       /\ NoRoom(m) => FoundNoRoom(m)'
  BY DEF Takes, NoRoom, FoundNoRoom
<1> QED BY <1>1, <1>2, <1>3, <1>4, <1>5, <1>8, <1>9, <1>10

\* What the destination has got of the present message it keeps.
LEMMA GotArrives ==
  ASSUME NEW x, NEW m, NEW q, Takes(x, m, q), NEW j \in Nat, Got(Present, Call, j)
  PROVE  Got(Present, Call, j)'
<1>1. PICK k, c : k = Present /\ c = Call
  OBVIOUS
<1>2. /\ TypeInv /\ m \in 1..Len(written) /\ q \in Nat /\ N(m) \in Nat \ {0}
      /\ m \in Nat /\ x.call \in Nat /\ x.call <= attempts[m]
      /\ \A l : N(l)' = N(l)
      /\ \A l : Copies(l) \in Nat /\ (Copies(l) > 0 => Copies(l)' > 0)
      /\ \A l : FoundNoRoom(l) => FoundNoRoom(l)'
      /\ NoRoom(m) => FoundNoRoom(m)'
      /\ written[m].id # 0
  BY TakesLeaves
<1>3. k = Len(written) /\ k \in Nat /\ c \in Nat /\ c = attempts[k]
  BY <1>1, <1>2, AtTheOrigin DEF Takes, Call, Present
<1>4. Present' = k /\ Call' = c
  BY <1>1 DEF Takes, Present, Call
<1>5. \A y \in Pending' : ~Sooner(y, k, c, At(j) + 1)
  BY <1>1 DEF Takes, Got
<1>6. Copies(k)' > 0 \/ FoundNoRoom(k)' \/ \E i \in 1..(N(k) - 1) : i > j /\ Held(k, i)'
  <2>1. CASE Copies(k) > 0 \/ FoundNoRoom(k)
    BY <1>2, <2>1
  <2>2. CASE \E i \in 1..(N(k) - 1) : i > j /\ Held(k, i)
    <3>1. PICK i \in 1..(N(k) - 1) : i > j /\ Held(k, i)
      BY <2>2
    <3>2. ~Sooner(x, k, c, At(j) + 1)
      BY <1>1 DEF Takes, Got
    <3>3. m = k /\ j <= q
      <4>1. m = MsgOf(x.frame) /\ First(x) = At(q) + 1
        BY DEF Takes
      <4>2. m = k
        BY <1>2, <1>3, <3>2, <4>1 DEF Sooner
      <4>3. x.call = c
        BY <1>2, <1>3, <3>2, <4>1, <4>2 DEF Sooner
      <4>4. ~(At(q) + 1 < At(j) + 1)
        BY <3>2, <4>1, <4>2, <4>3 DEF Sooner
      <4>5. At(q) \in Nat /\ At(j) \in Nat
        BY <1>2, Offsets
      <4> QED BY <1>2, <4>2, <4>4, <4>5, OffsetOrder
    <3>4. Holds(k)
      BY <3>1 DEF Holds
    <3>5. CASE Same
      BY <3>1, <3>5 DEF Same
    <3>6. CASE N(m) = 1
      BY <3>1, <3>3, <3>6
    <3>7. CASE N(m) # 1 /\ q = 0 /\ Held(m, 1)'
      <4>1. 1 \in 1..(N(k) - 1) /\ 1 > j
        BY <1>2, <3>3, <3>7
      <4> QED BY <3>3, <3>7, <4>1
    <3>8. CASE q < N(m) - 1 /\ Held(m, q + 1)'
      <4>1. q + 1 \in 1..(N(k) - 1) /\ q + 1 > j
        BY <1>2, <3>3, <3>8
      <4> QED BY <3>3, <3>8, <4>1
    <3>9. CASE Delivers(m)
      BY <1>2, <3>3, <3>9 DEF Delivers
    <3>11. CASE NoRoom(m)
      BY <1>2, <3>3, <3>11
    <3>10. \/ Same \/ N(m) = 1 \/ (N(m) # 1 /\ q = 0 /\ Held(m, 1)')
           \/ (q < N(m) - 1 /\ Held(m, q + 1)') \/ Delivers(m) \/ NoRoom(m)
      BY <1>2, <3>3, <3>4 DEF Takes, Arrives, Received
    <3> QED BY <3>5, <3>6, <3>7, <3>8, <3>9, <3>10, <3>11
  <2> QED BY <1>1, <2>1, <2>2 DEF Got
<1>7. Got(k, c, j)'
  BY <1>2, <1>5, <1>6 DEF Got, Sooner
<1> QED BY <1>4, <1>7 DEF Got, Sooner, Copies, Places, FoundNoRoom, Held, N, Part, Whole

\* And of a frame that it is known to have received.
LEMMA GotNow ==
  ASSUME NEW x, NEW m, NEW q, Takes(x, m, q), Received(m, q), m = Present, x.call = Call,
         GotSoFar, Present \notin deceived
  PROVE  q <= job[origin].msgCount /\ Got(Present, Call, q)'
<1>1. PICK c, p : c = Call /\ p = job[origin].msgCount
  OBVIOUS
<1>2. /\ TypeInv /\ m \in 1..Len(written) /\ q \in Nat /\ N(m) \in Nat \ {0} /\ m \in Nat
      /\ \A l : N(l)' = N(l)
      /\ \A l : Copies(l) \in Nat
      /\ FoundNoRoom(m) => FoundNoRoom(m)'
      /\ NoRoom(m) => FoundNoRoom(m)'
      /\ written[m].id # 0 /\ q \in 0..(N(m) - 1)
  BY TakesLeaves DEF Takes
<1>3. p \in Nat /\ c \in Nat
  BY <1>1, <1>2, AtTheOrigin DEF Takes
<1>4. q <= p
  <2>1. First(x) <= At(p) + 1
    BY <1>1 DEF Takes, RouteInv, PresentInv, Position
  <2>2. At(q) <= At(p)
    <3>1. At(q) \in Nat /\ At(p) \in Nat /\ First(x) = At(q) + 1
      BY <1>2, <1>3, Offsets DEF Takes
    <3> QED BY <2>1, <3>1
  <2> QED BY <1>2, <1>3, <2>2, OffsetOrder
<1>5. Present' = m /\ Call' = c
  BY <1>1 DEF Takes, Present, Call
<1>6. ASSUME NEW y \in Pending' PROVE ~Sooner(y, m, c, At(q) + 1)
  <2>1. PICK k : k = MsgOf(y.frame)
    OBVIOUS
  <2>2. y \in Pending /\ Before(x, y) /\ m = MsgOf(x.frame) /\ First(x) = At(q) + 1
    BY DEF Takes
  <2>3. k \in Nat /\ y.call \in Nat /\ First(y) \in Nat
    BY <1>2, <2>1, <2>2, AtTheRouter
  <2>4. m < k \/ (m = k /\ c < y.call) \/ (m = k /\ c = y.call /\ At(q) + 1 <= First(y))
    BY <1>1, <2>1, <2>2 DEF Before
  <2>5. At(q) \in Nat
    BY <1>2, Offsets
  <2> QED BY <1>2, <1>3, <2>1, <2>3, <2>4, <2>5 DEF Sooner
<1>7. q > 0 => Copies(m) > 0 \/ FoundNoRoom(m) \/ \E i \in 1..(N(m) - 1) : i >= q /\ Held(m, i)
  <2> SUFFICES ASSUME q > 0
               PROVE  Copies(m) > 0 \/ FoundNoRoom(m) \/ \E i \in 1..(N(m) - 1) : i >= q /\ Held(m, i)
    OBVIOUS
  <2>1. p - 1 \in Nat /\ p = (p - 1) + 1
    BY <1>2, <1>3, <1>4
  <2>2. Got(m, c, p - 1)
    BY <1>1, <2>1 DEF GotSoFar, Trusted, Takes
  <2>3. \A i \in 1..(N(m) - 1) : i > p - 1 => i >= q
    BY <1>2, <1>3, <1>4
  <2> QED BY <2>2, <2>3 DEF Got
<1>8. Copies(m)' > 0 \/ FoundNoRoom(m)' \/ \E i \in 1..(N(m) - 1) : i > q /\ Held(m, i)'
  <2>1. CASE Delivers(m)
    BY <1>2, <2>1 DEF Delivers
  <2>2. CASE N(m) # 1 /\ q = 0 /\ Held(m, 1)'
    <3>1. 1 \in 1..(N(m) - 1) /\ 1 > q
      BY <1>2, <2>2
    <3> QED BY <2>2, <3>1
  <2>3. CASE q = 0 /\ Same /\ Holds(m)
    <3>1. PICK i \in 1..(N(m) - 1) : Held(m, i)
      BY <2>3 DEF Holds
    <3> QED BY <2>3, <3>1 DEF Same
  <2>4. CASE q > 0 /\ Leaves /\ Same /\ ~Held(m, q)
    <3>1. CASE Copies(m) > 0 \/ FoundNoRoom(m)
      BY <1>2, <2>4, <3>1 DEF Leaves
    <3>2. CASE \E i \in 1..(N(m) - 1) : i >= q /\ Held(m, i)
      <4>1. PICK i \in 1..(N(m) - 1) : i >= q /\ Held(m, i)
        BY <3>2
      <4>2. i # q /\ i > q /\ Held(m, i)'
        BY <1>2, <2>4, <4>1 DEF Same
      <4> QED BY <4>2
    <3> QED BY <1>7, <2>4, <3>1, <3>2
  <2>5. CASE q > 0 /\ Leaves /\ ~Holds(m)
    <3>1. ~\E i \in 1..(N(m) - 1) : Held(m, i)
      BY <2>5 DEF Holds
    <3> QED BY <1>2, <1>7, <2>5, <3>1 DEF Leaves
  <2>6. CASE q < N(m) - 1 /\ Held(m, q + 1)'
    <3>1. q + 1 \in 1..(N(m) - 1) /\ q + 1 > q
      BY <1>2, <2>6
    <3> QED BY <2>6, <3>1
  <2>8. CASE NoRoom(m)
    BY <1>2, <2>8
  <2>7. \/ Delivers(m) \/ NoRoom(m) \/ (N(m) # 1 /\ q = 0 /\ Held(m, 1)') \/ (q = 0 /\ Same /\ Holds(m))
        \/ (q > 0 /\ Leaves /\ Same /\ ~Held(m, q)) \/ (q > 0 /\ Leaves /\ ~Holds(m))
        \/ (q < N(m) - 1 /\ Held(m, q + 1)')
    BY <1>2 DEF Takes, Received
  <2> QED BY <2>1, <2>2, <2>3, <2>4, <2>5, <2>6, <2>7, <2>8
<1>9. Got(m, c, q)'
  BY <1>2, <1>6, <1>8 DEF Got, Sooner
<1>10. Got(Present, Call, q)'
  BY <1>5, <1>9 DEF Got, Sooner, Copies, Places, FoundNoRoom, Held, N, Part, Whole
<1> QED BY <1>1, <1>4, <1>10
\* One more answer.
LEMMA NextAnswer ==
  ASSUME FifoTypes, NEW a, atOrigin' = Append(atOrigin, a)
  PROVE  Answers' = Answers \cup { a }
<1>1. PICK l : l = Len(atOrigin)
  OBVIOUS
<1>2. /\ l \in Nat /\ DOMAIN atOrigin = 1..l /\ DOMAIN atOrigin' = 1..(l + 1)
      /\ \A i \in 1..l : atOrigin'[i] = atOrigin[i]
      /\ atOrigin'[l + 1] = a
  BY <1>1 DEF FifoTypes
<1>3. 1..(l + 1) = (1..l) \cup { l + 1 }
  BY <1>2
<1> QED BY <1>2, <1>3 DEF Answers

\* enqueue() never takes back that it threw a message away.
LEMMA ThrownStays ==
  ASSUME NEW o, Route(o)
  PROVE  swallowed \subseteq swallowed'
<1>1. PICK f : f = Head(atRouter).frame
  OBVIOUS
<1>2. Nothing \/ Swallow(f) \/ (\E from, type, data : Deliver(from, type, data))
      => swallowed \subseteq swallowed'
  BY DEF Nothing, Swallow, Deliver
<1>3. CASE Linux!Enqueue(f)
  <2>1. \/ Linux!Nothing \/ Linux!Swallow(f)
        \/ \E from, type, data : Linux!Deliver(from, type, data)
    <3>1. ASSUME NEW c, Linux!Push(f, c)
          PROVE  \E from, type, data : Linux!Deliver(from, type, data)
      BY <3>1 DEF Linux!Push
    <3>2. CASE Linux!EnqueueLast(f)
      BY <3>1, <3>2 DEF Linux!EnqueueLast
    <3>3. CASE Linux!EnqueueWhole(f)
      BY <3>1, <3>3 DEF Linux!EnqueueWhole
    <3>4. CASE Linux!EnqueueFirst(f) \/ Linux!EnqueueMore(f) \/ Linux!Drop(f)
      BY <3>4 DEF Linux!EnqueueFirst, Linux!EnqueueMore, Linux!Drop
    <3> QED BY <1>3, <3>2, <3>3, <3>4 DEF Linux!Enqueue
  <2> QED BY <1>2, <2>1, SameNames
<1>4. CASE Mcu!Enqueue(f)
  <2>1. \/ Mcu!Nothing \/ Mcu!Swallow(f)
        \/ \E from, type, data : Mcu!Deliver(from, type, data)
    <3>1. ASSUME NEW from, NEW type, NEW data, Mcu!Push(f, from, type, data)
          PROVE  Mcu!Swallow(f) \/ \E s, k, d : Mcu!Deliver(s, k, d)
      BY <3>1 DEF Mcu!Push
    <3>2. CASE Mcu!EnqueueLast(f)
      BY <3>1, <3>2 DEF Mcu!EnqueueLast, Mcu!HandOver
    <3>3. CASE Mcu!EnqueueWhole(f) \/ Mcu!EnqueueExternal(f)
      BY <3>1, <3>3 DEF Mcu!EnqueueWhole, Mcu!EnqueueExternal, Mcu!HandOver
    <3>4. CASE Mcu!EnqueueFirst(f) \/ Mcu!EnqueueMore(f) \/ Mcu!Drop(f)
      BY <3>4 DEF Mcu!EnqueueFirst, Mcu!EnqueueMore, Mcu!Drop
    <3> QED BY <1>4, <3>2, <3>3, <3>4 DEF Mcu!Enqueue
  <2> QED BY <1>2, <2>1, SameNames
<1>5. Enqueue(f) \/ UNCHANGED receiver
  BY <1>1 DEF Route
<1> QED BY <1>3, <1>4, <1>5 DEF Enqueue, receiver

\* What the router's action is, for these lemmas.
LEMMA RouteTakes ==
  ASSUME RouteInv, MaxMsgs < IdSpace, NEW o, Route(o)
  PROVE  /\ UNCHANGED << job, written, attempts, outcome, deceived, build >>
         /\ \E x \in Pending, m \in 1..Len(written) : \E q \in 0..(N(m) - 1) :
              /\ FrameIs(x.frame, origin, m, q) /\ m = MsgOf(x.frame)
              /\ Divides /\ IsSending => Takes(x, m, q)
              /\ \A k : Copies(k) > 0 => Copies(k)' > 0
              /\ \A k : FoundNoRoom(k) => FoundNoRoom(k)'
              /\ \/ Answers' = Answers
                 \/ Answers' = Answers \cup { FrameId(x) } /\ Received(m, q)
<1>1. TypeInv /\ Types /\ FifoTypes /\ MaxMsgs <= IdSpace
  BY FragmentsAssumption DEF RouteInv, HoldInv, TypeInv, SenderInv
<1>2. PICK x, m : x = Head(atRouter) /\ m = MsgOf(x.frame)
  OBVIOUS
<1>3. /\ x \in Pending /\ m \in 1..Len(written) /\ N(m) \in Nat \ {0}
      /\ atRouter # << >> /\ atRouter' = Tail(atRouter)
      /\ UNCHANGED << job, written, attempts, outcome, build, deceived >>
      /\ \E q \in 0..(N(m) - 1) : /\ FrameIs(x.frame, origin, m, q) /\ First(x) = At(q) + 1
                                  /\ Arrives(m, q)
                                  /\ o \in Arriving => Received(m, q)
  BY <1>1, <1>2, Routes
<1>4. PICK q \in 0..(N(m) - 1) : /\ FrameIs(x.frame, origin, m, q) /\ First(x) = At(q) + 1
                                 /\ Arrives(m, q)
                                 /\ o \in Arriving => Received(m, q)
  BY <1>3
<1>5. Pending' \subseteq Pending /\ \A y \in Pending' : Before(x, y)
  <2>1. atRouter \in Seq(Sent)
    BY <1>1 DEF FifoTypes
  <2>2. /\ Pending' \subseteq Pending /\ x = atRouter[1] /\ atRouter' \in Seq(Sent)
        /\ \A i \in DOMAIN atRouter' : i + 1 \in DOMAIN atRouter /\ atRouter'[i] = atRouter[i + 1]
    BY <1>2, <1>3, <2>1, PendingTail
  <2>3. 1 \in DOMAIN atRouter /\ DOMAIN atRouter' \subseteq Nat \ {0}
    BY <1>3, <2>1, <2>2
  <2>4. ASSUME NEW i \in DOMAIN atRouter' PROVE Before(x, atRouter'[i])
    <3>1. i + 1 \in DOMAIN atRouter /\ 1 < i + 1 /\ atRouter'[i] = atRouter[i + 1]
      BY <2>2, <2>3
    <3> QED BY <2>2, <2>3, <3>1 DEF RouteInv, Ordered
  <2> QED BY <2>2, <2>4 DEF Pending
<1>9. swallowed \subseteq swallowed'
  BY ThrownStays
<1>10. \A k : FoundNoRoom(k) => FoundNoRoom(k)'
  BY <1>3, <1>9 DEF FoundNoRoom
<1>6. Divides /\ IsSending => Takes(x, m, q)
  BY <1>2, <1>3, <1>4, <1>5, <1>9 DEF Takes
<1>7. \A k : Copies(k) > 0 => Copies(k)' > 0
  <2>1. \A k : Copies(k) \in Nat
    BY <1>1, CopiesPlaces
  <2>2. x.call \in Nat
    BY <1>1, <1>2, <1>3, AtTheRouter
  <2>3. May(m, x.call, At(q) + 1)
    BY <1>2, <1>3, <1>4 DEF RouteInv, PendingMay
  <2>4. /\ \A k : k # m => Copies(k)' = Copies(k)
        /\ Copies(m)' = Copies(m) \/ Copies(m)' = Copies(m) + 1
    BY <1>1, <1>3, <1>4, <2>2, <2>3, CopiesAfter
  <2> QED BY <2>1, <2>4
<1>8. \/ Answers' = Answers
      \/ Answers' = Answers \cup { FrameId(x) } /\ Received(m, q)
  <2>1. \/ atOrigin' = atOrigin
        \/ o = "ok" /\ atOrigin' = Append(atOrigin, FrameId(x))
    BY <1>2 DEF Route, Acknowledges
  <2>2. CASE atOrigin' = atOrigin
    BY <2>2 DEF Answers
  <2>3. CASE o = "ok" /\ atOrigin' = Append(atOrigin, FrameId(x))
    <3>1. o \in Arriving
      BY <2>3 DEF Arriving
    <3> QED BY <1>1, <1>4, <2>3, <3>1, NextAnswer
  <2> QED BY <2>1, <2>2, <2>3
<1> QED BY <1>2, <1>3, <1>4, <1>6, <1>7, <1>8, <1>10

LEMMA TrueForward ==
  ASSUME RouteInv, MaxMsgs < IdSpace, Divides, TrueInv, NEW o, Route(o)
  PROVE  TrueInv'
<1>1. TypeInv /\ Types /\ FifoTypes
  BY DEF RouteInv, HoldInv, TypeInv, SenderInv
<1>2. UNCHANGED << job, written, attempts, outcome, deceived, build >>
  BY RouteTakes
<1>3. PICK x \in Pending, m \in 1..Len(written) : \E q \in 0..(N(m) - 1) :
        /\ FrameIs(x.frame, origin, m, q) /\ m = MsgOf(x.frame)
        /\ IsSending => Takes(x, m, q)
        /\ \A k : Copies(k) > 0 => Copies(k)' > 0
        /\ \A k : FoundNoRoom(k) => FoundNoRoom(k)'
        /\ \/ Answers' = Answers
           \/ Answers' = Answers \cup { FrameId(x) } /\ Received(m, q)
  BY RouteTakes
<1>4. PICK q \in 0..(N(m) - 1) :
        /\ FrameIs(x.frame, origin, m, q) /\ m = MsgOf(x.frame)
        /\ IsSending => Takes(x, m, q)
        /\ \A k : Copies(k) > 0 => Copies(k)' > 0
        /\ \A k : FoundNoRoom(k) => FoundNoRoom(k)'
        /\ \/ Answers' = Answers
           \/ Answers' = Answers \cup { FrameId(x) } /\ Received(m, q)
  BY <1>3
<1>5. FrameId(x) = << x.call, << m, At(q) + 1 >> >>
  <2>1. Head(x.frame.data) = << m, At(q) + 1 >>
    BY <1>1, <1>4, FrameStarts
  <2> QED BY <2>1 DEF FrameId
<1>6. PICK a : a = FrameId(x)
  OBVIOUS
<1>7. a[1] = x.call /\ a[2][1] = m
  BY <1>5, <1>6
<1>8. \A b \in Answers' : b \in Answers \/ (b = a /\ Received(m, q))
  BY <1>4, <1>6
<1>9. AnswersKnown'
  <2>1. x.call <= attempts[m]
    BY <1>1, <1>3, <1>4, AtTheRouter
  <2>2. \A b \in Answers' : b[2][1] \in 1..Len(written) /\ b[1] <= attempts[b[2][1]]
    BY <1>7, <1>8, <2>1 DEF TrueInv, AnswersKnown
  <2> QED BY <1>2, <2>2 DEF AnswersKnown
<1>10. TrueMeansDelivered'
  <2> SUFFICES ASSUME NEW k \in 1..Len(written), outcome[k] = "true",
                      isAckType(written[k].type) \/ FrameCount(written[k].len) > 1
               PROVE  Places(k)' # {} \/ k \in deceived \/ FoundNoRoom(k)'
    BY <1>2 DEF TrueMeansDelivered
  <2>1. Places(k) # {} \/ k \in deceived \/ FoundNoRoom(k)
    BY DEF TrueInv, TrueMeansDelivered
  <2>2. ASSUME Places(k) # {} PROVE Places(k)' # {}
    <3>1. Copies(k)' > 0
      BY <1>1, <1>4, <2>2, CopiesPlaces
    <3>2. Places(k)' = {} => Copies(k)' = 0
      BY FS_EmptySet DEF Copies
    <3> QED BY <3>1, <3>2
  <2> QED BY <1>4, <2>1, <2>2
<1> SUFFICES ASSUME Trusted' PROVE GotSoFar' /\ AnswersTrue'
  BY <1>9, <1>10 DEF TrueInv, GotSoFar, AnswersTrue
<1>11. IsSending /\ Present \notin deceived /\ Trusted /\ Takes(x, m, q)
  BY <1>2, <1>4 DEF Trusted, IsSending, Present
<1>12. PICK k, c, p : k = Present /\ c = Call /\ p = job[origin].msgCount
  OBVIOUS
<1>13. Present' = k /\ Call' = c /\ job'[origin].msgCount = p /\ N(Present)' = N(k)
  BY <1>2, <1>12 DEF Present, Call, N
<1>14. \A j : Got(Present, Call, j)' <=> Got(k, c, j)'
  BY <1>13 DEF Got, Sooner, Copies, Places, FoundNoRoom, Held, N, Part, Whole
<1>15. \A j \in Nat : Got(k, c, j) => Got(k, c, j)'
  BY <1>11, <1>12, <1>14, GotArrives
<1>16. GotSoFar'
  <2> SUFFICES ASSUME NEW j \in Nat, p = j + 1 PROVE Got(k, c, j)'
    BY <1>13, <1>14 DEF GotSoFar
  <2>1. Got(k, c, j)
    BY <1>11, <1>12 DEF TrueInv, GotSoFar
  <2> QED BY <1>15, <2>1
<1>17. AnswersTrue'
  <2>1. N(k) \in Nat \ {0}
    BY <1>1, <1>11, <1>12, AtTheOrigin
  <2> SUFFICES ASSUME NEW j \in 0..(N(k) - 1), << c, << k, At(j) + 1 >> >> \in Answers'
               PROVE  j <= p /\ Got(k, c, j)'
    BY <1>13, <1>14 DEF AnswersTrue, At
  <2>2. CASE << c, << k, At(j) + 1 >> >> \in Answers
    <3>1. j <= p /\ Got(k, c, j)
      BY <1>11, <1>12, <2>2 DEF TrueInv, AnswersTrue
    <3> QED BY <1>15, <2>1, <3>1
  <2>3. CASE << c, << k, At(j) + 1 >> >> = a /\ Received(m, q)
    <3>1. << c, << k, At(j) + 1 >> >> = << x.call, << m, At(q) + 1 >> >>
      BY <1>5, <1>6, <2>3
    <3>2. x.call = c /\ m = k /\ At(q) + 1 = At(j) + 1
      BY <3>1
    <3>3. q = j
      <4>1. q \in Nat /\ j \in Nat
        BY <1>11, <2>1, TakesLeaves
      <4>2. At(q) \in Nat /\ At(j) \in Nat
        BY <4>1, Offsets
      <4>3. At(q) <= At(j) /\ At(j) <= At(q)
        BY <3>2, <4>2
      <4>4. q <= j /\ j <= q
        BY <4>1, <4>3, OffsetOrder
      <4> QED BY <4>1, <4>4
    <3>4. q <= p /\ Got(Present, Call, q)'
      BY <1>11, <1>12, <2>3, <3>2, GotNow DEF TrueInv
    <3> QED BY <1>14, <3>3, <3>4
  <2> QED BY <1>8, <2>2, <2>3
<1> QED BY <1>16, <1>17
-----------------------------------------------------------------------------
FullInv == RouteInv /\ (Divides => TrueInv)

LEMMA FullInit == Init => FullInv
<1> SUFFICES ASSUME Init PROVE TrueInv
  BY RouteInit DEF FullInv
<1>1. ~IsSending /\ Answers = {}
  <2>1. job[origin].phase = "idle" /\ atOrigin = << >>
    BY Origin DEF Init, SenderInit, Idle
  <2> QED BY <2>1 DEF IsSending, Answers
<1>2. Len(written) = 0
  BY DEF Init, SenderInit
<1> QED BY <1>1, <1>2 DEF TrueInv, AnswersKnown, GotSoFar, AnswersTrue, Trusted, TrueMeansDelivered

LEMMA FullStep ==
  ASSUME MaxMsgs < IdSpace, FullInv, [Next]_vars
  PROVE  FullInv'
<1>1. RouteInv /\ RouteInv'
  <2>1. MaxMsgs <= IdSpace
    BY FragmentsAssumption
  <2> QED BY <2>1, RouteStep DEF FullInv
<1>2. build' = build
  BY DEF Next, AppWrite, AppRetry, SendHop, TakeAnswer, Timeout, DropAnswer, Route, vars
<1> SUFFICES ASSUME Divides PROVE TrueInv'
  BY <1>1, <1>2 DEF FullInv, Divides
<1>3. TrueInv
  BY DEF FullInv
<1>4. CASE \E len \in Lens, type \in MsgTypes : AppWrite(len, type)
  BY <1>1, <1>3, <1>4, TrueWrite
<1>5. CASE AppRetry
  BY <1>1, <1>3, <1>5, TrueRetry
<1>6. CASE \E o \in Outcomes, garbage \in Mcu!Garbage : SendHop(o, garbage)
  BY <1>1, <1>3, <1>6, TrueSend
<1>7. CASE TakeAnswer \/ Timeout
  BY <1>1, <1>3, <1>7, TrueWait
<1>8. CASE DropAnswer \/ UNCHANGED vars
  BY <1>1, <1>3, <1>8, TrueIdle
<1>9. CASE \E o \in Outcomes : Route(o)
  BY <1>1, <1>3, <1>9, TrueForward
<1> QED BY <1>4, <1>5, <1>6, <1>7, <1>8, <1>9 DEF Next

\* With fewer messages than ids, and where the frames of a microcontroller fill
\* MAX_PAYLOAD_SIZE exactly, write() that returned true for a message with waits means that
\* the destination has it, unless a wait took the answer to another frame or the queue of a
\* microcontroller was full.
THEOREM TrueIsDelivered ==
  MaxMsgs < IdSpace => (Spec => [](Divides => TrueMeansDelivered))
<1> SUFFICES ASSUME MaxMsgs < IdSpace PROVE Spec => [](Divides => TrueMeansDelivered)
  OBVIOUS
<1>1. FullInv /\ [Next]_vars => FullInv'
  BY FullStep
<1>2. FullInv => (Divides => TrueMeansDelivered)
  BY DEF FullInv, TrueInv
<1> QED BY <1>1, <1>2, FullInit, PTL DEF Spec
=============================================================================
