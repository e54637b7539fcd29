---------------------------- MODULE RoutingProofs ----------------------------
(***************************************************************************)
(* Theorems about Routing, for any set of nodes, any flows, any depth of   *)
(* the FIFOs and queues and any faults.  Nothing below depends on what     *)
(* NextHop computes: a frame may take any route.                           *)
(*                                                                         *)
(* The argument is about positions in the FIFOs.  Each frame agrees with   *)
(* the message its sender wrote (FrameInv), and two frames of one message  *)
(* are its data, at the destination, and its NETWORK_ACK (PairInv).        *)
(***************************************************************************)
EXTENDS Routing, TLAPS

Fifos == [ Nodes -> Seq(Frame) ]

-----------------------------------------------------------------------------
\* Typing of what write_to_pipe() may do with the FIFOs: either nothing, or one
\* frame at the end of the FIFO of another node that had room for it.
LEMMA WriteToPipe ==
  ASSUME NEW r \in Fifos, \A k \in Nodes : Len(r[k]) <= RxDepth,
         NEW n \in Nodes, NEW hop, NEW f \in Frame,
         NEW o \in write_to_pipe(r, n, hop, f)
  PROVE  /\ o.rx \in Fifos
         /\ \A k \in Nodes : Len(o.rx[k]) <= RxDepth
         /\ o.ok \in BOOLEAN /\ o.got \in BOOLEAN
         /\ o.ok => o.got
         /\ \/ o.rx = r /\ ~o.got
            \/ /\ hop \in Nodes \ {n}
               /\ o.rx = [ r EXCEPT ![hop] = Append(@, f) ]
<1> DEFINE d == [ r EXCEPT ![hop] = Append(@, f) ]
<1>0. RxDepth \in Nat \ {0}
  BY RoutingAssumption
<1>1. CASE hop \in Nodes \ {n} /\ Len(r[hop]) < RxDepth
  <2>1. d \in Fifos /\ \A k \in Nodes : Len(d[k]) <= RxDepth
    <3>1. d \in Fifos
      BY <1>1 DEF Fifos
    <3>2. ASSUME NEW k \in Nodes PROVE Len(d[k]) <= RxDepth
      <4>1. CASE k = hop
        BY <1>0, <1>1, <4>1 DEF Fifos
      <4>2. CASE k # hop
        BY <1>1, <4>2 DEF Fifos
      <4> QED BY <4>1, <4>2
    <3> QED BY <3>1, <3>2
  <2>2. o \in { Lost(r), Delivered(r, hop, f), Unheard(r, hop, f) }
    BY <1>1 DEF write_to_pipe
  <2>3. CASE o = Lost(r)
    BY <2>3 DEF Lost
  <2>4. CASE o = Delivered(r, hop, f)
    <3>1. o.rx = d /\ o.ok = TRUE /\ o.got = TRUE
      BY <2>4 DEF Delivered
    <3> HIDE DEF d
    <3> QED BY <1>1, <2>1, <3>1 DEF d
  <2>5. CASE o = Unheard(r, hop, f)
    <3>1. o.rx = d /\ o.ok = FALSE /\ o.got = TRUE
      BY <2>5 DEF Unheard
    <3> HIDE DEF d
    <3> QED BY <1>1, <2>1, <3>1 DEF d
  <2> QED BY <2>2, <2>3, <2>4, <2>5
<1>2. CASE ~(hop \in Nodes \ {n} /\ Len(r[hop]) < RxDepth)
  <2>1. o = Lost(r)
    BY <1>2 DEF write_to_pipe
  <2>2. o.rx = r /\ o.ok = FALSE /\ o.got = FALSE
    BY <2>1 DEF Lost
  <2> QED BY <2>2
<1> QED BY <1>1, <1>2

\* Taking the first frame out of a FIFO.
LEMMA TakeHead ==
  ASSUME NEW r \in Fifos, \A k \in Nodes : Len(r[k]) <= RxDepth,
         NEW n \in Nodes, r[n] # << >>
  PROVE  /\ Head(r[n]) \in Frame
         /\ [ r EXCEPT ![n] = Tail(@) ] \in Fifos
         /\ \A k \in Nodes : Len([ r EXCEPT ![n] = Tail(@) ][k]) <= RxDepth
<1> DEFINE t == [ r EXCEPT ![n] = Tail(@) ]
<1>0. RxDepth \in Nat \ {0}
  BY RoutingAssumption
<1>1. r[n] \in Seq(Frame) /\ Head(r[n]) \in Frame /\ Tail(r[n]) \in Seq(Frame)
  BY DEF Fifos
<1>2. t \in Fifos
  BY <1>1 DEF Fifos
<1>3. ASSUME NEW k \in Nodes PROVE Len(t[k]) <= RxDepth
  <2>1. Len(Tail(r[n])) = Len(r[n]) - 1
    BY <1>1
  <2>2. Len(r[n]) \in Nat /\ Len(r[k]) \in Nat
    BY DEF Fifos
  <2> QED BY <1>0, <1>1, <2>1, <2>2 DEF Fifos
<1> QED BY <1>1, <1>2, <1>3

\* What an application sends is not a NETWORK_ACK.
LEMMA TypesNoAck == \A t \in Types : t # NETWORK_ACK
BY DEF Types, NETWORK_PING, NETWORK_ACK

\* The NETWORK_ACK of a message.
LEMMA AckOfMessage ==
  ASSUME NEW s \in Message
  PROVE  /\ AckOf(s).type = NETWORK_ACK /\ IsAck(AckOf(s))
         /\ AckOf(s).to = s.from /\ AckOf(s).msg = s.msg
         /\ ~IsAck(s)
<1>1. AckOf(s).type = NETWORK_ACK /\ AckOf(s).to = s.from /\ AckOf(s).msg = s.msg
  BY DEF AckOf, Message
<1>2. s.type \in Types
  BY DEF Message
<1> QED BY <1>1, <1>2, TypesNoAck DEF IsAck

\* The NETWORK_ACK of a frame.
LEMMA AckOfType ==
  ASSUME NEW f \in Frame
  PROVE  AckOf(f) \in Frame /\ AckOf(f).type = NETWORK_ACK /\ AckOf(f).msg = f.msg
BY DEF AckOf, Frame

-----------------------------------------------------------------------------
\* The initial state has the types.
LEMMA TypeInit == Init => TypeOK
<1> SUFFICES ASSUME Init PROVE TypeOK
  OBVIOUS
<1>1. MaxWrites \in Nat /\ RxDepth \in Nat \ {0} /\ MaxCrashes \in Nat
  BY RoutingAssumption
<1> QED BY <1>1 DEF Init, TypeOK

\* No step changes a type.
LEMMA TypeStep == TypeOK /\ [Next]_vars => TypeOK'
<1> SUFFICES ASSUME TypeOK, [Next]_vars PROVE TypeOK'
  OBVIOUS
<1>0. /\ rx \in Fifos /\ \A k \in Nodes : Len(rx[k]) <= RxDepth
      /\ RxDepth \in Nat \ {0} /\ MaxWrites \in Nat /\ MaxCrashes \in Nat
  BY RoutingAssumption DEF TypeOK, Fifos
<1>1. ASSUME NEW fl \in Flows, AppWrite(fl[1], fl[2], fl[3]) PROVE TypeOK'
  <2> DEFINE n   == fl[1]
             to  == fl[2]
             m   == Len(sent) + 1
             f   == [ from |-> n, to |-> to, type |-> fl[3], msg |-> m ]
             hop == NextHop(n, to)
  <2>1. n \in Nodes /\ to \in Nodes /\ fl[3] \in Types
    BY RoutingAssumption DEF Types
  <2>2. m \in Msg /\ f \in Message /\ f \in Frame
    BY <1>1, <2>1 DEF AppWrite, Message, Frame
  <2>3. PICK o \in write_to_pipe(rx, n, hop, f) :
          /\ rx' = o.rx
          /\ reached' = reached \cup Arrival(f, hop, o.got)
          /\ \/ /\ waiting' = [ waiting EXCEPT ![n] = m ]
                /\ outcome' = [ outcome EXCEPT ![m] = "pending" ]
             \/ /\ outcome' = [ outcome EXCEPT ![m] = Result(o.ok) ]
                /\ UNCHANGED waiting
    BY <1>1 DEF AppWrite
  <2>4. rx' \in Fifos /\ \A k \in Nodes : Len(rx'[k]) <= RxDepth
    <3> HIDE DEF f, hop, n
    <3> QED BY <1>0, <2>1, <2>2, <2>3, WriteToPipe
  <2>5. waiting' \in [ Nodes -> {0} \cup Msg ]
    <3>1. waiting' = [ waiting EXCEPT ![n] = m ] \/ waiting' = waiting
      BY <2>3
    <3>2. waiting \in [ Nodes -> {0} \cup Msg ] /\ m \in {0} \cup Msg
      BY <2>2 DEF TypeOK
    <3> HIDE DEF f, hop, n
    <3> QED BY <3>1, <3>2
  <2>6. outcome' \in [ Msg -> { "none", "pending", "true", "false" } ]
    BY <2>2, <2>3 DEF TypeOK, Result
  <2>7. reached' \in SUBSET Msg
    BY <2>2, <2>3 DEF TypeOK, Arrival
  <2>8. sent' \in Seq(Message) /\ Len(sent') <= MaxWrites
    <3>1. sent' = Append(sent, f)
      BY <1>1 DEF AppWrite
    <3> HIDE DEF f
    <3> QED BY <1>0, <2>2, <3>1 DEF TypeOK, Msg
  <2> QED BY <1>1, <2>4, <2>5, <2>6, <2>7, <2>8 DEF AppWrite, TypeOK, Fifos
<1>2. ASSUME NEW n \in Nodes, HandlePing(n) PROVE TypeOK'
  BY <1>0, <1>2, TakeHead DEF HandlePing, TypeOK, Fifos
<1>3. ASSUME NEW n \in Nodes, HandleAck(n) PROVE TypeOK'
  <2>1. /\ Head(rx[n]) \in Frame
        /\ rx' \in Fifos /\ \A k \in Nodes : Len(rx'[k]) <= RxDepth
    BY <1>0, <1>3, TakeHead DEF HandleAck
  <2>2. CASE waiting[n] # 0
    <3>1. waiting[n] \in Msg /\ Head(rx[n]).msg \in Msg
      BY <2>1, <2>2 DEF TypeOK, Frame
    <3>2. /\ waiting' \in [ Nodes -> {0} \cup Msg ]
          /\ outcome' \in [ Msg -> { "none", "pending", "true", "false" } ]
          /\ answer'  \in [ Msg -> {0} \cup Msg ]
      BY <1>3, <2>2, <3>1 DEF HandleAck, TypeOK
    <3> QED BY <1>3, <2>1, <3>2 DEF HandleAck, TypeOK, Fifos
  <2>3. CASE waiting[n] = 0
    BY <1>3, <2>1, <2>3 DEF HandleAck, TypeOK, Fifos
  <2> QED BY <2>2, <2>3
<1>4. ASSUME NEW n \in Nodes, Enqueue(n) PROVE TypeOK'
  <2>1. /\ Head(rx[n]) \in Frame
        /\ rx' \in Fifos /\ \A k \in Nodes : Len(rx'[k]) <= RxDepth
    BY <1>0, <1>4, TakeHead DEF Enqueue
  <2>2. Push(queue[n], Head(rx[n]).msg) \in Seq(Msg)
    BY <2>1 DEF TypeOK, Push, Frame
  <2>3. queue' \in [ Nodes -> Seq(Msg) ]
    BY <1>4, <2>2 DEF Enqueue, TypeOK
  <2> QED BY <1>4, <2>1, <2>3 DEF Enqueue, TypeOK, Fifos
<1>5. ASSUME NEW n \in Nodes, Route(n) PROVE TypeOK'
  <2> DEFINE f    == Head(rx[n])
             hop  == NextHop(n, f.to)
             back == NextHop(n, f.from)
             rest == [ rx EXCEPT ![n] = Tail(@) ]
  <2>1. /\ f \in Frame /\ AckOf(f) \in Frame
        /\ rest \in Fifos /\ \A k \in Nodes : Len(rest[k]) <= RxDepth
    BY <1>0, <1>5, TakeHead, AckOfType DEF Route
  <2>2. PICK o \in write_to_pipe(rest, n, hop, f) :
          /\ reached' = reached \cup Arrival(f, hop, o.got)
          /\ \/ \E a \in write_to_pipe(o.rx, n, back, AckOf(f)) : rx' = a.rx
             \/ rx' = o.rx
    BY <1>5 DEF Route
  <2>3. rx' \in Fifos /\ \A k \in Nodes : Len(rx'[k]) <= RxDepth
    <3> HIDE DEF f, hop, back, rest
    <3>1. o.rx \in Fifos /\ \A k \in Nodes : Len(o.rx[k]) <= RxDepth
      BY <2>1, <2>2, WriteToPipe
    <3>2. CASE rx' = o.rx
      BY <3>1, <3>2
    <3>3. ASSUME NEW a \in write_to_pipe(o.rx, n, back, AckOf(f)), rx' = a.rx
          PROVE  rx' \in Fifos /\ \A k \in Nodes : Len(rx'[k]) <= RxDepth
      BY <2>1, <3>1, <3>3, WriteToPipe
    <3> QED BY <2>2, <3>2, <3>3
  <2>4. reached' \in SUBSET Msg
    BY <2>1, <2>2 DEF TypeOK, Arrival, Frame
  <2> QED BY <1>5, <2>3, <2>4 DEF Route, TypeOK, Fifos
<1>6. ASSUME NEW n \in Nodes, Timeout(n) PROVE TypeOK'
  BY <1>6 DEF Timeout, TypeOK
<1>7. ASSUME NEW n \in Nodes, AppRead(n) PROVE TypeOK'
  <2>1. /\ Append(readBy[n], Head(queue[n])) \in Seq(Msg)
        /\ Tail(queue[n]) \in Seq(Msg)
    BY <1>7 DEF AppRead, TypeOK
  <2> QED BY <1>7, <2>1 DEF AppRead, TypeOK
<1>8. ASSUME NEW n \in Nodes, Crash(n) PROVE TypeOK'
  BY <1>0, <1>8 DEF Crash, TypeOK
<1>9. CASE UNCHANGED vars
  BY <1>9 DEF vars, TypeOK
<1> QED BY <1>1, <1>2, <1>3, <1>4, <1>5, <1>6, <1>7, <1>8, <1>9 DEF Next, Update

\* Every variable keeps its type, and no radio ever holds more frames than its
\* RX FIFO has room for (write_to_pipe(), update()).
THEOREM TypeCorrect == Spec => []TypeOK
<1>1. Init => TypeOK
  BY TypeInit
<1>2. TypeOK /\ [Next]_vars => TypeOK'
  BY TypeStep
<1> QED BY <1>1, <1>2, PTL DEF Spec
-----------------------------------------------------------------------------
(***************************************************************************)
(* The inductive invariant.  snt, rch and ans stand for the history        *)
(* variables sent, reached and answer, so that the lemmas can speak of the *)
(* FIFOs in the middle of an action.                                       *)
(***************************************************************************)

\* A frame f in the FIFO of node n is the message that was sent, or the
\* NETWORK_ACK of a message that reached its destination; and if some write()
\* was already answered with the NETWORK_ACK of this message, it is what is
\* left of the message at its destination.
FrameInv(f, n, snt, rch, ans) ==
  /\ f.msg \in 1..Len(snt)
  /\ f = snt[f.msg] \/ (f = AckOf(snt[f.msg]) /\ f.msg \in rch)
  /\ \A k \in Msg : ans[k] = f.msg => (~IsAck(f) /\ n = f.to)

\* Two frames of one message, f at node n and g at node k, are the NETWORK_ACK
\* and the data, and the data has arrived.
PairInv(f, n, g, k) ==
  f.msg = g.msg => \/ IsAck(f) /\ ~IsAck(g) /\ k = g.to
                   \/ IsAck(g) /\ ~IsAck(f) /\ n = f.to

FramesInv(r, snt, rch, ans) ==
  \A n \in Nodes : \A i \in DOMAIN r[n] : FrameInv(r[n][i], n, snt, rch, ans)

PairsInv(r) ==
  \A n, k \in Nodes : \A i \in DOMAIN r[n], j \in DOMAIN r[k] :
    (n # k \/ i # j) => PairInv(r[n][i], n, r[k][j], k)

\* f would be in accordance with all frames of r if it were at node n.
Fits(f, n, r) == \A k \in Nodes : \A j \in DOMAIN r[k] : PairInv(f, n, r[k][j], k)

\* The messages a node has written, its wait, and the answers it got.
WaitInv ==
  \A n \in Nodes : waiting[n] # 0 =>
    /\ waiting[n] \in 1..Len(sent)
    /\ Waits(sent[waiting[n]])
    /\ sent[waiting[n]].from = n
    /\ \A m \in 1..Len(sent) : sent[m].from = n => m <= waiting[n]

HistoryInv ==
  /\ reached \subseteq 1..Len(sent)
  /\ \A m \in 1..Len(sent) : sent[m].msg = m
  /\ \A m \in Msg : answer[m] # 0 => m \in 1..Len(sent)

IInv == /\ TypeOK
        /\ FramesInv(rx, sent, reached, answer)
        /\ PairsInv(rx)
        /\ WaitInv
        /\ HistoryInv
        /\ AnswersBacked
        /\ DirectSuccessReached

-----------------------------------------------------------------------------
\* What is left in the FIFOs after a frame was taken out was there before, at
\* another position than the frame.
LEMMA TakeHeadInv ==
  ASSUME NEW r \in Fifos, NEW n \in Nodes, r[n] # << >>,
         NEW snt, NEW rch, NEW ans,
         FramesInv(r, snt, rch, ans), PairsInv(r)
  PROVE  LET t == [ r EXCEPT ![n] = Tail(@) ]
         IN  /\ FramesInv(t, snt, rch, ans)
             /\ PairsInv(t)
             /\ Fits(Head(r[n]), n, t)
             /\ FrameInv(Head(r[n]), n, snt, rch, ans)
<1> DEFINE t == [ r EXCEPT ![n] = Tail(@) ]
           old(k, i) == IF k = n THEN i + 1 ELSE i
<1>1. /\ r[n] \in Seq(Frame) /\ 1 \in DOMAIN r[n] /\ Head(r[n]) = r[n][1]
  BY DEF Fifos
<1>2. ASSUME NEW k \in Nodes, NEW i \in DOMAIN t[k]
      PROVE  /\ old(k, i) \in DOMAIN r[k] /\ t[k][i] = r[k][old(k, i)]
             /\ i \in Nat
             /\ k # n \/ old(k, i) # 1
  <2>1. CASE k = n
    BY <1>1, <2>1 DEF Fifos
  <2>2. CASE k # n
    <3>1. t[k] = r[k] /\ r[k] \in Seq(Frame)
      BY <2>2 DEF Fifos
    <3> QED BY <2>2, <3>1
  <2> QED BY <2>1, <2>2
<1>3. ASSUME NEW k \in Nodes, NEW l \in Nodes, NEW i \in DOMAIN t[k],
             NEW j \in DOMAIN t[l], k # l \/ i # j
      PROVE  k # l \/ old(k, i) # old(l, j)
  BY <1>2, <1>3
<1> HIDE DEF t, old
<1>4. FramesInv(t, snt, rch, ans)
  BY <1>2 DEF FramesInv
<1>5. PairsInv(t)
  BY <1>2, <1>3 DEF PairsInv
<1>6. Fits(Head(r[n]), n, t)
  BY <1>1, <1>2 DEF PairsInv, Fits
<1>7. FrameInv(Head(r[n]), n, snt, rch, ans)
  BY <1>1 DEF FramesInv
<1> QED BY <1>4, <1>5, <1>6, <1>7 DEF t

\* PairInv does not depend on the order of the two frames.
LEMMA PairSymmetric ==
  ASSUME NEW f, NEW n, NEW g, NEW k, PairInv(f, n, g, k)
  PROVE  PairInv(g, k, f, n)
BY DEF PairInv

\* A frame that fits may be put at the end of a FIFO.
LEMMA DeliverInv ==
  ASSUME NEW r \in Fifos, NEW hop \in Nodes, NEW f \in Frame,
         NEW snt, NEW rch, NEW ans,
         FramesInv(r, snt, rch, ans), PairsInv(r),
         FrameInv(f, hop, snt, rch, ans), Fits(f, hop, r)
  PROVE  LET d == [ r EXCEPT ![hop] = Append(@, f) ]
         IN  FramesInv(d, snt, rch, ans) /\ PairsInv(d)
<1> DEFINE d == [ r EXCEPT ![hop] = Append(@, f) ]
<1>1. ASSUME NEW k \in Nodes, NEW i \in DOMAIN d[k]
      PROVE  \/ i \in DOMAIN r[k] /\ d[k][i] = r[k][i]
             \/ k = hop /\ i = Len(r[hop]) + 1 /\ d[k][i] = f
  <2>1. CASE k = hop
    BY <2>1 DEF Fifos
  <2>2. CASE k # hop
    <3>1. d[k] = r[k]
      BY <2>2 DEF Fifos
    <3> QED BY <3>1
  <2> QED BY <2>1, <2>2
<1> HIDE DEF d
<1>2. FramesInv(d, snt, rch, ans)
  BY <1>1 DEF FramesInv
<1>3. PairsInv(d)
  <2> SUFFICES ASSUME NEW k \in Nodes, NEW l \in Nodes,
                      NEW i \in DOMAIN d[k], NEW j \in DOMAIN d[l], k # l \/ i # j
               PROVE  PairInv(d[k][i], k, d[l][j], l)
    BY DEF PairsInv
  <2>1. CASE i \in DOMAIN r[k] /\ d[k][i] = r[k][i] /\ j \in DOMAIN r[l] /\ d[l][j] = r[l][j]
    BY <2>1 DEF PairsInv
  <2>2. CASE /\ i \in DOMAIN r[k] /\ d[k][i] = r[k][i]
             /\ l = hop /\ d[l][j] = f
    BY <2>2, PairSymmetric DEF Fits
  <2>3. CASE /\ k = hop /\ d[k][i] = f
             /\ j \in DOMAIN r[l] /\ d[l][j] = r[l][j]
    BY <2>3 DEF Fits
  <2> QED BY <1>1, <2>1, <2>2, <2>3
<1> QED BY <1>2, <1>3 DEF d

\* An empty FIFO contains no frame that could disagree with anything.
LEMMA ClearInv ==
  ASSUME NEW r \in Fifos, NEW n \in Nodes, NEW snt, NEW rch, NEW ans,
         FramesInv(r, snt, rch, ans), PairsInv(r)
  PROVE  LET c == [ r EXCEPT ![n] = << >> ]
         IN  FramesInv(c, snt, rch, ans) /\ PairsInv(c)
<1> DEFINE c == [ r EXCEPT ![n] = << >> ]
<1>1. ASSUME NEW k \in Nodes, NEW i \in DOMAIN c[k]
      PROVE  i \in DOMAIN r[k] /\ c[k][i] = r[k][i]
  <2>1. k # n
    BY DEF Fifos
  <2> QED BY <2>1 DEF Fifos
<1> HIDE DEF c
<1> QED BY <1>1 DEF FramesInv, PairsInv, c

\* Frames stay in accordance with a history that has grown.
LEMMA HistoryGrows ==
  ASSUME NEW r \in Fifos, NEW snt \in Seq(Message), NEW m \in Message,
         NEW rch, NEW more, NEW ans, FramesInv(r, snt, rch, ans)
  PROVE  /\ FramesInv(r, snt, rch \cup more, ans)
         /\ FramesInv(r, Append(snt, m), rch \cup more, ans)
<1>1. /\ Len(Append(snt, m)) = Len(snt) + 1
      /\ \A i \in 1..Len(snt) : Append(snt, m)[i] = snt[i]
      /\ Len(snt) \in Nat
  OBVIOUS
<1> DEFINE long == Append(snt, m)
<1> HIDE DEF long
<1> QED BY <1>1 DEF FramesInv, FrameInv, long

-----------------------------------------------------------------------------
\* write() of an application: the new message has a serial number no frame and
\* no answer has yet.
LEMMA AppWriteStep ==
  ASSUME IInv, TypeOK', NEW fl \in Flows, AppWrite(fl[1], fl[2], fl[3])
  PROVE  IInv'
<1> DEFINE n   == fl[1]
           to  == fl[2]
           m   == Len(sent) + 1
           f   == [ from |-> n, to |-> to, type |-> fl[3], msg |-> m ]
           hop == NextHop(n, to)
<1>1. /\ n \in Nodes /\ to \in Nodes /\ fl[3] \in Types
      /\ rx \in Fifos /\ (\A k \in Nodes : Len(rx[k]) <= RxDepth)
      /\ sent \in Seq(Message) /\ Len(sent) \in Nat
  BY RoutingAssumption DEF Types, IInv, TypeOK, Fifos
<1>2. /\ m \in Msg /\ f \in Message /\ f \in Frame /\ f.msg = m /\ ~IsAck(f)
      /\ f.from = n /\ f.to = to /\ f.type = fl[3]
  <2>1. m \in Msg
    BY DEF AppWrite
  <2>2. fl[3] # NETWORK_ACK
    BY <1>1, TypesNoAck
  <2> QED BY <1>1, <2>1, <2>2 DEF Message, Frame, IsAck
<1>3. PICK o \in write_to_pipe(rx, n, hop, f) :
        /\ rx' = o.rx
        /\ reached' = reached \cup Arrival(f, hop, o.got)
        /\ \/ /\ hop # to /\ isAckType(fl[3])
              /\ waiting' = [ waiting EXCEPT ![n] = m ]
              /\ outcome' = [ outcome EXCEPT ![m] = "pending" ]
           \/ /\ outcome' = [ outcome EXCEPT ![m] = Result(o.ok) ]
              /\ UNCHANGED waiting
  BY DEF AppWrite
<1>4. /\ sent' = Append(sent, f) /\ answer' = answer /\ waiting[n] = 0
  BY DEF AppWrite
<1>5. /\ Len(sent') = m /\ sent'[m] = f
      /\ \A i \in 1..Len(sent) : sent'[i] = sent[i]
  <2> HIDE DEF f
  <2> QED BY <1>1, <1>2, <1>4
<1>6. /\ Arrival(f, hop, o.got) \subseteq {m}
      /\ reached \subseteq reached' /\ reached' \subseteq reached \cup {m}
      /\ o.got /\ hop = to => m \in reached'
  BY <1>2, <1>3 DEF Arrival, IsAck
<1>7. /\ o.ok \in BOOLEAN /\ (o.ok => o.got)
      /\ \/ rx' = rx
         \/ hop \in Nodes /\ rx' = [ rx EXCEPT ![hop] = Append(@, f) ]
  <2>1. o \in write_to_pipe(rx, n, hop, f) /\ rx' = o.rx
    BY <1>3
  <2> HIDE DEF f, hop, n
  <2>2. /\ o.ok \in BOOLEAN /\ (o.ok => o.got)
        /\ \/ o.rx = rx /\ ~o.got
           \/ hop \in Nodes \ {n} /\ o.rx = [ rx EXCEPT ![hop] = Append(@, f) ]
    <3>1. n \in Nodes /\ f \in Frame /\ rx \in Fifos /\ \A k \in Nodes : Len(rx[k]) <= RxDepth
      BY <1>1, <1>2
    <3> HIDE DEF to, m
    <3> QED BY <2>1, <3>1, WriteToPipe
  <2> QED BY <2>1, <2>2
<1>8. FramesInv(rx, sent', reached', answer') /\ PairsInv(rx)
  <2> HIDE DEF f
  <2> QED BY <1>1, <1>2, <1>3, <1>4, HistoryGrows DEF IInv
<1>9. FrameInv(f, hop, sent', reached', answer')
  <2>1. \A k \in Msg : answer[k] # m
    BY <1>1, <1>2 DEF IInv, AnswersBacked, HistoryInv
  <2> QED BY <1>2, <1>4, <1>5, <2>1 DEF FrameInv
<1>10. Fits(f, hop, rx)
  BY <1>1, <1>2 DEF IInv, FramesInv, FrameInv, Fits, PairInv
<1>11. FramesInv(rx', sent', reached', answer') /\ PairsInv(rx')
  <2>1. CASE rx' = rx
    BY <1>8, <2>1
  <2>2. CASE hop \in Nodes /\ rx' = [ rx EXCEPT ![hop] = Append(@, f) ]
    <3> HIDE DEF f, hop
    <3> QED BY <1>1, <1>2, <1>8, <1>9, <1>10, <2>2, DeliverInv
  <2> QED BY <1>7, <2>1, <2>2
<1>12. WaitInv'
  <2> SUFFICES ASSUME NEW k \in Nodes, waiting'[k] # 0
               PROVE  /\ waiting'[k] \in 1..Len(sent')
                      /\ Waits(sent'[waiting'[k]])
                      /\ sent'[waiting'[k]].from = k
                      /\ \A i \in 1..Len(sent') : sent'[i].from = k => i <= waiting'[k]
    BY DEF WaitInv
  <2>1. CASE k = n
    <3>1. waiting'[n] = m /\ hop # to /\ isAckType(fl[3])
      BY <1>1, <1>3, <1>4, <2>1 DEF IInv, TypeOK
    <3>2. Waits(f)
      BY <1>2, <3>1 DEF Waits
    <3> HIDE DEF f, hop, n
    <3> QED BY <1>1, <1>2, <1>5, <2>1, <3>1, <3>2
  <2>2. CASE k # n
    <3>1. waiting'[k] = waiting[k]
      BY <1>1, <1>3, <2>2 DEF IInv, TypeOK
    <3>2. /\ waiting[k] \in 1..Len(sent)
          /\ Waits(sent[waiting[k]])
          /\ sent[waiting[k]].from = k
          /\ \A i \in 1..Len(sent) : sent[i].from = k => i <= waiting[k]
      BY <3>1 DEF IInv, WaitInv
    <3> HIDE DEF f, n
    <3> QED BY <1>1, <1>2, <1>5, <2>2, <3>1, <3>2, SMTT(30)
  <2> QED BY <2>1, <2>2
<1>13. HistoryInv'
  <2> HIDE DEF f
  <2> QED BY <1>1, <1>2, <1>4, <1>5, <1>6 DEF IInv, HistoryInv
<1>14. AnswersBacked'
  <2> SUFFICES ASSUME NEW i \in Msg, answer[i] # 0
               PROVE  /\ answer[i] \in reached'
                      /\ answer[i] <= i
                      /\ sent'[answer[i]].from = sent'[i].from
                      /\ \A k \in Msg : answer[k] = answer[i] => k = i
    BY <1>4 DEF AnswersBacked
  <2>1. i \in 1..Len(sent) /\ answer[i] \in 1..Len(sent)
    BY DEF IInv, HistoryInv, AnswersBacked
  <2> HIDE DEF f
  <2> QED BY <1>5, <1>6, <2>1 DEF IInv, AnswersBacked
<1>15. DirectSuccessReached'
  <2> SUFFICES ASSUME NEW i \in 1..Len(sent'), outcome'[i] = "true",
                      NextHop(sent'[i].from, sent'[i].to) = sent'[i].to
               PROVE  i \in reached'
    BY DEF DirectSuccessReached
  <2>1. CASE i = m
    <3>1. outcome'[m] = "pending" \/ outcome'[m] = Result(o.ok)
      BY <1>2, <1>3 DEF IInv, TypeOK
    <3>2. o.ok
      BY <2>1, <3>1, <1>7 DEF Result
    <3>3. hop = to
      BY <1>2, <1>5, <2>1
    <3> QED BY <1>6, <1>7, <2>1, <3>2, <3>3
  <2>2. CASE i # m
    <3>1. i \in 1..Len(sent) /\ i \in Msg
      <4>1. MaxWrites \in Nat
        BY RoutingAssumption
      <4>2. m \in 1..MaxWrites /\ i \in 1..m
        BY <1>2, <1>5 DEF Msg
      <4> QED BY <1>1, <2>2, <4>1, <4>2 DEF Msg
    <3>2. outcome'[i] = outcome[i]
      BY <1>2, <1>3, <2>2, <3>1 DEF IInv, TypeOK
    <3> HIDE DEF f
    <3> QED BY <1>5, <1>6, <3>1, <3>2 DEF IInv, DirectSuccessReached
  <2> QED BY <2>1, <2>2
<1> QED BY <1>11, <1>12, <1>13, <1>14, <1>15 DEF IInv

\* A router: the data frame it holds is the only trace of the message, so both
\* the frame and, behind it, the NETWORK_ACK may be put into other FIFOs.
LEMMA RouteStep ==
  ASSUME IInv, TypeOK', NEW n \in Nodes, Route(n)
  PROVE  IInv'
<1> DEFINE f    == Head(rx[n])
           hop  == NextHop(n, f.to)
           back == NextHop(n, f.from)
           rest == [ rx EXCEPT ![n] = Tail(@) ]
<1>1. /\ rx \in Fifos /\ (\A k \in Nodes : Len(rx[k]) <= RxDepth)
      /\ rx[n] # << >> /\ f.to # n
      /\ sent \in Seq(Message) /\ Len(sent) \in Nat
  BY DEF IInv, TypeOK, Fifos, Route
<1>2. /\ f \in Frame /\ AckOf(f) \in Frame
      /\ rest \in Fifos /\ \A k \in Nodes : Len(rest[k]) <= RxDepth
  BY <1>1, TakeHead, AckOfType
<1>3. PICK o \in write_to_pipe(rest, n, hop, f) :
        /\ reached' = reached \cup Arrival(f, hop, o.got)
        /\ \/ /\ Acknowledges(o.ok, hop, f)
              /\ \E a \in write_to_pipe(o.rx, n, back, AckOf(f)) : rx' = a.rx
           \/ rx' = o.rx
  BY DEF Route
<1>4. UNCHANGED << waiting, sent, outcome, answer >>
  BY DEF Route
<1>5. /\ FramesInv(rest, sent, reached, answer) /\ PairsInv(rest)
      /\ Fits(f, n, rest)
      /\ FrameInv(f, n, sent, reached, answer)
  BY <1>1, TakeHeadInv DEF IInv
<1> HIDE DEF f, hop, back, rest
\* f may move on: what is true of it here is true of it anywhere.
<1>6. /\ FramesInv(rest, sent, reached', answer)
      /\ FrameInv(f, hop, sent, reached', answer)
      /\ Fits(f, hop, rest)
  <2>1. FramesInv(rest, sent, reached', answer)
    <3>1. FramesInv(rest, sent, reached \cup Arrival(f, hop, o.got), answer)
      BY <1>5 DEF FramesInv, FrameInv
    <3> QED BY <1>3, <3>1
  <2>2. \A k \in Msg : answer[k] # f.msg
    BY <1>1, <1>5 DEF FrameInv
  <2>3. FrameInv(f, hop, sent, reached', answer)
    BY <1>3, <1>5, <2>2 DEF FrameInv
  <2>4. Fits(f, hop, rest)
    BY <1>1, <1>5 DEF Fits, PairInv
  <2> QED BY <2>1, <2>3, <2>4
<1>7. /\ o.rx \in Fifos /\ (\A k \in Nodes : Len(o.rx[k]) <= RxDepth)
      /\ (o.ok => o.got)
      /\ \/ o.rx = rest /\ ~o.got
         \/ hop \in Nodes /\ o.rx = [ rest EXCEPT ![hop] = Append(@, f) ]
  BY <1>2, <1>3, WriteToPipe
<1>8. FramesInv(o.rx, sent, reached', answer) /\ PairsInv(o.rx)
  <2>1. CASE o.rx = rest
    BY <1>5, <1>6, <2>1
  <2>2. CASE hop \in Nodes /\ o.rx = [ rest EXCEPT ![hop] = Append(@, f) ]
    BY <1>2, <1>5, <1>6, <2>2, DeliverInv
  <2> QED BY <1>7, <2>1, <2>2
<1>9. FramesInv(rx', sent, reached', answer) /\ PairsInv(rx')
  <2>1. CASE rx' = o.rx
    BY <1>8, <2>1
  <2>2. ASSUME Acknowledges(o.ok, hop, f),
               NEW a \in write_to_pipe(o.rx, n, back, AckOf(f)), rx' = a.rx
        PROVE  FramesInv(rx', sent, reached', answer) /\ PairsInv(rx')
    <3>1. /\ o.ok /\ o.got /\ hop = f.to /\ isAckType(f.type)
          /\ hop \in Nodes /\ o.rx = [ rest EXCEPT ![hop] = Append(@, f) ]
      BY <1>7, <2>2 DEF Acknowledges
    <3>2. ~IsAck(f) /\ f = sent[f.msg] /\ f.msg \in reached'
      <4>1. ~IsAck(f)
        BY <3>1 DEF IsAck, isAckType, NETWORK_ACK
      <4>2. f = sent[f.msg]
        <5>1. sent[f.msg] \in Message
          BY <1>1, <1>5 DEF FrameInv
        <5> QED BY <1>5, <4>1, <5>1, AckOfMessage DEF FrameInv
      <4>3. f.msg \in reached'
        BY <1>3, <3>1, <4>1 DEF Arrival, IsAck
      <4> QED BY <4>1, <4>2, <4>3
    <3>3. IsAck(AckOf(f)) /\ AckOf(f).msg = f.msg /\ AckOf(f) = AckOf(sent[f.msg])
      BY <1>2, <3>2, AckOfType DEF IsAck
    <3>4. FrameInv(AckOf(f), back, sent, reached', answer)
      <4>1. \A k \in Msg : answer[k] # f.msg
        BY <1>1, <1>5 DEF FrameInv
      <4> QED BY <1>5, <3>2, <3>3, <4>1 DEF FrameInv
    <3>5. Fits(AckOf(f), back, o.rx)
      <4> SUFFICES ASSUME NEW k \in Nodes, NEW j \in DOMAIN o.rx[k]
                   PROVE  PairInv(AckOf(f), back, o.rx[k][j], k)
        BY DEF Fits
      <4>1. \/ j \in DOMAIN rest[k] /\ o.rx[k][j] = rest[k][j]
            \/ k = hop /\ o.rx[k][j] = f
        <5>1. CASE k = hop
          BY <1>2, <3>1, <5>1 DEF Fifos
        <5>2. CASE k # hop
          <6>1. o.rx[k] = rest[k]
            BY <1>2, <3>1, <5>2 DEF Fifos
          <6> QED BY <6>1
        <5> QED BY <5>1, <5>2
      <4>2. CASE j \in DOMAIN rest[k] /\ o.rx[k][j] = rest[k][j]
        <5>1. f.msg # rest[k][j].msg
          BY <1>1, <1>5, <3>2, <4>2 DEF Fits, PairInv
        <5> QED BY <3>3, <4>2, <5>1 DEF PairInv
      <4>3. CASE k = hop /\ o.rx[k][j] = f
        BY <3>1, <3>2, <3>3, <4>3 DEF PairInv
      <4> QED BY <4>1, <4>2, <4>3
    <3>6. \/ rx' = o.rx
          \/ back \in Nodes /\ rx' = [ o.rx EXCEPT ![back] = Append(@, AckOf(f)) ]
      <4> DEFINE g == AckOf(f)
                 q == o.rx
      <4>1. /\ g \in Frame /\ q \in Fifos /\ \A k \in Nodes : Len(q[k]) <= RxDepth
            /\ a \in write_to_pipe(q, n, back, g) /\ rx' = a.rx
        BY <1>2, <1>7, <2>2
      <4> HIDE DEF g, q
      <4>2. \/ a.rx = q
            \/ back \in Nodes /\ a.rx = [ q EXCEPT ![back] = Append(@, g) ]
        BY <4>1, WriteToPipe, SMTT(30)
      <4> QED BY <4>1, <4>2 DEF g, q
    <3>7. CASE rx' = o.rx
      BY <1>8, <3>7
    <3>8. CASE back \in Nodes /\ rx' = [ o.rx EXCEPT ![back] = Append(@, AckOf(f)) ]
      BY <1>2, <1>7, <1>8, <3>4, <3>5, <3>8, DeliverInv
    <3> QED BY <3>6, <3>7, <3>8
  <2> QED BY <1>3, <2>1, <2>2
<1>10. reached \subseteq reached' /\ reached' \subseteq 1..Len(sent)
  BY <1>3, <1>5 DEF Arrival, IInv, HistoryInv, FrameInv
<1>11. WaitInv' /\ HistoryInv'
  BY <1>4, <1>10 DEF IInv, WaitInv, HistoryInv
<1>12. AnswersBacked' /\ DirectSuccessReached'
  BY <1>4, <1>10 DEF IInv, AnswersBacked, DirectSuccessReached
<1> QED BY <1>4, <1>9, <1>11, <1>12 DEF IInv

\* A NETWORK_ACK at its origin: it was the only one, and it answers a message
\* the node wrote no later than the one it waits for.
LEMMA HandleAckStep ==
  ASSUME IInv, TypeOK', NEW n \in Nodes, HandleAck(n)
  PROVE  IInv'
<1> DEFINE f    == Head(rx[n])
           rest == [ rx EXCEPT ![n] = Tail(@) ]
           w    == waiting[n]
<1>1. /\ rx \in Fifos /\ (\A k \in Nodes : Len(rx[k]) <= RxDepth)
      /\ rx[n] # << >> /\ f.to = n /\ IsAck(f) /\ rx' = rest
      /\ sent \in Seq(Message) /\ Len(sent) \in Nat /\ Len(sent) <= MaxWrites
      /\ MaxWrites \in Nat
  BY RoutingAssumption DEF IInv, TypeOK, Fifos, HandleAck, IsAck
<1>2. f \in Frame /\ rest \in Fifos
  BY <1>1, TakeHead
<1>3. /\ FramesInv(rest, sent, reached, answer) /\ PairsInv(rest)
      /\ Fits(f, n, rest)
      /\ FrameInv(f, n, sent, reached, answer)
  BY <1>1, TakeHeadInv DEF IInv
<1>4. UNCHANGED << sent, reached >>
  BY DEF HandleAck
<1>5. CASE w = 0
  <2>1. UNCHANGED << outcome, answer, waiting >>
    BY <1>5 DEF HandleAck
  <2> QED BY <1>1, <1>3, <1>4, <2>1
          DEF IInv, WaitInv, HistoryInv, AnswersBacked, DirectSuccessReached
<1>6. CASE w # 0
  <2>1. /\ outcome' = [ outcome EXCEPT ![w] = "true" ]
        /\ answer'  = [ answer EXCEPT ![w] = f.msg ]
        /\ waiting' = [ waiting EXCEPT ![n] = 0 ]
    BY <1>6 DEF HandleAck
  <2>2. /\ w \in 1..Len(sent) /\ w \in Msg
        /\ Waits(sent[w]) /\ sent[w].from = n
        /\ \A m \in 1..Len(sent) : sent[m].from = n => m <= w
    BY <1>1, <1>6 DEF IInv, WaitInv, Msg
  <2>3. /\ f.msg \in 1..Len(sent) /\ f.msg \in reached /\ sent[f.msg].from = n
        /\ \A k \in Msg : answer[k] # f.msg
    <3> HIDE DEF f, rest, w
    <3>1. sent[f.msg] \in Message
      BY <1>1, <1>3 DEF FrameInv
    <3>2. f = AckOf(sent[f.msg]) /\ f.msg \in reached
      BY <1>1, <1>3, <3>1, AckOfMessage DEF FrameInv
    <3>3. f.to = sent[f.msg].from
      BY <3>1, <3>2, AckOfMessage
    <3> QED BY <1>1, <1>3, <3>2, <3>3 DEF FrameInv
  <2> HIDE DEF f, rest, w
  <2>4. FramesInv(rest, sent, reached, answer')
    <3> SUFFICES ASSUME NEW k \in Nodes, NEW i \in DOMAIN rest[k]
                 PROVE  FrameInv(rest[k][i], k, sent, reached, answer')
      BY DEF FramesInv
    <3>1. FrameInv(rest[k][i], k, sent, reached, answer)
      BY <1>3 DEF FramesInv
    <3>2. rest[k][i].msg = f.msg => ~IsAck(rest[k][i]) /\ k = rest[k][i].to
      BY <1>1, <1>3 DEF Fits, PairInv
    <3>3. \A m \in Msg : answer'[m] = answer[m] \/ answer'[m] = f.msg
      BY <2>1, <2>2 DEF IInv, TypeOK
    <3> QED BY <3>1, <3>2, <3>3 DEF FrameInv
  <2>5. WaitInv'
    BY <1>4, <2>1 DEF IInv, WaitInv, TypeOK
  <2>6. HistoryInv'
    BY <1>4, <2>1, <2>2 DEF IInv, HistoryInv, TypeOK
  <2>7. AnswersBacked'
    <3> SUFFICES ASSUME NEW m \in Msg, answer'[m] # 0
                 PROVE  /\ answer'[m] \in reached
                        /\ answer'[m] <= m
                        /\ sent[answer'[m]].from = sent[m].from
                        /\ \A k \in Msg : answer'[k] = answer'[m] => k = m
      BY <1>4 DEF AnswersBacked
    <3>1. \A k \in Msg : answer'[k] = IF k = w THEN f.msg ELSE answer[k]
      BY <2>1, <2>2 DEF IInv, TypeOK
    <3>2. CASE m = w
      BY <2>2, <2>3, <3>1, <3>2
    <3>3. CASE m # w
      BY <2>3, <3>1, <3>3 DEF IInv, AnswersBacked
    <3> QED BY <3>2, <3>3
  <2>8. DirectSuccessReached'
    <3> SUFFICES ASSUME NEW m \in 1..Len(sent), outcome'[m] = "true",
                        NextHop(sent[m].from, sent[m].to) = sent[m].to
                 PROVE  m \in reached
      BY <1>4 DEF DirectSuccessReached
    <3>1. m # w
      BY <2>2 DEF Waits
    <3>2. m \in Msg /\ outcome'[m] = outcome[m]
      BY <1>1, <2>1, <2>2, <3>1 DEF IInv, TypeOK, Msg
    <3> QED BY <3>2 DEF IInv, DirectSuccessReached
  <2> QED BY <1>1, <1>3, <1>4, <2>4, <2>5, <2>6, <2>7, <2>8 DEF IInv
<1> QED BY <1>5, <1>6

\* Steps that only take frames out of the FIFOs.
LEMMA FewerFrames ==
  ASSUME IInv, TypeOK', UNCHANGED << waiting, sent, outcome, answer, reached >>,
         FramesInv(rx', sent, reached, answer), PairsInv(rx')
  PROVE  IInv'
BY DEF IInv, WaitInv, HistoryInv, AnswersBacked, DirectSuccessReached

\* At first no frame is in the air.
LEMMA InvInit == Init => IInv
<1> SUFFICES ASSUME Init PROVE IInv
  OBVIOUS
<1>1. TypeOK
  BY TypeInit
<1>2. FramesInv(rx, sent, reached, answer) /\ PairsInv(rx)
  BY DEF Init, FramesInv, PairsInv
<1>3. WaitInv /\ HistoryInv /\ AnswersBacked /\ DirectSuccessReached
  BY DEF Init, WaitInv, HistoryInv, AnswersBacked, DirectSuccessReached
<1> QED BY <1>1, <1>2, <1>3 DEF IInv

\* The invariant is inductive.
LEMMA InvStep == IInv /\ [Next]_vars => IInv'
<1> SUFFICES ASSUME IInv, [Next]_vars PROVE IInv'
  OBVIOUS
<1>0. /\ TypeOK /\ TypeOK' /\ rx \in Fifos
      /\ FramesInv(rx, sent, reached, answer) /\ PairsInv(rx)
  BY TypeStep DEF IInv, TypeOK, Fifos
<1>1. ASSUME NEW fl \in Flows, AppWrite(fl[1], fl[2], fl[3]) PROVE IInv'
  BY <1>0, <1>1, AppWriteStep
<1>2. ASSUME NEW n \in Nodes, HandlePing(n) PROVE IInv'
  <2>1. FramesInv(rx', sent, reached, answer) /\ PairsInv(rx')
    BY <1>0, <1>2, TakeHeadInv DEF HandlePing
  <2> QED BY <1>0, <1>2, <2>1, FewerFrames DEF HandlePing
<1>3. ASSUME NEW n \in Nodes, HandleAck(n) PROVE IInv'
  BY <1>0, <1>3, HandleAckStep
<1>4. ASSUME NEW n \in Nodes, Enqueue(n) PROVE IInv'
  <2>1. FramesInv(rx', sent, reached, answer) /\ PairsInv(rx')
    BY <1>0, <1>4, TakeHeadInv DEF Enqueue
  <2> QED BY <1>0, <1>4, <2>1, FewerFrames DEF Enqueue
<1>5. ASSUME NEW n \in Nodes, Route(n) PROVE IInv'
  BY <1>0, <1>5, RouteStep
<1>6. ASSUME NEW n \in Nodes, Timeout(n) PROVE IInv'
  <2>1. /\ outcome' = [ outcome EXCEPT ![waiting[n]] = "false" ]
        /\ waiting' = [ waiting EXCEPT ![n] = 0 ]
        /\ UNCHANGED << rx, sent, answer, reached >>
    BY <1>6 DEF Timeout
  <2>2. WaitInv' /\ HistoryInv' /\ AnswersBacked'
    BY <2>1 DEF IInv, TypeOK, WaitInv, HistoryInv, AnswersBacked
  <2>3. DirectSuccessReached'
    BY <2>1 DEF IInv, TypeOK, DirectSuccessReached, Msg
  <2> QED BY <1>0, <2>1, <2>2, <2>3 DEF IInv
<1>7. ASSUME NEW n \in Nodes, AppRead(n) PROVE IInv'
  <2>1. UNCHANGED << rx, waiting, sent, outcome, answer, reached >>
    BY <1>7 DEF AppRead
  <2> QED BY <1>0, <2>1, FewerFrames
<1>8. ASSUME NEW n \in Nodes, Crash(n) PROVE IInv'
  <2>1. /\ rx' = [ rx EXCEPT ![n] = << >> ]
        /\ waiting' = [ waiting EXCEPT ![n] = 0 ]
        /\ UNCHANGED << sent, outcome, answer, reached >>
    BY <1>8 DEF Crash
  <2>2. FramesInv(rx', sent, reached, answer) /\ PairsInv(rx')
    BY <1>0, <2>1, ClearInv
  <2>3. WaitInv' /\ HistoryInv' /\ AnswersBacked' /\ DirectSuccessReached'
    BY <2>1 DEF IInv, TypeOK, WaitInv, HistoryInv, AnswersBacked, DirectSuccessReached
  <2> QED BY <1>0, <2>1, <2>2, <2>3 DEF IInv
<1>9. CASE UNCHANGED vars
  BY <1>0, <1>9, FewerFrames DEF vars
<1> QED BY <1>1, <1>2, <1>3, <1>4, <1>5, <1>6, <1>7, <1>8, <1>9 DEF Next, Update

\* The inductive invariant implies what the runs check.
LEMMA InvImplies ==
  IInv => UniqueCopy /\ AckImpliesReached /\ AnswersBacked /\ DirectSuccessReached
<1> SUFFICES ASSUME IInv
             PROVE  UniqueCopy /\ AckImpliesReached
  BY DEF IInv
<1>1. UniqueCopy
  BY DEF IInv, PairsInv, PairInv, UniqueCopy
<1>2. AckImpliesReached
  <2> SUFFICES ASSUME NEW n \in Nodes, NEW i \in DOMAIN rx[n], IsAck(rx[n][i])
               PROVE  /\ rx[n][i].msg \in reached
                      /\ rx[n][i].to = sent[rx[n][i].msg].from
    BY DEF AckImpliesReached
  <2> DEFINE f == rx[n][i]
             s == sent[f.msg]
  <2>1. FrameInv(f, n, sent, reached, answer)
    BY DEF IInv, FramesInv
  <2>2. s \in Message
    BY <2>1 DEF IInv, TypeOK, FrameInv
  <2> HIDE DEF f
  <2>3. f = AckOf(s) /\ f.msg \in reached
    BY <2>1, <2>2, AckOfMessage DEF FrameInv, f
  <2>4. f.to = s.from
    <3> HIDE DEF s
    <3> QED BY <2>2, <2>3, AckOfMessage
  <2> QED BY <2>3, <2>4 DEF f
<1> QED BY <1>1, <1>2

\* At any time at most one copy of a message and one NETWORK_ACK for it are on
\* their way through the network (update(), write()).
THEOREM CopiesUnique == Spec => []UniqueCopy
<1>1. Spec => []IInv
  BY InvInit, InvStep, PTL DEF Spec
<1> QED BY <1>1, InvImplies, PTL

\* A NETWORK_ACK is only made for a message that reached its destination, and
\* is addressed to its origin (write()).
THEOREM AcksGenuine == Spec => []AckImpliesReached
<1>1. Spec => []IInv
  BY InvInit, InvStep, PTL DEF Spec
<1> QED BY <1>1, InvImplies, PTL

\* Every write() a NETWORK_ACK made return true is backed by a delivered message
\* of the same node, written no later, and by a different one for each of them.
THEOREM SuccessesBacked == Spec => []AnswersBacked
<1>1. Spec => []IInv
  BY InvInit, InvStep, PTL DEF Spec
<1> QED BY <1>1, InvImplies, PTL

\* A write() to a neighbour that returned true did reach the neighbour.
THEOREM DirectSuccesses == Spec => []DirectSuccessReached
<1>1. Spec => []IInv
  BY InvInit, InvStep, PTL DEF Spec
<1> QED BY <1>1, InvImplies, PTL

-----------------------------------------------------------------------------
(***************************************************************************)
(* The order of messages.  The messages from s to d all take the same way, *)
(* whatever NextHop computes: way[1] is the first hop and each next hop    *)
(* follows from the one before, as far as any of them got (far steps).     *)
(* pos[m] is how far message m is; of two messages the older is farther,   *)
(* or as far and ahead in the same FIFO.                                   *)
(***************************************************************************)
Carries(f, s, d) == ~IsAck(f) /\ f.from = s /\ f.to = d

Ahead(r, pos, n, i, k, j) ==
  \/ pos[r[k][j].msg] < pos[r[n][i].msg]
  \/ pos[r[k][j].msg] = pos[r[n][i].msg] /\ i < j

IsWay(s, d, way, far) ==
  /\ way \in [ Nat -> Nodes ] /\ far \in Nat
  /\ far > 0 => way[1] = NextHop(s, d)
  /\ \A l \in 1..(far - 1) : way[l] # d /\ way[l + 1] = NextHop(way[l], d)

Follows(r, s, d, way, far, pos) ==
  /\ pos \in [ Msg -> Nat ]
  /\ \A n \in Nodes : \A i \in DOMAIN r[n] :
       Carries(r[n][i], s, d) => /\ pos[r[n][i].msg] \in 1..far
                                 /\ way[pos[r[n][i].msg]] = n
  /\ \A n, k \in Nodes : \A i \in DOMAIN r[n], j \in DOMAIN r[k] :
       Carries(r[n][i], s, d) /\ Carries(r[k][j], s, d) /\ r[n][i].msg < r[k][j].msg
         => Ahead(r, pos, n, i, k, j)

InLine(r, s, d) ==
  \E way, far, pos : IsWay(s, d, way, far) /\ Follows(r, s, d, way, far, pos)

\* The FIFOs without the first frame of node n, and where a frame of them was before; the
\* FIFOs with one more frame.
Without(r, n)   == [ r EXCEPT ![n] = Tail(@) ]
Old(n, k, i)    == IF k = n THEN i + 1 ELSE i
With(r, hop, f) == [ r EXCEPT ![hop] = Append(@, f) ]

\* Positions in the FIFOs after the first frame was taken out of one.
LEMMA TailPositions ==
  ASSUME NEW r \in Fifos, NEW n \in Nodes, r[n] # << >>, NEW k \in Nodes,
         NEW i \in DOMAIN Without(r, n)[k]
  PROVE  /\ Old(n, k, i) \in DOMAIN r[k] /\ Without(r, n)[k][i] = r[k][Old(n, k, i)]
         /\ i \in Nat \ {0} /\ Without(r, n)[k][i] \in Frame
<1>1. r[n] \in Seq(Frame) /\ 1 \in DOMAIN r[n] /\ Head(r[n]) = r[n][1]
  BY DEF Fifos
<1>2. CASE k = n
  BY <1>1, <1>2 DEF Fifos, Without, Old
<1>3. CASE k # n
  <2>1. Without(r, n)[k] = r[k] /\ r[k] \in Seq(Frame)
    BY <1>3 DEF Fifos, Without
  <2> QED BY <1>1, <1>3, <2>1 DEF Old
<1> QED BY <1>2, <1>3

\* And after a frame was put into one.
LEMMA AppendPositions ==
  ASSUME NEW r \in Fifos, NEW hop \in Nodes, NEW f \in Frame, NEW k \in Nodes,
         NEW i \in DOMAIN With(r, hop, f)[k]
  PROVE  /\ i \in Nat \ {0} /\ Len(r[k]) \in Nat
         /\ \/ i \in DOMAIN r[k] /\ i <= Len(r[k]) /\ With(r, hop, f)[k][i] = r[k][i]
            \/ k = hop /\ i = Len(r[hop]) + 1 /\ With(r, hop, f)[k][i] = f
<1>1. r[k] \in Seq(Frame)
  BY DEF Fifos
<1>2. CASE k = hop
  BY <1>1, <1>2 DEF Fifos, With
<1>3. CASE k # hop
  <2>1. With(r, hop, f)[k] = r[k]
    BY <1>3 DEF Fifos, With
  <2> QED BY <1>1, <2>1
<1> QED BY <1>2, <1>3

\* A frame that is taken out leaves the others in line; it was the first of them.
LEMMA TailFollows ==
  ASSUME NEW r \in Fifos, NEW n \in Nodes, r[n] # << >>, PairsInv(r),
         NEW s, NEW d, NEW way, NEW far \in Nat, NEW pos, Follows(r, s, d, way, far, pos)
  PROVE  LET t == Without(r, n)
             f == Head(r[n])
         IN  /\ Follows(t, s, d, way, far, pos)
             /\ Carries(f, s, d) =>
                  /\ pos[f.msg] \in 1..far /\ way[pos[f.msg]] = n
                  /\ \A k \in Nodes : \A j \in DOMAIN t[k] :
                       Carries(t[k][j], s, d) =>
                         /\ t[k][j].msg # f.msg
                         /\ t[k][j].msg < f.msg => pos[f.msg] < pos[t[k][j].msg]
                         /\ f.msg < t[k][j].msg => pos[t[k][j].msg] <= pos[f.msg]
<1> DEFINE t == Without(r, n)
           f == Head(r[n])
<1>1. \A k \in Nodes : \A i \in DOMAIN t[k] :
        /\ Old(n, k, i) \in DOMAIN r[k] /\ t[k][i] = r[k][Old(n, k, i)]
        /\ i \in Nat \ {0} /\ t[k][i] \in Frame
  BY TailPositions
<1>2. /\ 1 \in DOMAIN r[n] /\ f = r[n][1] /\ f \in Frame
  BY DEF Fifos
<1>3. \A k \in Nodes : \A i, j \in DOMAIN t[k] : i < j <=> Old(n, k, i) < Old(n, k, j)
  BY <1>1 DEF Old
<1> HIDE DEF t, f
<1>4. Follows(t, s, d, way, far, pos)
  <2>1. ASSUME NEW k \in Nodes, NEW i \in DOMAIN t[k], Carries(t[k][i], s, d)
        PROVE  pos[t[k][i].msg] \in 1..far /\ way[pos[t[k][i].msg]] = k
    BY <1>1, <2>1 DEF Follows
  <2>2. ASSUME NEW k \in Nodes, NEW l \in Nodes, NEW i \in DOMAIN t[k], NEW j \in DOMAIN t[l],
               Carries(t[k][i], s, d), Carries(t[l][j], s, d), t[k][i].msg < t[l][j].msg
        PROVE  Ahead(t, pos, k, i, l, j)
    <3> DEFINE a == Old(n, k, i)
               b == Old(n, l, j)
    <3>1. a \in DOMAIN r[k] /\ b \in DOMAIN r[l] /\ t[k][i] = r[k][a] /\ t[l][j] = r[l][b]
      BY <1>1
    <3>2. Ahead(r, pos, k, a, l, b)
      BY <2>2, <3>1 DEF Follows
    <3>3. CASE pos[t[l][j].msg] < pos[t[k][i].msg]
      BY <3>3 DEF Ahead
    <3>4. CASE pos[t[l][j].msg] = pos[t[k][i].msg] /\ a < b
      <4>1. k = l
        BY <2>1, <2>2, <3>4
      <4>2. i < j
        BY <1>3, <3>4, <4>1
      <4> QED BY <3>4, <4>2 DEF Ahead
    <3> QED BY <3>1, <3>2, <3>3, <3>4 DEF Ahead
  <2> QED BY <2>1, <2>2 DEF Follows
<1>5. ASSUME Carries(f, s, d)
      PROVE  /\ pos[f.msg] \in 1..far /\ way[pos[f.msg]] = n
             /\ \A k \in Nodes : \A j \in DOMAIN t[k] :
                  Carries(t[k][j], s, d) =>
                    /\ t[k][j].msg # f.msg
                    /\ t[k][j].msg < f.msg => pos[f.msg] < pos[t[k][j].msg]
                    /\ f.msg < t[k][j].msg => pos[t[k][j].msg] <= pos[f.msg]
  <2>1. pos[f.msg] \in 1..far /\ way[pos[f.msg]] = n
    BY <1>2, <1>5 DEF Follows
  <2>2. ASSUME NEW k \in Nodes, NEW j \in DOMAIN t[k], Carries(t[k][j], s, d)
        PROVE  /\ t[k][j].msg # f.msg
               /\ t[k][j].msg < f.msg => pos[f.msg] < pos[t[k][j].msg]
               /\ f.msg < t[k][j].msg => pos[t[k][j].msg] <= pos[f.msg]
    <3> DEFINE b == Old(n, k, j)
    <3>1. b \in DOMAIN r[k] /\ t[k][j] = r[k][b] /\ b >= 1 /\ (k # n \/ b # 1) /\ b \in Nat
      BY <1>1 DEF Old
    <3>2. t[k][j].msg # f.msg
      BY <1>2, <1>5, <2>2, <3>1 DEF PairsInv, PairInv, Carries
    <3>3. pos[t[k][j].msg] \in Nat /\ pos[f.msg] \in Nat
      BY <1>1, <1>2 DEF Follows, Frame
    <3>4. t[k][j].msg < f.msg => Ahead(r, pos, k, b, n, 1)
      BY <1>2, <1>5, <2>2, <3>1 DEF Follows
    <3>5. f.msg < t[k][j].msg => Ahead(r, pos, n, 1, k, b)
      BY <1>2, <1>5, <2>2, <3>1 DEF Follows
    <3> QED BY <1>2, <3>1, <3>2, <3>3, <3>4, <3>5 DEF Ahead
  <2> QED BY <2>1, <2>2
<1> QED BY <1>4, <1>5 DEF t, f

\* The way may be known one step farther.
LEMMA WayGrows ==
  ASSUME NEW s, NEW d, NEW way, NEW far, IsWay(s, d, way, far), NEW hop \in Nodes,
         far = 0 => hop = NextHop(s, d),
         far > 0 => way[far] # d /\ hop = NextHop(way[far], d)
  PROVE  \E w : /\ IsWay(s, d, w, far + 1) /\ w[far + 1] = hop
                /\ \A l \in 1..far : w[l] = way[l]
<1> DEFINE w == [ way EXCEPT ![far + 1] = hop ]
<1>1. way \in [ Nat -> Nodes ] /\ far \in Nat
  BY DEF IsWay
<1>2. /\ w \in [ Nat -> Nodes ] /\ w[far + 1] = hop
      /\ \A l \in 1..far : w[l] = way[l]
  BY <1>1
<1> HIDE DEF w
<1>3. w[1] = NextHop(s, d)
  BY <1>1, <1>2 DEF IsWay
<1>4. ASSUME NEW l \in 1..far PROVE w[l] # d /\ w[l + 1] = NextHop(w[l], d)
  <2>1. CASE l = far
    BY <1>1, <1>2, <2>1
  <2>2. CASE l # far
    <3>1. l \in 1..(far - 1) /\ l + 1 \in 1..far
      BY <1>1, <2>2
    <3> QED BY <1>2, <3>1 DEF IsWay
  <2> QED BY <2>1, <2>2
<1> QED BY <1>1, <1>2, <1>3, <1>4 DEF IsWay

\* A way may be continued: what keeps to its first steps keeps to it.
LEMMA FollowsFarther ==
  ASSUME NEW r, NEW s, NEW d, NEW way, NEW far \in Nat, NEW pos,
         Follows(r, s, d, way, far, pos), NEW w, \A l \in 1..far : w[l] = way[l]
  PROVE  Follows(r, s, d, w, far + 1, pos)
<1>1. ASSUME NEW n \in Nodes, NEW i \in DOMAIN r[n], Carries(r[n][i], s, d)
      PROVE  pos[r[n][i].msg] \in 1..(far + 1) /\ w[pos[r[n][i].msg]] = n
  <2>1. pos[r[n][i].msg] \in 1..far /\ way[pos[r[n][i].msg]] = n
    BY <1>1 DEF Follows
  <2> QED BY <2>1
<1> QED BY <1>1 DEF Follows

\* A message may be put at the end of the FIFO at step p of the way, if the older ones
\* have come as far and the younger have not.
LEMMA AppendFollows ==
  ASSUME NEW r \in Fifos, NEW hop \in Nodes, NEW f \in Frame,
         NEW s, NEW d, NEW way, NEW far \in Nat, NEW pos, Follows(r, s, d, way, far, pos),
         NEW p \in 1..far, way[p] = hop,
         \A k \in Nodes : \A j \in DOMAIN r[k] :
           Carries(r[k][j], s, d) =>
             /\ r[k][j].msg # f.msg
             /\ r[k][j].msg < f.msg => p <= pos[r[k][j].msg]
             /\ f.msg < r[k][j].msg => pos[r[k][j].msg] < p
  PROVE  Follows(With(r, hop, f), s, d, way, far, [ pos EXCEPT ![f.msg] = p ])
<1> DEFINE q == With(r, hop, f)
           z == [ pos EXCEPT ![f.msg] = p ]
           Is(k, i) == i \in DOMAIN r[k] /\ i <= Len(r[k]) /\ q[k][i] = r[k][i]
           New(k, i) == k = hop /\ i = Len(r[hop]) + 1 /\ q[k][i] = f
<1>1. \A k \in Nodes : \A i \in DOMAIN q[k] :
        i \in Nat \ {0} /\ Len(r[k]) \in Nat /\ (Is(k, i) \/ New(k, i))
  BY AppendPositions
<1>2. /\ f.msg \in Msg /\ MaxWrites \in Nat /\ z \in [ Msg -> Nat ] /\ z[f.msg] = p
      /\ \A m \in Msg : m # f.msg => z[m] = pos[m]
  BY RoutingAssumption DEF Frame, Follows
<1>3. \A k \in Nodes : \A i \in DOMAIN r[k] :
        r[k][i].msg \in Msg /\ (Carries(r[k][i], s, d) => z[r[k][i].msg] = pos[r[k][i].msg])
  <2>1. \A k \in Nodes : \A i \in DOMAIN r[k] : r[k][i] \in Frame
    BY DEF Fifos
  <2> QED BY <1>2, <2>1 DEF Frame
<1> HIDE DEF q, z
<1>4. ASSUME NEW k \in Nodes, NEW i \in DOMAIN q[k], Carries(q[k][i], s, d)
      PROVE  z[q[k][i].msg] \in 1..far /\ way[z[q[k][i].msg]] = k
  <2>1. CASE Is(k, i)
    BY <1>3, <1>4, <2>1 DEF Follows
  <2>2. CASE New(k, i)
    BY <1>2, <2>2
  <2> QED BY <1>1, <2>1, <2>2
<1>5. ASSUME NEW k \in Nodes, NEW l \in Nodes, NEW i \in DOMAIN q[k], NEW j \in DOMAIN q[l],
             Carries(q[k][i], s, d), Carries(q[l][j], s, d), q[k][i].msg < q[l][j].msg
      PROVE  Ahead(q, z, k, i, l, j)
  <2>1. CASE Is(k, i) /\ Is(l, j)
    <3>1. Ahead(r, pos, k, i, l, j)
      BY <1>5, <2>1 DEF Follows
    <3>2. z[q[k][i].msg] = pos[r[k][i].msg] /\ z[q[l][j].msg] = pos[r[l][j].msg]
      BY <1>3, <1>5, <2>1
    <3> QED BY <2>1, <3>1, <3>2 DEF Ahead
  <2>2. CASE Is(k, i) /\ New(l, j)
    <3>1. z[q[k][i].msg] = pos[r[k][i].msg] /\ z[q[l][j].msg] = p /\ p <= pos[r[k][i].msg]
      BY <1>2, <1>3, <1>5, <2>2
    <3>2. pos[r[k][i].msg] \in Nat
      BY <1>3, <2>2 DEF Follows
    <3>3. CASE p < pos[r[k][i].msg]
      BY <3>1, <3>3 DEF Ahead
    <3>4. CASE p = pos[r[k][i].msg]
      <4>1. k = hop
        BY <1>5, <2>2, <3>4 DEF Follows
      <4>2. i < j
        BY <1>1, <2>2, <4>1
      <4> QED BY <3>1, <3>4, <4>2 DEF Ahead
    <3> QED BY <3>1, <3>2, <3>3, <3>4
  <2>3. CASE New(k, i) /\ Is(l, j)
    <3>1. z[q[k][i].msg] = p /\ z[q[l][j].msg] = pos[r[l][j].msg] /\ pos[r[l][j].msg] < p
      BY <1>2, <1>3, <1>5, <2>3
    <3> QED BY <3>1 DEF Ahead
  <2>4. CASE New(k, i) /\ New(l, j)
    BY <1>2, <1>5, <2>4 DEF Msg
  <2> QED BY <1>1, <2>1, <2>2, <2>3, <2>4
<1> QED BY <1>2, <1>4, <1>5 DEF Follows, q, z

\* A frame of others is put into a FIFO.
LEMMA OthersFollow ==
  ASSUME NEW r \in Fifos, NEW hop \in Nodes, NEW f \in Frame, NEW s, NEW d,
         NEW way, NEW far, NEW pos, Follows(r, s, d, way, far, pos), ~Carries(f, s, d)
  PROVE  Follows(With(r, hop, f), s, d, way, far, pos)
<1> DEFINE q == With(r, hop, f)
<1>1. \A k \in Nodes : \A i \in DOMAIN q[k] :
        Carries(q[k][i], s, d) => i \in DOMAIN r[k] /\ q[k][i] = r[k][i]
  BY AppendPositions
<1> HIDE DEF q
<1>2. \A k, l \in Nodes : \A i \in DOMAIN q[k], j \in DOMAIN q[l] :
        Carries(q[k][i], s, d) /\ Carries(q[l][j], s, d)
          => (Ahead(r, pos, k, i, l, j) <=> Ahead(q, pos, k, i, l, j))
  BY <1>1 DEF Ahead
<1> QED BY <1>1, <1>2 DEF Follows, q

\* The FIFO of a node that restarts.
LEMMA ClearFollows ==
  ASSUME NEW r \in Fifos, NEW n \in Nodes, NEW s, NEW d,
         NEW way, NEW far, NEW pos, Follows(r, s, d, way, far, pos)
  PROVE  Follows([ r EXCEPT ![n] = << >> ], s, d, way, far, pos)
<1> DEFINE c == [ r EXCEPT ![n] = << >> ]
<1>1. ASSUME NEW k \in Nodes, NEW i \in DOMAIN c[k]
      PROVE  i \in DOMAIN r[k] /\ c[k][i] = r[k][i]
  <2>1. k # n
    BY DEF Fifos
  <2> QED BY <2>1 DEF Fifos
<1> HIDE DEF c
<1>2. \A k, l \in Nodes : \A i \in DOMAIN c[k], j \in DOMAIN c[l] :
        Ahead(r, pos, k, i, l, j) <=> Ahead(c, pos, k, i, l, j)
  BY <1>1 DEF Ahead
<1>3. Follows(c, s, d, way, far, pos)
  BY <1>1, <1>2 DEF Follows
<1> QED BY <1>3 DEF c

\* A message goes one step of its way, from p to p + 1.
LEMMA StepFollows ==
  ASSUME NEW r \in Fifos, NEW hop \in Nodes, NEW f \in Frame,
         NEW s, NEW d, NEW way, NEW far \in Nat, NEW pos,
         IsWay(s, d, way, far), Follows(r, s, d, way, far, pos),
         NEW p \in 0..far,
         p = 0 => hop = NextHop(s, d),
         p > 0 => way[p] # d /\ hop = NextHop(way[p], d),
         \A k \in Nodes : \A j \in DOMAIN r[k] :
           Carries(r[k][j], s, d) =>
             /\ r[k][j].msg # f.msg
             /\ r[k][j].msg < f.msg => p < pos[r[k][j].msg]
             /\ f.msg < r[k][j].msg => pos[r[k][j].msg] <= p
  PROVE  InLine(With(r, hop, f), s, d)
<1>1. \A k \in Nodes : \A j \in DOMAIN r[k] :
        Carries(r[k][j], s, d) =>
          /\ r[k][j].msg # f.msg
          /\ r[k][j].msg < f.msg => p + 1 <= pos[r[k][j].msg]
          /\ f.msg < r[k][j].msg => pos[r[k][j].msg] < p + 1
  <2> TAKE k \in Nodes
  <2> TAKE j \in DOMAIN r[k]
  <2>1. Carries(r[k][j], s, d) => pos[r[k][j].msg] \in Nat
    BY DEF Follows
  <2> QED BY <2>1
<1>2. CASE p < far
  <2>1. way[p + 1] = hop /\ p + 1 \in 1..far
    BY <1>2 DEF IsWay
  <2>2. Follows(With(r, hop, f), s, d, way, far, [ pos EXCEPT ![f.msg] = p + 1 ])
    BY <1>1, <2>1, AppendFollows
  <2> QED BY <2>2 DEF InLine
<1>3. CASE p = far
  <2>1. PICK w : /\ IsWay(s, d, w, far + 1) /\ w[far + 1] = hop
                 /\ \A l \in 1..far : w[l] = way[l]
    BY <1>3, WayGrows
  <2>2. Follows(r, s, d, w, far + 1, pos)
    BY <2>1, FollowsFarther
  <2>3. p + 1 \in 1..(far + 1) /\ far + 1 \in Nat /\ w[p + 1] = hop
    BY <1>3, <2>1
  <2>4. Follows(With(r, hop, f), s, d, w, far + 1, [ pos EXCEPT ![f.msg] = p + 1 ])
    BY <1>1, <2>2, <2>3, AppendFollows
  <2> QED BY <2>1, <2>4 DEF InLine
<1> QED BY <1>2, <1>3

-----------------------------------------------------------------------------
\* Frame f is in some FIFO.
OnAir(r, f) == \E k \in Nodes : \E i \in DOMAIN r[k] : r[k][i] = f

\* What application and frame queue of node n got: messages to n, those of one origin in
\* their order, and older than those of it that are on their way to n.
Later(f, got, snt) == \A j \in DOMAIN got : snt[got[j]].from = f.from => got[j] < f.msg
Got(got, n, r, snt) ==
  /\ \A i \in DOMAIN got : got[i] \in 1..Len(snt) /\ snt[got[i]].to = n
  /\ \A i, j \in DOMAIN got : i < j /\ snt[got[i]].from = snt[got[j]].from => got[i] < got[j]
  /\ \A f \in Frame : OnAir(r, f) /\ ~IsAck(f) /\ f.to = n => Later(f, got, snt)

OrderInv == /\ \A s, d \in Nodes : InLine(rx, s, d)
            /\ \A n \in Nodes : Got(readBy[n] \o queue[n], n, rx, sent)

\* Which frames are in the FIFOs after a step of one of them.
LEMMA OnAirWithout ==
  ASSUME NEW r \in Fifos, NEW n \in Nodes, r[n] # << >>, NEW f, OnAir(Without(r, n), f)
  PROVE  OnAir(r, f)
<1>0. PICK k \in Nodes : \E i \in DOMAIN Without(r, n)[k] : Without(r, n)[k][i] = f
  BY DEF OnAir
<1>1. PICK i \in DOMAIN Without(r, n)[k] : Without(r, n)[k][i] = f
  BY <1>0
<1>2. Old(n, k, i) \in DOMAIN r[k] /\ r[k][Old(n, k, i)] = f
  BY <1>1, TailPositions
<1> QED BY <1>2 DEF OnAir

\* A frame put into a FIFO is the only new one in the air.
LEMMA OnAirWith ==
  ASSUME NEW r \in Fifos, NEW hop \in Nodes, NEW g \in Frame, NEW f, OnAir(With(r, hop, g), f)
  PROVE  OnAir(r, f) \/ f = g
<1>0. PICK k \in Nodes : \E i \in DOMAIN With(r, hop, g)[k] : With(r, hop, g)[k][i] = f
  BY DEF OnAir
<1>1. PICK i \in DOMAIN With(r, hop, g)[k] : With(r, hop, g)[k][i] = f
  BY <1>0
<1>2. (i \in DOMAIN r[k] /\ r[k][i] = f) \/ f = g
  BY <1>1, AppendPositions
<1> QED BY <1>2 DEF OnAir

\* What a node got stays in order while other frames come, if these are new messages.
LEMMA GotKept ==
  ASSUME NEW got, NEW n, NEW r, NEW r2, NEW snt, Len(snt) \in Nat, Got(got, n, r, snt),
         \A f \in Frame : OnAir(r2, f) /\ ~IsAck(f) => OnAir(r, f) \/ f.msg > Len(snt)
  PROVE  Got(got, n, r2, snt)
<1>1. ASSUME NEW f \in Frame, OnAir(r2, f), ~IsAck(f), f.to = n PROVE Later(f, got, snt)
  <2>1. CASE OnAir(r, f)
    BY <1>1, <2>1 DEF Got
  <2>2. CASE f.msg > Len(snt)
    <3>1. f.msg \in Nat
      BY RoutingAssumption DEF Frame, Msg
    <3>2. \A i \in DOMAIN got : got[i] \in 1..Len(snt)
      BY DEF Got
    <3>3. \A i \in DOMAIN got : got[i] < f.msg
      BY <2>2, <3>1, <3>2
    <3> QED BY <3>3 DEF Later
  <2> QED BY <1>1, <2>1, <2>2
<1> QED BY <1>1 DEF Got

\* And while messages are written.
LEMMA GotGrows ==
  ASSUME NEW got, NEW n, NEW r, NEW snt \in Seq(Message), NEW f \in Message, Got(got, n, r, snt)
  PROVE  Got(got, n, r, Append(snt, f))
<1> DEFINE long == Append(snt, f)
<1>1. /\ Len(long) = Len(snt) + 1 /\ Len(snt) \in Nat
      /\ \A i \in 1..Len(snt) : long[i] = snt[i]
  OBVIOUS
<1> HIDE DEF long
<1>2. \A i \in DOMAIN got : got[i] \in 1..Len(long) /\ long[got[i]] = snt[got[i]]
  BY <1>1 DEF Got
<1> QED BY <1>2 DEF Got, Later, long

\* What a node got, when its application reads a message.
LEMMA ReadKeeps ==
  ASSUME NEW S, NEW r \in Seq(S), NEW q \in Seq(S), q # << >>
  PROVE  Append(r, Head(q)) \o Tail(q) = r \o q
<1> DEFINE a == Append(r, Head(q)) \o Tail(q)
           b == r \o q
<1>1. /\ a \in Seq(S) /\ b \in Seq(S)
      /\ Len(a) = Len(r) + Len(q) /\ Len(b) = Len(r) + Len(q)
  OBVIOUS
<1>2. ASSUME NEW i \in 1..(Len(r) + Len(q)) PROVE a[i] = b[i]
  <2>1. CASE i <= Len(r)
    BY <2>1
  <2>2. CASE i = Len(r) + 1
    BY <2>2
  <2>3. CASE i > Len(r) + 1
    BY <2>3
  <2> QED BY <2>1, <2>2, <2>3
<1> HIDE DEF a, b
<1>3. a = b
  BY <1>1, <1>2
<1> QED BY <1>3 DEF a, b

\* When a message is put in the frame queue.
LEMMA PushKeeps ==
  ASSUME NEW S, NEW r \in Seq(S), NEW q \in Seq(S), NEW m \in S
  PROVE  r \o Append(q, m) = Append(r \o q, m)
<1> DEFINE a == r \o Append(q, m)
           b == Append(r \o q, m)
<1>1. /\ a \in Seq(S) /\ b \in Seq(S)
      /\ Len(a) = Len(r) + Len(q) + 1 /\ Len(b) = Len(r) + Len(q) + 1
  OBVIOUS
<1>2. ASSUME NEW i \in 1..(Len(r) + Len(q) + 1) PROVE a[i] = b[i]
  <2>1. CASE i <= Len(r)
    BY <2>1
  <2>2. CASE i > Len(r) /\ i <= Len(r) + Len(q)
    BY <2>2
  <2>3. CASE i = Len(r) + Len(q) + 1
    BY <2>3
  <2> QED BY <2>1, <2>2, <2>3
<1> HIDE DEF a, b
<1>3. a = b
  BY <1>1, <1>2
<1> QED BY <1>3 DEF a, b

\* A part of what a node got is in order too.
LEMMA GotPart ==
  ASSUME NEW S, NEW a \in Seq(S), NEW b \in Seq(S), NEW n, NEW r, NEW snt,
         Got(a \o b, n, r, snt)
  PROVE  Got(a, n, r, snt) /\ a \o << >> = a
<1> DEFINE c == a \o b
<1>1. /\ \A i \in DOMAIN a : i \in DOMAIN c /\ c[i] = a[i]
      /\ a \o << >> = a
  OBVIOUS
<1> HIDE DEF c
<1>2. Got(c, n, r, snt)
  BY DEF c
<1> QED BY <1>1, <1>2 DEF Got, Later

\* The first message of the FIFO of its destination: all others from its origin that are
\* on their way are younger.
LEMMA HeadIsOldest ==
  ASSUME NEW r \in Fifos, NEW n \in Nodes, r[n] # << >>, PairsInv(r),
         ~IsAck(Head(r[n])), Head(r[n]).to = n, InLine(r, Head(r[n]).from, n),
         NEW g, OnAir(Without(r, n), g), Carries(g, Head(r[n]).from, n)
  PROVE  Head(r[n]).msg < g.msg
<1>1. PICK f : f = Head(r[n])
  OBVIOUS
<1> DEFINE t == Without(r, n)
<1>2. f \in Frame /\ f.msg \in Nat
  <2>1. f \in Frame
    BY <1>1 DEF Fifos
  <2> QED BY <2>1, RoutingAssumption DEF Frame, Msg
<1>3. PICK way, far, pos : IsWay(f.from, n, way, far) /\ Follows(r, f.from, n, way, far, pos)
  BY <1>1 DEF InLine
<1>4. far \in Nat
  BY <1>3 DEF IsWay
<1>5. Carries(f, f.from, n)
  BY <1>1 DEF Carries
<1>6. /\ Follows(t, f.from, n, way, far, pos)
      /\ pos[f.msg] \in 1..far /\ way[pos[f.msg]] = n
      /\ \A k \in Nodes : \A j \in DOMAIN t[k] :
           Carries(t[k][j], f.from, n) =>
             /\ t[k][j].msg # f.msg
             /\ t[k][j].msg < f.msg => pos[f.msg] < pos[t[k][j].msg]
  BY <1>1, <1>3, <1>4, <1>5, TailFollows
<1>7. PICK k \in Nodes : \E i \in DOMAIN t[k] : t[k][i] = g
  BY DEF OnAir
<1>8. PICK i \in DOMAIN t[k] : t[k][i] = g
  BY <1>7
<1>9. g \in Frame /\ g.msg \in Nat
  BY <1>8, TailPositions, RoutingAssumption DEF Frame, Msg
<1>10. g.msg # f.msg /\ (g.msg < f.msg => pos[f.msg] < pos[g.msg]) /\ pos[g.msg] \in 1..far
  BY <1>1, <1>6, <1>8 DEF Follows
<1>11. ~(pos[f.msg] < pos[g.msg])
  BY <1>3, <1>4, <1>6, <1>10 DEF IsWay
<1> QED BY <1>1, <1>2, <1>9, <1>10, <1>11

\* The node gets one more message.
LEMMA GotMore ==
  ASSUME NEW got \in Seq(Msg), NEW n, NEW r, NEW t, NEW snt, Len(snt) \in Nat,
         Got(got, n, r, snt), NEW f \in Frame, ~IsAck(f), f.to = n, OnAir(r, f),
         f.msg \in 1..Len(snt), f = snt[f.msg],
         \A g \in Frame : OnAir(t, g) =>
           OnAir(r, g) /\ (Carries(g, f.from, n) => f.msg < g.msg)
  PROVE  Got(Append(got, f.msg), n, t, snt)
<1> DEFINE more == Append(got, f.msg)
<1>1. /\ Len(got) \in Nat /\ DOMAIN got = 1..Len(got)
      /\ DOMAIN more = 1..(Len(got) + 1) /\ more[Len(got) + 1] = f.msg
      /\ \A i \in 1..Len(got) : more[i] = got[i]
  OBVIOUS
<1> HIDE DEF more
<1>2. ASSUME NEW i \in DOMAIN more PROVE more[i] \in 1..Len(snt) /\ snt[more[i]].to = n
  BY <1>1 DEF Got
<1>3. ASSUME NEW i \in DOMAIN more, NEW j \in DOMAIN more, i < j,
             snt[more[i]].from = snt[more[j]].from
      PROVE  more[i] < more[j]
  <2>1. CASE j = Len(got) + 1
    <3>1. i \in DOMAIN got /\ more[i] = got[i]
      BY <1>1, <1>3, <2>1
    <3>2. Later(f, got, snt)
      BY DEF Got
    <3> QED BY <1>1, <1>3, <2>1, <3>1, <3>2 DEF Later
  <2>2. CASE j # Len(got) + 1
    <3>1. i \in DOMAIN got /\ more[i] = got[i] /\ j \in DOMAIN got /\ more[j] = got[j]
      BY <1>1, <1>3, <2>2
    <3> QED BY <1>3, <3>1 DEF Got
  <2> QED BY <2>1, <2>2
<1>4. ASSUME NEW g \in Frame, OnAir(t, g), ~IsAck(g), g.to = n PROVE Later(g, more, snt)
  <2>1. Later(g, got, snt)
    BY <1>4 DEF Got
  <2>2. f.from = g.from => f.msg < g.msg
    BY <1>4 DEF Carries
  <2> QED BY <1>1, <2>1, <2>2 DEF Later
<1> QED BY <1>2, <1>3, <1>4 DEF Got, more

-----------------------------------------------------------------------------
\* The FIFOs start empty, so do the queues.
LEMMA OrderInit == Init => OrderInv
<1> SUFFICES ASSUME Init PROVE OrderInv
  OBVIOUS
<1>1. ASSUME NEW s \in Nodes, NEW d \in Nodes PROVE InLine(rx, s, d)
  <2> DEFINE way == [ l \in Nat |-> s ]
             pos == [ m \in Msg |-> 0 ]
  <2>1. IsWay(s, d, way, 0)
    BY DEF IsWay
  <2>2. Follows(rx, s, d, way, 0, pos)
    BY DEF Init, Follows
  <2> HIDE DEF way, pos
  <2> QED BY <2>1, <2>2 DEF InLine
<1>2. ASSUME NEW n \in Nodes PROVE Got(readBy[n] \o queue[n], n, rx, sent)
  <2>1. readBy[n] \o queue[n] = << >>
    BY DEF Init
  <2> QED BY <2>1 DEF Got, Later
<1> QED BY <1>1, <1>2 DEF OrderInv

\* A message that is not a NETWORK_ACK is what its origin wrote.
LEMMA DataFrame ==
  ASSUME TypeOK, FramesInv(rx, sent, reached, answer),
         NEW f, OnAir(rx, f)
  PROVE  /\ f \in Frame /\ f.msg \in 1..Len(sent) /\ Len(sent) \in Nat
         /\ ~IsAck(f) => f = sent[f.msg]
<1>1. PICK k \in Nodes : \E i \in DOMAIN rx[k] : rx[k][i] = f
  BY DEF OnAir
<1>2. PICK i \in DOMAIN rx[k] : rx[k][i] = f
  BY <1>1
<1>3. f \in Frame
  BY <1>2 DEF TypeOK
<1>4. FrameInv(f, k, sent, reached, answer)
  BY <1>2 DEF FramesInv
<1>5. f.msg \in 1..Len(sent) /\ sent \in Seq(Message) /\ sent[f.msg] \in Message
  BY <1>4 DEF FrameInv, TypeOK
<1>6. ~IsAck(f) => f = sent[f.msg]
  BY <1>4, <1>5, AckOfMessage DEF FrameInv
<1> QED BY <1>3, <1>5, <1>6

\* The first frame of a FIFO is on its way.
LEMMA HeadOnAir ==
  ASSUME NEW r \in Fifos, NEW n \in Nodes, r[n] # << >>
  PROVE  OnAir(r, Head(r[n]))
<1>1. 1 \in DOMAIN r[n] /\ Head(r[n]) = r[n][1]
  BY DEF Fifos
<1> QED BY <1>1 DEF OnAir

\* A frame is taken out of a FIFO, and what the nodes got stays the same.
LEMMA OrderTake ==
  ASSUME IInv, OrderInv, NEW n \in Nodes, rx[n] # << >>,
         rx' = Without(rx, n), UNCHANGED << queue, sent, readBy >>
  PROVE  OrderInv'
<1>1. rx \in Fifos /\ PairsInv(rx) /\ Len(sent) \in Nat
  BY DEF IInv, TypeOK, Fifos
<1>2. ASSUME NEW s \in Nodes, NEW d \in Nodes PROVE InLine(rx', s, d)
  <2>1. PICK way, far, pos : IsWay(s, d, way, far) /\ Follows(rx, s, d, way, far, pos)
    BY DEF OrderInv, InLine
  <2>2. far \in Nat
    BY <2>1 DEF IsWay
  <2>3. Follows(Without(rx, n), s, d, way, far, pos)
    BY <1>1, <2>1, <2>2, TailFollows
  <2> QED BY <2>1, <2>3 DEF InLine
<1>3. ASSUME NEW k \in Nodes PROVE Got((readBy[k] \o queue[k])', k, rx', sent')
  <2>1. \A f \in Frame : OnAir(rx', f) /\ ~IsAck(f) => OnAir(rx, f) \/ f.msg > Len(sent)
    BY <1>1, OnAirWithout
  <2>2. Got(readBy[k] \o queue[k], k, rx, sent)
    BY DEF OrderInv
  <2>3. Got(readBy[k] \o queue[k], k, rx', sent)
    BY <1>1, <2>1, <2>2, GotKept
  <2> QED BY <2>3
<1> QED BY <1>2, <1>3 DEF OrderInv

\* A message is put in the frame queue of its destination, or dropped.
LEMMA OrderEnqueue ==
  ASSUME IInv, OrderInv, NEW n \in Nodes, Enqueue(n)
  PROVE  OrderInv'
<1>0. PICK f : f = Head(rx[n])
  OBVIOUS
<1>1. /\ rx \in Fifos /\ PairsInv(rx) /\ Len(sent) \in Nat /\ rx[n] # << >>
      /\ rx' = Without(rx, n) /\ UNCHANGED << sent, readBy >>
      /\ f.to = n /\ ~IsAck(f)
      /\ queue' = [ queue EXCEPT ![n] = Push(@, f.msg) ]
      /\ \A k \in Nodes : queue[k] \in Seq(Msg) /\ readBy[k] \in Seq(Msg)
  BY <1>0 DEF IInv, TypeOK, Fifos, Enqueue, Without, IsAck
<1>2. ASSUME NEW s \in Nodes, NEW d \in Nodes PROVE InLine(rx', s, d)
  <2>1. PICK way, far, pos : IsWay(s, d, way, far) /\ Follows(rx, s, d, way, far, pos)
    BY DEF OrderInv, InLine
  <2>2. far \in Nat
    BY <2>1 DEF IsWay
  <2>3. Follows(Without(rx, n), s, d, way, far, pos)
    BY <1>1, <2>1, <2>2, TailFollows
  <2> QED BY <1>1, <2>1, <2>3 DEF InLine
<1>3. \A g \in Frame : OnAir(rx', g) => OnAir(rx, g)
  BY <1>1, OnAirWithout
<1>4. ASSUME NEW k \in Nodes PROVE Got(readBy[k] \o queue[k], k, rx', sent)
  <2>1. Got(readBy[k] \o queue[k], k, rx, sent)
    BY DEF OrderInv
  <2> QED BY <1>1, <1>3, <2>1, GotKept
<1>5. Got(Append(readBy[n] \o queue[n], f.msg), n, rx', sent)
  <2>1. OnAir(rx, f)
    BY <1>0, <1>1, HeadOnAir
  <2>2. f \in Frame /\ f.msg \in 1..Len(sent) /\ f = sent[f.msg]
    BY <1>1, <2>1, DataFrame DEF IInv
  <2>3. f.from \in Nodes
    BY <2>2 DEF Frame
  <2>4. InLine(rx, f.from, n)
    BY <2>3 DEF OrderInv
  <2>5. \A g \in Frame : OnAir(rx', g) =>
          OnAir(rx, g) /\ (Carries(g, f.from, n) => f.msg < g.msg)
    BY <1>0, <1>1, <1>3, <2>4, HeadIsOldest
  <2>6. readBy[n] \o queue[n] \in Seq(Msg)
    BY <1>1
  <2>7. Got(readBy[n] \o queue[n], n, rx, sent)
    BY DEF OrderInv
  <2> QED BY <1>1, <2>1, <2>2, <2>5, <2>6, <2>7, GotMore
<1>6. ASSUME NEW k \in Nodes PROVE Got((readBy[k] \o queue[k])', k, rx', sent')
  <2>1. CASE k = n /\ Push(queue[n], f.msg) = Append(queue[n], f.msg)
    <3>1. f.msg \in Msg
      <4>1. OnAir(rx, f)
        BY <1>0, <1>1, HeadOnAir
      <4>2. f \in Frame
        BY <4>1, DataFrame DEF IInv
      <4> QED BY <4>2 DEF Frame
    <3>2. readBy[n] \o Append(queue[n], f.msg) = Append(readBy[n] \o queue[n], f.msg)
      <4>1. PICK r, q, m : r = readBy[n] /\ q = queue[n] /\ m = f.msg
        OBVIOUS
      <4>2. r \in Seq(Msg) /\ q \in Seq(Msg) /\ m \in Msg
        BY <1>1, <3>1, <4>1
      <4>3. r \o Append(q, m) = Append(r \o q, m)
        BY <4>2, PushKeeps
      <4> QED BY <4>1, <4>3, Zenon
    <3>3. queue'[n] = Append(queue[n], f.msg)
      BY <1>1, <2>1 DEF IInv, TypeOK
    <3>4. (readBy[n] \o queue[n])' = Append(readBy[n] \o queue[n], f.msg)
      BY <1>1, <3>2, <3>3
    <3> QED BY <1>1, <1>5, <2>1, <3>4
  <2>2. CASE k # n \/ Push(queue[n], f.msg) = queue[n]
    <3>1. queue'[k] = queue[k]
      BY <1>1, <2>2 DEF IInv, TypeOK
    <3>2. (readBy[k] \o queue[k])' = readBy[k] \o queue[k]
      BY <1>1, <3>1
    <3> QED BY <1>1, <1>4, <3>2
  <2> QED BY <2>1, <2>2 DEF Push
<1> QED BY <1>2, <1>6 DEF OrderInv

\* What write_to_pipe() leaves in the FIFOs.
LEMMA WriteToFifo ==
  ASSUME NEW r \in Fifos, \A k \in Nodes : Len(r[k]) <= RxDepth,
         NEW n \in Nodes, NEW hop, NEW f \in Frame,
         NEW o \in write_to_pipe(r, n, hop, f)
  PROVE  /\ o.rx \in Fifos /\ \A k \in Nodes : Len(o.rx[k]) <= RxDepth
         /\ o.rx = r \/ (hop \in Nodes /\ o.rx = With(r, hop, f))
<1>1. /\ o.rx \in Fifos /\ \A k \in Nodes : Len(o.rx[k]) <= RxDepth
      /\ \/ o.rx = r /\ ~o.got
         \/ /\ hop \in Nodes \ {n}
            /\ o.rx = [ r EXCEPT ![hop] = Append(@, f) ]
  BY WriteToPipe, Zenon
<1>2. With(r, hop, f) = [ r EXCEPT ![hop] = Append(@, f) ]
  BY DEF With
<1>3. hop \in Nodes => o.rx = r \/ o.rx = With(r, hop, f)
  BY <1>1, <1>2, Zenon
<1>4. o.rx = r \/ hop \in Nodes
  BY <1>1
<1> QED BY <1>1, <1>3, <1>4, Zenon

\* A message that is written is the last in line.
LEMMA WriteInLine ==
  ASSUME NEW n \in Nodes, NEW to \in Nodes, NEW f \in Message, Len(sent) \in Nat,
         rx \in Fifos, \A k \in Nodes : \A j \in DOMAIN rx[k] : rx[k][j].msg \in 1..Len(sent),
         f.from = n, f.to = to, f.msg = Len(sent) + 1, f \in Frame,
         NEW hop \in Nodes, hop = NextHop(n, to),
         NEW s \in Nodes, NEW d \in Nodes, InLine(rx, s, d)
  PROVE  InLine(With(rx, hop, f), s, d)
<1>1. PICK way, far, pos : IsWay(s, d, way, far) /\ Follows(rx, s, d, way, far, pos)
  BY DEF InLine
<1>2. far \in Nat
  BY <1>1 DEF IsWay
<1>3. CASE Carries(f, s, d)
  <2>1. s = n /\ d = to
    BY <1>3 DEF Carries
  <2>2. \A k \in Nodes : \A j \in DOMAIN rx[k] :
          Carries(rx[k][j], s, d) =>
            /\ rx[k][j].msg # f.msg
            /\ rx[k][j].msg < f.msg => 0 < pos[rx[k][j].msg]
            /\ f.msg < rx[k][j].msg => pos[rx[k][j].msg] <= 0
    <3> TAKE k \in Nodes
    <3> TAKE j \in DOMAIN rx[k]
    <3>1. Carries(rx[k][j], s, d) => pos[rx[k][j].msg] \in 1..far
      BY <1>1 DEF Follows
    <3>2. rx[k][j].msg \in 1..Len(sent)
      OBVIOUS
    <3> QED BY <3>1, <3>2
  <2>3. 0 \in 0..far
    BY <1>2
  <2>4. hop = NextHop(s, d)
    BY <2>1
  <2> QED BY <1>1, <1>2, <2>2, <2>3, <2>4, StepFollows
<1>4. CASE ~Carries(f, s, d)
  <2>1. Follows(With(rx, hop, f), s, d, way, far, pos)
    BY <1>1, <1>4, OthersFollow
  <2> QED BY <1>1, <2>1 DEF InLine
<1> QED BY <1>3, <1>4

\* What a router sends on, after it took it out of its FIFO, stays in line.
LEMMA RouteInLine ==
  ASSUME NEW r \in Fifos, PairsInv(r), NEW n \in Nodes, r[n] # << >>,
         NEW f \in Frame, f = Head(r[n]), f.to # n,
         NEW hop \in Nodes, hop = NextHop(n, f.to),
         NEW s \in Nodes, NEW d \in Nodes, InLine(r, s, d)
  PROVE  /\ InLine(Without(r, n), s, d)
         /\ InLine(With(Without(r, n), hop, f), s, d)
<1> DEFINE t == Without(r, n)
<1>1. PICK way, far, pos : IsWay(s, d, way, far) /\ Follows(r, s, d, way, far, pos)
  BY DEF InLine
<1>2. far \in Nat
  BY <1>1 DEF IsWay
<1>3. t \in Fifos
  <2>1. Tail(r[n]) \in Seq(Frame)
    BY DEF Fifos
  <2> QED BY <2>1 DEF Fifos, Without
<1>4. /\ Follows(t, s, d, way, far, pos)
      /\ Carries(f, s, d) =>
           /\ pos[f.msg] \in 1..far /\ way[pos[f.msg]] = n
           /\ \A k \in Nodes : \A j \in DOMAIN t[k] :
                Carries(t[k][j], s, d) =>
                  /\ t[k][j].msg # f.msg
                  /\ t[k][j].msg < f.msg => pos[f.msg] < pos[t[k][j].msg]
                  /\ f.msg < t[k][j].msg => pos[t[k][j].msg] <= pos[f.msg]
  BY <1>1, <1>2, TailFollows
<1> HIDE DEF t
<1>5. InLine(t, s, d)
  BY <1>1, <1>4 DEF InLine
<1>6. InLine(With(t, hop, f), s, d)
  <2>1. CASE Carries(f, s, d)
    <3>1. PICK p : p = pos[f.msg]
      OBVIOUS
    <3>2. p \in 0..far /\ p # 0 /\ way[p] # d /\ hop = NextHop(way[p], d)
      BY <1>2, <1>4, <2>1, <3>1 DEF Carries
    <3>3. \A k \in Nodes : \A j \in DOMAIN t[k] :
            Carries(t[k][j], s, d) =>
              /\ t[k][j].msg # f.msg
              /\ t[k][j].msg < f.msg => p < pos[t[k][j].msg]
              /\ f.msg < t[k][j].msg => pos[t[k][j].msg] <= p
      BY <1>4, <2>1, <3>1
    <3> QED BY <1>1, <1>2, <1>3, <1>4, <3>2, <3>3, StepFollows
  <2>2. CASE ~Carries(f, s, d)
    <3>1. Follows(With(t, hop, f), s, d, way, far, pos)
      BY <1>3, <1>4, <2>2, OthersFollow
    <3> QED BY <1>1, <3>1 DEF InLine
  <2> QED BY <2>1, <2>2
<1> QED BY <1>5, <1>6 DEF t

\* A NETWORK_ACK does not disturb the line.
LEMMA AckInLine ==
  ASSUME NEW r \in Fifos, NEW hop \in Nodes, NEW a \in Frame, IsAck(a),
         NEW s, NEW d, InLine(r, s, d)
  PROVE  InLine(With(r, hop, a), s, d)
<1>1. PICK way, far, pos : IsWay(s, d, way, far) /\ Follows(r, s, d, way, far, pos)
  BY DEF InLine
<1>2. Follows(With(r, hop, a), s, d, way, far, pos)
  BY <1>1, OthersFollow DEF Carries
<1> QED BY <1>1, <1>2 DEF InLine

\* A new message.
LEMMA OrderWrite ==
  ASSUME IInv, OrderInv, NEW fl \in Flows, AppWrite(fl[1], fl[2], fl[3])
  PROVE  OrderInv'
<1> DEFINE m == Len(sent) + 1
           e == [ from |-> fl[1], to |-> fl[2], type |-> fl[3], msg |-> m ]
<1>1. PICK n, to, f, hop : n = fl[1] /\ to = fl[2] /\ f = e /\ hop = NextHop(n, to)
  OBVIOUS
<1>2. /\ n \in Nodes /\ to \in Nodes /\ fl[3] \in Types
  BY <1>1, RoutingAssumption DEF Types
<1>3. /\ f \in Message /\ f \in Frame
      /\ f.from = n /\ f.to = to /\ f.msg = Len(sent) + 1
  BY <1>1, <1>2 DEF AppWrite, Message, Frame
<1>4. /\ rx \in Fifos /\ \A k \in Nodes : Len(rx[k]) <= RxDepth
      /\ sent \in Seq(Message) /\ Len(sent) \in Nat
      /\ \A k \in Nodes : \A j \in DOMAIN rx[k] : rx[k][j].msg \in 1..Len(sent)
  BY DEF IInv, TypeOK, Fifos, FramesInv, FrameInv
<1>5. sent' = Append(sent, f) /\ UNCHANGED << queue, readBy >>
  BY <1>1 DEF AppWrite
<1>6. rx' = rx \/ (hop \in Nodes /\ rx' = With(rx, hop, f))
  <2>1. PICK o \in write_to_pipe(rx, n, hop, f) : rx' = o.rx
    BY <1>1 DEF AppWrite
  <2> QED BY <1>2, <1>3, <1>4, <2>1, WriteToFifo
<1> HIDE DEF e, m
<1>7. ASSUME NEW s \in Nodes, NEW d \in Nodes PROVE InLine(rx', s, d)
  <2>1. InLine(rx, s, d)
    BY DEF OrderInv
  <2>2. CASE rx' = rx
    BY <2>1, <2>2
  <2>3. CASE hop \in Nodes /\ rx' = With(rx, hop, f)
    <3>1. InLine(With(rx, hop, f), s, d)
      BY <1>1, <1>2, <1>3, <1>4, <2>1, <2>3, WriteInLine
    <3> QED BY <2>3, <3>1
  <2> QED BY <1>6, <2>2, <2>3
<1>8. ASSUME NEW k \in Nodes PROVE Got((readBy[k] \o queue[k])', k, rx', sent')
  <2>1. Got(readBy[k] \o queue[k], k, rx, sent)
    BY DEF OrderInv
  <2>2. \A g \in Frame : OnAir(rx', g) /\ ~IsAck(g) => OnAir(rx, g) \/ g.msg > Len(sent)
    <3> TAKE g \in Frame
    <3>1. f.msg > Len(sent)
      BY <1>3, <1>4
    <3>2. CASE rx' = rx
      BY <3>2
    <3>3. CASE hop \in Nodes /\ rx' = With(rx, hop, f)
      BY <1>3, <1>4, <3>1, <3>3, OnAirWith
    <3> QED BY <1>6, <3>2, <3>3
  <2>3. Got(readBy[k] \o queue[k], k, rx', sent)
    BY <1>4, <2>1, <2>2, GotKept
  <2>4. Got(readBy[k] \o queue[k], k, rx', Append(sent, f))
    BY <1>3, <1>4, <2>3, GotGrows
  <2>5. (readBy[k] \o queue[k])' = readBy[k] \o queue[k]
    BY <1>5
  <2> QED BY <1>5, <2>4, <2>5
<1> QED BY <1>7, <1>8 DEF OrderInv

\* A router sends a frame on, and a NETWORK_ACK back.
LEMMA OrderRoute ==
  ASSUME IInv, OrderInv, NEW n \in Nodes, Route(n)
  PROVE  OrderInv'
<1> DEFINE e == Head(rx[n])
<1>1. PICK f, hop, back, a, t : /\ f = e /\ hop = NextHop(n, f.to)
                                /\ back = NextHop(n, f.from) /\ a = AckOf(f)
                                /\ t = Without(rx, n)
  OBVIOUS
<1>2. /\ rx \in Fifos /\ PairsInv(rx) /\ Len(sent) \in Nat
      /\ \A k \in Nodes : Len(rx[k]) <= RxDepth
      /\ rx[n] # << >> /\ f.to # n /\ UNCHANGED << queue, readBy, sent >>
  BY <1>1 DEF IInv, TypeOK, Fifos, Route
<1>3. /\ f \in Frame /\ a \in Frame /\ IsAck(a)
      /\ t \in Fifos /\ \A k \in Nodes : Len(t[k]) <= RxDepth
  BY <1>1, <1>2, TakeHead, AckOfType DEF Without, IsAck
<1>4. PICK o \in write_to_pipe(t, n, hop, f) :
        \/ rx' = o.rx
        \/ \E b \in write_to_pipe(o.rx, n, back, a) : rx' = b.rx
  BY <1>1 DEF Route, Without
<1> HIDE DEF e
<1>5. PICK r : r = o.rx
  OBVIOUS
<1>6. /\ r \in Fifos /\ \A k \in Nodes : Len(r[k]) <= RxDepth
      /\ r = t \/ (hop \in Nodes /\ r = With(t, hop, f))
  BY <1>3, <1>4, <1>5, WriteToFifo
<1>7. rx' = r \/ (back \in Nodes /\ rx' = With(r, back, a))
  <2>1. CASE rx' = o.rx
    BY <1>5, <2>1
  <2>2. ASSUME NEW b \in write_to_pipe(r, n, back, a), rx' = b.rx
        PROVE  rx' = r \/ (back \in Nodes /\ rx' = With(r, back, a))
    BY <1>3, <1>6, <2>2, WriteToFifo
  <2> QED BY <1>4, <1>5, <2>1, <2>2
<1>8. ASSUME NEW s \in Nodes, NEW d \in Nodes PROVE InLine(rx', s, d)
  <2>1. InLine(rx, s, d)
    BY DEF OrderInv
  <2>2. InLine(t, s, d) /\ (hop \in Nodes => InLine(With(t, hop, f), s, d))
    <3>1. CASE hop \in Nodes
      BY <1>1, <1>2, <1>3, <2>1, <3>1, RouteInLine DEF e
    <3>2. InLine(t, s, d)
      <4>1. PICK way, far, pos : IsWay(s, d, way, far) /\ Follows(rx, s, d, way, far, pos)
        BY <2>1 DEF InLine
      <4>2. far \in Nat
        BY <4>1 DEF IsWay
      <4>3. Follows(t, s, d, way, far, pos)
        BY <1>1, <1>2, <4>1, <4>2, TailFollows
      <4> QED BY <4>1, <4>3 DEF InLine
    <3> QED BY <3>1, <3>2
  <2>3. InLine(r, s, d)
    BY <1>6, <2>2
  <2>4. CASE rx' = r
    BY <2>3, <2>4
  <2>5. CASE back \in Nodes /\ rx' = With(r, back, a)
    <3>1. InLine(With(r, back, a), s, d)
      BY <1>3, <1>6, <2>3, <2>5, AckInLine
    <3> QED BY <2>5, <3>1
  <2> QED BY <1>7, <2>4, <2>5
<1>9. \A g \in Frame : OnAir(rx', g) /\ ~IsAck(g) => OnAir(rx, g)
  <2> SUFFICES ASSUME NEW g \in Frame, OnAir(rx', g), ~IsAck(g) PROVE OnAir(rx, g)
    OBVIOUS
  <2>1. OnAir(r, g)
    BY <1>3, <1>6, <1>7, OnAirWith
  <2>2. OnAir(t, g) \/ g = f
    BY <1>3, <1>6, <2>1, OnAirWith
  <2>3. OnAir(t, g) => OnAir(rx, g)
    BY <1>1, <1>2, OnAirWithout
  <2>4. OnAir(rx, f)
    BY <1>1, <1>2, HeadOnAir DEF e
  <2> QED BY <2>2, <2>3, <2>4
<1>10. ASSUME NEW k \in Nodes PROVE Got((readBy[k] \o queue[k])', k, rx', sent')
  <2>1. Got(readBy[k] \o queue[k], k, rx, sent)
    BY DEF OrderInv
  <2>2. Got(readBy[k] \o queue[k], k, rx', sent)
    BY <1>2, <1>9, <2>1, GotKept
  <2> QED BY <1>2, <2>2
<1> QED BY <1>8, <1>10 DEF OrderInv

\* An application reads the first message of the frame queue.
LEMMA OrderRead ==
  ASSUME IInv, OrderInv, NEW n \in Nodes, AppRead(n)
  PROVE  OrderInv'
<1>1. /\ UNCHANGED << rx, sent >> /\ queue[n] # << >>
      /\ queue[n] \in Seq(Msg) /\ readBy[n] \in Seq(Msg)
      /\ readBy'[n] = Append(readBy[n], Head(queue[n])) /\ queue'[n] = Tail(queue[n])
      /\ \A k \in Nodes \ {n} : readBy'[k] = readBy[k] /\ queue'[k] = queue[k]
  BY DEF IInv, TypeOK, AppRead
<1>2. ASSUME NEW k \in Nodes PROVE (readBy[k] \o queue[k])' = readBy[k] \o queue[k]
  <2>1. CASE k = n
    <3>1. Append(readBy[n], Head(queue[n])) \o Tail(queue[n]) = readBy[n] \o queue[n]
      BY <1>1, ReadKeeps
    <3> QED BY <1>1, <2>1, <3>1
  <2>2. CASE k # n
    BY <1>1, <2>2
  <2> QED BY <2>1, <2>2
<1>3. ASSUME NEW k \in Nodes PROVE Got((readBy[k] \o queue[k])', k, rx', sent')
  <2>1. Got(readBy[k] \o queue[k], k, rx, sent)
    BY DEF OrderInv
  <2> QED BY <1>1, <1>2, <2>1
<1>4. \A s, d \in Nodes : InLine(rx', s, d)
  BY <1>1 DEF OrderInv
<1> QED BY <1>3, <1>4 DEF OrderInv

\* A node restarts.
LEMMA OrderCrash ==
  ASSUME IInv, OrderInv, NEW n \in Nodes, Crash(n)
  PROVE  OrderInv'
<1>1. /\ UNCHANGED << sent, readBy >> /\ rx \in Fifos /\ Len(sent) \in Nat
      /\ rx' = [ rx EXCEPT ![n] = << >> ] /\ queue'[n] = << >>
      /\ \A k \in Nodes : queue[k] \in Seq(Msg) /\ readBy[k] \in Seq(Msg)
      /\ \A k \in Nodes \ {n} : queue'[k] = queue[k] /\ rx'[k] = rx[k]
      /\ rx'[n] = << >>
  BY DEF IInv, TypeOK, Fifos, Crash
<1>2. ASSUME NEW s \in Nodes, NEW d \in Nodes PROVE InLine(rx', s, d)
  <2>1. PICK way, far, pos : IsWay(s, d, way, far) /\ Follows(rx, s, d, way, far, pos)
    BY DEF OrderInv, InLine
  <2>2. PICK r : r = [ rx EXCEPT ![n] = << >> ]
    OBVIOUS
  <2>3. Follows(r, s, d, way, far, pos)
    BY <1>1, <2>1, <2>2, ClearFollows
  <2> QED BY <1>1, <2>1, <2>2, <2>3 DEF InLine
<1>3. \A g \in Frame : OnAir(rx', g) => OnAir(rx, g)
  <2> SUFFICES ASSUME NEW g, OnAir(rx', g) PROVE OnAir(rx, g)
    OBVIOUS
  <2>1. PICK k \in Nodes : \E i \in DOMAIN rx'[k] : rx'[k][i] = g
    BY DEF OnAir
  <2>2. k # n
    BY <1>1, <2>1
  <2> QED BY <1>1, <2>1, <2>2 DEF OnAir
<1>4. ASSUME NEW k \in Nodes PROVE Got((readBy[k] \o queue[k])', k, rx', sent')
  <2>1. Got(readBy[k] \o queue[k], k, rx, sent)
    BY DEF OrderInv
  <2>2. Got(readBy[k], k, rx, sent) /\ readBy[k] \o << >> = readBy[k]
    BY <1>1, <2>1, GotPart
  <2>3. Got(readBy[k] \o queue[k], k, rx', sent) /\ Got(readBy[k], k, rx', sent)
    BY <1>1, <1>3, <2>1, <2>2, GotKept
  <2>4. (readBy[k] \o queue[k])' = IF k = n THEN readBy[k] ELSE readBy[k] \o queue[k]
    BY <1>1, <2>2
  <2> QED BY <1>1, <2>3, <2>4
<1> QED BY <1>2, <1>4 DEF OrderInv

\* Every step keeps the messages in order.
LEMMA OrderStep == IInv /\ OrderInv /\ [Next]_vars => OrderInv'
<1> SUFFICES ASSUME IInv, OrderInv, [Next]_vars PROVE OrderInv'
  OBVIOUS
<1>1. ASSUME NEW fl \in Flows, AppWrite(fl[1], fl[2], fl[3]) PROVE OrderInv'
  BY <1>1, OrderWrite
<1>2. ASSUME NEW n \in Nodes, HandlePing(n) PROVE OrderInv'
  BY <1>2, OrderTake DEF HandlePing, Without
<1>3. ASSUME NEW n \in Nodes, HandleAck(n) PROVE OrderInv'
  BY <1>3, OrderTake DEF HandleAck, Without
<1>4. ASSUME NEW n \in Nodes, Enqueue(n) PROVE OrderInv'
  BY <1>4, OrderEnqueue
<1>5. ASSUME NEW n \in Nodes, Route(n) PROVE OrderInv'
  BY <1>5, OrderRoute
<1>6. ASSUME NEW n \in Nodes, Timeout(n) PROVE OrderInv'
  BY <1>6 DEF Timeout, OrderInv
<1>7. ASSUME NEW n \in Nodes, AppRead(n) PROVE OrderInv'
  BY <1>7, OrderRead
<1>8. ASSUME NEW n \in Nodes, Crash(n) PROVE OrderInv'
  BY <1>8, OrderCrash
<1>9. CASE UNCHANGED vars
  BY <1>9 DEF vars, OrderInv
<1> QED BY <1>1, <1>2, <1>3, <1>4, <1>5, <1>6, <1>7, <1>8, <1>9 DEF Next, Update

\* Whatever is lost, late or restarted, an application reads the messages of one origin
\* in the order in which they were written, and none of them twice (enqueue(), read()).
THEOREM MessagesInOrder == Spec => []InOrder
<1>1. IInv /\ OrderInv => InOrder
  <2> SUFFICES ASSUME IInv, OrderInv, NEW n \in Nodes PROVE
        \A i, j \in DOMAIN readBy[n] :
          /\ sent[readBy[n][i]].to = n
          /\ i < j /\ sent[readBy[n][i]].from = sent[readBy[n][j]].from
               => readBy[n][i] < readBy[n][j]
    BY DEF InOrder
  <2>1. queue[n] \in Seq(Msg) /\ readBy[n] \in Seq(Msg)
    BY DEF IInv, TypeOK
  <2>2. Got(readBy[n] \o queue[n], n, rx, sent)
    BY DEF OrderInv
  <2>3. Got(readBy[n], n, rx, sent)
    BY <2>1, <2>2, GotPart
  <2> QED BY <2>3 DEF Got
<1>2. IInv /\ OrderInv /\ [Next]_vars => (IInv /\ OrderInv)'
  BY InvStep, OrderStep
<1>3. Init => IInv /\ OrderInv
  BY InvInit, OrderInit
<1> QED BY <1>1, <1>2, <1>3, PTL DEF Spec

-----------------------------------------------------------------------------
(***************************************************************************)
(* Whom a write() may have to thank for its success: only the late answer  *)
(* to an earlier message of the same node deceives it.                     *)
(*                                                                         *)
(* Two facts are added to the inductive invariant.  Only messages that are *)
(* waited for are answered, which is where the route matters (PathsInv).   *)
(* And a write() that took another message's answer leaves the shortage to *)
(* an earlier one, which took another's again, and so on down to one that  *)
(* did not return true (ChainInv).                                         *)
(***************************************************************************)
\* A message to a neighbour is nowhere but at its destination, so that no router
\* answers it; a NETWORK_ACK answers a message whose sender waits.
PathInv(f, n, snt) ==
  IF IsAck(f) THEN Waits(snt[f.msg])
              ELSE NextHop(f.from, f.to) = f.to => n = f.to

PathsInv(r, snt) == \A n \in Nodes : \A i \in DOMAIN r[n] : PathInv(r[n][i], n, snt)

\* Behind a write() that waited and did not get its own answer there is an earlier
\* message of the node that arrived though its write() did not return true.
ChainInv ==
  \A m \in 1..Len(sent) :
    (outcome[m] = "true" /\ Waits(sent[m]) /\ answer[m] # m) =>
       \E k \in 1..(m - 1) : /\ k \in reached
                             /\ sent[k].from = sent[m].from
                             /\ outcome[k] # "true"

JInv == IInv /\ PathsInv(rx, sent) /\ ChainInv

-----------------------------------------------------------------------------
\* A frame more or less in a FIFO.
LEMMA PathsAppend ==
  ASSUME NEW r \in Fifos, NEW hop \in Nodes, NEW f \in Frame, NEW snt,
         PathsInv(r, snt), PathInv(f, hop, snt)
  PROVE  PathsInv([ r EXCEPT ![hop] = Append(@, f) ], snt)
<1> DEFINE d == [ r EXCEPT ![hop] = Append(@, f) ]
<1>1. ASSUME NEW k \in Nodes, NEW i \in DOMAIN d[k]
      PROVE  \/ i \in DOMAIN r[k] /\ d[k][i] = r[k][i]
             \/ k = hop /\ d[k][i] = f
  <2>1. CASE k = hop
    BY <2>1 DEF Fifos
  <2>2. CASE k # hop
    <3>1. d[k] = r[k]
      BY <2>2 DEF Fifos
    <3> QED BY <3>1
  <2> QED BY <2>1, <2>2
<1> HIDE DEF d
<1>2. PathsInv(d, snt)
  BY <1>1 DEF PathsInv
<1> QED BY <1>2 DEF d

\* Taking the frame at the head of a FIFO leaves the others where they are.
LEMMA PathsTail ==
  ASSUME NEW r \in Fifos, NEW n \in Nodes, r[n] # << >>, NEW snt, PathsInv(r, snt)
  PROVE  /\ PathsInv([ r EXCEPT ![n] = Tail(@) ], snt)
         /\ PathInv(Head(r[n]), n, snt)
<1> DEFINE t == [ r EXCEPT ![n] = Tail(@) ]
<1>1. /\ r[n] \in Seq(Frame) /\ 1 \in DOMAIN r[n] /\ Head(r[n]) = r[n][1]
  BY DEF Fifos
<1>2. ASSUME NEW k \in Nodes, NEW i \in DOMAIN t[k]
      PROVE  \E j \in DOMAIN r[k] : t[k][i] = r[k][j]
  <2>1. CASE k = n
    <3>1. i + 1 \in DOMAIN r[n] /\ t[k][i] = r[n][i + 1]
      BY <1>1, <2>1 DEF Fifos
    <3> QED BY <2>1, <3>1
  <2>2. CASE k # n
    <3>1. t[k] = r[k]
      BY <2>2 DEF Fifos
    <3> QED BY <3>1
  <2> QED BY <2>1, <2>2
<1> HIDE DEF t
<1>3. PathsInv(t, snt)
  BY <1>2 DEF PathsInv
<1>4. PathInv(Head(r[n]), n, snt)
  BY <1>1 DEF PathsInv
<1> QED BY <1>3, <1>4 DEF t

\* Emptying it does not move the others either.
LEMMA PathsClear ==
  ASSUME NEW r \in Fifos, NEW n \in Nodes, NEW snt, PathsInv(r, snt)
  PROVE  PathsInv([ r EXCEPT ![n] = << >> ], snt)
<1> DEFINE c == [ r EXCEPT ![n] = << >> ]
<1>1. ASSUME NEW k \in Nodes, NEW i \in DOMAIN c[k]
      PROVE  i \in DOMAIN r[k] /\ c[k][i] = r[k][i]
  <2>1. k # n
    BY DEF Fifos
  <2> QED BY <2>1 DEF Fifos
<1> HIDE DEF c
<1>2. PathsInv(c, snt)
  BY <1>1 DEF PathsInv
<1> QED BY <1>2 DEF c

-----------------------------------------------------------------------------
\* Steps after which no more write() calls have returned true than before.
LEMMA ChainKept ==
  ASSUME IInv, ChainInv, UNCHANGED << sent, answer >>, reached \subseteq reached',
         \A m \in 1..Len(sent) : outcome'[m] = outcome[m] \/ outcome'[m] = "false"
  PROVE  ChainInv'
<1> SUFFICES ASSUME NEW m \in 1..Len(sent), outcome'[m] = "true", Waits(sent[m]),
                    answer[m] # m
             PROVE  \E k \in 1..(m - 1) : /\ k \in reached'
                                          /\ sent[k].from = sent[m].from
                                          /\ outcome'[k] # "true"
  BY DEF ChainInv
<1>1. outcome[m] = "true"
  OBVIOUS
<1>2. PICK k \in 1..(m - 1) : /\ k \in reached
                              /\ sent[k].from = sent[m].from
                              /\ outcome[k] # "true"
  BY <1>1 DEF ChainInv
<1>3. k \in 1..Len(sent)
  BY <1>2 DEF IInv, HistoryInv
<1> QED BY <1>2, <1>3

\* write() of an application.  A message that is waited for does not return yet.
LEMMA AppWriteJ ==
  ASSUME JInv, IInv', NEW fl \in Flows, AppWrite(fl[1], fl[2], fl[3])
  PROVE  JInv'
<1> DEFINE n   == fl[1]
           to  == fl[2]
           m   == Len(sent) + 1
           f   == [ from |-> n, to |-> to, type |-> fl[3], msg |-> m ]
           hop == NextHop(n, to)
<1>1. /\ n \in Nodes /\ to \in Nodes /\ fl[3] \in Types
      /\ rx \in Fifos /\ (\A k \in Nodes : Len(rx[k]) <= RxDepth)
      /\ sent \in Seq(Message) /\ Len(sent) \in Nat
      /\ Len(sent) <= MaxWrites /\ MaxWrites \in Nat /\ m = Len(sent) + 1
  BY RoutingAssumption DEF Types, JInv, IInv, TypeOK, Fifos
<1>2. /\ m \in Msg /\ f \in Message /\ f \in Frame /\ f.msg = m /\ ~IsAck(f)
      /\ f.from = n /\ f.to = to /\ f.type = fl[3]
  <2>1. m \in Msg
    BY DEF AppWrite
  <2>2. fl[3] # NETWORK_ACK
    BY <1>1, TypesNoAck
  <2> QED BY <1>1, <2>1, <2>2 DEF Message, Frame, IsAck
<1>3. PICK o \in write_to_pipe(rx, n, hop, f) :
        /\ rx' = o.rx
        /\ reached' = reached \cup Arrival(f, hop, o.got)
        /\ \/ outcome' = [ outcome EXCEPT ![m] = "pending" ]
           \/ /\ ~(o.ok /\ hop # to /\ isAckType(fl[3]))
              /\ outcome' = [ outcome EXCEPT ![m] = Result(o.ok) ]
  BY DEF AppWrite
<1>4. sent' = Append(sent, f) /\ UNCHANGED answer
  BY DEF AppWrite
<1>5. /\ Len(sent') = m /\ sent'[m] = f
      /\ \A k \in 1..Len(sent) : sent'[k] = sent[k]
  BY <1>1, <1>2, <1>4
<1>6. Waits(f) <=> (hop # to /\ isAckType(fl[3]))
  BY <1>2 DEF Waits
<1> HIDE DEF n, to, m, f, hop
<1>7. /\ o.ok \in BOOLEAN
      /\ o.rx = rx \/ (hop \in Nodes /\ o.rx = [ rx EXCEPT ![hop] = Append(@, f) ])
  <2>1. /\ rx \in Fifos /\ (\A k \in Nodes : Len(rx[k]) <= RxDepth)
        /\ n \in Nodes /\ f \in Frame /\ o \in write_to_pipe(rx, n, hop, f)
    BY <1>1, <1>2, <1>3
  <2>2. /\ o.ok \in BOOLEAN
        /\ \/ o.rx = rx /\ ~o.got
           \/ /\ hop \in Nodes \ {n}
              /\ o.rx = [ rx EXCEPT ![hop] = Append(@, f) ]
    BY <2>1, WriteToPipe, Zenon
  <2> QED BY <2>2
<1>8. PathsInv(rx', sent')
  <2>1. PathsInv(rx, sent')
    <3> SUFFICES ASSUME NEW k \in Nodes, NEW i \in DOMAIN rx[k]
                 PROVE  PathInv(rx[k][i], k, sent')
      BY DEF PathsInv
    <3>1. rx[k][i].msg \in 1..Len(sent)
      BY DEF JInv, IInv, FramesInv, FrameInv
    <3>2. PathInv(rx[k][i], k, sent)
      BY DEF JInv, PathsInv
    <3> QED BY <1>5, <3>1, <3>2 DEF PathInv
  <2>2. PathInv(f, hop, sent')
    BY <1>2 DEF PathInv, hop
  <2>3. CASE o.rx = rx
    BY <1>3, <2>1, <2>3
  <2>4. CASE hop \in Nodes /\ o.rx = [ rx EXCEPT ![hop] = Append(@, f) ]
    <3>1. rx \in Fifos /\ hop \in Nodes /\ f \in Frame
      BY <1>1, <1>2, <2>4
    <3>2. PathsInv([ rx EXCEPT ![hop] = Append(@, f) ], sent')
      BY <2>1, <2>2, <3>1, PathsAppend
    <3> QED BY <1>3, <2>4, <3>2
  <2> QED BY <1>7, <2>3, <2>4
<1>9. ChainInv'
  <2> SUFFICES ASSUME NEW w \in 1..Len(sent'), outcome'[w] = "true", Waits(sent'[w]),
                      answer'[w] # w
               PROVE  \E k \in 1..(w - 1) : /\ k \in reached'
                                            /\ sent'[k].from = sent'[w].from
                                            /\ outcome'[k] # "true"
    BY DEF ChainInv
  <2>1. \A k \in Msg : k # m => outcome'[k] = outcome[k]
    BY <1>2, <1>3 DEF JInv, IInv, TypeOK
  <2>2. w # m
    <3> SUFFICES ASSUME w = m PROVE FALSE
      OBVIOUS
    <3>1. hop # to /\ isAckType(fl[3])
      BY <1>5, <1>6
    <3>2. o.ok = FALSE => Result(o.ok) = "false"
      BY DEF Result
    <3>3. outcome'[m] = "pending" \/ (o.ok = FALSE /\ outcome'[m] = Result(o.ok))
      BY <1>2, <1>3, <1>7, <3>1 DEF JInv, IInv, TypeOK
    <3> QED BY <3>2, <3>3
  <2>3. w \in 1..Len(sent) /\ w \in Msg
    <3>1. w \in 1..m
      BY <1>5
    <3> QED BY <1>1, <2>2, <3>1 DEF Msg
  <2>4. PICK k \in 1..(w - 1) : /\ k \in reached
                                /\ sent[k].from = sent[w].from
                                /\ outcome[k] # "true"
    BY <1>4, <1>5, <2>1, <2>2, <2>3 DEF JInv, ChainInv
  <2>5. k \in 1..Len(sent) /\ k \in Msg /\ k # m
    BY <1>1, <2>3, <2>4 DEF Msg
  <2> QED BY <1>3, <1>5, <2>1, <2>3, <2>4, <2>5
<1> QED BY <1>8, <1>9 DEF JInv

\* A router: a message that it answers is one whose sender waits, because it is
\* not where it is going to.
LEMMA RouteJ ==
  ASSUME JInv, IInv', NEW n \in Nodes, Route(n)
  PROVE  JInv'
<1> DEFINE f    == Head(rx[n])
           hop  == NextHop(n, f.to)
           back == NextHop(n, f.from)
           rest == [ rx EXCEPT ![n] = Tail(@) ]
<1>1. /\ rx \in Fifos /\ (\A k \in Nodes : Len(rx[k]) <= RxDepth)
      /\ rx[n] # << >> /\ f.to # n
      /\ sent \in Seq(Message) /\ Len(sent) \in Nat
  BY DEF JInv, IInv, TypeOK, Fifos, Route
<1>2. /\ f \in Frame /\ AckOf(f) \in Frame /\ IsAck(AckOf(f)) /\ AckOf(f).msg = f.msg
      /\ rest \in Fifos /\ \A k \in Nodes : Len(rest[k]) <= RxDepth
  BY <1>1, TakeHead, AckOfType DEF IsAck
<1>3. PICK o \in write_to_pipe(rest, n, hop, f) :
        /\ reached' = reached \cup Arrival(f, hop, o.got)
        /\ \/ /\ Acknowledges(o.ok, hop, f)
              /\ \E a \in write_to_pipe(o.rx, n, back, AckOf(f)) : rx' = a.rx
           \/ rx' = o.rx
  BY DEF Route
<1>4. UNCHANGED << sent, outcome, answer >>
  BY DEF Route
<1>5. /\ PathsInv(rest, sent) /\ PathInv(f, n, sent)
      /\ FrameInv(f, n, sent, reached, answer)
  BY <1>1, PathsTail, TakeHeadInv DEF JInv, IInv
<1> HIDE DEF f, hop, back, rest
<1>6. PathInv(f, hop, sent)
  BY <1>1, <1>5 DEF PathInv
<1>7. /\ o.rx \in Fifos /\ (\A k \in Nodes : Len(o.rx[k]) <= RxDepth)
      /\ \/ o.rx = rest
         \/ hop \in Nodes /\ o.rx = [ rest EXCEPT ![hop] = Append(@, f) ]
  <2>1. /\ rest \in Fifos /\ (\A k \in Nodes : Len(rest[k]) <= RxDepth)
        /\ f \in Frame /\ o \in write_to_pipe(rest, n, hop, f)
    BY <1>2, <1>3
  <2>2. /\ o.rx \in Fifos /\ (\A k \in Nodes : Len(o.rx[k]) <= RxDepth)
        /\ \/ o.rx = rest /\ ~o.got
           \/ /\ hop \in Nodes \ {n}
              /\ o.rx = [ rest EXCEPT ![hop] = Append(@, f) ]
    BY <2>1, WriteToPipe, Zenon
  <2> QED BY <2>2
<1>8. PathsInv(o.rx, sent)
  <2>1. CASE o.rx = rest
    BY <1>5, <2>1
  <2>2. CASE hop \in Nodes /\ o.rx = [ rest EXCEPT ![hop] = Append(@, f) ]
    BY <1>2, <1>5, <1>6, <2>2, PathsAppend
  <2> QED BY <1>7, <2>1, <2>2
<1>9. PathsInv(rx', sent)
  <2>1. CASE rx' = o.rx
    BY <1>8, <2>1
  <2>2. ASSUME Acknowledges(o.ok, hop, f),
               NEW a \in write_to_pipe(o.rx, n, back, AckOf(f)), rx' = a.rx
        PROVE  PathsInv(rx', sent)
    <3>1. isAckType(f.type) /\ ~IsAck(f)
      BY <2>2 DEF Acknowledges, IsAck, isAckType, NETWORK_ACK
    <3>2. f = sent[f.msg]
      <4>1. sent[f.msg] \in Message
        BY <1>1, <1>5 DEF FrameInv
      <4> QED BY <1>5, <3>1, <4>1, AckOfMessage DEF FrameInv
    <3>3. Waits(sent[f.msg])
      <4>1. NextHop(f.from, f.to) # f.to
        BY <1>1, <1>5, <3>1 DEF PathInv
      <4>2. Waits(f)
        BY <3>1, <4>1 DEF Waits
      <4> QED BY <3>2, <4>2
    <3>4. PathInv(AckOf(f), back, sent)
      BY <1>2, <3>3 DEF PathInv
    <3> DEFINE g == AckOf(f)
               q == o.rx
    <3>5. /\ g \in Frame /\ q \in Fifos /\ \A k \in Nodes : Len(q[k]) <= RxDepth
          /\ a \in write_to_pipe(q, n, back, g) /\ rx' = a.rx
          /\ PathsInv(q, sent) /\ PathInv(g, back, sent)
      BY <1>2, <1>7, <1>8, <2>2, <3>4
    <3> HIDE DEF g, q
    <3>6. \/ a.rx = q
          \/ back \in Nodes /\ a.rx = [ q EXCEPT ![back] = Append(@, g) ]
      BY <3>5, WriteToPipe
    <3>7. CASE a.rx = q
      BY <3>5, <3>7
    <3>8. CASE back \in Nodes /\ a.rx = [ q EXCEPT ![back] = Append(@, g) ]
      BY <3>5, <3>8, PathsAppend
    <3> QED BY <3>6, <3>7, <3>8
  <2> QED BY <1>3, <2>1, <2>2
<1>10. ChainInv'
  BY <1>3, <1>4, ChainKept DEF JInv
<1> QED BY <1>4, <1>9, <1>10 DEF JInv

\* A NETWORK_ACK at its origin.  If the write() that takes it has not its own
\* answer, the message that is answered is the earlier one, or has one behind it.
LEMMA HandleAckJ ==
  ASSUME JInv, IInv', NEW n \in Nodes, HandleAck(n)
  PROVE  JInv'
<1> DEFINE f == Head(rx[n])
           w == waiting[n]
           k == f.msg
<1>1. /\ rx \in Fifos /\ rx[n] # << >> /\ f.to = n /\ IsAck(f)
      /\ rx' = [ rx EXCEPT ![n] = Tail(@) ]
      /\ sent \in Seq(Message) /\ Len(sent) \in Nat /\ Len(sent) <= MaxWrites
      /\ MaxWrites \in Nat /\ UNCHANGED << sent, reached >>
  BY RoutingAssumption DEF JInv, IInv, TypeOK, Fifos, HandleAck, IsAck
<1>2. /\ PathsInv(rx', sent') /\ PathInv(f, n, sent)
      /\ FrameInv(f, n, sent, reached, answer)
  BY <1>1, PathsTail, TakeHeadInv DEF JInv, IInv
<1>3. CASE w = 0
  <2>1. UNCHANGED << outcome, answer >>
    BY <1>3 DEF HandleAck
  <2>2. ChainInv'
    BY <1>1, <2>1, ChainKept DEF JInv
  <2> QED BY <1>2, <2>2 DEF JInv
<1>4. CASE w # 0
  <2>1. /\ outcome' = [ outcome EXCEPT ![w] = "true" ]
        /\ answer'  = [ answer EXCEPT ![w] = k ]
    BY <1>4 DEF HandleAck
  <2>2. /\ w \in 1..Len(sent) /\ w \in Msg /\ sent[w].from = n
        /\ \A m \in 1..Len(sent) : sent[m].from = n => m <= w
    BY <1>1, <1>4 DEF JInv, IInv, WaitInv, Msg
  <2> HIDE DEF f, w
  <2>3. /\ k \in 1..Len(sent) /\ Waits(sent[k])
        /\ \A m \in Msg : answer[m] # k
    BY <1>1, <1>2 DEF FrameInv, PathInv
  <2> HIDE DEF k
  <2>4. \A m \in 1..Len(sent) : m \in Msg /\ (m # w => /\ outcome'[m] = outcome[m]
                                                    /\ answer'[m] = answer[m])
    BY <1>1, <2>1 DEF JInv, IInv, TypeOK, Msg
  <2>5. answer'[w] = k /\ k \in reached /\ k <= w /\ sent[k].from = n
    <3>1. answer'[w] = k /\ k # 0
      BY <2>1, <2>2, <2>3 DEF JInv, IInv, TypeOK
    <3> QED BY <1>1, <2>2, <3>1 DEF IInv, AnswersBacked
  <2>6. ChainInv'
    <3> SUFFICES ASSUME NEW m \in 1..Len(sent), outcome'[m] = "true",
                        Waits(sent[m]), answer'[m] # m
                 PROVE  \E j \in 1..(m - 1) : /\ j \in reached
                                              /\ sent[j].from = sent[m].from
                                              /\ outcome'[j] # "true"
      BY <1>1 DEF ChainInv
\* The witness of an earlier state is a message before w, so it is one still.
    <3>1. ASSUME NEW i \in 1..Len(sent), outcome[i] = "true", Waits(sent[i]),
                 answer[i] # i
          PROVE  \E j \in 1..(i - 1) : /\ j \in reached
                                       /\ sent[j].from = sent[i].from
                                       /\ outcome'[j] # "true"
      <4>1. PICK j \in 1..(i - 1) : /\ j \in reached
                                   /\ sent[j].from = sent[i].from
                                   /\ outcome[j] # "true"
        BY <3>1 DEF JInv, ChainInv
      <4>2. j \in 1..Len(sent) /\ j < i
        BY <1>1, <4>1
      <4>3. j # w
        <5>1. SUFFICES ASSUME j = w PROVE FALSE
          OBVIOUS
        <5>2. i <= w
          BY <2>2, <4>1, <5>1
        <5> QED BY <2>2, <4>2, <5>1, <5>2
      <4> QED BY <2>4, <4>1, <4>2, <4>3
    <3>2. CASE m # w
      BY <2>4, <3>1, <3>2
    <3>3. CASE m = w
      <4>1. k < w /\ k \in 1..(w - 1) /\ k # w
        BY <1>1, <2>2, <2>3, <2>5, <3>3
      <4>2. CASE outcome[k] # "true"
        BY <2>2, <2>3, <2>4, <2>5, <3>3, <4>1, <4>2
      <4>3. CASE outcome[k] = "true"
        <5>1. answer[k] # k
          BY <2>3, <2>4
        <5>2. PICK j \in 1..(k - 1) : /\ j \in reached
                                     /\ sent[j].from = sent[k].from
                                     /\ outcome'[j] # "true"
          BY <2>3, <3>1, <4>3, <5>1
        <5>3. j \in 1..(w - 1)
          BY <2>2, <2>3, <4>1, <5>2
        <5> QED BY <2>2, <2>5, <3>3, <5>2, <5>3
      <4> QED BY <4>2, <4>3
    <3> QED BY <3>2, <3>3
  <2> QED BY <1>2, <2>6 DEF JInv
<1> QED BY <1>3, <1>4

-----------------------------------------------------------------------------
\* At first nothing is in the air.
LEMMA LateInit == Init => JInv
BY InvInit DEF Init, JInv, PathsInv, ChainInv

\* The two facts are inductive, next to the invariant of RoutingProofs.
LEMMA LateStep == JInv /\ [Next]_vars => JInv'
<1> SUFFICES ASSUME JInv, [Next]_vars PROVE JInv'
  OBVIOUS
<1>0. IInv /\ IInv' /\ ChainInv /\ PathsInv(rx, sent) /\ rx \in Fifos
  BY InvStep DEF JInv, IInv, TypeOK, Fifos
<1>1. ASSUME NEW fl \in Flows, AppWrite(fl[1], fl[2], fl[3]) PROVE JInv'
  BY <1>0, <1>1, AppWriteJ
<1>2. ASSUME NEW n \in Nodes, HandlePing(n) \/ Enqueue(n) PROVE JInv'
  <2>1. PathsInv(rx', sent)
    BY <1>0, <1>2, PathsTail DEF HandlePing, Enqueue
  <2>2. UNCHANGED << sent, answer, outcome, reached >>
    BY <1>2 DEF HandlePing, Enqueue
  <2>3. ChainInv'
    BY <1>0, <2>2, ChainKept
  <2> QED BY <1>0, <2>1, <2>2, <2>3 DEF JInv
<1>3. ASSUME NEW n \in Nodes, HandleAck(n) PROVE JInv'
  BY <1>0, <1>3, HandleAckJ
<1>4. ASSUME NEW n \in Nodes, Route(n) PROVE JInv'
  BY <1>0, <1>4, RouteJ
<1>5. ASSUME NEW n \in Nodes, Timeout(n) PROVE JInv'
  <2>1. /\ outcome' = [ outcome EXCEPT ![waiting[n]] = "false" ]
        /\ UNCHANGED << rx, sent, answer, reached >>
    BY <1>5 DEF Timeout
  <2>2. \A m \in 1..Len(sent) : outcome'[m] = outcome[m] \/ outcome'[m] = "false"
    BY <1>0, <2>1 DEF IInv, TypeOK
  <2>3. ChainInv'
    BY <1>0, <2>1, <2>2, ChainKept
  <2> QED BY <1>0, <2>1, <2>3 DEF JInv
<1>6. ASSUME NEW n \in Nodes, AppRead(n) PROVE JInv'
  <2>1. UNCHANGED << rx, sent, answer, outcome, reached >>
    BY <1>6 DEF AppRead
  <2> QED BY <1>0, <2>1, ChainKept DEF JInv
<1>7. ASSUME NEW n \in Nodes, Crash(n) PROVE JInv'
  <2>1. rx' = [ rx EXCEPT ![n] = << >> ] /\ UNCHANGED << sent, answer, outcome, reached >>
    BY <1>7 DEF Crash
  <2>2. PathsInv(rx', sent)
    BY <1>0, <2>1, PathsClear
  <2> QED BY <1>0, <2>1, <2>2, ChainKept DEF JInv
<1>8. CASE UNCHANGED vars
  BY <1>0, <1>8, ChainKept DEF JInv, vars
<1> QED BY <1>1, <1>2, <1>3, <1>4, <1>5, <1>6, <1>7, <1>8 DEF Next, Update

\* A message that was lost had no answer of its own.
LEMMA LateImplies == JInv => DeceivedByLateAnswer
<1> SUFFICES ASSUME JInv, NEW m \in 1..Len(sent), outcome[m] = "true",
                    Waits(sent[m]), m \notin reached
             PROVE  \E k \in 1..(m - 1) : /\ k \in reached
                                          /\ sent[k].from = sent[m].from
                                          /\ outcome[k] # "true"
  BY DEF DeceivedByLateAnswer
<1>1. m \in Msg
  BY RoutingAssumption DEF JInv, IInv, TypeOK, Msg
<1>2. answer[m] # m
  BY <1>1 DEF JInv, IInv, AnswersBacked, Msg
<1> QED BY <1>2 DEF JInv, ChainInv

\* A write() that waits for its NETWORK_ACK and returns true although its message
\* was lost has an earlier message of the same node behind it, which arrived
\* and whose write() did not return true (the loop of write()).
THEOREM OnlyLateAnswersDeceive == Spec => []DeceivedByLateAnswer
<1>1. Spec => []JInv
  BY LateInit, LateStep, PTL DEF Spec
<1> QED BY <1>1, LateImplies, PTL
=============================================================================
