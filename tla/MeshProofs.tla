------------------------------ MODULE MeshProofs ------------------------------
(***************************************************************************)
(* The theorems about Mesh, for any nodes, levels, relays and operations,  *)
(* any depth of the FIFOs, with and without losses.  The argument is about *)
(* the frames a FIFO holds, wherever they stand in it: what an action can  *)
(* do is to take the frame at the head of one FIFO and to put one frame, or*)
(* two, into others.                                                       *)
(***************************************************************************)
EXTENDS Mesh, TLAPS

Frames == [ type : SystemTypes \cup { DATA }, from : Nodes,
            to : Nodes \cup { NETWORK_MULTICAST_ADDRESS }, op : Op ]
Fifos  == [ Nodes -> Seq(Frames) ]
Within(r) == r \in Fifos /\ \A n \in Nodes : Len(r[n]) <= RxDepth

\* Frame f is in the sequence q; the FIFO of node n holds it.
In(q, f)       == \E i \in 1..Len(q) : q[i] = f
Holds(r, n, f) == In(r[n], f)

\* FIFOs r2 are r1 with frame f added for some of the nodes of S.
Adds(r1, r2, S, f) == /\ Within(r2)
                      /\ \A n \in Nodes, g \in Frames :
                           Holds(r2, n, g) => Holds(r1, n, g) \/ (n \in S /\ g = f)
                      /\ \A n \in Nodes, g \in Frames : Holds(r1, n, g) => Holds(r2, n, g)

-----------------------------------------------------------------------------
\* What the assumption on the constants says, in the form the provers need.
LEMMA ConstantTypes ==
  /\ RxDepth \in Nat \ {0} /\ MaxOps \in Nat
  /\ {0, Joiner} \subseteq Nodes /\ Joiner # 0
  /\ LevelOf \in [ Nodes -> 0..4 ]
  /\ NETWORK_MULTICAST_ADDRESS # 0 /\ NETWORK_MULTICAST_ADDRESS # Joiner
PROOF
  BY MeshAssumption DEF Joiner, NETWORK_DEFAULT_ADDRESS, NETWORK_MULTICAST_ADDRESS

\* What is in a sequence after a frame was appended, and without its head.
LEMMA InAppend ==
  ASSUME NEW q \in Seq(Frames), NEW f \in Frames, NEW g
  PROVE  In(Append(q, f), g) <=> In(q, g) \/ g = f
PROOF
  <1>1. /\ Len(Append(q, f)) = Len(q) + 1 /\ Len(q) \in Nat
        /\ Append(q, f)[Len(q) + 1] = f
        /\ \A i \in 1..Len(q) : Append(q, f)[i] = q[i]
    OBVIOUS
  <1> DEFINE p == Append(q, f)
  <1> HIDE DEF p
  <1>2. /\ Len(p) = Len(q) + 1 /\ Len(q) \in Nat /\ p[Len(q) + 1] = f
        /\ \A i \in 1..Len(q) : p[i] = q[i]
    BY <1>1 DEF p
  <1>3. In(p, g) => In(q, g) \/ g = f
    BY <1>2 DEF In
  <1>4. In(q, g) => In(p, g)
    BY <1>2 DEF In
  <1>5. In(p, f)
    BY <1>2 DEF In
  <1> QED  BY <1>3, <1>4, <1>5 DEF p

\* The sequence without its head.
LEMMA InTail ==
  ASSUME NEW q \in Seq(Frames), q # << >>, NEW g
  PROVE  /\ Head(q) \in Frames /\ In(q, Head(q))
         /\ Tail(q) \in Seq(Frames) /\ Len(Tail(q)) \in Nat /\ Len(Tail(q)) <= Len(q)
         /\ In(Tail(q), g) => In(q, g)
         /\ In(q, g) => In(Tail(q), g) \/ g = Head(q)
PROOF
  <1>1. /\ Len(q) \in Nat \ {0} /\ Head(q) = q[1] /\ Head(q) \in Frames
        /\ Tail(q) \in Seq(Frames) /\ Len(Tail(q)) = Len(q) - 1
        /\ \A i \in 1..(Len(q) - 1) : Tail(q)[i] = q[i + 1]
    OBVIOUS
  <1> DEFINE p == Tail(q)
             h == Head(q)
  <1> HIDE DEF p, h
  <1>2. /\ Len(q) \in Nat \ {0} /\ h = q[1] /\ h \in Frames
        /\ p \in Seq(Frames) /\ Len(p) = Len(q) - 1
        /\ \A i \in 1..(Len(q) - 1) : p[i] = q[i + 1]
    BY <1>1 DEF p, h
  <1>3. ASSUME In(p, g) PROVE In(q, g)
    <2>1. PICK i \in 1..Len(p) : p[i] = g
      BY <1>3 DEF In
    <2>2. i + 1 \in 1..Len(q) /\ q[i + 1] = g
      BY <1>2, <2>1
    <2> QED  BY <2>2 DEF In
  <1>4. ASSUME In(q, g) PROVE In(p, g) \/ g = h
    <2>1. PICK i \in 1..Len(q) : q[i] = g
      BY <1>4 DEF In
    <2>2. CASE i = 1
      BY <1>2, <2>1, <2>2
    <2>3. CASE i # 1
      <3>1. i - 1 \in 1..Len(p) /\ p[i - 1] = q[(i - 1) + 1] /\ (i - 1) + 1 = i
        BY <1>2, <2>1, <2>3
      <3> QED  BY <2>1, <3>1 DEF In
    <2> QED  BY <2>2, <2>3
  <1>5. In(q, h)
    BY <1>2 DEF In
  <1> QED  BY <1>1, <1>2, <1>3, <1>4, <1>5 DEF p, h

\* What the radios do with a frame: those of S, which have room, get it; if it is
\* not S = all, the operation counts as dropped.
LEMMA SentFrame ==
  ASSUME NEW r, Within(r), NEW f \in Frames, NEW all, NEW S \in Choices(all, r)
  PROVE  LET s == Sent(r, all, S, f)
         IN  /\ Adds(r, s.rx, all, f)
             /\ s.dropped \subseteq {f.op}
             /\ f.op \notin s.dropped => \A n \in Nodes \cap all : Holds(s.rx, n, f)
PROOF
  <1> DEFINE s == Sent(r, all, S, f)
  <1>1. s.rx = [ n \in Nodes |-> IF n \in S THEN Append(r[n], f) ELSE r[n] ]
        /\ s.dropped = IF S = all THEN {} ELSE {f.op}
    BY DEF Sent, Put
  <1>2. S \subseteq { m \in all : Room(r, m) }
    BY DEF Choices
  <1>3. \A n \in Nodes : r[n] \in Seq(Frames) /\ Len(r[n]) \in Nat /\ Len(r[n]) <= RxDepth
    BY DEF Within, Fifos
  <1>4. \A n \in Nodes : /\ Append(r[n], f) \in Seq(Frames)
                         /\ Len(Append(r[n], f)) = Len(r[n]) + 1
                         /\ Append(r[n], f)[Len(r[n]) + 1] = f
                         /\ \A i \in 1..Len(r[n]) : Append(r[n], f)[i] = r[n][i]
    BY <1>3
  <1>5. \A n \in S : Len(r[n]) < RxDepth
    BY <1>2 DEF Room
  <1> HIDE DEF s
  <1>6. \A n \in Nodes : s.rx[n] = IF n \in S THEN Append(r[n], f) ELSE r[n]
    BY <1>1
  <1>7. Within(s.rx)
    BY <1>1, <1>3, <1>4, <1>5, ConstantTypes DEF Within, Fifos
  <1>8. ASSUME NEW n \in Nodes, NEW g \in Frames
        PROVE  Holds(s.rx, n, g) <=> Holds(r, n, g) \/ (n \in S /\ g = f)
    <2>1. In(Append(r[n], f), g) <=> In(r[n], g) \/ g = f
      BY <1>3, InAppend
    <2> QED  BY <1>6, <2>1 DEF Holds
  <1>11. Adds(r, s.rx, all, f)
    BY <1>2, <1>7, <1>8 DEF Adds
  <1> QED  BY <1>1, <1>8, <1>11 DEF s

\* The same of a frame that is sent to a level.
LEMMA SentToLevel ==
  ASSUME NEW r, Within(r), NEW f \in Frames, NEW n, NEW dest, NEW s \in ToLevel(r, n, dest, f)
  PROVE  /\ Adds(r, s.rx, Hearers(n, dest), f)
         /\ s.dropped \subseteq {f.op}
         /\ f.op \notin s.dropped => \A m \in Nodes \cap Hearers(n, dest) : Holds(s.rx, m, f)
PROOF
  <1>1. PICK S \in Choices(Hearers(n, dest), r) : s = Sent(r, Hearers(n, dest), S, f)
    BY DEF ToLevel
  <1> QED  BY <1>1, SentFrame

\* And of one that is sent to the next hop, which nobody gets if that is no node.
LEMMA SentToHop ==
  ASSUME NEW r, Within(r), NEW f \in Frames, NEW n, NEW dest, NEW s \in ToHop(r, n, dest, f)
  PROVE  /\ Adds(r, s.rx, Nodes \ {n}, f)
         /\ s.dropped \subseteq {f.op}
         /\ f.op \notin s.dropped /\ Hop(n, dest) \in Nodes \ {n}
              => Holds(s.rx, Hop(n, dest), f)
PROOF
  <1>1. CASE Hop(n, dest) \in Nodes \ {n}
    <2>1. PICK S \in Choices({Hop(n, dest)}, r) :
            LET t == Sent(r, {Hop(n, dest)}, S, f) IN s = t \/ s = Unheard(t)
      BY <1>1 DEF ToHop
    <2>2. PICK t : t = Sent(r, {Hop(n, dest)}, S, f)
      OBVIOUS
    <2>3. s.rx = t.rx /\ s.dropped = t.dropped
      <3>1. t = [ rx |-> t.rx, ok |-> t.ok, dropped |-> t.dropped ]
        BY <2>2 DEF Sent
      <3> QED  BY <2>1, <2>2, <3>1 DEF Unheard
    <2>4. /\ Adds(r, t.rx, {Hop(n, dest)}, f)
          /\ t.dropped \subseteq {f.op}
          /\ f.op \notin t.dropped => \A m \in Nodes \cap {Hop(n, dest)} : Holds(t.rx, m, f)
      BY <2>2, SentFrame
    <2> QED  BY <1>1, <2>3, <2>4 DEF Adds
  <1>2. CASE Hop(n, dest) \notin Nodes \ {n}
    <2>1. s = Nothing(r)
      BY <1>2 DEF ToHop
    <2> QED  BY <1>2, <2>1 DEF Nothing, Adds
  <1> QED  BY <1>1, <1>2

\* Taking the frame at the head of a FIFO leaves the others.
LEMMA RestFrames ==
  ASSUME Within(rx), NEW n \in Nodes, rx[n] # << >>
  PROVE  /\ Within(Rest(n))
         /\ Head(rx[n]) \in Frames /\ Holds(rx, n, Head(rx[n]))
         /\ \A m \in Nodes, g \in Frames : Holds(Rest(n), m, g) => Holds(rx, m, g)
         /\ \A m \in Nodes, g \in Frames :
              Holds(rx, m, g) => Holds(Rest(n), m, g) \/ (m = n /\ g = Head(rx[n]))
PROOF
  <1>1. \A m \in Nodes : rx[m] \in Seq(Frames) /\ Len(rx[m]) \in Nat /\ Len(rx[m]) <= RxDepth
    BY DEF Within, Fifos
  <1>2. \A m \in Nodes : Rest(n)[m] = IF m = n THEN Tail(rx[n]) ELSE rx[m]
    BY DEF Rest, Within, Fifos
  <1>3. /\ Head(rx[n]) \in Frames /\ In(rx[n], Head(rx[n]))
        /\ Tail(rx[n]) \in Seq(Frames) /\ Len(Tail(rx[n])) \in Nat
        /\ Len(Tail(rx[n])) <= Len(rx[n])
        /\ \A g \in Frames : /\ In(Tail(rx[n]), g) => In(rx[n], g)
                             /\ In(rx[n], g) => In(Tail(rx[n]), g) \/ g = Head(rx[n])
    BY <1>1, InTail
  <1>4. Within(Rest(n))
    <2>1. Rest(n) \in Fifos
      BY <1>3 DEF Rest, Within, Fifos
    <2>2. ASSUME NEW m \in Nodes PROVE Len(Rest(n)[m]) <= RxDepth
      <3>1. CASE m = n
        <4>1. Len(rx[n]) \in Nat /\ Len(rx[n]) <= RxDepth /\ RxDepth \in Nat
          BY <1>1, ConstantTypes
        <4>2. Len(Tail(rx[n])) <= RxDepth
          BY <1>3, <4>1
        <4> QED  BY <1>2, <3>1, <4>2
      <3>2. CASE m # n
        BY <1>1, <1>2, <3>2
      <3> QED  BY <3>1, <3>2
    <2> QED  BY <2>1, <2>2 DEF Within
  <1> QED  BY <1>2, <1>3, <1>4 DEF Holds

-----------------------------------------------------------------------------
\* In a step the frames of F come to nodes of T and to no other, and none is lost;
\* or none but the one node n reads.
Comes(T, F) == /\ Within(rx')
               /\ \A m \in Nodes, g \in Frames :
                    Holds(rx', m, g) => Holds(rx, m, g) \/ (m \in T /\ g \in F)
KeepsAll == \A m \in Nodes, g \in Frames : Holds(rx, m, g) => Holds(rx', m, g)
Keeps(n) == \A m \in Nodes, g \in Frames :
              Holds(rx, m, g) => Holds(rx', m, g) \/ (m = n /\ g = Head(rx[n]))

\* Which operations miss a frame in a step.
Drops(o) == dropped \subseteq dropped' /\ dropped' \subseteq dropped \cup {o}

\* A node reads a frame and sends one to a level.
LEMMA ReadToLevel ==
  ASSUME Within(rx), NEW n \in Nodes, rx[n] # << >>, NEW f \in Frames, NEW dest,
         Sends(ToLevel(Rest(n), n, dest, f))
  PROVE  /\ Comes(Hearers(n, dest), {f}) /\ Keeps(n) /\ Drops(f.op)
         /\ f.op \notin dropped' => \A m \in Nodes \cap Hearers(n, dest) : Holds(rx', m, f)
PROOF
  <1>1. PICK s \in ToLevel(Rest(n), n, dest, f) : rx' = s.rx /\ dropped' = dropped \cup s.dropped
    BY DEF Sends
  <1>2. Within(Rest(n))
    BY RestFrames
  <1>3. /\ Adds(Rest(n), rx', Hearers(n, dest), f)
        /\ s.dropped \subseteq {f.op}
        /\ f.op \notin s.dropped => \A m \in Nodes \cap Hearers(n, dest) : Holds(rx', m, f)
    BY <1>1, <1>2, SentToLevel
  <1> QED  BY <1>1, <1>3, RestFrames DEF Adds, Comes, Keeps, Drops

\* A node reads a frame and sends one to the next hop.
LEMMA ReadToHop ==
  ASSUME Within(rx), NEW n \in Nodes, rx[n] # << >>, NEW f \in Frames, NEW dest,
         Sends(ToHop(Rest(n), n, dest, f))
  PROVE  /\ Comes(Nodes, {f}) /\ Keeps(n) /\ Drops(f.op)
         /\ f.op \notin dropped' /\ Hop(n, dest) \in Nodes \ {n} => Holds(rx', Hop(n, dest), f)
PROOF
  <1>1. PICK s \in ToHop(Rest(n), n, dest, f) : rx' = s.rx /\ dropped' = dropped \cup s.dropped
    BY DEF Sends
  <1>2. Within(Rest(n))
    BY RestFrames
  <1>3. /\ Adds(Rest(n), rx', Nodes \ {n}, f)
        /\ s.dropped \subseteq {f.op}
        /\ f.op \notin s.dropped /\ Hop(n, dest) \in Nodes \ {n} => Holds(rx', Hop(n, dest), f)
    BY <1>1, <1>2, SentToHop
  <1> QED  BY <1>1, <1>3, RestFrames DEF Adds, Comes, Keeps, Drops

\* A node reads a frame and sends nothing.
LEMMA ReadOnly ==
  ASSUME Within(rx), NEW n \in Nodes, rx[n] # << >>, rx' = Rest(n)
  PROVE  Comes({}, {}) /\ Keeps(n)
PROOF
  BY RestFrames DEF Comes, Keeps

\* A frame with another addressee and sender.
LEMMA Redirected ==
  ASSUME NEW f \in Frames, NEW m \in Nodes, NEW n \in Nodes
  PROVE  LET h == [ f EXCEPT !.to = m, !.from = n ]
         IN  h = Frame(f.type, n, m, f.op) /\ h \in Frames
PROOF
  <1> DEFINE k == [ f EXCEPT !.to = m ]
  <1>1. k = Frame(f.type, f.from, m, f.op) /\ k \in Frames
    BY DEF Frames, Frame
  <1> HIDE DEF k
  <1>2. k.type = f.type /\ k.to = m /\ k.op = f.op
    BY <1>1 DEF Frame
  <1>3. [ k EXCEPT !.from = n ] = Frame(f.type, n, m, f.op) /\ [ k EXCEPT !.from = n ] \in Frames
    BY <1>1, <1>2 DEF Frames, Frame
  <1> QED  BY <1>3 DEF k

\* What PassOn does: the same request or response goes on, the response to the
\* joiner, the request to the next hop on the way to the master.
LEMMA PassOnFrames ==
  ASSUME Within(rx), NEW n \in Nodes, PassOn(n), NEW f, f = Head(rx[n])
  PROVE  /\ f.type \in { NETWORK_ADDR_RESPONSE, NETWORK_REQ_ADDRESS } /\ f.to = n
         /\ Keeps(n) /\ Drops(f.op)
         /\ f.type = NETWORK_ADDR_RESPONSE =>
              \E h \in Frames :
                /\ h = Frame(f.type, f.from, Joiner, f.op) /\ Comes(Nodes, {h})
                /\ f.op \notin dropped' => \A m \in Nodes \cap Hearers(n, Joiner) : Holds(rx', m, h)
         /\ f.type = NETWORK_REQ_ADDRESS =>
              \E h \in Frames :
                /\ h = Frame(f.type, n, 0, f.op) /\ Comes(Nodes, {h}) /\ n # 0
                /\ f.op \notin dropped' /\ Hop(n, 0) \in Nodes \ {n} => Holds(rx', Hop(n, 0), h)
PROOF
  <1>1. f \in Frames /\ f.to = n /\ rx[n] # << >>
    BY RestFrames DEF PassOn, Reads
  <1>2. CASE f.type = NETWORK_ADDR_RESPONSE /\ Sends(PassResponse(Rest(n), n, f))
    <2> DEFINE h == [ f EXCEPT !.to = Joiner ]
    <2>1. h \in Frames /\ h = Frame(f.type, f.from, Joiner, f.op) /\ h.op = f.op
      BY <1>1, ConstantTypes DEF Frames, Frame
    <2>2. Sends(ToLevel(Rest(n), n, Joiner, h))
      BY <1>2 DEF PassResponse
    <2> HIDE DEF h
    <2>3. /\ Comes(Hearers(n, Joiner), {h}) /\ Keeps(n) /\ Drops(h.op)
          /\ h.op \notin dropped' => \A m \in Nodes \cap Hearers(n, Joiner) : Holds(rx', m, h)
      BY <1>1, <2>1, <2>2, ReadToLevel
    <2>4. Comes(Nodes, {h})
      BY <2>3 DEF Comes
    <2>5. f.type # NETWORK_REQ_ADDRESS
      BY <1>2 DEF NETWORK_ADDR_RESPONSE, NETWORK_REQ_ADDRESS
    <2> QED  BY <1>1, <1>2, <2>1, <2>3, <2>4, <2>5
  <1>3. CASE f.type = NETWORK_REQ_ADDRESS /\ PassesRequest(n) /\ Sends(PassRequest(Rest(n), n, f))
    <2> DEFINE h == [ f EXCEPT !.to = 0, !.from = n ]
    <2>1. h \in Frames /\ h = Frame(f.type, n, 0, f.op) /\ h.op = f.op
      <3>1. f.from \in Nodes /\ 0 \in Nodes
        BY <1>1, ConstantTypes DEF Frames
      <3>2. h = Frame(f.type, n, 0, f.op) /\ h \in Frames
        BY <1>1, <3>1, Redirected, Zenon
      <3> HIDE DEF h
      <3> QED  BY <3>2 DEF Frame
    <2>2. Sends(ToHop(Rest(n), n, 0, h))
      BY <1>3 DEF PassRequest
    <2> HIDE DEF h
    <2>3. /\ Comes(Nodes, {h}) /\ Keeps(n) /\ Drops(h.op)
          /\ h.op \notin dropped' /\ Hop(n, 0) \in Nodes \ {n} => Holds(rx', Hop(n, 0), h)
      BY <1>1, <2>1, <2>2, ReadToHop
    <2>5. f.type # NETWORK_ADDR_RESPONSE /\ n # 0
      BY <1>3 DEF NETWORK_ADDR_RESPONSE, NETWORK_REQ_ADDRESS, PassesRequest
    <2> QED  BY <1>1, <1>3, <2>1, <2>3, <2>5
  <1> QED  BY <1>2, <1>3 DEF PassOn

\* What Return does to the FIFOs.
LEMMA ReturnFrames ==
  ASSUME Within(rx), NEW n \in Nodes, Return(n)
  PROVE  Comes({}, {}) /\ Keeps(n)
PROOF
  BY ReadOnly DEF Return, Reads

\* What Enqueue does to them: a relay adds copies of the frame.
LEMMA EnqueueFrames ==
  ASSUME Within(rx), NEW n \in Nodes, Enqueue(n), NEW f, f = Head(rx[n])
  PROVE  f.type = DATA /\ Comes(Nodes, {f}) /\ Keeps(n) /\ Drops(f.op)
PROOF
  <1>1. f \in Frames /\ rx[n] # << >> /\ f.type = DATA
    BY RestFrames DEF Enqueue, Reads
  <1>2. CASE Sends(ToLevel(Rest(n), n, RelayTarget(n), f))
    <2>1. Comes(Hearers(n, RelayTarget(n)), {f}) /\ Keeps(n) /\ Drops(f.op)
      BY <1>1, <1>2, ReadToLevel
    <2> QED  BY <1>1, <2>1 DEF Comes
  <1>3. CASE Sends({ Nothing(Rest(n)) })
    <2>1. rx' = Rest(n) /\ dropped' = dropped
      BY <1>3 DEF Sends, Nothing
    <2> QED  BY <1>1, <2>1, ReadOnly DEF Comes, Drops
  <1> QED  BY <1>2, <1>3 DEF Enqueue, Relay

\* What AnswerPoll does: a node that answers sends an answer of its own.
LEMMA AnswerPollFrames ==
  ASSUME Within(rx), NEW n \in Nodes, AnswerPoll(n), NEW f, f = Head(rx[n])
  PROVE  /\ f.type = NETWORK_POLL /\ f.to = NETWORK_MULTICAST_ADDRESS
         /\ Keeps(n) /\ Drops(f.op)
         /\ IF Answers(n) THEN \E h \in Frames : /\ h = Frame(f.type, n, f.from, f.op)
                                                 /\ Comes(Nodes, {h})
            ELSE Comes({}, {})
PROOF
  <1>1. /\ f \in Frames /\ rx[n] # << >>
        /\ f.type = NETWORK_POLL /\ f.to = NETWORK_MULTICAST_ADDRESS
    BY RestFrames DEF AnswerPoll, Reads
  <1>2. CASE Answers(n)
    <2> DEFINE h == [ f EXCEPT !.to = f.from, !.from = n ]
    <2>1. h \in Frames /\ h = Frame(f.type, n, f.from, f.op) /\ h.op = f.op
      <3>1. f.from \in Nodes /\ 0 \in Nodes
        BY <1>1, ConstantTypes DEF Frames
      <3>2. h = Frame(f.type, n, f.from, f.op) /\ h \in Frames
        BY <1>1, <3>1, Redirected, Zenon
      <3> HIDE DEF h
      <3> QED  BY <3>2 DEF Frame
    <2>2. Sends(ToLevel(Rest(n), n, f.from, h))
      BY <1>2 DEF AnswerPoll
    <2> HIDE DEF h
    <2>3. Comes(Hearers(n, f.from), {h}) /\ Keeps(n) /\ Drops(h.op)
      BY <1>1, <2>1, <2>2, ReadToLevel
    <2>4. Comes(Nodes, {h})
      BY <2>3 DEF Comes
    <2> QED  BY <1>1, <1>2, <2>1, <2>3, <2>4
  <1>3. CASE ~Answers(n)
    <2>1. rx' = Rest(n) /\ dropped' = dropped
      BY <1>3 DEF AnswerPoll, Sends, Nothing
    <2> QED  BY <1>1, <1>3, <2>1, ReadOnly DEF Drops
  <1> QED  BY <1>2, <1>3

\* What Route does: the frame goes to the next hop unchanged; a NETWORK_ACK may be sent.
LEMMA RouteFrames ==
  ASSUME Within(rx), NEW n \in Nodes, Route(n), NEW f, f = Head(rx[n])
  PROVE  /\ f.to \notin { n, NETWORK_MULTICAST_ADDRESS }
         /\ Keeps(n) /\ Drops(f.op)
         /\ \E a \in Frames : /\ a = Frame(NETWORK_ACK, f.from, f.from, f.op)
                              /\ Comes(Nodes, { f, a })
         /\ Routes(n) /\ f.op \notin dropped' /\ Hop(n, f.to) \in Nodes \ {n}
              => Holds(rx', Hop(n, f.to), f)
PROOF
  <1>1. /\ f \in Frames /\ rx[n] # << >> /\ f.to \notin { n, NETWORK_MULTICAST_ADDRESS }
        /\ Within(Rest(n))
    BY RestFrames DEF Route, Reads
  <1> DEFINE ack == Frame(NETWORK_ACK, f.from, f.from, f.op)
  <1>2. ack \in Frames /\ ack.op = f.op
    BY <1>1 DEF Frames, Frame, SystemTypes
  <1> HIDE DEF ack
  <1>3. CASE Routes(n)
    <2>1. PICK s \in ToHop(Rest(n), n, f.to, f) :
            \E a \in ToHop(s.rx, n, f.from, ack) \cup { Nothing(s.rx) } :
              rx' = a.rx /\ dropped' = dropped \cup s.dropped \cup a.dropped
      BY <1>3 DEF Route, ack
    <2>2. PICK a \in ToHop(s.rx, n, f.from, ack) \cup { Nothing(s.rx) } :
            rx' = a.rx /\ dropped' = dropped \cup s.dropped \cup a.dropped
      BY <2>1
    <2>3. /\ Adds(Rest(n), s.rx, Nodes \ {n}, f) /\ s.dropped \subseteq {f.op}
          /\ f.op \notin s.dropped /\ Hop(n, f.to) \in Nodes \ {n} => Holds(s.rx, Hop(n, f.to), f)
      BY <1>1, SentToHop
    <2>4. Within(s.rx)
      BY <2>3 DEF Adds
    <2>5. Adds(s.rx, a.rx, Nodes, ack) /\ a.dropped \subseteq {f.op}
      <3>1. CASE a \in ToHop(s.rx, n, f.from, ack)
        <4>1. Adds(s.rx, a.rx, Nodes \ {n}, ack) /\ a.dropped \subseteq {ack.op}
          BY <1>2, <2>4, <3>1, SentToHop
        <4> QED  BY <1>2, <4>1 DEF Adds
      <3>2. CASE a = Nothing(s.rx)
        BY <2>4, <3>2 DEF Nothing, Adds
      <3> QED  BY <2>2, <3>1, <3>2
    <2>6. Comes(Nodes, { f, ack }) /\ Keeps(n)
      BY <2>2, <2>3, <2>5, RestFrames, <1>1 DEF Adds, Comes, Keeps
    <2>7. f.op \notin dropped' /\ Hop(n, f.to) \in Nodes \ {n} => Holds(rx', Hop(n, f.to), f)
      BY <1>1, <2>2, <2>3, <2>5 DEF Adds
    <2>8. Drops(f.op)
      BY <2>2, <2>3, <2>5 DEF Drops
    <2> QED  BY <1>1, <1>2, <2>6, <2>7, <2>8 DEF ack
  <1>4. CASE ~Routes(n)
    <2>1. rx' = Rest(n) /\ dropped' = dropped
      BY <1>4 DEF Route
    <2>2. Comes({}, {}) /\ Keeps(n)
      BY <1>1, <2>1, ReadOnly
    <2> QED  BY <1>1, <1>2, <1>4, <2>1, <2>2 DEF Comes, Drops, ack
  <1> QED  BY <1>3, <1>4

\* What Start does: the frame of the operation comes to those who hear its level or node.
LEMMA OperationFrame ==
  ASSUME NEW x \in Operations, NEW op \in Op
  PROVE  FrameOf(x, op) \in Frames /\ FrameOf(x, op).op = op
PROOF
  <1>1. CASE x.kind = "poll"
    BY <1>1, ConstantTypes DEF FrameOf, Frame, Frames, SystemTypes
  <1>2. CASE x.kind = "request"
    <2>1. x.contact \in Nodes
      BY <1>2, MeshAssumption
    <2> QED  BY <1>2, <2>1, ConstantTypes DEF FrameOf, Frame, Frames, SystemTypes
  <1>3. CASE x.kind = "multicast"
    <2>1. x.node \in Nodes
      BY <1>3, MeshAssumption
    <2> QED  BY <1>3, <2>1, ConstantTypes DEF FrameOf, Frame, Frames, SystemTypes
  <1>4. CASE x.kind = "direct"
    <2>1. x.node \in Nodes /\ x.to \in Nodes
      BY <1>4, MeshAssumption
    <2> QED  BY <1>4, <2>1, ConstantTypes DEF FrameOf, Frame, Frames, SystemTypes
  <1> QED  BY <1>1, <1>2, <1>3, <1>4, MeshAssumption

\* An operation sends its frame to those who hear its first address, and it is dropped
\* if one of them had no room.
LEMMA StartFrames ==
  ASSUME Within(rx), NEW x \in Operations, Start(x), NEW op, op = Len(ops) + 1
  PROVE  LET f   == FrameOf(x, op)
             all == Hearers(f.from, FirstAddress(x))
         IN  /\ op \in Op /\ f \in Frames /\ f.op = op
             /\ Comes(all, {f}) /\ KeepsAll /\ Drops(op)
             /\ op \notin dropped' => \A m \in Nodes \cap all : Holds(rx', m, f)
PROOF
  <1> DEFINE f   == FrameOf(x, op)
             all == Hearers(f.from, FirstAddress(x))
  <1>1. op \in Op /\ f \in Frames /\ f.op = op
    BY OperationFrame DEF Start
  <1>2. PICK s \in ToLevel(rx, f.from, FirstAddress(x), f) :
          rx' = s.rx /\ dropped' = dropped \cup s.dropped
    BY DEF Start
  <1> HIDE DEF f
  <1>3. /\ Adds(rx, rx', all, f) /\ s.dropped \subseteq {op}
        /\ op \notin s.dropped => \A m \in Nodes \cap all : Holds(rx', m, f)
    BY <1>1, <1>2, SentToLevel
  <1>4. Comes(all, {f}) /\ KeepsAll
    BY <1>3 DEF Adds, Comes, KeepsAll
  <1>5. Drops(op)
    BY <1>2, <1>3 DEF Drops
  <1> QED  BY <1>1, <1>2, <1>3, <1>4, <1>5 DEF f

\* What Respond does: the response to a request from the joiner goes to it, to a
\* request from another node to the next hop on the way there.
LEMMA RespondFrames ==
  ASSUME Within(rx), Respond, NEW req \in Frames, req = Head(event[0])
  PROVE  LET f == Frame(NETWORK_ADDR_RESPONSE, 0, req.from, req.op)
         IN  /\ f \in Frames
             /\ Comes(Nodes, {f}) /\ KeepsAll /\ Drops(req.op)
             /\ req.from = Joiner /\ req.op \notin dropped'
                  => \A m \in Nodes \cap Hearers(0, Joiner) : Holds(rx', m, f)
             /\ req.from # Joiner /\ req.op \notin dropped' /\ Hop(0, req.from) \in Nodes \ {0}
                  => Holds(rx', Hop(0, req.from), f)
PROOF
  <1> DEFINE f == Frame(NETWORK_ADDR_RESPONSE, 0, req.from, req.op)
  <1>1. f \in Frames /\ f.op = req.op
    BY ConstantTypes DEF Frames, Frame, SystemTypes
  <1>2. PICK s \in IF req.from = Joiner THEN ToLevel(rx, 0, Joiner, f)
                                       ELSE ToHop(rx, 0, req.from, f) :
          rx' = s.rx /\ dropped' = dropped \cup s.dropped
    BY DEF Respond
  <1> HIDE DEF f
  <1>3. CASE req.from = Joiner
    <2>1. /\ Adds(rx, rx', Hearers(0, Joiner), f) /\ s.dropped \subseteq {req.op}
          /\ req.op \notin s.dropped => \A m \in Nodes \cap Hearers(0, Joiner) : Holds(rx', m, f)
      BY <1>1, <1>2, <1>3, SentToLevel
    <2>2. Comes(Nodes, {f}) /\ KeepsAll
      BY <2>1 DEF Adds, Comes, KeepsAll
    <2> QED  BY <1>1, <1>2, <1>3, <2>1, <2>2 DEF Drops, f
  <1>4. CASE req.from # Joiner
    <2>1. /\ Adds(rx, rx', Nodes \ {0}, f) /\ s.dropped \subseteq {req.op}
          /\ req.op \notin s.dropped /\ Hop(0, req.from) \in Nodes \ {0}
               => Holds(rx', Hop(0, req.from), f)
      BY <1>1, <1>2, <1>4, SentToHop
    <2>2. Comes(Nodes, {f}) /\ KeepsAll
      BY <2>1 DEF Adds, Comes, KeepsAll
    <2> QED  BY <1>1, <1>2, <1>4, <2>1, <2>2 DEF Drops, f
  <1> QED  BY <1>3, <1>4

-----------------------------------------------------------------------------
\* The levels have addresses of their own on pipe 0: by the number of digits.
LEMMA Powers ==
  8^0 = 1 /\ 8^1 = 8 /\ 8^2 = 64 /\ 8^3 = 512 /\ 8^4 = 4096 /\ 8^5 = 32768 /\ 8^6 = 262144
PROOF
  OBVIOUS

\* The addresses of the levels, computed.
LEMMA LevelAddresses ==
  /\ levelToAddress(1) = 1 /\ levelToAddress(2) = 8
  /\ levelToAddress(3) = 64 /\ levelToAddress(4) = 512
PROOF
  <1>1. 1 - 1 = 0 /\ 2 - 1 = 1 /\ 3 - 1 = 2 /\ 4 - 1 = 3
    OBVIOUS
  <1> QED  BY <1>1, Powers DEF levelToAddress

\* c is the number of octal digits of a, up to six.
HasDigits(a, c) == a < 8^c /\ (c = 0 \/ a >= 8^(c - 1))

\* The address of level k has k digits.
LEMMA LevelDigits ==
  ASSUME NEW k \in 1..4
  PROVE  DigitCount(levelToAddress(k)) = k
PROOF
  <1> DEFINE a == levelToAddress(k)
  <1>1. \/ k = 1 /\ a = 1
        \/ k = 2 /\ a = 8
        \/ k = 3 /\ a = 64
        \/ k = 4 /\ a = 512
    BY LevelAddresses
  <1> HIDE DEF a
  <1>2. /\ HasDigits(a, 0) <=> a < 1
        /\ HasDigits(a, 1) <=> a < 8 /\ a >= 1
        /\ HasDigits(a, 2) <=> a < 64 /\ a >= 8
        /\ HasDigits(a, 3) <=> a < 512 /\ a >= 64
        /\ HasDigits(a, 4) <=> a < 4096 /\ a >= 512
        /\ HasDigits(a, 5) <=> a < 32768 /\ a >= 4096
        /\ HasDigits(a, 6) <=> a < 262144 /\ a >= 32768
    <2>1. 1 - 1 = 0 /\ 2 - 1 = 1 /\ 3 - 1 = 2 /\ 4 - 1 = 3 /\ 5 - 1 = 4 /\ 6 - 1 = 5
      OBVIOUS
    <2> QED  BY <2>1, Powers DEF HasDigits
  <1>3. ASSUME NEW c \in 0..6, HasDigits(a, c) PROVE c = k
    <2>1. c = 0 \/ c = 1 \/ c = 2 \/ c = 3 \/ c = 4 \/ c = 5 \/ c = 6
      OBVIOUS
    <2> QED  BY <1>1, <1>2, <1>3, <2>1
  <1>4. HasDigits(a, k) /\ k \in 0..6
    BY <1>1, <1>2
  <1>5. DigitCount(a) = CHOOSE c \in 0..6 : HasDigits(a, c)
    BY DEF DigitCount, HasDigits
  <1>6. DigitCount(a) = k
    BY <1>3, <1>4, <1>5
  <1> QED  BY <1>6 DEF a

\* Different levels have different addresses on air.
LEMMA LevelPipes ==
  ASSUME NEW k \in 0..4, NEW l \in 0..4,
         pipe_address(levelToAddress(k), 0) = pipe_address(levelToAddress(l), 0)
  PROVE  k = l
PROOF
  <1> DEFINE pipe(j) == pipe_address(levelToAddress(j), 0)
  <1>1. pipe(0)[1] = 195
    BY DEF levelToAddress, pipe_address, address_translation
  <1>2. ASSUME NEW j \in 1..4
        PROVE  pipe(j)[1] = 204 /\ pipe(j)[2] = address_translation[j + 1]
    <2>1. levelToAddress(j) # 0
      <3>1. j = 1 \/ j = 2 \/ j = 3 \/ j = 4
        OBVIOUS
      <3> QED  BY <3>1, LevelAddresses
    <2>2. DigitCount(levelToAddress(j)) = j
      BY LevelDigits
    <2>3. pipe(j) = [ i \in 1..5 |-> IF i = 2 THEN address_translation[j + 1] ELSE 204 ]
      BY <2>1, <2>2 DEF pipe_address
    <2> QED  BY <2>3
  <1>3. /\ address_translation[2] = 60 /\ address_translation[3] = 51
        /\ address_translation[4] = 206 /\ address_translation[5] = 62
    BY DEF address_translation
  <1> HIDE DEF pipe
  <1>4. pipe(k) = pipe(l)
    BY DEF pipe
  <1>5. CASE k = 0 \/ l = 0
    BY <1>1, <1>2, <1>4, <1>5
  <1>6. CASE k \in 1..4 /\ l \in 1..4
    <2>1. address_translation[k + 1] = address_translation[l + 1]
      BY <1>2, <1>4, <1>6
    <2>2. k \in { 1, 2, 3, 4 } /\ l \in { 1, 2, 3, 4 }
      BY <1>6
    <2> QED  BY <1>3, <2>1, <2>2
  <1> QED  BY <1>5, <1>6

\* Who hears the address of a level is a node of that level.
LEMMA LevelHearers ==
  ASSUME NEW l \in 0..4, NEW n \in HearersOf[levelToAddress(l)]
  PROVE  n \in AtLevel(l)
PROOF
  <1>1. levelToAddress(l) \in Destinations
    BY DEF Destinations
  <1>2. n \in Nodes /\ Pipe0(n) = pipe_address(levelToAddress(l), 0)
    BY <1>1 DEF HearersOf
  <1>3. LevelOf[n] \in 0..4
    BY <1>2, ConstantTypes
  <1>4. LevelOf[n] = l
    BY <1>2, <1>3, LevelPipes DEF Pipe0
  <1> QED  BY <1>2, <1>4 DEF AtLevel

-----------------------------------------------------------------------------
\* The frames an event holds.
Events == { None } \cup { << f >> : f \in Frames }

Types == /\ Within(rx)
         /\ event \in [ Nodes -> Events ]
         /\ ops \in Seq(Operations) /\ Len(ops) \in Nat /\ Len(ops) <= MaxOps
         /\ replies \in [ Op -> SUBSET Nodes ]
         /\ answered \cup dropped \cup swallowed \subseteq 1..Len(ops)

\* What is known of a frame at a node: its operation was started; a POLL, and an answer
\* to it, have to do with the level that was polled.
Fits(n, f) ==
  /\ f.op <= Len(ops)
  /\ f.type = NETWORK_POLL =>
       /\ ops[f.op].kind = "poll"
       /\ IF f.to = NETWORK_MULTICAST_ADDRESS THEN n \in AtLevel(ops[f.op].level)
          ELSE f.from \in AtLevel(ops[f.op].level) \ NoPoll

AllFit    == \A n \in Nodes, f \in Frames : Holds(rx, n, f) => Fits(n, f)
EventsFit == \A n \in Nodes, f \in Frames : event[n] = << f >> => f.op <= Len(ops)

\* What the joiner knows of an operation, before it was started too.
RepliesFit ==
  \A o \in Op : /\ o > Len(ops) => replies[o] = {}
                /\ o <= Len(ops) /\ ops[o].kind = "poll"
                     => replies[o] \subseteq AtLevel(ops[o].level) \ NoPoll

\* The inductive invariant.
IInv == Types /\ waiting \in BOOLEAN /\ AllFit /\ EventsFit /\ RepliesFit

\* At first all FIFOs are empty.
LEMMA InitInv == Init => IInv
PROOF
  <1> SUFFICES ASSUME Init PROVE IInv
    OBVIOUS
  <1>1. Within(rx)
    <2>1. \A n \in Nodes : rx[n] = << >> /\ Len(rx[n]) = 0
      BY DEF Init
    <2>2. rx \in Fifos
      BY DEF Init, Fifos
    <2> QED  BY <2>1, <2>2, ConstantTypes DEF Within
  <1>2. event \in [ Nodes -> Events ] /\ \A n \in Nodes : event[n] = None
    BY DEF Init, Events
  <1>3. /\ ops \in Seq(Operations) /\ Len(ops) \in Nat /\ Len(ops) <= MaxOps
        /\ replies \in [ Op -> SUBSET Nodes ] /\ Len(ops) = 0
        /\ answered \cup dropped \cup swallowed \subseteq 1..Len(ops)
        /\ \A o \in Op : replies[o] = {}
    BY ConstantTypes DEF Init
  <1>4. waiting \in BOOLEAN
    BY DEF Init
  <1>5. AllFit
    <2>1. \A n \in Nodes : Len(rx[n]) = 0
      BY DEF Init
    <2> QED  BY <2>1 DEF AllFit, Holds, In
  <1>6. EventsFit
    <2>1. \A f \in Frames : << f >> # None
      BY DEF None
    <2> QED  BY <1>2, <2>1 DEF EventsFit
  <1>7. RepliesFit
    BY <1>3 DEF RepliesFit, Op
  <1> QED  BY <1>1, <1>2, <1>3, <1>4, <1>5, <1>6, <1>7 DEF IInv, Types

\* What the frames of a step must be for AllFit to go on, if no operation starts.
LEMMA FitKept ==
  ASSUME AllFit, NEW T, NEW F, Comes(T, F), ops' = ops,
         \A n \in Nodes \cap T, f \in Frames \cap F : Fits(n, f)
  PROVE  AllFit'
PROOF
  <1>1. \A n \in Nodes, f \in Frames : Fits(n, f)' <=> Fits(n, f)
    BY DEF Fits
  <1> QED  BY <1>1 DEF AllFit, Comes

\* The multicast address is no node's.
LEMMA NoNodeIsMulticast == NETWORK_MULTICAST_ADDRESS \notin Nodes
PROOF
  <1>1. Nodes \subseteq TreeAddress
    BY MeshAssumption
  <1>2. \A a \in TreeAddress : a # NETWORK_MULTICAST_ADDRESS
    BY DEF TreeAddress
  <1> QED  BY <1>1, <1>2

\* The frame that a node reads fits, as its FIFO holds it.
LEMMA HeadFits ==
  ASSUME IInv, NEW n \in Nodes, rx[n] # << >>, NEW f, f = Head(rx[n])
  PROVE  f \in Frames /\ f.op \in 1..Len(ops) /\ f.op \in Op /\ Fits(n, f)
PROOF
  <1>1. f \in Frames /\ Holds(rx, n, f)
    BY RestFrames DEF IInv, Types
  <1>2. Fits(n, f)
    BY <1>1 DEF IInv, AllFit
  <1>3. f.op \in Op /\ f.op \in Nat
    BY <1>1, ConstantTypes DEF Frames, Op
  <1>4. Len(ops) \in Nat
    BY DEF IInv, Types
  <1> QED  BY <1>1, <1>2, <1>3, <1>4 DEF Fits, Op

\* A step that reads a frame and sends others keeps the invariant, if these fit.
LEMMA SendingKeepsInv ==
  ASSUME IInv, NEW o \in 1..Len(ops), NEW T, NEW F, Comes(T, F), Drops(o), SentOnly,
         \A n \in Nodes \cap T, f \in Frames \cap F : Fits(n, f)
  PROVE  IInv'
PROOF
  <1>1. Types'
    <2>1. Within(rx')
      BY DEF Comes
    <2>2. dropped' \subseteq 1..Len(ops)
      BY DEF IInv, Types, Drops
    <2> QED  BY <2>1, <2>2 DEF IInv, Types, SentOnly
  <1>2. AllFit'
    BY FitKept DEF IInv, SentOnly
  <1>3. EventsFit'
    BY DEF IInv, EventsFit, SentOnly
  <1>4. RepliesFit'
    BY DEF IInv, RepliesFit, SentOnly
  <1>5. waiting' \in BOOLEAN
    BY DEF IInv, SentOnly
  <1> QED  BY <1>1, <1>2, <1>3, <1>4, <1>5 DEF IInv

\* The invariant, action by action: a request or response travels on.
LEMMA PassOnKeepsInv ==
  ASSUME IInv, NEW n \in Nodes, PassOn(n)
  PROVE  IInv'
PROOF
  <1> DEFINE f == Head(rx[n])
  <1>1. f \in Frames /\ f.op \in 1..Len(ops) /\ Fits(n, f) /\ SentOnly
    BY HeadFits DEF PassOn, Reads
  <1>2. Within(rx)
    BY DEF IInv, Types
  <1>3. /\ f.type \in { NETWORK_ADDR_RESPONSE, NETWORK_REQ_ADDRESS } /\ Drops(f.op)
        /\ \E h \in Frames : Comes(Nodes, {h}) /\ h.op = f.op /\ h.type = f.type
    <2>1. /\ f.type \in { NETWORK_ADDR_RESPONSE, NETWORK_REQ_ADDRESS } /\ Drops(f.op)
          /\ f.type = NETWORK_ADDR_RESPONSE =>
               \E h \in Frames : h = Frame(f.type, f.from, Joiner, f.op) /\ Comes(Nodes, {h})
          /\ f.type = NETWORK_REQ_ADDRESS =>
               \E h \in Frames : h = Frame(f.type, n, 0, f.op) /\ Comes(Nodes, {h})
      BY <1>2, PassOnFrames
    <2> HIDE DEF f
    <2>2. \E h \in Frames : (\E x, y : h = Frame(f.type, x, y, f.op)) /\ Comes(Nodes, {h})
      BY <2>1, Zenon
    <2>3. \A x, y : Frame(f.type, x, y, f.op).op = f.op /\ Frame(f.type, x, y, f.op).type = f.type
      BY DEF Frame
    <2> QED  BY <2>1, <2>2, <2>3, Zenon
  <1> HIDE DEF f
  <1>4. PICK h \in Frames : Comes(Nodes, {h}) /\ h.op = f.op /\ h.type = f.type
    BY <1>3
  <1>5. h.type # NETWORK_POLL
    BY <1>3, <1>4 DEF NETWORK_ADDR_RESPONSE, NETWORK_REQ_ADDRESS, NETWORK_POLL
  <1>6. \A m \in Nodes : Fits(m, h)
    BY <1>1, <1>4, <1>5 DEF Fits
  <1> QED  BY <1>1, <1>3, <1>4, <1>6, SendingKeepsInv

\* A poll is answered to its sender.
LEMMA AnswerPollKeepsInv ==
  ASSUME IInv, NEW n \in Nodes, AnswerPoll(n)
  PROVE  IInv'
PROOF
  <1> DEFINE f == Head(rx[n])
  <1>1. f \in Frames /\ f.op \in 1..Len(ops) /\ Fits(n, f) /\ SentOnly
    BY HeadFits DEF AnswerPoll, Reads
  <1>2. Within(rx)
    BY DEF IInv, Types
  <1>3. /\ f.type = NETWORK_POLL /\ f.to = NETWORK_MULTICAST_ADDRESS /\ Drops(f.op)
        /\ IF Answers(n) THEN \E h \in Frames : /\ h = Frame(f.type, n, f.from, f.op)
                                                /\ Comes(Nodes, {h})
           ELSE Comes({}, {})
    BY <1>2, AnswerPollFrames
  <1> HIDE DEF f
  <1>4. CASE Answers(n)
    <2>1. PICK h \in Frames : h = Frame(f.type, n, f.from, f.op) /\ Comes(Nodes, {h})
      BY <1>3, <1>4
    <2>2. f.from \in Nodes /\ f.from # NETWORK_MULTICAST_ADDRESS
      BY <1>1, NoNodeIsMulticast DEF Frames
    <2>3. \A m \in Nodes : Fits(m, h)
      BY <1>1, <1>3, <1>4, <2>1, <2>2 DEF Fits, Frame, Answers
    <2> QED  BY <1>1, <1>3, <2>1, <2>3, SendingKeepsInv
  <1>5. CASE ~Answers(n)
    <2>1. Comes({}, {})
      BY <1>3, <1>5
    <2> QED  BY <1>1, <1>3, <2>1, SendingKeepsInv
  <1> QED  BY <1>4, <1>5

\* A frame for another node travels on, and its sender gets a NETWORK_ACK.
LEMMA RouteKeepsInv ==
  ASSUME IInv, NEW n \in Nodes, Route(n)
  PROVE  IInv'
PROOF
  <1> DEFINE f == Head(rx[n])
  <1>1. f \in Frames /\ f.op \in 1..Len(ops) /\ Fits(n, f) /\ SentOnly
    BY HeadFits DEF Route, Reads
  <1>2. Within(rx)
    BY DEF IInv, Types
  <1>3. /\ f.to # NETWORK_MULTICAST_ADDRESS /\ Drops(f.op)
        /\ \E a \in Frames : a = Frame(NETWORK_ACK, f.from, f.from, f.op) /\ Comes(Nodes, { f, a })
    BY <1>2, RouteFrames
  <1> HIDE DEF f
  <1>4. PICK a \in Frames : a = Frame(NETWORK_ACK, f.from, f.from, f.op) /\ Comes(Nodes, { f, a })
    BY <1>3
  <1>5. \A m \in Nodes : Fits(m, f)
    BY <1>1, <1>3 DEF Fits
  <1>6. \A m \in Nodes : Fits(m, a)
    BY <1>1, <1>4 DEF Fits, Frame, NETWORK_ACK, NETWORK_POLL
  <1> QED  BY <1>1, <1>3, <1>4, <1>5, <1>6, SendingKeepsInv

\* A message reaches a queue, and travels on if it is relayed.
LEMMA EnqueueKeepsInv ==
  ASSUME IInv, NEW n \in Nodes, Enqueue(n)
  PROVE  IInv'
PROOF
  <1> DEFINE f == Head(rx[n])
  <1>1. f \in Frames /\ f.op \in 1..Len(ops) /\ Fits(n, f)
    BY HeadFits DEF Enqueue, Reads
  <1>2. Within(rx)
    BY DEF IInv, Types
  <1>3. f.type = DATA /\ Comes(Nodes, {f}) /\ Drops(f.op)
    BY <1>2, EnqueueFrames
  <1> HIDE DEF f
  <1>4. \A m \in Nodes : Fits(m, f)
    BY <1>1, <1>3 DEF Fits, DATA, NETWORK_POLL
  <1>5. UNCHANGED << event, waiting, ops, replies, answered, swallowed >>
    BY DEF Enqueue
  <1>6. Types'
    BY <1>1, <1>3, <1>5 DEF IInv, Types, Comes, Drops
  <1>7. AllFit'
    BY <1>3, <1>4, <1>5, FitKept DEF IInv
  <1>8. EventsFit'
    BY <1>5 DEF IInv, EventsFit
  <1>9. RepliesFit'
    BY <1>5 DEF IInv, RepliesFit
  <1>10. waiting' \in BOOLEAN
    BY <1>5 DEF IInv
  <1> QED  BY <1>6, <1>7, <1>8, <1>9, <1>10 DEF IInv

\* update() returns the type of the frame, which a request leaves in event.
LEMMA ReturnKeepsInv ==
  ASSUME IInv, NEW n \in Nodes, Return(n)
  PROVE  IInv'
PROOF
  <1> DEFINE f == Head(rx[n])
  <1>1. /\ f \in Frames /\ f.op \in 1..Len(ops) /\ f.op \in Op /\ Fits(n, f)
        /\ f.to = n /\ f.from \in Nodes
    BY HeadFits DEF Return, Reads, Frames
  <1>2. Comes({}, {})
    BY ReturnFrames DEF IInv, Types
  <1>3. UNCHANGED << ops, enqueued, dropped >>
    BY DEF Return
  <1>4. /\ event' = event \/ event' = [ event EXCEPT ![n] = << f >> ]
        /\ swallowed' \subseteq swallowed \cup {f.op}
        /\ answered' \subseteq answered \cup {f.op}
    BY DEF Return
  <1>5. replies' = IF f.type = NETWORK_POLL THEN [ replies EXCEPT ![f.op] = @ \cup {f.from} ]
                   ELSE replies
    BY DEF Return
  <1>6. waiting' \in BOOLEAN
    BY DEF Return, IInv
  <1> HIDE DEF f
  <1>7. event' \in [ Nodes -> Events ]
    <2>1. << f >> \in Events /\ event \in [ Nodes -> Events ]
      BY <1>1 DEF Events, IInv, Types
    <2> QED  BY <1>4, <2>1
  <1>8. replies' \in [ Op -> SUBSET Nodes ]
    <2>1. replies \in [ Op -> SUBSET Nodes ]
      BY DEF IInv, Types
    <2> QED  BY <1>1, <1>5, <2>1
  <1>9. Types'
    <2>1. (answered \cup dropped \cup swallowed)' \subseteq 1..Len(ops)
      BY <1>1, <1>3, <1>4 DEF IInv, Types
    <2> QED  BY <1>2, <1>3, <1>7, <1>8, <2>1 DEF IInv, Types, Comes
  <1>10. AllFit'
    BY <1>2, <1>3, FitKept DEF IInv
  <1>11. EventsFit'
    <2>1. ASSUME NEW m \in Nodes, NEW g \in Frames, event'[m] = << g >>, event[m] # << g >>
          PROVE  g = f
      BY <1>4, <2>1 DEF IInv, Types
    <2> QED  BY <1>1, <1>3, <2>1 DEF IInv, EventsFit
  <1>12. RepliesFit'
    <2>1. CASE f.type = NETWORK_POLL
      <3>1. ops[f.op].kind = "poll" => f.from \in AtLevel(ops[f.op].level) \ NoPoll
        BY <1>1, <2>1, NoNodeIsMulticast DEF Fits
      <3>2. \A o \in Op : replies'[o] = IF o = f.op THEN replies[o] \cup {f.from} ELSE replies[o]
        BY <1>1, <1>5, <2>1 DEF IInv, Types
      <3>3. ASSUME NEW o \in Op, o > Len(ops) PROVE replies'[o] = {}
        <4>1. o # f.op
          BY <1>1, <3>3 DEF IInv, Types
        <4> QED  BY <3>2, <3>3, <4>1 DEF IInv, RepliesFit
      <3>4. ASSUME NEW o \in Op, o <= Len(ops), ops[o].kind = "poll"
            PROVE  replies'[o] \subseteq AtLevel(ops[o].level) \ NoPoll
        <4>1. replies[o] \subseteq AtLevel(ops[o].level) \ NoPoll
          BY <3>4 DEF IInv, RepliesFit
        <4> QED  BY <3>1, <3>2, <3>4, <4>1
      <3> QED  BY <1>3, <3>3, <3>4 DEF RepliesFit, AtLevel
    <2>2. CASE f.type # NETWORK_POLL
      BY <1>3, <1>5, <2>2 DEF IInv, RepliesFit
    <2> QED  BY <2>1, <2>2
  <1> QED  BY <1>6, <1>9, <1>10, <1>11, <1>12 DEF IInv

\* An operation begins.
LEMMA StartKeepsInv ==
  ASSUME IInv, NEW x \in Operations, Start(x)
  PROVE  IInv'
PROOF
  <1>a. PICK op : op = Len(ops) + 1
    OBVIOUS
  <1>b. PICK f : f = FrameOf(x, op)
    OBVIOUS
  <1> DEFINE all == Hearers(f.from, FirstAddress(x))
  <1>1. op \in Op /\ f \in Frames /\ f.op = op /\ Comes(all, {f}) /\ Drops(op)
    BY <1>a, <1>b, StartFrames DEF IInv, Types
  <1>2. /\ ops' = Append(ops, x)
        /\ UNCHANGED << event, waiting, enqueued, replies, answered, swallowed >>
    BY DEF Start
  <1>3. /\ ops \in Seq(Operations) /\ Len(ops) \in Nat /\ MaxOps \in Nat /\ op = Len(ops) + 1
        /\ ops' \in Seq(Operations) /\ Len(ops') = op /\ Len(ops') <= MaxOps
        /\ ops'[op] = x /\ \A o \in 1..Len(ops) : ops'[o] = ops[o]
    BY <1>a, <1>1, <1>2, ConstantTypes DEF IInv, Types, Op
  <1>4. ASSUME NEW n \in Nodes, n \in all PROVE Fits(n, f)'
    <2>1. CASE x.kind = "poll"
      <3>1. FirstAddress(x) = levelToAddress(x.level) /\ x.level \in 0..4
        BY <2>1, MeshAssumption DEF FirstAddress
      <3>2. n \in AtLevel(x.level)
        BY <1>4, <3>1, LevelHearers DEF Hearers
      <3>3. f.to = NETWORK_MULTICAST_ADDRESS
        BY <1>b, <2>1 DEF FrameOf, Frame
      <3> QED  BY <1>1, <1>3, <2>1, <3>2, <3>3 DEF Fits, AtLevel
    <2>2. CASE x.kind # "poll"
      <3>1. f.type # NETWORK_POLL
        BY <1>b, <2>2, MeshAssumption
           DEF FrameOf, Frame, NETWORK_POLL, NETWORK_REQ_ADDRESS, DATA
      <3> QED  BY <1>1, <1>3, <3>1 DEF Fits
    <2> QED  BY <2>1, <2>2
  <1> HIDE DEF all
  <1>5. Types'
    <2>1. (answered \cup dropped \cup swallowed)' \subseteq 1..op
      BY <1>1, <1>2, <1>3 DEF IInv, Types, Drops
    <2> QED  BY <1>1, <1>2, <1>3, <2>1 DEF IInv, Types, Comes
  <1>6. AllFit'
    <2>1. ASSUME NEW n \in Nodes, NEW g \in Frames, Fits(n, g) PROVE Fits(n, g)'
      <3>1. g.op \in 1..Len(ops) /\ g.op <= op /\ ops'[g.op] = ops[g.op]
        BY <1>1, <1>3, <2>1 DEF Fits, Frames, Op
      <3> QED  BY <1>3, <2>1, <3>1 DEF Fits, AtLevel
    <2> QED  BY <1>1, <1>4, <2>1 DEF IInv, AllFit, Comes
  <1>7. EventsFit'
    <2>1. \A g \in Frames : g.op <= Len(ops) => g.op <= op
      BY <1>3, ConstantTypes DEF Frames, Op
    <2> QED  BY <1>2, <1>3, <2>1 DEF IInv, EventsFit
  <1>8. RepliesFit'
    <2>1. ASSUME NEW o \in Op, o > op PROVE replies[o] = {}
      BY <1>3, <2>1, ConstantTypes DEF IInv, RepliesFit, Op
    <2>2. ASSUME NEW o \in Op, o <= op, ops'[o].kind = "poll"
          PROVE  replies[o] \subseteq AtLevel(ops'[o].level) \ NoPoll
      <3>1. CASE o = op
        BY <1>3, <3>1 DEF IInv, RepliesFit
      <3>2. CASE o \in 1..Len(ops)
        BY <1>3, <2>2, <3>2 DEF IInv, RepliesFit
      <3> QED  BY <1>3, <2>2, <3>1, <3>2, ConstantTypes DEF Op
    <2> QED  BY <1>2, <1>3, <2>1, <2>2 DEF RepliesFit, AtLevel
  <1>9. waiting' \in BOOLEAN
    BY <1>2 DEF IInv
  <1> QED  BY <1>5, <1>6, <1>7, <1>8, <1>9 DEF IInv

\* The master answers a request.
LEMMA RespondKeepsInv ==
  ASSUME IInv, Respond
  PROVE  IInv'
PROOF
  <1>1. PICK req \in Frames : event[0] = << req >>
    BY ConstantTypes DEF Respond, IInv, Types, Events
  <1>2. req = Head(event[0])
    BY <1>1
  <1>3. req.op \in 1..Len(ops)
    <2>1. req.op <= Len(ops)
      BY <1>1, ConstantTypes DEF IInv, EventsFit
    <2> QED  BY <2>1, ConstantTypes DEF IInv, Types, Frames, Op
  <1> DEFINE f == Frame(NETWORK_ADDR_RESPONSE, 0, req.from, req.op)
  <1>4. Comes(Nodes, {f}) /\ Drops(req.op) /\ f \in Frames
    BY <1>2, RespondFrames DEF IInv, Types
  <1>5. \A m \in Nodes : Fits(m, f)
    BY <1>3 DEF Fits, Frame, NETWORK_ADDR_RESPONSE, NETWORK_POLL
  <1> HIDE DEF f
  <1>6. /\ event' = [ event EXCEPT ![0] = None ]
        /\ UNCHANGED << ops, enqueued, replies, answered, swallowed >>
    BY DEF Respond
  <1>7. waiting' \in BOOLEAN
    BY DEF Respond
  <1>8. Types'
    <2>1. event' \in [ Nodes -> Events ]
      BY <1>6 DEF IInv, Types, Events
    <2> QED  BY <1>3, <1>4, <1>6, <2>1 DEF IInv, Types, Comes, Drops
  <1>9. AllFit'
    BY <1>4, <1>5, <1>6, FitKept DEF IInv
  <1>10. EventsFit'
    <2>1. \A m \in Nodes : event'[m] = event[m] \/ event'[m] = None
      BY <1>6 DEF IInv, Types
    <2>2. \A g \in Frames : << g >> # None
      BY DEF None
    <2> QED  BY <1>6, <2>1, <2>2 DEF IInv, EventsFit
  <1>11. RepliesFit'
    BY <1>6 DEF IInv, RepliesFit
  <1> QED  BY <1>7, <1>8, <1>9, <1>10, <1>11 DEF IInv

\* The invariant is inductive.
LEMMA NextInv == IInv /\ [Next]_vars => IInv'
PROOF
  <1> SUFFICES ASSUME IInv, [Next]_vars PROVE IInv'
    OBVIOUS
  <1>1. ASSUME NEW x \in Operations, Start(x) PROVE IInv'
    BY <1>1, StartKeepsInv
  <1>2. ASSUME NEW n \in Nodes, Update(n) PROVE IInv'
    BY <1>2, PassOnKeepsInv, ReturnKeepsInv, EnqueueKeepsInv, AnswerPollKeepsInv, RouteKeepsInv
       DEF Update
  <1>3. CASE Respond
    BY <1>3, RespondKeepsInv
  <1>4. CASE Timeout \/ UNCHANGED vars
    <2>1. UNCHANGED << rx, event, ops, enqueued, replies, answered, dropped, swallowed >>
      BY <1>4 DEF Timeout, vars
    <2>2. waiting' \in BOOLEAN
      BY <1>4 DEF Timeout, vars, IInv
    <2>3. Types'
      BY <2>1 DEF IInv, Types
    <2>4. AllFit' /\ EventsFit' /\ RepliesFit'
      BY <2>1 DEF IInv, AllFit, Fits, EventsFit, RepliesFit
    <2> QED  BY <2>2, <2>3, <2>4 DEF IInv
  <1> QED  BY <1>1, <1>2, <1>3, <1>4 DEF Next

\* The inductive invariant always holds.
LEMMA Invariance == Spec => []IInv
PROOF
  BY InitInv, NextInv, PTL DEF Spec

-----------------------------------------------------------------------------
\* Type correctness (TypeOK): whatever is polled, asked for, relayed and routed, no FIFO
\* holds more than its depth, every frame in one has a type, a sender and an addressee of
\* the network, and belongs to an operation that was started.
THEOREM TypeCorrect == Spec => []TypeOK
PROOF
  <1>1. IInv => TypeOK
    <2> SUFFICES ASSUME IInv PROVE TypeOK
      OBVIOUS
    <2>1. ASSUME NEW n \in Nodes, NEW i \in DOMAIN rx[n]
          PROVE  /\ rx[n][i].type \in SystemTypes \cup { DATA }
                 /\ rx[n][i].from \in Nodes
                 /\ rx[n][i].to \in Nodes \cup { NETWORK_MULTICAST_ADDRESS }
                 /\ rx[n][i].op \in 1..Len(ops)
      <3>1. rx[n] \in Seq(Frames)
        BY DEF IInv, Types, Within, Fifos
      <3>2. i \in 1..Len(rx[n]) /\ rx[n][i] \in Frames
        BY <3>1
      <3>3. Fits(n, rx[n][i])
        BY <3>2 DEF IInv, AllFit, Holds, In
      <3>4. rx[n][i].op \in 1..Len(ops)
        BY <3>2, <3>3, ConstantTypes DEF Fits, Frames, Op, IInv, Types
      <3> QED  BY <3>2, <3>4 DEF Frames
    <2>2. \A n \in Nodes : Len(rx[n]) <= RxDepth
      BY DEF IInv, Types, Within
    <2>3. answered \cup dropped \cup swallowed \subseteq 1..Len(ops)
      BY DEF IInv, Types
    <2>4. waiting \in BOOLEAN
      BY DEF IInv
    <2> QED  BY <2>1, <2>2, <2>3, <2>4 DEF TypeOK
  <1> QED  BY Invariance, <1>1, PTL

\* Only nodes of the level that was polled answer, and none with FLAG_NO_POLL
\* (OnlyPolledAnswer), though frames are routed, relayed and heard by others.
THEOREM AnswersFromTheLevel == Spec => []OnlyPolledAnswer
PROOF
  <1>1. IInv => OnlyPolledAnswer
    <2> SUFFICES ASSUME IInv, NEW o \in OpsOf("poll")
                 PROVE  replies[o] \subseteq AtLevel(ops[o].level) \ NoPoll
      BY DEF OnlyPolledAnswer
    <2>1. o \in 1..Len(ops) /\ ops[o].kind = "poll"
      BY DEF OpsOf
    <2>2. o \in Op /\ o <= Len(ops)
      BY <2>1, ConstantTypes DEF IInv, Types, Op
    <2> QED  BY <2>1, <2>2 DEF IInv, RepliesFit
  <1> QED  BY Invariance, <1>1, PTL

-----------------------------------------------------------------------------
\* A frame that takes a request, or its response, further: it is at a node that has a way
\* to where it goes.
Useful(C, n, f) ==
  \/ /\ f.type = NETWORK_REQ_ADDRESS
     /\ n \in C /\ f.to \in C /\ f.from \in (C \ {0}) \cup {Joiner}
  \/ /\ f.type = NETWORK_ADDR_RESPONSE
     /\ \/ n \in C /\ f.to \in C
        \/ n = Joiner /\ f.to = Joiner

Done(o) == o \in answered \cup dropped \cup swallowed
Live(C, o) ==
  \/ \E n \in Nodes, f \in Frames : Holds(rx, n, f) /\ f.op = o /\ Useful(C, n, f)
  \/ \E f \in Frames : event[0] = << f >> /\ f.op = o /\ f.from \in (C \ {0}) \cup {Joiner}

\* The inductive invariant: a request is at an end or there is such a frame.
AllAlive(C) == \A o \in 1..Len(ops) : ops[o].kind = "request" => Done(o) \/ Live(C, o)

\* What becomes of an operation is not forgotten.
Remembers == /\ answered \subseteq answered' /\ dropped \subseteq dropped'
             /\ swallowed \subseteq swallowed'

\* A step in which a node reads a frame has to care for that frame alone.
LEMMA ReadKeepsAlive ==
  ASSUME IInv, NEW C, AllAlive(C), NEW n \in Nodes, Keeps(n), Remembers, ops' = ops,
         NEW f, f = Head(rx[n]),
         \A g \in Frames : event[0] = << g >> => event'[0] = << g >>,
         Useful(C, n, f) => Done(f.op)' \/ Live(C, f.op)'
  PROVE  AllAlive(C)'
PROOF
  <1> SUFFICES ASSUME NEW o \in 1..Len(ops), ops[o].kind = "request"
               PROVE  Done(o)' \/ Live(C, o)'
    BY DEF AllAlive
  <1>1. CASE Done(o)
    BY <1>1 DEF Done, Remembers
  <1>2. ASSUME NEW m \in Nodes, NEW g \in Frames, Holds(rx, m, g), g.op = o, Useful(C, m, g)
        PROVE  Done(o)' \/ Live(C, o)'
    <2>1. CASE Holds(rx', m, g)
      BY <1>2, <2>1 DEF Live, Useful
    <2>2. CASE m = n /\ g = f
      BY <1>2, <2>2
    <2> QED  BY <1>2, <2>1, <2>2 DEF Keeps
  <1>3. ASSUME NEW g \in Frames, event[0] = << g >>, g.op = o, g.from \in (C \ {0}) \cup {Joiner}
        PROVE  Live(C, o)'
    <2>1. event'[0] = << g >>
      BY <1>3
    <2> QED  BY <1>3, <2>1 DEF Live
  <1> QED  BY <1>1, <1>2, <1>3 DEF AllAlive, Live

\* A useful frame at its addressee that is passed on stays useful.
LEMMA PassOnKeepsAlive ==
  ASSUME IInv, NEW C, Connected(C), AllAlive(C), NEW n \in Nodes, PassOn(n)
  PROVE  AllAlive(C)'
PROOF
  <1>f. PICK f : f = Head(rx[n])
    OBVIOUS
  <1>1. f \in Frames /\ Within(rx) /\ f.op \in 1..Len(ops)
    BY <1>f, HeadFits DEF PassOn, Reads, IInv, Types
  <1>2. /\ f.type \in { NETWORK_ADDR_RESPONSE, NETWORK_REQ_ADDRESS } /\ f.to = n
        /\ Keeps(n) /\ Drops(f.op)
        /\ f.type = NETWORK_ADDR_RESPONSE =>
             \E h \in Frames :
               /\ h = Frame(f.type, f.from, Joiner, f.op)
               /\ f.op \notin dropped' => \A m \in Nodes \cap Hearers(n, Joiner) : Holds(rx', m, h)
        /\ f.type = NETWORK_REQ_ADDRESS =>
             \E h \in Frames :
               /\ h = Frame(f.type, n, 0, f.op) /\ n # 0
               /\ f.op \notin dropped' /\ Hop(n, 0) \in Nodes \ {n} => Holds(rx', Hop(n, 0), h)
    BY <1>f, <1>1, PassOnFrames
  <1>3. UNCHANGED << event, waiting, ops, enqueued, replies, answered, swallowed >>
    BY DEF PassOn, SentOnly
  <1>4. f.type = NETWORK_ADDR_RESPONSE => PassesResponse(n)
    BY <1>f DEF PassOn, NETWORK_ADDR_RESPONSE, NETWORK_REQ_ADDRESS
  <1>5. ASSUME Useful(C, n, f), f.op \notin dropped' PROVE Live(C, f.op)'
    <2>1. CASE f.type = NETWORK_ADDR_RESPONSE
      <3>1. PICK h \in Frames :
              /\ h = Frame(f.type, f.from, Joiner, f.op)
              /\ \A m \in Nodes \cap Hearers(n, Joiner) : Holds(rx', m, h)
        BY <1>2, <1>5, <2>1
      <3>2. Joiner \in Nodes \cap Hearers(n, Joiner)
        BY <1>4, <2>1, ConstantTypes DEF PassesResponse, Hearers, Connected
      <3>3. Holds(rx', Joiner, h)
        BY <3>1, <3>2
      <3>4. h.op = f.op /\ Useful(C, Joiner, h)
        BY <2>1, <3>1 DEF Useful, Frame
      <3> QED  BY <3>2, <3>3, <3>4 DEF Live
    <2>2. CASE f.type = NETWORK_REQ_ADDRESS
      <3>1. n \in C
        BY <1>5, <2>2 DEF Useful, NETWORK_ADDR_RESPONSE, NETWORK_REQ_ADDRESS
      <3>2. PICK h \in Frames :
              /\ h = Frame(f.type, n, 0, f.op) /\ n # 0
              /\ Hop(n, 0) \in Nodes \ {n} => Holds(rx', Hop(n, 0), h)
        BY <1>2, <1>5, <2>2
      <3>3. Hop(n, 0) \in C \ {n} /\ C \subseteq Nodes /\ 0 \in C
        BY <3>1, <3>2 DEF Connected
      <3>4. h.op = f.op /\ Useful(C, Hop(n, 0), h)
        BY <2>2, <3>1, <3>2, <3>3 DEF Useful, Frame
      <3> QED  BY <3>2, <3>3, <3>4 DEF Live
    <2> QED  BY <1>2, <2>1, <2>2
  <1>6. Useful(C, n, f) => Done(f.op)' \/ Live(C, f.op)'
    BY <1>5 DEF Done
  <1>7. Remembers
    BY <1>2, <1>3 DEF Remembers, Drops
  <1> QED  BY <1>f, <1>1, <1>2, <1>3, <1>6, <1>7, ReadKeepsAlive

\* A useful frame that is routed is useful at the next hop.
LEMMA RouteKeepsAlive ==
  ASSUME IInv, NEW C, Connected(C), AllAlive(C), NEW n \in Nodes, Route(n)
  PROVE  AllAlive(C)'
PROOF
  <1>f. PICK f : f = Head(rx[n])
    OBVIOUS
  <1>1. f \in Frames /\ Within(rx)
    BY <1>f, HeadFits DEF Route, Reads, IInv, Types
  <1>2. /\ f.to # n /\ Keeps(n) /\ Drops(f.op)
        /\ Routes(n) /\ f.op \notin dropped' /\ Hop(n, f.to) \in Nodes \ {n}
             => Holds(rx', Hop(n, f.to), f)
    BY <1>f, <1>1, RouteFrames
  <1>3. UNCHANGED << event, waiting, ops, enqueued, replies, answered, swallowed >>
    BY DEF Route, SentOnly
  <1>4. ASSUME Useful(C, n, f), f.op \notin dropped' PROVE Live(C, f.op)'
    <2>1. n \in C /\ f.to \in C
      BY <1>2, <1>4 DEF Useful
    <2>2. Routes(n) /\ Hop(n, f.to) \in C \ {n} /\ Hop(n, f.to) \in Nodes \ {n}
      BY <1>2, <2>1 DEF Connected, Routes
    <2>3. Holds(rx', Hop(n, f.to), f)
      BY <1>2, <1>4, <2>2
    <2>4. Useful(C, Hop(n, f.to), f)
      BY <1>2, <1>4, <2>1, <2>2 DEF Useful
    <2> QED  BY <1>1, <2>2, <2>3, <2>4 DEF Live
  <1>5. Useful(C, n, f) => Done(f.op)' \/ Live(C, f.op)'
    BY <1>4 DEF Done
  <1>6. Remembers
    BY <1>2, <1>3 DEF Remembers, Drops
  <1> QED  BY <1>f, <1>1, <1>2, <1>3, <1>5, <1>6, ReadKeepsAlive DEF Route, Reads

\* A request that the master's RF24Mesh gets is not lost, unless write() swallows it; a
\* response that the joiner gets is the end.
LEMMA ReturnKeepsAlive ==
  ASSUME IInv, NEW C, Connected(C), AllAlive(C), NEW n \in Nodes, Return(n)
  PROVE  AllAlive(C)'
PROOF
  <1>f. PICK f : f = Head(rx[n])
    OBVIOUS
  <1>1. f \in Frames /\ Within(rx)
    BY <1>f, HeadFits DEF Return, Reads, IInv, Types
  <1>2. Keeps(n) /\ f.to = n /\ event[n] = None
    BY <1>f, <1>1, ReturnFrames DEF Return, Reads
  <1>3. /\ UNCHANGED << ops, enqueued, dropped >>
        /\ event' = IF f.type = NETWORK_REQ_ADDRESS /\ ~(waiting /\ n = 0)
                    THEN [ event EXCEPT ![n] = << f >> ] ELSE event
        /\ swallowed' = IF f.type = NETWORK_REQ_ADDRESS /\ waiting /\ n = 0
                        THEN swallowed \cup {f.op} ELSE swallowed
        /\ answered' = IF f.type = NETWORK_ADDR_RESPONSE THEN answered \cup {f.op} ELSE answered
        /\ f.type = NETWORK_ADDR_RESPONSE => ~PassesResponse(n)
        /\ f.type = NETWORK_REQ_ADDRESS => ~PassesRequest(n)
    BY <1>f DEF Return, NETWORK_ACK, NETWORK_POLL, NETWORK_ADDR_RESPONSE, NETWORK_REQ_ADDRESS
  <1>4. \A g \in Frames : event[0] = << g >> => event'[0] = << g >>
    <2>1. event \in [ Nodes -> Events ] /\ 0 \in Nodes
      BY ConstantTypes DEF IInv, Types
    <2>2. \A g \in Frames : << g >> # None
      BY DEF None
    <2>3. event' = event \/ event' = [ event EXCEPT ![n] = << f >> ]
      BY <1>3
    <2>4. CASE n = 0
      BY <1>2, <2>2, <2>4
    <2>5. CASE n # 0
      BY <2>1, <2>3, <2>5
    <2> QED  BY <2>4, <2>5
  <1>5. ASSUME Useful(C, n, f) PROVE Done(f.op)' \/ Live(C, f.op)'
    <2>1. CASE f.type = NETWORK_ADDR_RESPONSE
      BY <1>3, <2>1 DEF Done
    <2>2. CASE f.type = NETWORK_REQ_ADDRESS /\ waiting
      <3>1. n = 0
        BY <1>3, <2>2 DEF PassesRequest
      <3> QED  BY <1>3, <2>2, <3>1 DEF Done
    <2>3. CASE f.type = NETWORK_REQ_ADDRESS /\ ~waiting
      <3>1. n = 0 /\ event' = [ event EXCEPT ![n] = << f >> ]
        BY <1>3, <2>3 DEF PassesRequest
      <3>2. event'[0] = << f >>
        BY <3>1 DEF IInv, Types
      <3>3. f.from \in (C \ {0}) \cup {Joiner}
        BY <1>5, <2>3 DEF Useful, NETWORK_ADDR_RESPONSE, NETWORK_REQ_ADDRESS
      <3> QED  BY <1>1, <3>2, <3>3 DEF Live
    <2> QED  BY <1>5, <2>1, <2>2, <2>3 DEF Useful
  <1>6. Remembers
    BY <1>3 DEF Remembers
  <1> QED  BY <1>f, <1>1, <1>2, <1>3, <1>4, <1>5, <1>6, ReadKeepsAlive DEF Return, Reads

\* Frames of applications and of POLLs are not useful.
LEMMA OthersKeepAlive ==
  ASSUME IInv, NEW C, AllAlive(C), NEW n \in Nodes, Enqueue(n) \/ AnswerPoll(n)
  PROVE  AllAlive(C)'
PROOF
  <1>f. PICK f : f = Head(rx[n])
    OBVIOUS
  <1>1. Within(rx)
    BY DEF IInv, Types
  <1>2. f.type \in { DATA, NETWORK_POLL } /\ Keeps(n) /\ Drops(f.op)
    BY <1>f, <1>1, EnqueueFrames, AnswerPollFrames
  <1>3. ~Useful(C, n, f)
    BY <1>2 DEF Useful, DATA, NETWORK_POLL, NETWORK_ADDR_RESPONSE, NETWORK_REQ_ADDRESS
  <1>4. UNCHANGED << event, waiting, ops, replies, answered, swallowed >>
    BY DEF Enqueue, AnswerPoll, SentOnly
  <1>5. Remembers
    BY <1>2, <1>4 DEF Remembers, Drops
  <1> QED  BY <1>f, <1>2, <1>3, <1>4, <1>5, ReadKeepsAlive

\* An operation that starts, and the response of the master, keep all frames.
LEMMA StartKeepsAlive ==
  ASSUME IInv, NEW C, Connected(C), AllAlive(C), NEW x \in Operations, Start(x)
  PROVE  AllAlive(C)'
PROOF
  <1>a. PICK op : op = Len(ops) + 1
    OBVIOUS
  <1>b. PICK f : f = FrameOf(x, op)
    OBVIOUS
  <1> DEFINE all == Hearers(f.from, FirstAddress(x))
  <1>1. /\ op \in Op /\ f \in Frames /\ f.op = op /\ KeepsAll /\ Drops(op)
        /\ op \notin dropped' => \A m \in Nodes \cap all : Holds(rx', m, f)
    BY <1>a, <1>b, StartFrames DEF IInv, Types
  <1>2. /\ ops' = Append(ops, x)
        /\ UNCHANGED << event, waiting, enqueued, replies, answered, swallowed >>
    BY DEF Start
  <1>3. /\ Len(ops) \in Nat /\ Len(ops') = op /\ op = Len(ops) + 1
        /\ ops'[op] = x /\ \A o \in 1..Len(ops) : ops'[o] = ops[o]
    BY <1>a, <1>2 DEF IInv, Types
  <1>4. ASSUME x.kind = "request", op \notin dropped' PROVE Live(C, op)'
    <2>1. /\ f = Frame(NETWORK_REQ_ADDRESS, Joiner, x.contact, op)
          /\ FirstAddress(x) = x.contact
      BY <1>b, <1>4 DEF FrameOf, FirstAddress
    <2>2. x.contact \in C /\ x.contact \in HearersOf[x.contact] /\ C \subseteq Nodes \ {Joiner}
      BY <1>4 DEF Connected
    <2>3. f.from = Joiner /\ f.to = x.contact /\ f.type = NETWORK_REQ_ADDRESS
      BY <2>1 DEF Frame
    <2>4. x.contact \in Nodes \cap all
      BY <2>1, <2>2, <2>3 DEF Hearers
    <2>5. Holds(rx', x.contact, f)
      BY <1>1, <1>4, <2>4
    <2>6. Useful(C, x.contact, f)
      BY <2>2, <2>3 DEF Useful
    <2> QED  BY <1>1, <2>2, <2>5, <2>6 DEF Live
  <1>5. ASSUME NEW o \in 1..Len(ops), ops[o].kind = "request"
        PROVE  Done(o)' \/ Live(C, o)'
    <2>1. Done(o) \/ Live(C, o)
      BY <1>5 DEF AllAlive
    <2>2. Done(o) => Done(o)'
      BY <1>1, <1>2 DEF Done, Drops
    <2>3. Live(C, o) => Live(C, o)'
      BY <1>1, <1>2 DEF Live, KeepsAll, Useful
    <2> QED  BY <2>1, <2>2, <2>3
  <1>6. ASSUME NEW o \in 1..op, ops'[o].kind = "request"
        PROVE  Done(o)' \/ Live(C, o)'
    <2>1. CASE o = op
      BY <1>3, <1>4, <1>6, <2>1 DEF Done
    <2>2. CASE o \in 1..Len(ops)
      BY <1>3, <1>5, <1>6, <2>2
    <2> QED  BY <1>3, <2>1, <2>2
  <1> QED  BY <1>3, <1>6 DEF AllAlive

\* What is on its way stays on its way when the master answers a request.
LEMMA RespondKeepsAlive ==
  ASSUME IInv, NEW C, Connected(C), AllAlive(C), Respond
  PROVE  AllAlive(C)'
PROOF
  <1>1. PICK req \in Frames : event[0] = << req >>
    BY ConstantTypes DEF Respond, IInv, Types, Events
  <1>2. req = Head(event[0])
    BY <1>1
  <1>3. PICK f : f = Frame(NETWORK_ADDR_RESPONSE, 0, req.from, req.op)
    OBVIOUS
  <1>4. /\ f \in Frames /\ KeepsAll /\ Drops(req.op)
        /\ req.from = Joiner /\ req.op \notin dropped'
             => \A m \in Nodes \cap Hearers(0, Joiner) : Holds(rx', m, f)
        /\ req.from # Joiner /\ req.op \notin dropped' /\ Hop(0, req.from) \in Nodes \ {0}
             => Holds(rx', Hop(0, req.from), f)
    BY <1>2, <1>3, RespondFrames DEF IInv, Types
  <1>5. UNCHANGED << ops, enqueued, replies, answered, swallowed >>
    BY DEF Respond
  <1>6. /\ f.type = NETWORK_ADDR_RESPONSE /\ f.to = req.from /\ f.op = req.op
        /\ Joiner \in Nodes /\ Joiner # 0 /\ 0 \in C /\ C \subseteq Nodes
    BY <1>3, ConstantTypes DEF Frame, Connected
  <1>7. ASSUME req.from \in (C \ {0}) \cup {Joiner}, req.op \notin dropped'
        PROVE  Live(C, req.op)'
    <2>1. CASE req.from = Joiner
      <3>1. Joiner \in Nodes \cap Hearers(0, Joiner)
        BY <1>6 DEF Hearers, Connected
      <3>2. Holds(rx', Joiner, f)
        BY <1>4, <1>7, <2>1, <3>1
      <3>3. Useful(C, Joiner, f)
        BY <1>6, <2>1 DEF Useful
      <3> QED  BY <1>4, <1>6, <3>2, <3>3 DEF Live
    <2>2. CASE req.from \in C \ {0} /\ req.from # Joiner
      <3>1. Hop(0, req.from) \in C \ {0}
        BY <1>6, <2>2 DEF Connected
      <3>2. Holds(rx', Hop(0, req.from), f)
        BY <1>4, <1>6, <1>7, <2>2, <3>1
      <3>3. Useful(C, Hop(0, req.from), f)
        BY <1>6, <2>2, <3>1 DEF Useful
      <3> QED  BY <1>4, <1>6, <3>1, <3>2, <3>3 DEF Live
    <2> QED  BY <1>7, <2>1, <2>2
  <1>8. ASSUME NEW o \in 1..Len(ops), ops[o].kind = "request"
        PROVE  Done(o)' \/ Live(C, o)'
    <2>1. CASE Done(o)
      BY <1>4, <1>5, <2>1 DEF Done, Drops
    <2>2. ASSUME NEW n \in Nodes, NEW g \in Frames, Holds(rx, n, g), g.op = o, Useful(C, n, g)
          PROVE  Live(C, o)'
      BY <1>4, <2>2 DEF KeepsAll, Live, Useful
    <2>3. ASSUME NEW g \in Frames, event[0] = << g >>, g.op = o, g.from \in (C \ {0}) \cup {Joiner}
          PROVE  Done(o)' \/ Live(C, o)'
      <3>1. g = req
        BY <1>1, <2>3
      <3> QED  BY <1>7, <2>3, <3>1 DEF Done
    <2> QED  BY <1>8, <2>1, <2>2, <2>3 DEF AllAlive, Live
  <1> QED  BY <1>5, <1>8 DEF AllAlive

\* When the network has come to rest, every request was answered, unless a radio missed a
\* frame of it or the loop of write() threw it away (RequestAnswered): in every network
\* with routes between the nodes that are asked and the master.
THEOREM RequestsAnswered ==
  ASSUME NEW C, Connected(C)
  PROVE  Spec => []RequestAnswered
PROOF
  <1>1. Init => AllAlive(C)
    BY DEF Init, AllAlive
  <1>2. IInv /\ AllAlive(C) /\ [Next]_vars => AllAlive(C)'
    <2> SUFFICES ASSUME IInv, AllAlive(C), [Next]_vars PROVE AllAlive(C)'
      OBVIOUS
    <2>1. ASSUME NEW x \in Operations, Start(x) PROVE AllAlive(C)'
      BY <2>1, StartKeepsAlive
    <2>2. ASSUME NEW n \in Nodes, Update(n) PROVE AllAlive(C)'
      BY <2>2, PassOnKeepsAlive, ReturnKeepsAlive, OthersKeepAlive, RouteKeepsAlive DEF Update
    <2>3. CASE Respond
      BY <2>3, RespondKeepsAlive
    <2>4. CASE Timeout \/ UNCHANGED vars
      <3>1. UNCHANGED << rx, event, ops, answered, dropped, swallowed >>
        BY <2>4 DEF Timeout, vars
      <3>2. \A o : (Done(o)' <=> Done(o)) /\ (Live(C, o)' <=> Live(C, o))
        BY <3>1 DEF Done, Live, Useful
      <3> QED  BY <3>1, <3>2 DEF AllAlive
    <2> QED  BY <2>1, <2>2, <2>3, <2>4 DEF Next
  <1>3. IInv /\ AllAlive(C) => RequestAnswered
    <2> SUFFICES ASSUME IInv, AllAlive(C), AtRest, NEW o \in OpsOf("request")
                 PROVE  o \in answered \cup dropped \cup swallowed
      BY DEF RequestAnswered
    <2>1. Done(o) \/ Live(C, o)
      BY DEF OpsOf, AllAlive
    <2>2. \A n \in Nodes, f \in Frames : ~Holds(rx, n, f)
      BY DEF AtRest, Holds, In
    <2>3. \A f \in Frames : event[0] # << f >>
      BY ConstantTypes DEF AtRest, None
    <2> QED  BY <2>1, <2>2, <2>3 DEF Done, Live
  <1> QED  BY Invariance, <1>1, <1>2, <1>3, PTL DEF Spec
=============================================================================
