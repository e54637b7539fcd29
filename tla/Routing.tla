------------------------------- MODULE Routing -------------------------------
(***************************************************************************)
(* Unfragmented messages of many nodes, on their way at the same time.     *)
(*                                                                         *)
(* Each node has the RX FIFO of its radio and one thread, which is either  *)
(* idle or inside write(), waiting for a NETWORK_ACK.  Both pump update(), *)
(* which takes one frame after the other out of the FIFO and handles it to *)
(* the end: here one action per frame.  A frame that is not for the node   *)
(* is sent on inside that action, so a router transmits in the middle of   *)
(* its own wait.                                                           *)
(*                                                                         *)
(* The radio (external) either delivers a frame to the FIFO of the next    *)
(* hop and is told so, or loses it, or delivers it and loses the           *)
(* auto-acknowledgement, so that the sender believes it lost.  Its         *)
(* hardware retries and its duplicate detection are inside that step.      *)
(***************************************************************************)
EXTENDS Addressing

CONSTANTS Nodes,       \* the addresses of the nodes that run
          Flows,       \* the << from, to, type >> of the messages written
          MaxWrites,   \* bound: messages written altogether
          RxDepth,     \* frames the RX FIFO of a radio holds (3 on the nRF24)
          QueueDepth,  \* messages the frame queue of a node holds
          MaxCrashes,  \* bound: restarts of nodes altogether
          Faults       \* what may go wrong, out of FaultKinds

\* "loss": a frame is lost.  "ackloss": a radio acknowledgement is lost.
\* "timeout": routeTimeout expires though the answer is still on its way.
FaultKinds == { "loss", "ackloss", "timeout" }

NETWORK_PING == 130
NETWORK_ACK  == 193

ASSUME RoutingAssumption ==
  /\ Nodes \subseteq TreeAddress \ { NETWORK_DEFAULT_ADDRESS }
  /\ Flows \subseteq Nodes \X Nodes \X (0..127 \cup { NETWORK_PING })
  /\ MaxWrites \in Nat
  /\ RxDepth \in Nat \ {0}
  /\ QueueDepth \in Nat
  /\ MaxCrashes \in Nat
  /\ Faults \subseteq FaultKinds

\* Serial numbers of the messages, in the order in which they are written; 0
\* is no message.  They are the identity the properties talk about, not the
\* header's id, which this part of the code never looks at.
Msg == 1..MaxWrites

Types   == 0..127 \cup { NETWORK_PING }   \* what an application sends here
Message == [ from : Nodes, to : Nodes, type : Types, msg : Msg ]
Frame   == [ from : Nodes, to : Nodes, type : Types \cup { NETWORK_ACK }, msg : Msg ]

VARIABLES rx,        \* the RX FIFO of each radio
          waiting,   \* the message write() waits for at a node, or 0
          queue,     \* the frame queue: messages not yet read
          \* History, never read by the code:
          sent,      \* the frame of every message written, by serial number
          outcome,   \* what write() returned: "pending", "true" or "false"
          answer,    \* the message whose NETWORK_ACK ended the wait, or 0
          reached,   \* messages the radio of the destination accepted
          readBy,    \* messages read by the application of a node, in order
          crashes

vars == << rx, waiting, queue, sent, outcome, answer, reached, readBy, crashes >>

TypeOK == /\ rx       \in [ Nodes -> Seq(Frame) ]
          /\ \A n \in Nodes : Len(rx[n]) <= RxDepth
          /\ waiting  \in [ Nodes -> {0} \cup Msg ]
          /\ queue    \in [ Nodes -> Seq(Msg) ]
          /\ sent     \in Seq(Message) /\ Len(sent) <= MaxWrites
          /\ outcome  \in [ Msg -> { "none", "pending", "true", "false" } ]
          /\ answer   \in [ Msg -> {0} \cup Msg ]
          /\ reached  \in SUBSET Msg
          /\ readBy   \in [ Nodes -> Seq(Msg) ]
          /\ crashes  \in 0..MaxCrashes

Init == /\ rx       = [ n \in Nodes |-> << >> ]
        /\ waiting  = [ n \in Nodes |-> 0 ]
        /\ queue    = [ n \in Nodes |-> << >> ]
        /\ sent     = << >>
        /\ outcome  = [ m \in Msg |-> "none" ]
        /\ answer   = [ m \in Msg |-> 0 ]
        /\ reached  = {}
        /\ readBy   = [ n \in Nodes |-> << >> ]
        /\ crashes  = 0

-----------------------------------------------------------------------------
isAckType(type) == type > 64 /\ type < 192

\* write_to_pipe(): the frames in the FIFOs r after node n has sent f to hop,
\* and what it believes of it.
Lost(r)              == [ rx |-> r, ok |-> FALSE, got |-> FALSE ]
Delivered(r, hop, f) == [ rx |-> [ r EXCEPT ![hop] = Append(@, f) ],
                          ok |-> TRUE, got |-> TRUE ]
Unheard(r, hop, f)   == [ rx |-> [ r EXCEPT ![hop] = Append(@, f) ],
                          ok |-> FALSE, got |-> TRUE ]
\* MUTATION of write_to_pipe: one frame more than the FIFO holds.
write_to_pipe_OneMore(r, n, hop, f) ==
  IF hop \in Nodes \ {n} /\ Len(r[hop]) <= RxDepth
  THEN { Delivered(r, hop, f) } ELSE { Lost(r) }

write_to_pipe(r, n, hop, f) ==
  IF hop \in Nodes \ {n} /\ Len(r[hop]) < RxDepth
  THEN { Delivered(r, hop, f) }
       \cup { o \in { Lost(r) } : "loss" \in Faults }
       \cup { o \in { Unheard(r, hop, f) } : "ackloss" \in Faults }
  ELSE { Lost(r) }

\* The destination's radio has accepted the message of frame f.
Arrival(f, hop, got) == IF got /\ f.type # NETWORK_ACK /\ hop = f.to
                        THEN {f.msg} ELSE {}

\* MUTATION of AckOf: the 'to' address is not changed to the 'from' address.
AckOf_KeepsTo(f) == [ f EXCEPT !.type = NETWORK_ACK ]

\* The NETWORK_ACK of a frame: the header is reused, its from_node stays.
AckOf(f) == [ f EXCEPT !.type = NETWORK_ACK, !.to = f.from ]

-----------------------------------------------------------------------------
\* What write() returns when it does not wait.
\* MUTATION: the result of write_to_pipe() is forgotten.
Result_Forgotten(ok) == "true"
Result(ok) == IF ok THEN "true" ELSE "false"

\* The test of a router that decides on the NETWORK_ACK.
\* MUTATIONS: every router sends one; one is sent also for a failed frame.
Acknowledges_EveryHop(ok, hop, f)    == ok /\ isAckType(f.type)
Acknowledges_EvenFailed(ok, hop, f) == hop = f.to /\ isAckType(f.type)
Acknowledges(ok, hop, f) == ok /\ hop = f.to /\ isAckType(f.type)

\* The frame queue with one more message, unless it is full.
\* MUTATION: the newest message is put in front.
Push_InFront(q, m) == IF Len(q) < QueueDepth THEN << m >> \o q ELSE q
Push(q, m) == IF Len(q) < QueueDepth THEN Append(q, m) ELSE q

\* write() of the application with a fresh header: send to the first hop, and
\* wait if the message needs an answer and the first hop is not its
\* destination.
AppWrite(n, to, type) ==
  LET m   == Len(sent) + 1
      f   == [ from |-> n, to |-> to, type |-> type, msg |-> m ]
      hop == NextHop(n, to)
  IN  /\ waiting[n] = 0
      /\ m \in Msg
      /\ sent' = Append(sent, f)
      /\ \E o \in write_to_pipe(rx, n, hop, f) :
           /\ rx'      = o.rx
           /\ reached' = reached \cup Arrival(f, hop, o.got)
           /\ IF o.ok /\ hop # to /\ isAckType(type)
              THEN /\ waiting' = [ waiting EXCEPT ![n] = m ]
                   /\ outcome' = [ outcome EXCEPT ![m] = "pending" ]
              ELSE /\ outcome' = [ outcome EXCEPT ![m] = Result(o.ok) ]
                   /\ UNCHANGED waiting
      /\ UNCHANGED << queue, answer, readBy, crashes >>

\* update() on a frame for this node.
HandlePing(n) ==
  /\ rx[n] # << >>
  /\ Head(rx[n]).to = n /\ Head(rx[n]).type = NETWORK_PING
  /\ rx' = [ rx EXCEPT ![n] = Tail(@) ]
  /\ UNCHANGED << waiting, queue, sent, outcome, answer, reached, readBy, crashes >>

\* update() returns NETWORK_ACK, to the loop of write() if it runs inside one:
\* the loop does not look at the header.
HandleAck(n) ==
  /\ rx[n] # << >>
  /\ Head(rx[n]).to = n /\ Head(rx[n]).type = NETWORK_ACK
  /\ rx' = [ rx EXCEPT ![n] = Tail(@) ]
  /\ IF waiting[n] # 0
     THEN /\ outcome' = [ outcome EXCEPT ![waiting[n]] = "true" ]
          /\ answer'  = [ answer EXCEPT ![waiting[n]] = Head(rx[n]).msg ]
          /\ waiting' = [ waiting EXCEPT ![n] = 0 ]
     ELSE UNCHANGED << outcome, answer, waiting >>
  /\ UNCHANGED << queue, sent, reached, readBy, crashes >>

\* enqueue(): a full frame queue drops the frame.
Enqueue(n) ==
  /\ rx[n] # << >>
  /\ Head(rx[n]).to = n /\ Head(rx[n]).type \notin { NETWORK_PING, NETWORK_ACK }
  /\ rx' = [ rx EXCEPT ![n] = Tail(@) ]
  /\ queue' = [ queue EXCEPT ![n] = Push(@, Head(rx[n]).msg) ]
  /\ UNCHANGED << waiting, sent, outcome, answer, reached, readBy, crashes >>

\* update() on a frame for another node: write(header->to_node, TX_ROUTED).
\* The router whose next hop is the destination sends the NETWORK_ACK, if its
\* own radio saw the frame acknowledged.
Route(n) ==
  LET f    == Head(rx[n])
      hop  == NextHop(n, f.to)
      back == NextHop(n, f.from)
      rest == [ rx EXCEPT ![n] = Tail(@) ]
  IN  /\ rx[n] # << >>
      /\ f.to # n
      /\ \E o \in write_to_pipe(rest, n, hop, f) :
           /\ reached' = reached \cup Arrival(f, hop, o.got)
           /\ IF Acknowledges(o.ok, hop, f)
              THEN \E a \in write_to_pipe(o.rx, n, back, AckOf(f)) : rx' = a.rx
              ELSE rx' = o.rx
      /\ UNCHANGED << waiting, queue, sent, outcome, answer, readBy, crashes >>

\* One iteration of the loop of update().
Update(n) == HandlePing(n) \/ HandleAck(n) \/ Enqueue(n) \/ Route(n)

\* No frame of message m, and no NETWORK_ACK for it, is on its way.
Silent(m) == \A n \in Nodes : \A i \in DOMAIN rx[n] : rx[n][i].msg # m

\* MUTATION of Timeout: the clock is only looked at after a frame was read.
Timeout_NeedsFrame(n) ==
  /\ waiting[n] # 0
  /\ rx[n] # << >>
  /\ outcome' = [ outcome EXCEPT ![waiting[n]] = "false" ]
  /\ waiting' = [ waiting EXCEPT ![n] = 0 ]
  /\ UNCHANGED << rx, queue, sent, answer, reached, readBy, crashes >>

\* millis() - reply_time > routeTimeout.  Without the fault "timeout" the
\* answer, if there is one, always comes in time.
Timeout(n) ==
  /\ waiting[n] # 0
  /\ "timeout" \in Faults \/ Silent(waiting[n])
  /\ outcome' = [ outcome EXCEPT ![waiting[n]] = "false" ]
  /\ waiting' = [ waiting EXCEPT ![n] = 0 ]
  /\ UNCHANGED << rx, queue, sent, answer, reached, readBy, crashes >>

\* read().
AppRead(n) ==
  /\ queue[n] # << >>
  /\ readBy' = [ readBy EXCEPT ![n] = Append(@, Head(queue[n])) ]
  /\ queue'  = [ queue EXCEPT ![n] = Tail(@) ]
  /\ UNCHANGED << rx, waiting, sent, outcome, answer, reached, crashes >>

\* A node loses its power and starts again with begin(): the FIFO of the
\* radio, the queue and the pending write() are gone.
Crash(n) ==
  /\ crashes < MaxCrashes
  /\ crashes' = crashes + 1
  /\ rx'      = [ rx EXCEPT ![n] = << >> ]
  /\ queue'   = [ queue EXCEPT ![n] = << >> ]
  /\ waiting' = [ waiting EXCEPT ![n] = 0 ]
  /\ UNCHANGED << sent, outcome, answer, reached, readBy >>

Next == \/ \E fl \in Flows : AppWrite(fl[1], fl[2], fl[3])
        \/ \E n \in Nodes : Update(n) \/ Timeout(n) \/ AppRead(n) \/ Crash(n)

Spec == Init /\ [][Next]_vars

\* The application calls update() again and again, and so does the loop of
\* write(); its clock advances.
Fairness == \A n \in Nodes : WF_vars(Update(n)) /\ WF_vars(Timeout(n))
FairSpec == Spec /\ Fairness
-----------------------------------------------------------------------------
\* A sender that waits: the first hop is not the destination, and the type is
\* one the network acknowledges.
Waits(f) == NextHop(f.from, f.to) # f.to /\ isAckType(f.type)

IsAck(f) == f.type = NETWORK_ACK

\* At any time a message is in at most one FIFO of the network, once, and so is
\* its NETWORK_ACK, although every router stores, sends and may believe a frame
\* lost that it delivered (update(), write()).
UniqueCopy ==
  \A n, k \in Nodes : \A i \in DOMAIN rx[n], j \in DOMAIN rx[k] :
    ( rx[n][i].msg = rx[k][j].msg /\ (IsAck(rx[n][i]) <=> IsAck(rx[k][j])) )
      => n = k /\ i = j

\* A NETWORK_ACK on its way stands for a message the radio of its destination
\* did accept, and travels to the origin of that message (write(), the branch
\* that creates the NETWORK_ACK).
AckImpliesReached ==
  \A n \in Nodes : \A i \in DOMAIN rx[n] :
    IsAck(rx[n][i]) => /\ rx[n][i].msg \in reached
                       /\ rx[n][i].to = sent[rx[n][i].msg].from

\* Every write() that a NETWORK_ACK made return true has a message of the same
\* node behind it that did reach its destination, a different one for each of
\* them, and written no later.  So true is never returned more often than
\* messages were delivered, whatever is lost, late or restarted.
AnswersBacked ==
  \A m \in Msg : answer[m] # 0 =>
    /\ answer[m] \in reached
    /\ answer[m] <= m
    /\ sent[answer[m]].from = sent[m].from
    /\ \A k \in Msg : answer[k] = answer[m] => k = m

\* A write() that returned true reached the destination if the first hop was
\* the destination.
DirectSuccessReached ==
  \A m \in 1..Len(sent) :
    (outcome[m] = "true" /\ NextHop(sent[m].from, sent[m].to) = sent[m].to)
       => m \in reached

\* RF24Network.h:538: write() returns "Whether the message was successfully
\* received".  One that returned true for a message that was lost was deceived by the
\* answer to an earlier message of the same node: one that did arrive, but for
\* which write() had failed or never returned.  Nothing else, no crash, no loss and
\* no message of another node, makes it return true (the loop of write()).
DeceivedByLateAnswer ==
  \A m \in 1..Len(sent) :
    (outcome[m] = "true" /\ Waits(sent[m]) /\ m \notin reached) =>
       \E k \in 1..(m - 1) : /\ k \in reached
                             /\ sent[k].from = sent[m].from
                             /\ outcome[k] # "true"

\* An application reads the messages of one origin in the order in which they
\* were written, none of them twice, whether or not write() returned true for
\* them (enqueue(), read(), the FIFOs in between).
InOrder ==
  \A n \in Nodes : \A i, j \in DOMAIN readBy[n] :
    LET a == readBy[n][i]  b == readBy[n][j]
    IN  /\ sent[a].to = n
        /\ (i < j /\ sent[a].from = sent[b].from) => a < b

\* The network comes to rest after the last write(): no frame circulates, and
\* no node waits, whatever happens to the frames.
ComesToRest == <>[]( \A n \in Nodes : rx[n] = << >> /\ waiting[n] = 0 )

\* When no frame is lost and no node restarts, every message written to another
\* node ends in the queue of its destination, and write() returns true.
Arrives ==
  \A m \in Msg :
    outcome[m] # "none" ~>
      /\ outcome[m] = "true"
      /\ sent[m].type # NETWORK_PING =>
           LET n == sent[m].to  got == readBy[n] \o queue[n]
           IN  \E i \in DOMAIN got : got[i] = m
=============================================================================
