--------------------------------- MODULE Mesh ---------------------------------
(***************************************************************************)
(* What update() does for RF24Mesh and for multicasts, over several nodes: *)
(* a node without an address of its own (04444) polls a level of the tree, *)
(* asks one of the nodes that answer for an address, and that node passes  *)
(* the request to the master and the master's response back; multicasts    *)
(* are relayed from level to level; frames are written directly to a node. *)
(*                                                                         *)
(* All of these use pipe 0, which every node of a level hears.  A node     *)
(* that hears a frame meant for another routes it, so that frames multiply.*)
(*                                                                         *)
(* RF24Mesh is external: a joiner that sends POLL and REQ_ADDRESS, and a   *)
(* master that responds to each request.  The radio (external) loses a     *)
(* frame for any of those in reach, or delivers it.                        *)
(***************************************************************************)
EXTENDS Addressing, FiniteSets

CONSTANTS Nodes,        \* the addresses of the nodes that run
          LevelOf,      \* the multicast level of each, by address or multicastLevel()
          Relays,       \* the nodes with multicastRelay
          NoPoll,       \* the nodes with FLAG_NO_POLL
          Operations,   \* what joiner and applications may send
          MaxOps,       \* bound: operations altogether
          MaxOfKind,    \* bound: operations of each kind
          MaxCopies,    \* bound: how far the copies a node enqueues are counted
          RxDepth,      \* frames the RX FIFO of a radio holds (3 on the nRF24)
          MayLose       \* whether the radio loses frames

NETWORK_ADDR_RESPONSE == 128
NETWORK_ACK           == 193
NETWORK_POLL          == 194
NETWORK_REQ_ADDRESS   == 195
DATA                  == 65    \* a user type that gets a NETWORK_ACK
Joiner                == NETWORK_DEFAULT_ADDRESS

\* An operation: a POLL of a level, a REQ_ADDRESS to a node, a multicast to a
\* level, or write(header, message, len, via) of DATA.
Poll(level)           == [ kind |-> "poll", level |-> level ]
Request(contact)      == [ kind |-> "request", contact |-> contact ]
Multicast(n, level)   == [ kind |-> "multicast", node |-> n, level |-> level ]
Direct(n, via, to)    == [ kind |-> "direct", node |-> n, via |-> via, to |-> to ]

ASSUME MeshAssumption ==
  /\ Nodes \subseteq TreeAddress /\ {0, Joiner} \subseteq Nodes
  /\ LevelOf \in [ Nodes -> 0..4 ]
  /\ Relays \cup NoPoll \subseteq Nodes
  /\ \A x \in Operations :
       \/ x.kind \in { "poll", "multicast" } /\ x.level \in 0..4
       \/ x.kind = "request" /\ x.contact \in Nodes \ {Joiner}
       \/ x.kind = "direct" /\ { x.via, x.to } \subseteq Nodes
  /\ \A x \in Operations : x.kind \in { "multicast", "direct" } => x.node \in Nodes
  /\ MaxOfKind \in [ { "poll", "request", "multicast", "direct" } -> Nat ]
  /\ MaxOps \in Nat /\ MaxCopies \in Nat /\ RxDepth \in Nat \ {0} /\ MayLose \in BOOLEAN
  \* Two relays of level 0 would send a multicast to and fro for ever.
  /\ Cardinality({ n \in Relays : LevelOf[n] = 0 }) <= 1

VARIABLES rx,         \* the RX FIFO of each radio
          event,      \* the frames update() returned to RF24Mesh, which acts on one at once
          waiting,    \* the master waits in write() for a NETWORK_ACK
          \* History, never read by the library:
          ops,        \* the operations, by serial number
          enqueued,   \* how often a node enqueued a message
          replies,    \* the nodes whose answer to a POLL the joiner received
          answered,   \* operations whose response reached the joiner
          dropped,    \* operations of which a radio missed some frame
          swallowed   \* operations of which the loop of write() threw a frame away

vars == << rx, event, waiting, ops, enqueued, replies, answered, dropped, swallowed >>

Op    == 1..MaxOps
None  == << >>

Init == /\ rx = [ n \in Nodes |-> << >> ]
        /\ event = [ n \in Nodes |-> None ]
        /\ waiting = FALSE
        /\ ops = << >>
        /\ enqueued = [ n \in Nodes |-> [ o \in Op |-> 0 ] ]
        /\ replies = [ o \in Op |-> {} ]
        /\ answered = {} /\ dropped = {} /\ swallowed = {}

Frame(type, from, to, op) == [ type |-> type, from |-> from, to |-> to, op |-> op ]

-----------------------------------------------------------------------------
\* Who hears a frame that is sent with multicast to a node or a level, and the next
\* hop of one that is routed; as tables.
Pipe0(n)     == pipe_address(levelToAddress(LevelOf[n]), 0)
Destinations == Nodes \cup { levelToAddress(l) : l \in 0..4 }
HearersOf    == [ d \in Destinations |-> { n \in Nodes : Pipe0(n) = pipe_address(d, 0) } ]
HopFrom      == [ p \in Nodes \X Nodes |-> NextHop(p[1], p[2]) ]
Hearers(n, dest) == HearersOf[dest] \ {n}
Hop(n, dest)     == HopFrom[<< n, dest >>]

\* MUTATION: the FIFO takes one frame more.
Room_OneMore(r, n) == Len(r[n]) <= RxDepth
Room(r, n) == Len(r[n]) < RxDepth
Put(r, S, f) == [ n \in Nodes |-> IF n \in S THEN Append(r[n], f) ELSE r[n] ]

\* write_to_pipe(): the radios that may have got frame f from node n, as sets; with
\* multicast the radio knows of no acknowledgement.
Choices(all, r) == LET able == { m \in all : Room(r, m) }
                   IN  IF MayLose THEN SUBSET able ELSE { able }
Sent(r, all, S, f) == [ rx |-> Put(r, S, f), ok |-> S # {},
                        dropped |-> IF S = all THEN {} ELSE {f.op} ]
Unheard(s) == [ s EXCEPT !.ok = FALSE ]
Nothing(r) == [ rx |-> r, ok |-> FALSE, dropped |-> {} ]
\* Results of sending f to everyone at a level; and to the next hop towards a node, which
\* acknowledges what it gets, though that may be lost.
ToLevel(r, n, dest, f) ==
  LET all == Hearers(n, dest) IN { Sent(r, all, S, f) : S \in Choices(all, r) }
ToHop(r, n, dest, f) ==
  LET hop  == Hop(n, dest)
      sent == { Sent(r, {hop}, S, f) : S \in Choices({hop}, r) }
  IN  IF hop \in Nodes \ {n}
      THEN sent \cup IF MayLose THEN { Unheard(s) : s \in sent } ELSE {}
      ELSE { Nothing(r) }

isAckType(type) == type > 64 /\ type < 192

-----------------------------------------------------------------------------
\* The frame of an operation, and where write() of its sender puts it.
FrameOf(x, op) ==
  CASE x.kind = "poll"      -> Frame(NETWORK_POLL, Joiner, NETWORK_MULTICAST_ADDRESS, op)
    [] x.kind = "request"   -> Frame(NETWORK_REQ_ADDRESS, Joiner, x.contact, op)
    [] x.kind = "multicast" -> Frame(DATA, x.node, NETWORK_MULTICAST_ADDRESS, op)
    [] x.kind = "direct"    -> Frame(DATA, x.node, x.to, op)
FirstAddress(x) ==
  CASE x.kind \in { "poll", "multicast" } -> levelToAddress(x.level)
    [] x.kind = "request" -> x.contact
    [] x.kind = "direct"  -> x.via

\* RF24Mesh, or an application, sends: write() to a physical address or a level,
\* which waits for nothing.  A request goes to a node that answered a POLL.
Start(x) ==
  LET op == Len(ops) + 1
      f  == FrameOf(x, op)
  IN  /\ op \in Op
      /\ Cardinality({ o \in 1..Len(ops) : ops[o].kind = x.kind }) < MaxOfKind[x.kind]
      /\ x.kind = "request" => \E o \in Op : x.contact \in replies[o]
      /\ f.from = 0 => ~waiting
      /\ ops' = Append(ops, x)
      /\ \E s \in ToLevel(rx, f.from, FirstAddress(x), f) :
           rx' = s.rx /\ dropped' = dropped \cup s.dropped
      /\ UNCHANGED << event, waiting, enqueued, replies, answered, swallowed >>

\* The master's RF24Mesh responds to a request: to the node that passed it on,
\* by the usual way, and waits if that is not a neighbour; or to the joiner.
Respond ==
  LET req == Head(event[0])
      f   == Frame(NETWORK_ADDR_RESPONSE, 0, req.from, req.op)
  IN  /\ event[0] # None /\ ~waiting
      /\ event' = [ event EXCEPT ![0] = None ]
      /\ \E s \in IF req.from = Joiner THEN ToLevel(rx, 0, Joiner, f)
                                       ELSE ToHop(rx, 0, req.from, f) :
           /\ rx' = s.rx /\ dropped' = dropped \cup s.dropped
           /\ waiting' = (s.ok /\ req.from # Joiner /\ Hop(0, req.from) # req.from)
      /\ UNCHANGED << ops, enqueued, replies, answered, swallowed >>

-----------------------------------------------------------------------------
\* update() reads the frame at the head of the FIFO of node n.
Reads(n) == rx[n] # << >> /\ event[n] = None
OneMore(count) == IF count < MaxCopies THEN count + 1 ELSE count
Rest(n)  == [ rx EXCEPT ![n] = Tail(@) ]
Sends(results) == \E s \in results : rx' = s.rx /\ dropped' = dropped \cup s.dropped
SentOnly == UNCHANGED << event, waiting, ops, enqueued, replies, answered, swallowed >>

\* Passed on are a response by a node with an address, and a request by any but the
\* master.
PassesResponse(n) == n # Joiner
\* MUTATION: the test of the own address is left out.
PassesRequest_All(n) == TRUE
PassesRequest(n)     == n # 0

\* The response is passed on to the joiner.
PassResponse(r, n, f) == ToLevel(r, n, Joiner, [ f EXCEPT !.to = Joiner ])

\* The request is passed on to the master, as the node's own.
PassRequest(r, n, f) == ToHop(r, n, 0, [ f EXCEPT !.to = 0, !.from = n ])

PassOn(n) ==
  LET f == Head(rx[n])
  IN  /\ Reads(n) /\ f.to = n
      /\ \/ /\ f.type = NETWORK_ADDR_RESPONSE /\ PassesResponse(n)
            /\ Sends(PassResponse(Rest(n), n, f))
         \/ /\ f.type = NETWORK_REQ_ADDRESS /\ PassesRequest(n)
            /\ Sends(PassRequest(Rest(n), n, f))
      /\ SentOnly

\* A system message is returned to RF24Mesh, which sets returnSysMsgs: a NETWORK_ACK,
\* a request at the master, a response or an answer to a POLL at the joiner.  If
\* the master waits in write(), its loop throws all but the NETWORK_ACK away.
Return(n) ==
  LET f == Head(rx[n])
  IN  /\ Reads(n) /\ f.to = n
      /\ \/ f.type \in { NETWORK_ACK, NETWORK_POLL }
         \/ f.type = NETWORK_ADDR_RESPONSE /\ ~PassesResponse(n)
         \/ f.type = NETWORK_REQ_ADDRESS /\ ~PassesRequest(n)
      /\ rx' = Rest(n)
      /\ LET waits == waiting /\ n = 0
         IN  /\ waiting' = (waiting /\ ~(waits /\ f.type = NETWORK_ACK))
             /\ event' = IF f.type = NETWORK_REQ_ADDRESS /\ ~waits
                         THEN [ event EXCEPT ![n] = << f >> ] ELSE event
             /\ swallowed' = IF f.type = NETWORK_REQ_ADDRESS /\ waits
                             THEN swallowed \cup {f.op} ELSE swallowed
      /\ replies' = IF f.type = NETWORK_POLL
                    THEN [ replies EXCEPT ![f.op] = @ \cup {f.from} ] ELSE replies
      /\ answered' = IF f.type = NETWORK_ADDR_RESPONSE
                     THEN answered \cup {f.op} ELSE answered
      /\ UNCHANGED << ops, enqueued, dropped >>

\* A user message for the node, or a multicast: enqueue(), which takes also what the
\* node sent itself.  A relay passes a multicast on to the next level.
\* MUTATION: to its own level.
RelayTarget_Same(n) == levelToAddress(LevelOf[n])
RelayTarget(n)      == levelToAddress(LevelOf[n]) * 8

RelaysOn == { n \in Relays : is_valid_address(RelayTarget(n)) }

Relay(r, n, f) ==
  IF f.to = NETWORK_MULTICAST_ADDRESS /\ n \in RelaysOn
  THEN ToLevel(r, n, RelayTarget(n), f) ELSE { Nothing(r) }

Enqueue(n) ==
  LET f == Head(rx[n])
  IN  /\ Reads(n) /\ f.to \in { n, NETWORK_MULTICAST_ADDRESS } /\ f.type = DATA
      /\ enqueued' = [ enqueued EXCEPT ![n][f.op] = OneMore(@) ]
      /\ Sends(Relay(Rest(n), n, f))
      /\ UNCHANGED << event, waiting, ops, replies, answered, swallowed >>

\* Whether a node answers a POLL.
\* MUTATION: FLAG_NO_POLL is not looked at.
Answers_Always(n) == n # Joiner
Answers(n) == n \notin NoPoll /\ n # Joiner

AnswerPoll(n) ==
  LET f == Head(rx[n])
  IN  /\ Reads(n) /\ f.to = NETWORK_MULTICAST_ADDRESS /\ f.type = NETWORK_POLL
      /\ Sends(IF Answers(n)
               THEN ToLevel(Rest(n), n, f.from, [ f EXCEPT !.to = f.from, !.from = n ])
               ELSE { Nothing(Rest(n)) })
      /\ SentOnly

\* A frame for another node is routed, but by a node without an address.
Routes(n) == n # Joiner

Route(n) ==
  LET f == Head(rx[n])
  IN  /\ Reads(n) /\ f.to \notin { n, NETWORK_MULTICAST_ADDRESS }
      /\ IF Routes(n)
         THEN \E s \in ToHop(Rest(n), n, f.to, f) :
                \E a \in IF s.ok /\ Hop(n, f.to) = f.to /\ isAckType(f.type)
                         THEN ToHop(s.rx, n, f.from, Frame(NETWORK_ACK, f.from, f.from, f.op))
                         ELSE { Nothing(s.rx) } :
                  rx' = a.rx /\ dropped' = dropped \cup s.dropped \cup a.dropped
         ELSE rx' = Rest(n) /\ UNCHANGED dropped
      /\ SentOnly

Update(n) == PassOn(n) \/ Return(n) \/ Enqueue(n) \/ AnswerPoll(n) \/ Route(n)

\* routeTimeout of the master's write().
Timeout == /\ waiting /\ waiting' = FALSE
           /\ UNCHANGED << rx, event, ops, enqueued, replies, answered, dropped, swallowed >>

Next == \/ \E x \in Operations : Start(x)
        \/ \E n \in Nodes : Update(n)
        \/ Respond \/ Timeout

Spec == Init /\ [][Next]_vars

\* Every node calls update() again and again; RF24Mesh acts on what it returns.
FairSpec == /\ Spec
            /\ \A n \in Nodes : WF_vars(Update(n))
            /\ WF_vars(Respond) /\ WF_vars(Timeout)
-----------------------------------------------------------------------------
SystemTypes == { NETWORK_ADDR_RESPONSE, NETWORK_ACK, NETWORK_POLL, NETWORK_REQ_ADDRESS }

TypeOK == /\ \A n \in Nodes : /\ Len(rx[n]) <= RxDepth
                              /\ \A i \in DOMAIN rx[n] :
                                   /\ rx[n][i].type \in SystemTypes \cup { DATA }
                                   /\ rx[n][i].from \in Nodes
                                   /\ rx[n][i].to \in Nodes \cup { NETWORK_MULTICAST_ADDRESS }
                                   /\ rx[n][i].op \in 1..Len(ops)
          /\ waiting \in BOOLEAN
          /\ answered \cup dropped \cup swallowed \subseteq 1..Len(ops)

OpsOf(kind) == { o \in 1..Len(ops) : ops[o].kind = kind }
AtLevel(level) == { n \in Nodes : LevelOf[n] = level }

\* A node gets a multicast at most once for every way of relays to it, level by level
\* up from the level it was sent to, and a node at a lower level never.  Its sender may
\* be among them (update(), the relay).  At level 0 it comes once more from a relay of
\* that level, whose next level is 0 itself.
RelayWays(from, to) ==
  LET ways[l \in from..4] ==
        IF l = from THEN 1 ELSE ways[l - 1] * Cardinality({ n \in Relays : LevelOf[n] = l - 1 })
  IN  ways[to]
AgainAtLevel0(n) ==
  IF LevelOf[n] = 0 THEN Cardinality({ m \in Relays \ {n} : LevelOf[m] = 0 }) ELSE 0
MulticastCopies ==
  \A o \in OpsOf("multicast"), n \in Nodes :
    enqueued[n][o] <= IF LevelOf[n] < ops[o].level THEN 0
                      ELSE RelayWays(ops[o].level, LevelOf[n]) + AgainAtLevel0(n)

\* Only nodes of the level that was polled answer, and none with FLAG_NO_POLL
\* (RF24Network.h:226).
OnlyPolledAnswer ==
  \A o \in OpsOf("poll") : replies[o] \subseteq AtLevel(ops[o].level) \ NoPoll

\* When the network has come to rest, every request was answered, unless a radio missed
\* a frame of it or the master received it while it waited for the NETWORK_ACK of
\* another response (the loop of write()).
AtRest == \A n \in Nodes : rx[n] = << >> /\ event[n] = None
RequestAnswered ==
  AtRest => \A o \in OpsOf("request") :
              o \in answered \cup dropped \cup swallowed

\* What that takes of the network: a set of nodes, the master among them, whose routes
\* stay among them; every node that is asked for an address is one of them and, like the
\* joiner, has not left the multicast level of its address.
Connected(C) ==
  /\ 0 \in C /\ C \subseteq Nodes \ {Joiner}
  /\ \A n, m \in C : n # m => Hop(n, m) \in C \ {n}
  /\ \A x \in Operations :
       x.kind = "request" => x.contact \in C /\ x.contact \in HearersOf[x.contact]
  /\ Joiner \in HearersOf[Joiner]

\* However frames are copied, they all come to an end.
ComesToRest == <>[]AtRest
=============================================================================
