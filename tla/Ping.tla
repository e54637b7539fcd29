--------------------------------- MODULE Ping ---------------------------------
(***************************************************************************)
(* The sketches Network_Ping and Network_Ping_Sleep: every node pings the  *)
(* nodes it knows with 'T' messages, in turn, and the master 00 once a     *)
(* round; the master sends its list of nodes to each of them in 'N'        *)
(* messages.  So nodes learn of each other, and of themselves.             *)
(*                                                                         *)
(* The network below is external here: a message to another node is lost,  *)
(* or comes to its frame queue, those of one sender in order (Routing).    *)
(* Nobody hears what a node sends to its own address.                      *)
(***************************************************************************)
EXTENDS Integers, Sequences, FiniteSets

CONSTANTS Nodes,             \* addresses of the nodes, the master 0 among them
          Sleepers,          \* those that run Network_Ping_Sleep
          max_active_nodes,  \* entries of active_nodes
          MaxMail,           \* bound: unread messages of one node to another
          MaxRestarts        \* bound: restarts altogether

\* The sketches have as many addresses in node_address_set as entries in
\* active_nodes.
ASSUME PingAssumption ==
  /\ 0 \in Nodes /\ \A n \in Nodes : n \in Nat /\ n < 65536
  /\ Sleepers \subseteq Nodes \ {0}
  /\ IsFiniteSet(Nodes) /\ max_active_nodes \in Nat /\ max_active_nodes >= Cardinality(Nodes)
  /\ MaxMail \in Nat /\ MaxRestarts \in Nat

Slots == 0..(max_active_nodes - 1)
Lists == [ Slots -> Nodes ]

VARIABLES active_nodes, num_active_nodes, next_ping_node_index,
          listening,   \* the radio receives
          mail,        \* what is on its way from a node to another, or not read yet
          restarts,
          pinged       \* history: nodes that have sent a 'T' to the master

pingVars == << active_nodes, num_active_nodes, next_ping_node_index, listening, mail,
               restarts, pinged >>
list == << active_nodes, num_active_nodes >>

T        == [ type |-> "T" ]
N(nodes) == [ type |-> "N", incoming_nodes |-> nodes ]

NoNodes == [ i \in Slots |-> 0 ]

PingInit == /\ active_nodes = [ n \in Nodes |-> NoNodes ]
            /\ num_active_nodes = [ n \in Nodes |-> 0 ]
            /\ next_ping_node_index = [ n \in Nodes |-> 0 ]
            /\ listening = [ n \in Nodes |-> TRUE ]
            /\ mail = [ p \in Nodes \X Nodes |-> << >> ]
            /\ restarts = 0
            /\ pinged = {}

-----------------------------------------------------------------------------
\* add_node() on a list l of k nodes: it is known, it is added, or there is no room.
\* MUTATION: the search for it is forgotten.
Table(l, k) == [ nodes |-> l, num |-> k ]
add_node_Again(t, node) ==
  IF t.num < max_active_nodes
  THEN Table([ t.nodes EXCEPT ![t.num] = node ], t.num + 1) ELSE t
add_node(t, node) ==
  IF (\A i \in 0..(t.num - 1) : t.nodes[i] # node) /\ t.num < max_active_nodes
  THEN Table([ t.nodes EXCEPT ![t.num] = node ], t.num + 1) ELSE t

\* How many of the incoming nodes are added: up to the first 00.
Incoming(incoming) ==
  CHOOSE c \in 0..max_active_nodes : /\ \A i \in 0..(c - 1) : incoming[i] > 0
                                     /\ c = max_active_nodes \/ incoming[c] = 0

\* The table with these added, one after the other.
AddNodes(t, incoming) ==
  LET after[k \in 0..max_active_nodes] ==
        IF k = 0 THEN t ELSE add_node(after[k - 1], incoming[k - 1])
  IN  after[Incoming(incoming)]

Known(n) == Table(active_nodes[n], num_active_nodes[n])
Learn(n, t) == /\ active_nodes'     = [ active_nodes EXCEPT ![n] = t.nodes ]
               /\ num_active_nodes' = [ num_active_nodes EXCEPT ![n] = t.num ]

\* Whether handle_T() adds the sender.
Adds(n, from) == from # n \/ from > 0

\* loop() finds a message of node "from" in the queue: peek(), and the handler,
\* which reads it.
handle_T(n, from) ==
  /\ Head(mail[<< from, n >>]).type = "T"
  /\ Learn(n, IF Adds(n, from) THEN add_node(Known(n), from) ELSE Known(n))

handle_N(n, from) ==
  /\ Head(mail[<< from, n >>]).type = "N"
  /\ Learn(n, AddNodes(Known(n), Head(mail[<< from, n >>]).incoming_nodes))

Handle(n, from) ==
  /\ mail[<< from, n >>] # << >>
  /\ handle_T(n, from) \/ handle_N(n, from)
  /\ mail' = [ mail EXCEPT ![<< from, n >>] = Tail(@) ]
  /\ UNCHANGED << next_ping_node_index, listening, restarts, pinged >>

\* The index after this ping, and the node that is pinged.
\* MUTATION: the index rolls over one ping too late.
RollsOver_Late(n)  == next_ping_node_index[n] > num_active_nodes[n]
RollsOver(n) == next_ping_node_index[n] + 1 > num_active_nodes[n]

Target(n) == IF num_active_nodes[n] = 0 \/ RollsOver(n) THEN 0
             ELSE active_nodes[n][next_ping_node_index[n]]
NextIndex(n) == IF num_active_nodes[n] = 0 THEN next_ping_node_index[n]
                ELSE IF RollsOver(n) THEN 0 ELSE next_ping_node_index[n] + 1

\* What is sent to whom: send_T() or send_N().
MessageFor(n, to) == IF n > 0 \/ to = 0 THEN T ELSE N(active_nodes[n])

Reaches(n, to) == to # n /\ to \in Nodes /\ listening[to] /\ Len(mail[<< n, to >>]) < MaxMail

\* write() of the network ends with the radio listening.
\* MUTATION: it stays as it was.
StartListening_Not(n) == UNCHANGED listening
StartListening(n)     == listening' = [ listening EXCEPT ![n] = TRUE ]

\* The interval is over: the next node is pinged.
Ping(n, arrives) ==
  LET to == Target(n)
  IN  /\ arrives => Reaches(n, to)
      /\ mail' = IF arrives THEN [ mail EXCEPT ![<< n, to >>] = Append(@, MessageFor(n, to)) ]
                 ELSE mail
      /\ next_ping_node_index' = [ next_ping_node_index EXCEPT ![n] = NextIndex(n) ]
      /\ StartListening(n)
      /\ pinged' = IF n > 0 /\ to = 0 THEN pinged \cup {n} ELSE pinged
      /\ UNCHANGED << list, restarts >>

\* Network_Ping_Sleep: the node stops listening and sleeps.  It does not listen
\* again when it wakes up, but after its next ping.
GoToSleep(n) ==
  /\ n \in Sleepers
  /\ listening' = [ listening EXCEPT ![n] = FALSE ]
  /\ UNCHANGED << list, next_ping_node_index, mail, restarts, pinged >>

\* A node loses its power and starts again with setup().
Restart(n) ==
  /\ restarts < MaxRestarts
  /\ restarts' = restarts + 1
  /\ active_nodes' = [ active_nodes EXCEPT ![n] = NoNodes ]
  /\ num_active_nodes' = [ num_active_nodes EXCEPT ![n] = 0 ]
  /\ next_ping_node_index' = [ next_ping_node_index EXCEPT ![n] = 0 ]
  /\ listening' = [ listening EXCEPT ![n] = TRUE ]
  /\ mail' = [ p \in Nodes \X Nodes |-> IF p[2] = n THEN << >> ELSE mail[p] ]
  /\ UNCHANGED pinged

PingNext == \E n \in Nodes : \/ \E from \in Nodes : Handle(n, from)
                             \/ \E arrives \in BOOLEAN : Ping(n, arrives)
                             \/ GoToSleep(n) \/ Restart(n)

PingSpec == PingInit /\ [][PingNext]_pingVars

\* loop() runs on and on: it pings at the end of every interval, and reads what is there.
PingFairSpec ==
  /\ PingSpec
  /\ \A n \in Nodes : WF_pingVars(\E arrives \in BOOLEAN : Ping(n, arrives))
  /\ \A n \in Nodes \ {0} : WF_pingVars(Handle(n, 0)) /\ WF_pingVars(Handle(0, n))
-----------------------------------------------------------------------------
Listed(n) == { active_nodes[n][i] : i \in 0..(num_active_nodes[n] - 1) }

\* The index a node reads active_nodes at is one of the table, and before it rolls
\* over one that is filled, although the index runs one behind the list
\* (loop(): next_ping_node_index++ before the test).
IndexInTable ==
  \A n \in Nodes : num_active_nodes[n] > 0 =>
    /\ next_ping_node_index[n] \in Slots
    /\ next_ping_node_index[n] <= num_active_nodes[n]

\* A list names nobody twice and never the master, whose address would end the list
\* for handle_N(); and only nodes that did ping the master or the node itself, also
\* if it was copied from node to node through restarts.
ListsAreNodes ==
  \A n \in Nodes : /\ Cardinality(Listed(n)) = num_active_nodes[n]
                   /\ Listed(n) \subseteq pinged

\* What the sketches leave to the radio: of the pings from one node to another that find
\* it listening, not all are lost in the end.
Pinging(n, m, arrives) == Ping(n, arrives) /\ Target(n) = m
Link(n, m) == []<><< \E arrives \in BOOLEAN : Pinging(n, m, arrives) /\ Reaches(n, m) >>_pingVars
              => []<><< Pinging(n, m, TRUE) >>_pingVars
Links      == \A n \in Nodes \ {0} : Link(n, 0) /\ Link(0, n)

\* And what a sleeper leaves to chance, as nothing in the code makes its windows meet
\* the pings: if it listens again and again, and the master pings it again and again,
\* then again and again one of these pings comes while it listens.
Meets(n) ==
  []<>listening[n] /\ []<><< \E arrives \in BOOLEAN : Pinging(0, n, arrives) >>_pingVars
  => []<><< listening[n] /\ \E arrives \in BOOLEAN : Pinging(0, n, arrives) >>_pingVars

\* Then in the end every node knows every node but the master, whatever was lost or
\* restarted before: the master learns of them and goes round all of them, and a node
\* that sleeps listens again and again (Network_Ping_Sleep.ino; write()).  A sleeper
\* whose windows the pings miss need not learn of the others, but these of it.
AllKnown ==
  Links => \A n \in Nodes : (n \in Sleepers => Meets(n)) => <>[](Listed(n) = Nodes \ {0})
=============================================================================
