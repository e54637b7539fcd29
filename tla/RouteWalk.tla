------------------------------ MODULE RouteWalk ------------------------------
(***************************************************************************)
(* One acknowledged message on its way through an undisturbed network: the *)
(* data frame walks from its origin to its destination, the router that    *)
(* hands it over sends a NETWORK_ACK back, and that frame walks home.      *)
(* Every node on the way decides with nothing but its own address, the     *)
(* masks setup_address() derived from it, and the frame.  The properties   *)
(* compare these decisions with the tree as it is drawn in the             *)
(* documentation (Path and Dist of Addressing).                            *)
(***************************************************************************)
EXTENDS Addressing

CONSTANTS Nodes,   \* the addresses of the nodes of the network
          NoNode   \* "there is no NETWORK_ACK"

ASSUME NodesAssumption == Nodes \subseteq TreeAddress /\ NoNode \notin TreeAddress

VARIABLES from,   \* header.from_node of the data frame
          to,     \* header.to_node of the data frame
          data,   \* the node that holds the data frame
          ack,    \* the node that holds the NETWORK_ACK, or NoNode
          hops    \* transmissions of the data frame so far

walkVars == << from, to, data, ack, hops >>

WalkInit == /\ from \in Nodes /\ to \in Nodes \ {from}
            /\ data = from
            /\ ack = NoNode
            /\ hops = 0

\* write(): the origin waits for a NETWORK_ACK unless the first hop is the
\* destination itself.
OriginWaits(f, t) == NextHop(f, t) # t

\* write(): the node whose next hop is the destination acknowledges, provided
\* it sends with TX_ROUTED.
\* MUTATIONS: the test of sendType is missing; the NETWORK_ACK is left to the
\* destination.
Acknowledges_Origin(n, t, routed)  == NextHop(n, t) = t
Acknowledges_Nobody(n, t, routed)  == n = t
Acknowledges(n, t, routed)         == routed /\ NextHop(n, t) = t

\* write_to_pipe() with the frame that node n sends to node t.
Transmit(n, t, routed) ==
  /\ data' = NextHop(n, t)
  /\ hops' = hops + 1
  /\ ack' = IF Acknowledges(n, t, routed) THEN NextHop(n, from) ELSE ack
  /\ UNCHANGED << from, to >>

\* The origin sends the frame to the first hop.
Send == data = from /\ hops = 0 /\ Transmit(data, to, FALSE)

\* A router sends the frame on.  The last one acknowledges the message: it
\* turns the frame around and sends it to the next hop towards the origin.
Route == data # to /\ hops > 0 /\ Transmit(data, to, TRUE)

\* A router sends the NETWORK_ACK on.
\* MUTATION: it always goes to the parent.
AckHop_Parent(n) == setup_address(n).parent_node
AckHop(n)        == NextHop(n, from)

RouteAck == /\ ack # NoNode /\ ack # from
            /\ ack' = AckHop(ack)
            /\ UNCHANGED << from, to, data, hops >>

WalkNext == Send \/ Route \/ RouteAck

WalkSpec     == WalkInit /\ [][WalkNext]_walkVars
WalkFairSpec == WalkSpec /\ WF_walkVars(WalkNext)   \* every frame is handled in the end

-----------------------------------------------------------------------------
\* The data frame never leaves the one path of the tree between origin and
\* destination and never walks an edge twice: up to the common ancestor, then
\* down (update() and logicalToPhysicalAddress()).
DataOnTreePath == /\ hops = Dist(from, data)
                  /\ Dist(from, data) + Dist(data, to) = Dist(from, to)

\* The NETWORK_ACK goes back over the same path, although its from_node is the
\* origin itself and not the router that made it.
AckOnTreePath ==
  ack # NoNode => Dist(from, ack) + Dist(ack, to) = Dist(from, to)

\* A NETWORK_ACK is only made for an origin that waits for one: the test the
\* origin makes on its first hop and the test a router makes on its next hop
\* never disagree.
AckOnlyForWaiter == ack # NoNode => OriginWaits(from, to)

\* Every message arrives, and an origin that waits for its NETWORK_ACK gets it.
ArrivesAndAnswers == /\ <>(data = to)
                     /\ OriginWaits(from, to) ~> ack = from
=============================================================================
