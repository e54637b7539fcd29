----------------------------- MODULE NodeAddress -----------------------------
(***************************************************************************)
(* What the radios of a network listen to while their nodes are given      *)
(* addresses, take new ones and choose multicast levels.  begin() and      *)
(* multicastLevel() write the reading pipes of the radio; whether a frame  *)
(* reaches the node it is meant for depends on the pipes of every other    *)
(* node in range at that moment.                                           *)
(*                                                                         *)
(* The nRF24L01 keeps five address bytes for the pipes 0 and 1 and one for *)
(* each of the others, which share the upper four bytes of pipe 1.         *)
(***************************************************************************)
EXTENDS Addressing

CONSTANTS Radios,     \* the nodes, each with its own radio
          Addresses   \* the logical addresses begin() is called with

ASSUME AddressesAssumption == Addresses \subseteq TreeAddress

Levels == 0..4
Pipes  == 0..(NUM_PIPES - 1)
Closed == << >>       \* a pipe that was never opened

VARIABLES radioValid,     \* radio.isValid(): the radio knows its pins
          node_address,   \* the address begin() stored
          cache,          \* what setup_address() derived from it
          pipe            \* the address registers of the reading pipes

vars == << radioValid, node_address, cache, pipe >>

\* The node as the routing decisions see it.
Self(r)   == [ cache[r] EXCEPT !.node_address = node_address[r] ]
Opened(r) == pipe[r][1] # Closed      \* begin() was called with the radio valid
Grouped(r) == Opened(r) \/ pipe[r][0] # Closed   \* or multicastLevel()

\* The members of a network object at start up: zero.
Init == /\ radioValid   = [ r \in Radios |-> FALSE ]
        /\ node_address = [ r \in Radios |-> 0 ]
        /\ cache        = [ r \in Radios |->
                              [ setup_address(0) EXCEPT !._multicast_level = 0 ] ]
        /\ pipe         = [ r \in Radios |-> [ p \in Pipes |-> Closed ] ]

\* radio.openReadingPipe(p, address): the register of the radio it fills.
openReadingPipe(p, address) == IF p < 2 THEN address ELSE << address[1] >>

\* The application initialises the radio.
RadioBegin(r) == /\ ~radioValid[r]
                 /\ radioValid' = [ radioValid EXCEPT ![r] = TRUE ]
                 /\ UNCHANGED << node_address, cache, pipe >>

\* The loop of begin() over the pipes, from the last one down to 0.
\* MUTATIONS:  while (--i)  never opens pipe 0; the pipes are opened with
\* node_address before it is assigned.
OpenPipes_SkipsPipe0(r, a) ==
  [ p \in Pipes |-> IF p = 0 THEN pipe[r][0]
                    ELSE openReadingPipe(p, pipe_address(a, p)) ]
OpenPipes_OldAddress(r, a) ==
  [ p \in Pipes |-> openReadingPipe(p, pipe_address(node_address[r], p)) ]
OpenPipes(r, a) == [ p \in Pipes |-> openReadingPipe(p, pipe_address(a, p)) ]

\* begin(): an invalid address changes nothing, an invalid radio leaves the
\* new address beside the masks of the old one.
begin(r, a) ==
  /\ is_valid_address(a)
  /\ node_address' = [ node_address EXCEPT ![r] = a ]
  /\ IF radioValid[r]
     THEN /\ cache' = [ cache EXCEPT ![r] = setup_address(a) ]
          /\ pipe'  = [ pipe EXCEPT ![r] = OpenPipes(r, a) ]
     ELSE UNCHANGED << cache, pipe >>
  /\ UNCHANGED radioValid

\* multicastLevel(): pipe 0 moves to the group of the level, also before begin().  A
\* radio that is not valid cannot be written to.
multicastLevel(r, level) ==
  /\ cache' = [ cache EXCEPT ![r]._multicast_level = level ]
  /\ pipe'  = IF radioValid[r]
              THEN [ pipe EXCEPT ![r][0] =
                       openReadingPipe(0, pipe_address(levelToAddress(level), 0)) ]
              ELSE pipe
  /\ UNCHANGED << radioValid, node_address >>

Next == \E r \in Radios :
          \/ RadioBegin(r)
          \/ \E a \in Addresses : begin(r, a)
          \/ \E level \in Levels : multicastLevel(r, level)

Spec == Init /\ [][Next]_vars

-----------------------------------------------------------------------------
\* The five bytes pipe p of a radio listens to.
Listening(r, p) == IF p < 2 \/ pipe[r][p] = Closed THEN pipe[r][p]
                   ELSE pipe[r][p] \o Tail(pipe[r][1])

\* Who hears a frame sent to the five bytes of an address, and on which pipe.
Hearers(address) == { h \in Radios \X Pipes : Listening(h[1], h[2]) = address }

\* The address of the frame a node sends towards a destination, as write()
\* and write_to_pipe() compute it.
Transmission(r, dest) == logicalToPhysicalAddress(Self(r), dest, TX_NORMAL)
OnAir(r, dest)        == pipe_address(Transmission(r, dest).send_node,
                                      Transmission(r, dest).send_pipe)

\* No two nodes that are listening were given the same address.
DistinctAddresses == \A r, s \in Radios : (r # s /\ Opened(r) /\ Opened(s))
                                            => node_address[r] # node_address[s]

\* A frame sent up or down the tree is heard by the node that is its next hop
\* and by no other radio in range, on one pipe: the sender's own digit on the
\* way up, the listening pipe on the way down.  If that node is not there,
\* nobody takes its place, whatever addresses and levels the others went
\* through before (begin(), multicastLevel(), pipe_address()).
UnicastReachesNextHop ==
  DistinctAddresses =>
    \A r \in Radios, dest \in Addresses :
      (Opened(r) /\ dest # node_address[r]) =>
        Hearers(OnAir(r, dest)) =
          { << s, Transmission(r, dest).send_pipe >> :
              s \in { s \in Radios : /\ Opened(s)
                                     /\ node_address[s] = Transmission(r, dest).send_node } }

\* A frame multicast to a level is heard by the nodes of that level and by no
\* other node, on pipe 0, also after a node has moved to another address or
\* level (multicast(), levelToAddress()).
MulticastReachesLevel ==
  \A level \in Levels :
    Hearers(pipe_address(levelToAddress(level), 0)) =
      { << r, 0 >> : r \in { r \in Radios : Grouped(r) /\ cache[r]._multicast_level = level } }

\* The frame a node relays after it heard a multicast (update()).
\* MUTATION: one level too many.
RelayTarget_Twice(level) == levelToAddress(level + 1) * 8
RelayTarget(level)       == levelToAddress(level) * 8

\* RF24Network.h:572: a node with multicastRelay forwards "to the next highest
\* multicast level".  Its frame is heard by the nodes that have that level at
\* this moment, and by no others; but a node of level 0 relays to level 0.
RelayReachesNextLevel ==
  \A level \in 1..3 :
    Hearers(pipe_address(RelayTarget(level), 0)) =
      { << r, 0 >> : r \in { r \in Radios : Grouped(r) /\ cache[r]._multicast_level = level + 1 } }
=============================================================================
