------------------------------ MODULE Addressing ------------------------------
(***************************************************************************)
(* The tree of logical addresses of RF24Network and its translation to     *)
(* the five-byte pipe addresses of the radio.                              *)
(*                                                                         *)
(* A logical address is a uint16_t read in octal: the least significant    *)
(* digit names a child of the master 00, the next digit a child of that    *)
(* child, and so on.  The code works with bit masks that are all ones      *)
(* (8^k - 1), so that x & mask is x % (mask + 1) here.                     *)
(*                                                                         *)
(* Everything below is a pure function of its arguments.  What a node      *)
(* caches about its own address (setup_address) is the record "self".      *)
(***************************************************************************)
EXTENDS Naturals, Sequences

CONSTANT NUM_PIPES   \* RF24Network_config.h: 6, unless the build overrides it

\* A pipe number is an octal digit of a child's address.
ASSUME NumPipesAssumption == NUM_PIPES \in 2..8

Address == 0..65535      \* uint16_t

NETWORK_MULTICAST_ADDRESS         == 64     \* 0100
NETWORK_MULTICAST_ADDRESS_LEVEL_2 == 8      \* 010
NETWORK_MULTICAST_ADDRESS_LEVEL_4 == 512    \* 01000
NETWORK_DEFAULT_ADDRESS           == 2340   \* 04444

\* The values of sendType, in the order in which the code compares them.
TX_NORMAL                   == 0
TX_ROUTED                   == 1
USER_TX_TO_PHYSICAL_ADDRESS == 2
USER_TX_TO_LOGICAL_ADDRESS  == 3
USER_TX_MULTICAST           == 4

(***************************************************************************)
(* Octal digits.                                                           *)
(***************************************************************************)

\* x & mask, for a mask of the form 8^k - 1.
And(x, mask) == x % (mask + 1)

Digit(a, k) == (a \div 8^k) % 8

\* How often the loop  while (node_address & node_mask_check) mask <<= 3  runs.
DigitCount(a) == CHOOSE c \in 0..6 : a < 8^c /\ (c = 0 \/ a >= 8^(c - 1))

(***************************************************************************)
(* Validity: at most four digits, each of them a pipe number 1..NUM_PIPES-1*)
(* or one of the three reserved multicast addresses.                       *)
(***************************************************************************)
is_valid_address(node) ==
  \/ node \in { NETWORK_MULTICAST_ADDRESS, NETWORK_MULTICAST_ADDRESS_LEVEL_2,
                NETWORK_MULTICAST_ADDRESS_LEVEL_4 }
  \/ /\ DigitCount(node) <= 4
     /\ \A k \in 0..3 : k < DigitCount(node) => Digit(node, k) \in 1..(NUM_PIPES - 1)

(***************************************************************************)
(* What begin() caches about the node's own address.                       *)
(***************************************************************************)
setup_address(node) ==
  LET count       == DigitCount(node)
      parent_unit == IF count = 0 THEN 1 ELSE 8^(count - 1)   \* parent_mask + 1
  IN  [ node_address     |-> node,
        node_mask        |-> 8^count - 1,
        parent_node      |-> And(node, parent_unit - 1),
        parent_pipe      |-> node \div parent_unit,
        _multicast_level |-> count ]

is_descendant(self, node)   == And(node, self.node_mask) = self.node_address

\* MUTATION of is_direct_child: the mask is shifted one digit too far.
is_direct_child_Grandchild(self, node) == node < 64 * (self.node_mask + 1)

\* (node & (~node_mask << 3)) == 0
is_direct_child(self, node) == node < 8 * (self.node_mask + 1)

\* Presumes that node is a descendant.
direct_child_route_to(self, node) == And(node, 8 * self.node_mask + 7)

(***************************************************************************)
(* The physical next hop of a frame, and the pipe of that hop it is sent   *)
(* to.  Up the tree the sender uses its own digit as pipe number, down the *)
(* tree the child's listening pipe; whatever is not TX_NORMAL or TX_ROUTED *)
(* goes to the given node on the multicast pipe.                           *)
(***************************************************************************)
logicalToPhysicalAddress(self, to_node, sendType) ==
  IF sendType > TX_ROUTED
  THEN [ send_node |-> to_node, send_pipe |-> 0, multicast |-> TRUE ]
  ELSE IF is_descendant(self, to_node)
  THEN [ send_node |-> IF is_direct_child(self, to_node)
                       THEN to_node ELSE direct_child_route_to(self, to_node),
         send_pipe |-> NUM_PIPES - 1, multicast |-> FALSE ]
  ELSE [ send_node |-> self.parent_node, send_pipe |-> self.parent_pipe,
         multicast |-> FALSE ]

\* The next hop from node n to node d of a frame that is routed.
NextHop(n, d) == logicalToPhysicalAddress(setup_address(n), d, TX_ROUTED).send_node

(***************************************************************************)
(* Addresses of pipes and of multicast levels.                             *)
(***************************************************************************)

levelToAddress(level) == IF level = 0 THEN 0 ELSE 8^(level - 1)

address_translation == << 195, 60, 51, 206, 62, 227, 236, 238, 237 >>

\* The five address bytes a pipe of a node listens to.  Pipe 0 of every node
\* but the master carries only the number of digits of the address.
pipe_address(node, pipe) ==
  LET byte(v) == address_translation[v + 1]
      count   == DigitCount(node)
  IN  IF pipe # 0 \/ node = 0
      THEN [ i \in 1..5 |-> IF i = 1 THEN byte(pipe)
                            ELSE IF i - 1 <= count THEN byte(Digit(node, i - 2))
                            ELSE 204 ]
      ELSE [ i \in 1..5 |-> IF i = 2 THEN byte(count) ELSE 204 ]

(***************************************************************************)
(* The tree, defined independently of the masks: the path of a node is the *)
(* sequence of its digits, its parent's path drops the last one.           *)
(***************************************************************************)
Path(a)      == [ i \in 1..DigitCount(a) |-> Digit(a, i - 1) ]
CommonLen(p, q) ==
  LET common == { i \in 0..4 : /\ i <= Len(p) /\ i <= Len(q)
                               /\ \A j \in 1..i : p[j] = q[j] }
  IN  CHOOSE i \in common : \A j \in common : j <= i
\* The number of edges between two nodes of the tree.
Dist(a, b)   == Len(Path(a)) + Len(Path(b)) - 2 * CommonLen(Path(a), Path(b))
\* The addresses a node of the tree may have.
TreeAddress  == { a \in 0..4095 : /\ is_valid_address(a)
                                  /\ a \notin { NETWORK_MULTICAST_ADDRESS,
                                                NETWORK_MULTICAST_ADDRESS_LEVEL_2,
                                                NETWORK_MULTICAST_ADDRESS_LEVEL_4 } }
=============================================================================
