------------------------------ MODULE MCRouting ------------------------------
\* Instances of Routing for TLC.
EXTENDS Routing

\* A branch of the tree with two levels below the master and another child of
\* the master: 00, 01, 011, 02.
MCNodes == { 0, 1, 9, 2 }

USER_ACK   == 65    \* a user type that asks for a NETWORK_ACK
USER_PLAIN == 1     \* a user type that does not

\* Messages over two hops up and down, over three hops, to a neighbour, and one
\* that is not acknowledged.
MCFlows == { << 9, 0, USER_ACK >>, << 0, 9, USER_ACK >>, << 2, 9, USER_ACK >>,
             << 1, 0, USER_ACK >>, << 9, 2, USER_PLAIN >> }

\* Messages against each other, and a ping.
MCCrossFlows == { << 9, 2, USER_ACK >>, << 2, 9, USER_ACK >>, << 0, 9, NETWORK_PING >>,
                  << 2, 1, USER_PLAIN >> }
=============================================================================
