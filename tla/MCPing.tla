-------------------------------- MODULE MCPing --------------------------------
\* Ping for TLC: the master, a node that sleeps and one that does not.
EXTENDS Ping

MCNodes    == { 0, 2, 5 }
MCSleepers == { 2 }
=============================================================================
