-------------------------------- MODULE MCMesh --------------------------------
\* Mesh for TLC: the master, two of its children, a grandchild, the joiner, a
\* node 0444 that has chosen the multicast level of the joiner, and a node 04 that
\* has chosen that of the master.
EXTENDS Mesh

o01 == 1   o02 == 2   o04 == 4   o011 == 9   o0444 == 292

MCNodes   == { 0, o01, o02, o04, o011, o0444, Joiner }
MCLevelOf == [ n \in MCNodes |-> CASE n = o0444 -> 4 [] n = o04 -> 0
                                       [] OTHER -> Len(Path(n)) ]
MCRelays  == { 0, o01, o02 }
MCNoPoll  == { o02, o04 }
MCOperations == { Poll(0), Poll(1), Poll(2), Request(0), Request(o01), Request(o011),
                  Multicast(o01, 0), Multicast(o011, 1), Direct(o011, o02, o01) }
MCMaxOfKind  == [ kind \in { "poll", "request", "multicast", "direct" } |->
                    IF kind = "request" THEN 2 ELSE 1 ]

\* The nodes with a way to the master.
ASSUME MCConnected == Connected({ 0, o01, o02, o011 })
=============================================================================
