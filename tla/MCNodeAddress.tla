---------------------------- MODULE MCNodeAddress ----------------------------
\* Instances of NodeAddress for TLC.
EXTENDS NodeAddress, TLC

\* The master, two of its children, and below 01 a chain down to level 4 and a
\* sibling of its first link: 00, 01, 05, 011, 051, 0511, 05511.
MCAddresses == { 0, 1, 5, 9, 41, 329, 2889 }

Symmetry == Permutations(Radios)
=============================================================================
