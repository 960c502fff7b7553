---------------------------- MODULE MCNetwork ----------------------------
(* Small instances of Network.tla for TLC.                                 *)
EXTENDS Network, TLC

CONSTANTS n1, n2, n3

\* Three nodes in a line or in a ring, and two nodes.
Line == {<<n1, n2>>, <<n2, n3>>}
Ring == Line \cup {<<n3, n1>>}
OnePair == {<<n1, n2>>}

\* Blocks are cheaper to mine for n1.
Uneven == [n \in Node |-> IF n = n1 THEN 1 ELSE 2]

HashSymmetry == Permutations(Hash \ {GenesisHash})
=============================================================================
