------------------------------ MODULE MCPeers ------------------------------
(* Small instances of Peers.tla for TLC.                                   *)
EXTENDS Peers

CONSTANTS n1, n2, n3

\* n3 is told to connect to n2.
OneMore == {<<n3, n2>>}

\* n3 is told to connect to itself.
Itself == {<<n3, n3>>}
=============================================================================
