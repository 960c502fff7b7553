-------------------------------- MODULE Peers --------------------------------
(***************************************************************************)
(* Who knows whom and who is connected to whom: the peer half of           *)
(* NetworkNode.cpp.  Network.tla has the messages that carry transactions, *)
(* blocks and chains; here are the connections themselves, the HANDSHAKE   *)
(* each end sends and the PEER_LIST it is answered with.                   *)
(***************************************************************************)
EXTENDS Integers, Sequences, FiniteSets

CONSTANTS Node,       \* nodes, each named by its host and port
          Bootstrap,  \* peers_discovery_list in NodeApp.cpp
          Connects,   \* pairs of nodes: who the users tell to connect to whom
          Wildcard,   \* nodes whose own host string (0.0.0.0, a name) is not
                      \* the address their peers see
          MaxDials    \* bound: connections a node opens to another one

ASSUME PeersAssumption ==
    /\ Bootstrap \subseteq Node
    /\ Connects \subseteq Node \X Node
    /\ Wildcard \subseteq Node
    /\ MaxDials \in Nat \ {0}

VARIABLES running,  \* nodes whose NetworkManager is running
          peers,    \* NetworkManager::peers of each node
          status,   \* of each connection: not yet dialled, dialled, open, closed
          inbox     \* inbox[c][e]: what the end e of connection c has not read

vars == <<running, peers, status, inbox>>

\* A node may be told to dial itself: both ends are then its own.
Conn == [from : Node, to : Node, dial : 1 .. MaxDials]

End == {"from", "to"}
At(c, e) == IF e = "from" THEN c.from ELSE c.to
Other(e) == IF e = "from" THEN "to" ELSE "from"
Ends(c) == {At(c, e) : e \in End}

Live(c) == status[c] \in {"dialled", "open"}

Handshake == [type |-> "HANDSHAKE"]
PeerList(listed) == [type |-> "PEER_LIST", listed |-> listed]

Silent == [e \in End |-> <<>>]

Init ==
    /\ running = {}
    /\ peers = [n \in Node |-> {}]
    /\ status = [c \in Conn |-> "none"]
    /\ inbox = [c \in Conn |-> Silent]

-----------------------------------------------------------------------------
\* The connections n opens when it dials each node of To: the next ones in line
\* to nodes that are running.  Every one carries the handshake of n.
NextDials(n, To) ==
    {c \in Conn : /\ c.from = n /\ c.to \in To \cap running
                  /\ status[c] = "none"
                  /\ \A d \in Conn : d.from = n /\ d.to = c.to /\ d.dial < c.dial => status[d] # "none"}

Dialled(ib, n, To) ==
    [c \in Conn |-> IF c \in NextDials(n, To) THEN [ib[c] EXCEPT !.to = <<Handshake>>] ELSE ib[c]]

\* connectToPeer for every node of To: it returns without connecting when the
\* node is among the listed peers.
ConnectToPeer(ib, n, listed, To) ==
    /\ status' = [c \in Conn |-> IF c \in NextDials(n, To \ listed) THEN "dialled" ELSE status[c]]
    /\ inbox' = Dialled(ib, n, To \ listed)

\* The node starts; its bootstrap connections are ConnectTo steps.
Start(n) ==
    /\ n \notin running
    /\ running' = running \cup {n}
    /\ UNCHANGED <<peers, status, inbox>>

\* NodeApp.cpp's bootstrap loop, which skips the node whose host and port are
\* its own, or the menu or POST /api/peers/connect, which skip none.
ConnectTo(n, m) ==
    /\ n \in running
    /\ \/ m \in Bootstrap /\ (m # n \/ n \in Wildcard)
       \/ <<n, m>> \in Connects
    /\ NextDials(n, {m} \ peers[n]) # {}
    /\ ConnectToPeer(inbox, n, peers[n], {m})
    /\ UNCHANGED <<running, peers>>

\* Mutant: the accepting end sends no handshake.
AcceptSilently(c) ==
    /\ status[c] = "dialled"
    /\ status' = [status EXCEPT ![c] = "open"]
    /\ UNCHANGED <<running, peers, inbox>>

\* handleAccept.
Accept(c) ==
    /\ status[c] = "dialled"
    /\ status' = [status EXCEPT ![c] = "open"]
    /\ inbox' = [inbox EXCEPT ![c].from = Append(@, Handshake)]
    /\ UNCHANGED <<running, peers>>

\* An end may read the connection: it dialled it, or has accepted it.
Waiting(c, e, type) ==
    /\ Live(c)
    /\ e = "to" => status[c] = "open"
    /\ inbox[c][e] # <<>> /\ Head(inbox[c][e]).type = type

Read(c, e) == [inbox EXCEPT ![c][e] = Tail(@)]

\* Mutant: the accepting end sends no list.
HandshakeByDialler(c, e) ==
    /\ Waiting(c, e, "HANDSHAKE")
    /\ peers' = [peers EXCEPT ![At(c, e)] = @ \cup {At(c, Other(e))}]
    /\ inbox' = IF e = "to" THEN Read(c, e)
                ELSE [Read(c, e) EXCEPT ![c][Other(e)] = Append(@, PeerList(peers'[At(c, e)]))]
    /\ UNCHANGED <<running, status>>

\* The sender is listed, whoever it is, and gets the whole list.
HandleHandshake(c, e) ==
    /\ Waiting(c, e, "HANDSHAKE")
    /\ peers' = [peers EXCEPT ![At(c, e)] = @ \cup {At(c, Other(e))}]
    /\ inbox' = [Read(c, e) EXCEPT ![c][Other(e)] = Append(@, PeerList(peers'[At(c, e)]))]
    /\ UNCHANGED <<running, status>>

\* Mutant: a node does not recognise itself.
Learn(c, e) == Head(inbox[c][e]).listed

\* "Don't connect to ourselves": the address is compared with the node's own
\* host string.
Learnt(c, e) ==
    {p \in Head(inbox[c][e]).listed : p # At(c, e) \/ p \in Wildcard}

\* The peers that are new are listed first and dialled then.
HandlePeerList(c, e) ==
    LET n == At(c, e) IN
    /\ Waiting(c, e, "PEER_LIST")
    /\ peers' = [peers EXCEPT ![n] = @ \cup Learnt(c, e)]
    /\ ConnectToPeer(Read(c, e), n, peers'[n], Learnt(c, e) \ peers[n])
    /\ UNCHANGED running

Close(Closed) ==
    /\ status' = [c \in Conn |-> IF c \in Closed THEN "closed" ELSE status[c]]
    /\ inbox' = [c \in Conn |-> IF c \in Closed THEN Silent ELSE inbox[c]]

\* A connection breaks.  handle_read returns, and nobody forgets the peer.
Break(c) ==
    /\ Live(c)
    /\ Close({c})
    /\ UNCHANGED <<running, peers>>

\* Mutant: the list of peers outlives the manager.
StopListed(n) ==
    /\ n \in running
    /\ running' = running \ {n}
    /\ Close({c \in Conn : n \in Ends(c) /\ Live(c)})
    /\ UNCHANGED peers

\* NetworkManager::stop.
Stop(n) ==
    /\ n \in running
    /\ running' = running \ {n}
    /\ peers' = [peers EXCEPT ![n] = {}]
    /\ Close({c \in Conn : n \in Ends(c) /\ Live(c)})

-----------------------------------------------------------------------------
Handle(c, e) ==
    \/ HandleHandshake(c, e)
    \/ HandlePeerList(c, e)

Next ==
    \/ \E n \in Node : Start(n) \/ Stop(n)
    \/ \E n, m \in Node : ConnectTo(n, m)
    \/ \E c \in Conn : Accept(c) \/ Break(c)
    \/ \E c \in Conn, e \in End : Handle(c, e)

Spec == Init /\ [][Next]_vars

\* The io_context of a running node accepts and reads what has arrived.
FairSpec ==
    /\ Spec
    /\ \A c \in Conn : WF_vars(Accept(c)) /\ \A e \in End : WF_vars(Handle(c, e))

-----------------------------------------------------------------------------
(* Properties *)

Message == {Handshake} \cup {PeerList(S) : S \in SUBSET Node}

\* The types of the variables.  A connection is live only between running nodes,
\* carries messages only while it is live, and a stopped node knows nobody.
PeersTypeOK ==
    /\ running \subseteq Node
    /\ peers \in [Node -> SUBSET Node]
    /\ status \in [Conn -> {"none", "dialled", "open", "closed"}]
    /\ \A c \in Conn :
         /\ inbox[c] \in [End -> Seq(Message)]
         /\ Live(c) => Ends(c) \subseteq running
         /\ ~Live(c) => inbox[c] = Silent
    /\ \A n \in Node \ running : peers[n] = {}

\* Every node that shakes hands with a node lists it and sends it that list: the
\* node does not learn of itself that way.  One that is known by its own host
\* string lists itself only if somebody told it to dial itself.
OwnPeerWasDialled ==
    \A n \in Node \ Wildcard :
      n \in peers[n] => \E c \in Conn : c.from = n /\ c.to = n /\ status[c] # "none"

\* A peer that somebody dialled ends up listed at both ends, unless the
\* connection closes first.
HandshakeCompletes ==
    \A c \in Conn :
      status[c] = "dialled" ~> (c.to \in peers[c.from] /\ c.from \in peers[c.to]) \/ status[c] = "closed"

\* What the accepting node knows reaches the one that dialled it.
PeersSpread ==
    \A c \in Conn : \A p \in Node \ {c.from} :
      (status[c] = "dialled" /\ p \in peers[c.to]) ~> (p \in peers[c.from] \/ status[c] = "closed")

Untouched(n, p) == \A c \in Conn : Ends(c) = {n, p} => status[c] = "none"

\* "Nodes discover each other through peer exchange" (README.md:185), "Connect
\* to the new peer if we don't already know it" (NetworkNode.cpp:897): a running
\* peer a node has learnt of, with no connection between them yet, is dialled.
DiscoveredAreDialled ==
    \A n, p \in Node :
      (p \in peers[n] /\ p \in running /\ Untouched(n, p))
        ~> (~Untouched(n, p) \/ p \notin peers[n] \/ p \notin running)
=============================================================================
