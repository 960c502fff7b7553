----------------------------- MODULE PeersProofs -----------------------------
(* Theorems of Peers.tla, for every set of nodes and every topology.       *)
EXTENDS Peers, TLAPS

\* A connection of n to itself has been dialled.
DialledItself(n) == \E c \in Conn : c.from = n /\ c.to = n /\ status[c] # "none"

\* The inductive invariant: the types, and who may list itself.
OwnInv ==
    /\ peers \in [Node -> SUBSET Node]
    /\ status \in [Conn -> {"none", "dialled", "open", "closed"}]
    /\ \A c \in Conn : inbox[c] \in [End -> Seq(Message)]
    /\ DOMAIN inbox = Conn
    /\ \A n \in Node \ Wildcard : n \in peers[n] => DialledItself(n)

-----------------------------------------------------------------------------
\* Both ends of a connection are nodes'.
LEMMA EndsAreNodes ==
    ASSUME NEW c \in Conn, NEW e \in End
    PROVE  At(c, e) \in Node /\ Other(e) \in End
BY DEF Conn, End, At, Other

\* Reading a message and appending one keep the type of the inboxes.
LEMMA ReadTyped ==
    ASSUME \A c \in Conn : inbox[c] \in [End -> Seq(Message)], DOMAIN inbox = Conn,
           NEW c \in Conn, NEW e \in End, inbox[c][e] # <<>>
    PROVE  /\ DOMAIN Read(c, e) = Conn
           /\ \A d \in Conn : Read(c, e)[d] \in [End -> Seq(Message)]
<1>1. inbox[c][e] \in Seq(Message)
  OBVIOUS
<1>2. Tail(inbox[c][e]) \in Seq(Message)
  BY <1>1
<1>3. [inbox[c] EXCEPT ![e] = Tail(@)] \in [End -> Seq(Message)]
  BY <1>2
<1> QED BY <1>3 DEF Read

\* So does an appended message.
LEMMA SendTyped ==
    ASSUME NEW ib, DOMAIN ib = Conn, \A d \in Conn : ib[d] \in [End -> Seq(Message)],
           NEW c \in Conn, NEW e \in End, NEW msg \in Message
    PROVE  LET after == [ib EXCEPT ![c][e] = Append(@, msg)]
           IN  DOMAIN after = Conn /\ \A d \in Conn : after[d] \in [End -> Seq(Message)]
<1>1. Append(ib[c][e], msg) \in Seq(Message)
  OBVIOUS
<1>2. [ib[c] EXCEPT ![e] = Append(@, msg)] \in [End -> Seq(Message)]
  BY <1>1
<1> QED BY <1>2

\* The handshakes of dialled connections are messages.
LEMMA DialTyped ==
    ASSUME NEW ib, \A d \in Conn : ib[d] \in [End -> Seq(Message)], NEW n, NEW To
    PROVE  LET after == Dialled(ib, n, To)
           IN  DOMAIN after = Conn /\ \A d \in Conn : after[d] \in [End -> Seq(Message)]
<1>1. <<Handshake>> \in Seq(Message)
  BY DEF Message
<1>2. ASSUME NEW c \in Conn
      PROVE  [ib[c] EXCEPT !.to = <<Handshake>>] \in [End -> Seq(Message)]
  BY <1>1
<1> QED BY <1>2 DEF Dialled

\* A peer list carries nodes.
LEMMA ListTyped ==
    ASSUME NEW s \in Seq(Message), s # <<>>, Head(s).type = "PEER_LIST"
    PROVE  Head(s).listed \subseteq Node
<1>1. Head(s) \in Message
  OBVIOUS
<1> QED BY <1>1 DEF Message, Handshake, PeerList

-----------------------------------------------------------------------------
\* Closing connections keeps the type of the inboxes.
LEMMA CloseTyped ==
    ASSUME \A c \in Conn : inbox[c] \in [End -> Seq(Message)], NEW Closed, Close(Closed)
    PROVE  DOMAIN inbox' = Conn /\ \A d \in Conn : inbox'[d] \in [End -> Seq(Message)]
<1>1. Silent \in [End -> Seq(Message)]
  BY DEF Silent
<1> QED BY <1>1 DEF Close

\* Whatever happens to a connection, it has been dialled for ever after.
LEMMA DialledStays ==
    ASSUME OwnInv, [Next]_vars
    PROVE  /\ status' \in [Conn -> {"none", "dialled", "open", "closed"}]
           /\ \A n : DialledItself(n) => DialledItself(n)'
<1>1. /\ status' \in [Conn -> {"none", "dialled", "open", "closed"}]
      /\ \A c \in Conn : status[c] # "none" => status'[c] # "none"
  <2> USE DEF OwnInv
  <2>1. CASE \E n \in Node : Start(n) \/ Stop(n)
    BY <2>1 DEF Start, Stop, Close
  <2>2. CASE \E n, m \in Node : ConnectTo(n, m)
    BY <2>2 DEF ConnectTo, ConnectToPeer
  <2>3. CASE \E c \in Conn : Accept(c) \/ Break(c)
    BY <2>3 DEF Accept, Break, Close
  <2>4. CASE \E c \in Conn, e \in End : Handle(c, e)
    BY <2>4 DEF Handle, HandleHandshake, HandlePeerList, ConnectToPeer
  <2>5. CASE UNCHANGED vars
    BY <2>5 DEF vars
  <2> QED BY <2>1, <2>2, <2>3, <2>4, <2>5 DEF Next
<1> QED BY <1>1 DEF DialledItself

\* Every step keeps the inductive invariant.
LEMMA OwnInvNext == OwnInv /\ [Next]_vars => OwnInv'
<1> SUFFICES ASSUME OwnInv, [Next]_vars PROVE OwnInv'
  OBVIOUS
<1>0. /\ status' \in [Conn -> {"none", "dialled", "open", "closed"}]
      /\ \A n : DialledItself(n) => DialledItself(n)'
  BY DialledStays
<1> USE DEF OwnInv
<1>1. ASSUME NEW n \in Node, Start(n) PROVE OwnInv'
  BY <1>1, <1>0 DEF Start
<1>2. ASSUME NEW n \in Node, Stop(n) PROVE OwnInv'
  <2>1. DOMAIN inbox' = Conn /\ \A d \in Conn : inbox'[d] \in [End -> Seq(Message)]
    BY <1>2, CloseTyped DEF Stop
  <2>2. peers' \in [Node -> SUBSET Node] /\ \A m \in Node : m \in peers'[m] => m \in peers[m]
    BY <1>2 DEF Stop
  <2> QED BY <2>1, <2>2, <1>0
<1>3. ASSUME NEW n \in Node, NEW m \in Node, ConnectTo(n, m) PROVE OwnInv'
  <2>1. DOMAIN inbox' = Conn /\ \A d \in Conn : inbox'[d] \in [End -> Seq(Message)]
    BY <1>3, DialTyped DEF ConnectTo, ConnectToPeer
  <2> QED BY <1>3, <2>1, <1>0 DEF ConnectTo
<1>4. ASSUME NEW c \in Conn, Accept(c) PROVE OwnInv'
  <2>1. "from" \in End /\ Handshake \in Message
    BY DEF End, Message
  <2>2. DOMAIN inbox' = Conn /\ \A d \in Conn : inbox'[d] \in [End -> Seq(Message)]
    <3>1. inbox' = [inbox EXCEPT ![c]["from"] = Append(@, Handshake)]
      BY <1>4 DEF Accept
    <3> QED BY <2>1, <3>1, SendTyped
  <2> QED BY <1>4, <2>2, <1>0 DEF Accept
<1>5. ASSUME NEW c \in Conn, Break(c) PROVE OwnInv'
  <2>1. DOMAIN inbox' = Conn /\ \A d \in Conn : inbox'[d] \in [End -> Seq(Message)]
    BY <1>5, CloseTyped DEF Break
  <2> QED BY <1>5, <2>1, <1>0 DEF Break
<1>6. ASSUME NEW c \in Conn, NEW e \in End, HandleHandshake(c, e) PROVE OwnInv'
  <2> DEFINE n == At(c, e)
             m == At(c, Other(e))
  <2>1. inbox[c][e] # <<>> /\ Live(c) /\ n \in Node /\ m \in Node /\ Other(e) \in End
    BY <1>6, EndsAreNodes DEF HandleHandshake, Waiting
  <2>2. peers' = [peers EXCEPT ![n] = @ \cup {m}]
    BY <1>6 DEF HandleHandshake
  <2>3. n = m => DialledItself(n)
    BY <2>1 DEF At, Other, End, Live, DialledItself
  <2>4. PeerList(peers'[n]) \in Message
    BY <2>1, <2>2 DEF Message
  <2>5. DOMAIN inbox' = Conn /\ \A d \in Conn : inbox'[d] \in [End -> Seq(Message)]
    BY <1>6, <2>1, <2>4, ReadTyped, SendTyped DEF HandleHandshake
  <2> HIDE DEF n, m
  <2>6. peers' \in [Node -> SUBSET Node]
    BY <2>1, <2>2
  <2>7. \A k \in Node \ Wildcard : k \in peers'[k] => DialledItself(k)
    BY <2>1, <2>2, <2>3
  <2> QED BY <2>5, <2>6, <2>7, <1>0
<1>7. ASSUME NEW c \in Conn, NEW e \in End, HandlePeerList(c, e) PROVE OwnInv'
  <2> DEFINE n == At(c, e)
  <2>1. /\ inbox[c][e] # <<>> /\ Head(inbox[c][e]).type = "PEER_LIST"
        /\ inbox[c][e] \in Seq(Message) /\ n \in Node
    BY <1>7, EndsAreNodes DEF HandlePeerList, Waiting
  <2>2. Learnt(c, e) \subseteq Node /\ (n \in Learnt(c, e) => n \in Wildcard)
    BY <2>1, ListTyped DEF Learnt
  <2>3. peers' = [peers EXCEPT ![n] = @ \cup Learnt(c, e)]
    BY <1>7 DEF HandlePeerList
  <2>4. DOMAIN inbox' = Conn /\ \A d \in Conn : inbox'[d] \in [End -> Seq(Message)]
    BY <1>7, <2>1, ReadTyped, DialTyped DEF HandlePeerList, ConnectToPeer
  <2> HIDE DEF n
  <2>5. peers' \in [Node -> SUBSET Node]
    BY <2>1, <2>2, <2>3
  <2>6. \A k \in Node \ Wildcard : k \in peers'[k] => DialledItself(k)
    BY <2>1, <2>2, <2>3
  <2> QED BY <2>4, <2>5, <2>6, <1>0
<1>8. CASE UNCHANGED vars
  BY <1>8, <1>0 DEF vars
<1> QED BY <1>1, <1>2, <1>3, <1>4, <1>5, <1>6, <1>7, <1>8 DEF Next, Handle

\* A node that is known by its own host string lists itself only when it was told
\* to dial itself (the handlers of HANDSHAKE and PEER_LIST), whoever sends it
\* lists with its name in them and however connections break and are opened.
THEOREM NobodyLearnsOfItself == Spec => []OwnPeerWasDialled
<1>1. Init => OwnInv
  BY DEF Init, OwnInv, Silent, Message
<1>2. OwnInv => OwnPeerWasDialled
  BY DEF OwnInv, OwnPeerWasDialled, DialledItself
<1> QED BY <1>1, <1>2, OwnInvNext, PTL DEF Spec

-----------------------------------------------------------------------------
\* The inductive invariant of the connections: the types, what they say about
\* live connections and stopped nodes, and who may list itself.
ConnInv == PeersTypeOK /\ OwnInv

\* Both ends of a connection that n dials are running, when n is.
LEMMA DialsRun ==
    ASSUME NEW n \in running, NEW To, NEW c \in NextDials(n, To)
    PROVE  c \in Conn /\ Ends(c) \subseteq running
BY DEF NextDials, Ends, At, End

\* Dialling keeps what is said about connections: those that become live run
\* between running nodes, and only their inboxes change.
LEMMA DialKeeps ==
    ASSUME ConnInv, NEW n \in running, NEW To, NEW listed, NEW ib,
           ConnectToPeer(ib, n, listed, To),
           \A c \in Conn : ~Live(c) => ib[c] = Silent
    PROVE  /\ status' \in [Conn -> {"none", "dialled", "open", "closed"}]
           /\ \A c \in Conn : Live(c)' => Ends(c) \subseteq running
           /\ \A c \in Conn : ~Live(c)' => inbox'[c] = Silent
<1> DEFINE D == NextDials(n, To \ listed)
<1>1. status' = [c \in Conn |-> IF c \in D THEN "dialled" ELSE status[c]]
  BY DEF ConnectToPeer
<1>2. \A c \in Conn : c \notin D => inbox'[c] = ib[c]
  BY DEF ConnectToPeer, Dialled
<1>3. \A c \in D : Ends(c) \subseteq running
  BY DialsRun
<1>4. status \in [Conn -> {"none", "dialled", "open", "closed"}]
  BY DEF ConnInv, PeersTypeOK
<1>5. \A c \in Conn : Live(c) => Ends(c) \subseteq running
  BY DEF ConnInv, PeersTypeOK
<1> HIDE DEF D
<1>6. \A c \in Conn : Live(c)' <=> (c \in D \/ Live(c))
  BY <1>1, <1>4 DEF Live
<1> QED BY <1>1, <1>2, <1>3, <1>4, <1>5, <1>6

\* Closing connections silences them and leaves the others alone.
LEMMA CloseKeeps ==
    ASSUME ConnInv, NEW Closed, Close(Closed)
    PROVE  /\ status' \in [Conn -> {"none", "dialled", "open", "closed"}]
           /\ \A c \in Conn : Live(c)' <=> (Live(c) /\ c \notin Closed)
           /\ \A c \in Conn : ~Live(c)' => inbox'[c] = Silent
<1>1. status' \in [Conn -> {"none", "dialled", "open", "closed"}]
  BY DEF ConnInv, PeersTypeOK, Close
<1>2. \A c \in Conn : Live(c)' <=> (Live(c) /\ c \notin Closed)
  BY DEF ConnInv, PeersTypeOK, Close, Live
<1>3. \A c \in Conn : inbox'[c] = IF c \in Closed THEN Silent ELSE inbox[c]
  BY DEF Close
<1> QED BY <1>1, <1>2, <1>3 DEF ConnInv, PeersTypeOK

\* Every step keeps the types and what is said about connections.
LEMMA ConnInvNext == ConnInv /\ [Next]_vars => ConnInv'
<1> SUFFICES ASSUME ConnInv, [Next]_vars PROVE ConnInv'
  OBVIOUS
<1>0. OwnInv'
  BY OwnInvNext DEF ConnInv
<1> USE DEF ConnInv
<1>1. ASSUME NEW n \in Node, Start(n) PROVE ConnInv'
  BY <1>1, <1>0 DEF Start, PeersTypeOK, OwnInv, Live
<1>2. ASSUME NEW n \in Node, Stop(n) PROVE ConnInv'
  <2> DEFINE C == {c \in Conn : n \in Ends(c) /\ Live(c)}
  <2>1. Close(C) /\ running' = running \ {n} /\ peers' = [peers EXCEPT ![n] = {}]
    BY <1>2 DEF Stop
  <2>2. \A c \in Conn \ C : Live(c) => n \notin Ends(c)
    OBVIOUS
  <2> HIDE DEF C
  <2>3. /\ status' \in [Conn -> {"none", "dialled", "open", "closed"}]
        /\ \A c \in Conn : Live(c)' <=> (Live(c) /\ c \notin C)
        /\ \A c \in Conn : ~Live(c)' => inbox'[c] = Silent
    BY <2>1, CloseKeeps
  <2> QED BY <2>1, <2>2, <2>3, <1>0 DEF PeersTypeOK, OwnInv
<1>3. ASSUME NEW n \in Node, NEW m \in Node, ConnectTo(n, m) PROVE ConnInv'
  <2>1. ConnectToPeer(inbox, n, peers[n], {m}) /\ n \in running /\ UNCHANGED <<running, peers>>
    BY <1>3 DEF ConnectTo
  <2>2. \A c \in Conn : ~Live(c) => inbox[c] = Silent
    BY DEF PeersTypeOK
  <2> QED BY <2>1, <2>2, DialKeeps, <1>0 DEF PeersTypeOK, OwnInv
<1>4. ASSUME NEW c \in Conn, Accept(c) PROVE ConnInv'
  <2>1. \A d \in Conn : Live(d)' <=> Live(d)
    BY <1>4 DEF Accept, Live, PeersTypeOK
  <2>2. \A d \in Conn : ~Live(d) => inbox'[d] = inbox[d]
    BY <1>4 DEF Accept, Live, OwnInv
  <2> QED BY <1>4, <2>1, <2>2, <1>0 DEF Accept, PeersTypeOK, OwnInv
<1>5. ASSUME NEW c \in Conn, Break(c) PROVE ConnInv'
  <2>1. Close({c}) /\ UNCHANGED <<running, peers>>
    BY <1>5 DEF Break
  <2> QED BY <2>1, CloseKeeps, <1>0 DEF PeersTypeOK, OwnInv
<1>6. ASSUME NEW c \in Conn, NEW e \in End, HandleHandshake(c, e) PROVE ConnInv'
  <2> DEFINE n == At(c, e)
  <2>1. n \in running /\ Live(c) /\ UNCHANGED <<running, status>>
    BY <1>6 DEF HandleHandshake, Waiting, PeersTypeOK, Ends
  <2>2. \A d \in Conn : d # c => inbox'[d] = inbox[d]
    BY <1>6 DEF HandleHandshake, Read, OwnInv
  <2>3. \A m \in Node \ {n} : peers'[m] = peers[m]
    BY <1>6 DEF HandleHandshake, OwnInv
  <2>4. \A d \in Conn : Live(d)' <=> Live(d)
    BY <2>1 DEF Live
  <2> QED BY <2>1, <2>2, <2>3, <2>4, <1>0 DEF PeersTypeOK, OwnInv
<1>7. ASSUME NEW c \in Conn, NEW e \in End, HandlePeerList(c, e) PROVE ConnInv'
  <2> DEFINE n == At(c, e)
  <2>1. n \in running /\ Live(c) /\ UNCHANGED running
    BY <1>7 DEF HandlePeerList, Waiting, PeersTypeOK, Ends
  <2>2. \A d \in Conn : ~Live(d) => Read(c, e)[d] = Silent
    BY <2>1 DEF Read, OwnInv, PeersTypeOK
  <2>3. \A m \in Node \ {n} : peers'[m] = peers[m]
    BY <1>7 DEF HandlePeerList, OwnInv
  <2>4. ConnectToPeer(Read(c, e), n, peers'[n], Learnt(c, e) \ peers[n])
    BY <1>7 DEF HandlePeerList
  <2>5. /\ status' \in [Conn -> {"none", "dialled", "open", "closed"}]
        /\ \A d \in Conn : Live(d)' => Ends(d) \subseteq running
        /\ \A d \in Conn : ~Live(d)' => inbox'[d] = Silent
    BY <2>1, <2>2, <2>4, DialKeeps
  <2> QED BY <2>1, <2>3, <2>5, <1>0 DEF PeersTypeOK, OwnInv
<1>8. CASE UNCHANGED vars
  BY <1>8, <1>0 DEF vars, PeersTypeOK, OwnInv, Live
<1> HIDE DEF ConnInv
<1> QED BY <1>1, <1>2, <1>3, <1>4, <1>5, <1>6, <1>7, <1>8 DEF Next, Handle

\* A connection is live only between running nodes, carries messages only while
\* it is live, and a stopped node knows nobody (NetworkManager::stop), whatever
\* is dialled, accepted, read, broken and stopped in whatever order.
THEOREM PeersTypeCorrect == Spec => []PeersTypeOK
<1>1. Init => ConnInv
  BY DEF Init, ConnInv, OwnInv, PeersTypeOK, Silent, Message, Live
<1>2. ConnInv => PeersTypeOK
  BY DEF ConnInv
<1> QED BY <1>1, <1>2, ConnInvNext, PTL DEF Spec
=============================================================================
