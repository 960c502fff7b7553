---------------------------- MODULE NetworkPages ----------------------------
(***************************************************************************)
(* The pages about the network: Peers (Peers.js) and SyncNetwork           *)
(* (SyncNetwork.js), whose progress is simulated.                          *)
(***************************************************************************)
EXTENDS Service

CONSTANT Steps  \* bound: the progress is counted in Steps equal parts

ASSUME StepsAssumption == Steps \in Nat \ {0}

-----------------------------------------------------------------------------
(* Peers: data is the list, by its length, the dialog and whether it is     *)
(* filled in                                                               *)

PeersOpened ==
    {Opened([peers |-> 0, dialog |-> FALSE, filled |-> FALSE], "getPeers", {"loading"})}

\* getPeers never rejects.
PeerCounts == 0 .. 2

FetchPeers ==
    /\ page = "Peers"
    /\ "loading" \notin busy /\ ~data.dialog
    /\ Starts("getPeers", {"loading"}, <<>>)
    /\ UNCHANGED <<page, data, notice>>

PeersAnswered(c) ==
    /\ page = "Peers" /\ c.fn = "getPeers"
    /\ \E n \in PeerCounts : data' = [data EXCEPT !.peers = n]
    /\ Ends(c)
    /\ UNCHANGED <<page, notice>>

PeerDialog ==
    /\ page = "Peers"
    /\ \/ ~data.dialog /\ data' = [data EXCEPT !.dialog = TRUE]
       \/ data.dialog /\ data' = [data EXCEPT !.dialog = FALSE]
       \/ data.dialog /\ \E filled \in BOOLEAN : data' = [data EXCEPT !.filled = filled]
    /\ UNCHANGED <<page, busy, notice, calls>>

ConnectPeer ==
    /\ page = "Peers" /\ data.dialog
    /\ "loading" \notin busy
    /\ IF data.filled
       THEN Starts("connectToPeer", {"loading"}, <<>>) /\ UNCHANGED notice
       ELSE notice' = {"warning"} /\ UNCHANGED <<busy, calls>>
    /\ UNCHANGED <<page, data>>

\* The fetch raises the flag that the function it is called from then lowers.
PeerConnected(c) ==
    /\ page = "Peers" /\ c.fn = "connectToPeer"
    /\ \/ /\ data' = [data EXCEPT !.dialog = FALSE, !.filled = FALSE]
          /\ notice' = {"success"}
          /\ EndsAndStarts(c, "getPeers", {"loading"}, <<>>)
       \/ /\ notice' = {"error"}
          /\ Ends(c)
          /\ UNCHANGED data
    /\ UNCHANGED page

\* Only the list on the page gets shorter, by every peer with that id: those
\* whose id the node does not tell have the same.
DisconnectPeer ==
    /\ page = "Peers"
    /\ "loading" \notin busy /\ ~data.dialog
    /\ \E left \in 0 .. data.peers - 1 : data' = [data EXCEPT !.peers = left]
    /\ notice' = {"success"}
    /\ UNCHANGED <<page, busy, calls>>

ClosePeersAlert ==
    /\ page = "Peers" /\ notice # {}
    /\ notice' = {}
    /\ UNCHANGED <<page, data, busy, calls>>

PeersStep == FetchPeers \/ PeerDialog \/ ConnectPeer \/ DisconnectPeer \/ ClosePeersAlert

PeersPageAnswered(c) == PeersAnswered(c) \/ PeerConnected(c)

-----------------------------------------------------------------------------
(* SyncNetwork: data is syncStatus, whether there are peers, and ending: the *)
(* effect that ends the synchronisation is due.  Nothing but a spinner is   *)
(* shown while loading                                                     *)

SyncOpened ==
    {Opened([inProgress |-> FALSE, progress |-> 0, status |-> "idle", peers |-> FALSE,
             ending |-> FALSE],
            "getPeers", {"loading"})}

SyncShown == page = "Sync" /\ "loading" \notin busy

\* The buttons that start something are rendered when none is going on, and
\* before anything is rendered an effect that is due has run.
Startable == SyncShown /\ ~data.inProgress /\ ~data.ending

\* fetchInitialData.
RefreshSync ==
    /\ Startable
    /\ Starts("getPeers", {"loading"}, <<>>)
    /\ UNCHANGED <<page, data, notice>>

\* The status becomes idle, also when a synchronisation has begun since.
SyncLoaded(c) ==
    /\ page = "Sync" /\ c.fn = "getPeers"
    /\ \E some \in BOOLEAN :
         data' = [data EXCEPT !.peers = some, !.status = "idle", !.progress = 0]
    /\ Ends(c)
    /\ UNCHANGED <<page, notice>>

\* The button stays usable until the answer.
StartSync ==
    /\ Startable
    /\ IF data.peers
       THEN Starts("syncBlockchain", {}, <<>>) /\ UNCHANGED notice
       ELSE /\ data.status = "completed"
            /\ notice' = {"warning"}
            /\ UNCHANGED <<busy, calls>>
    /\ UNCHANGED <<page, data>>

\* syncBlockchain never rejects.
SyncStarted(c) ==
    /\ page = "Sync" /\ c.fn = "syncBlockchain"
    /\ data' = [data EXCEPT !.inProgress = TRUE, !.progress = 0, !.status = "syncing"]
    /\ notice' = {"info"}
    /\ Ends(c)
    /\ UNCHANGED page

\* The timer.  The effect that sees the progress at its end is still to run.
TickSync ==
    /\ page = "Sync" /\ data.inProgress /\ data.progress < Steps
    /\ data' = [data EXCEPT !.progress = @ + 1, !.ending = @ \/ data.progress + 1 = Steps]
    /\ UNCHANGED <<page, busy, notice, calls>>

\* Mutant: the timer goes on after the end.
CompleteNot ==
    /\ page = "Sync" /\ data.ending
    /\ data' = [data EXCEPT !.progress = Steps, !.status = "completed", !.ending = FALSE]
    /\ notice' = {"success"}
    /\ UNCHANGED <<page, busy, calls>>

\* completeSyncProcess, by the effect: it ends whatever is going on by now, also
\* what was started or loaded since the last tick.
CompleteSync ==
    /\ page = "Sync" /\ data.ending
    /\ data' = [data EXCEPT !.inProgress = FALSE, !.progress = Steps, !.status = "completed",
                            !.ending = FALSE]
    /\ notice' = {"success"}
    /\ UNCHANGED <<page, busy, calls>>

CancelSync ==
    /\ SyncShown /\ data.inProgress
    /\ data' = [data EXCEPT !.inProgress = FALSE, !.status = "cancelled"]
    /\ notice' = {"warning"}
    /\ UNCHANGED <<page, busy, calls>>

CloseSyncAlert ==
    /\ SyncShown /\ notice # {}
    /\ notice' = {}
    /\ UNCHANGED <<page, data, busy, calls>>

SyncStep == RefreshSync \/ StartSync \/ TickSync \/ CompleteSync \/ CancelSync \/ CloseSyncAlert

SyncAnswered(c) == SyncLoaded(c) \/ SyncStarted(c)
=============================================================================
