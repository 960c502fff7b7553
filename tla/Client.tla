------------------------------- MODULE Client -------------------------------
(***************************************************************************)
(* The browser's side: the list of nodes a user keeps                      *)
(* (nodeConnectionManager.js), the POST of a mining or payment button with *)
(* its retries (directPost and attemptFetchFallback of                     *)
(* blockchainService.js) and the page that polls the statistics of the     *)
(* selected node.  What happens to a request between the browser and the   *)
(* node's API, and in the API, is the environment's choice.                *)
(*                                                                         *)
(* The entries of the list are JavaScript objects: the list and            *)
(* DEFAULT_NODES hold references, and an assignment to a field is seen     *)
(* through both.  heap maps a reference to the fields of its object, for   *)
(* the objects that are still referred to.                                 *)
(***************************************************************************)
EXTENDS Integers, Sequences, FiniteSets

CONSTANTS Url,          \* addresses of nodes' APIs
          Typed,        \* those the user types in
          DefaultUrls,  \* the urls of DEFAULT_NODES, in order
          Mock,         \* made-up statistics shown when a request fails
          MaxNodes,     \* bound: entries of the list
          MaxClicks     \* bound: POSTs

ASSUME ClientAssumption ==
    /\ Typed \subseteq Url
    /\ DefaultUrls \in Seq(Url) /\ DefaultUrls # <<>>
    /\ Mock \notin Url
    /\ MaxNodes \in Nat /\ MaxNodes >= Len(DefaultUrls)
    /\ MaxClicks \in Nat

VARIABLES heap,      \* the fields url and isActive of every object
          nodes,     \* NodeConnectionManager::nodes, as references
          storage,   \* the list under STORAGE_KEY in localStorage; <<>>: none
          clicked,   \* clicked[k]: the address of the k-th POST
          phase,     \* how far directPost is with the last POST
          sends,     \* the requests it was sent with, and their fate
          polls,     \* addresses with a statistics request under way
          shown      \* where the numbers on the page come from

listVars == <<heap, nodes, storage>>
postVars == <<clicked, phase, sends>>
pageVars == <<polls, shown>>
vars == <<listVars, postVars, pageVars>>

Elems(s) == {s[i] : i \in DOMAIN s}

Ref == 1 .. Len(DefaultUrls) + MaxNodes
DEFAULT_NODES == [i \in DOMAIN DefaultUrls |-> i]

Entry(url, active) == [url |-> url, active |-> active]

\* The objects of a page that has just been loaded: those of DEFAULT_NODES, and
\* those JSON.parse makes of the list it finds.
LoadedHeap(list) ==
    [r \in 1 .. Len(DefaultUrls) + Len(list) |->
       IF r \in DOMAIN DefaultUrls THEN Entry(DefaultUrls[r], r = 1)
       ELSE list[r - Len(DefaultUrls)]]

\* loadNodes.
LoadNodes(list) ==
    IF list = <<>> THEN DEFAULT_NODES ELSE [i \in DOMAIN list |-> i + Len(DefaultUrls)]

List == [i \in DOMAIN nodes |-> heap[nodes[i]]]

\* getActiveNode, and getBaseUrl.
ActiveIndex ==
    LET flagged == {i \in DOMAIN nodes : heap[nodes[i]].active}
    IN  IF flagged = {} THEN 1 ELSE CHOOSE i \in flagged : \A j \in flagged : i <= j

BaseUrl == heap[nodes[ActiveIndex]].url

\* Objects the page still refers to.
Kept(list) == DOMAIN DefaultUrls \cup Elems(list)

Init ==
    /\ storage = <<>>
    /\ heap = LoadedHeap(<<>>)
    /\ nodes = LoadNodes(<<>>)
    /\ clicked = <<>>
    /\ phase = "idle"
    /\ sends = {}
    /\ polls = {}
    /\ shown = Mock

-----------------------------------------------------------------------------
(* nodeConnectionManager.js, as NodeSelector.js calls it *)

\* saveNodes.
SaveNodes == storage' = [i \in DOMAIN nodes' |-> heap'[nodes'[i]]]

SetActiveNode(index) ==
    /\ index \in DOMAIN nodes
    /\ heap' = [r \in DOMAIN heap |-> IF r \in Elems(nodes)
                                      THEN [heap[r] EXCEPT !.active = (r = nodes[index])] ELSE heap[r]]
    /\ UNCHANGED nodes
    /\ SaveNodes
    /\ UNCHANGED <<postVars, pageVars>>

Fresh == CHOOSE r \in Ref : r \notin DOMAIN heap /\ \A q \in Ref : q < r => q \in DOMAIN heap

AddNode(url) ==
    /\ Len(nodes) < MaxNodes
    /\ \A r \in Elems(nodes) : heap[r].url # url
    /\ heap' = [r \in DOMAIN heap \cup {Fresh} |-> IF r = Fresh THEN Entry(url, FALSE) ELSE heap[r]]
    /\ nodes' = Append(nodes, Fresh)
    /\ SaveNodes
    /\ UNCHANGED <<postVars, pageVars>>

\* Mutant: the only node can be removed.
RemoveAny(index) ==
    /\ index \in DOMAIN nodes
    /\ nodes' = SubSeq(nodes, 1, index - 1) \o SubSeq(nodes, index + 1, Len(nodes))
    /\ heap' = [r \in Kept(nodes') |->
                  IF heap[nodes[index]].active /\ nodes' # <<>> /\ r = Head(nodes')
                  THEN [heap[r] EXCEPT !.active = TRUE] ELSE heap[r]]
    /\ SaveNodes
    /\ UNCHANGED <<postVars, pageVars>>

\* The only node of the list cannot be removed (handleDeleteNode).
RemoveNode(index) ==
    /\ Len(nodes) > 1
    /\ index \in DOMAIN nodes
    /\ nodes' = SubSeq(nodes, 1, index - 1) \o SubSeq(nodes, index + 1, Len(nodes))
    /\ heap' = [r \in Kept(nodes') |->
                  IF heap[nodes[index]].active /\ r = nodes'[1]
                  THEN [heap[r] EXCEPT !.active = TRUE] ELSE heap[r]]
    /\ SaveNodes
    /\ UNCHANGED <<postVars, pageVars>>

\* Mutant: the new url is not saved.
EditUnsaved(index, url) ==
    /\ index \in DOMAIN nodes
    /\ heap' = [heap EXCEPT ![nodes[index]].url = url]
    /\ UNCHANGED <<nodes, storage, postVars, pageVars>>

EditNode(index, url) ==
    /\ index \in DOMAIN nodes
    /\ heap' = [heap EXCEPT ![nodes[index]].url = url]
    /\ UNCHANGED nodes
    /\ SaveNodes
    /\ UNCHANGED <<postVars, pageVars>>

\* The list gets the objects of DEFAULT_NODES, as they are by now.
ResetToDefaults ==
    /\ nodes' = DEFAULT_NODES
    /\ heap' = [r \in Kept(nodes') |-> heap[r]]
    /\ SaveNodes
    /\ UNCHANGED <<postVars, pageVars>>

\* The user reloads the page: the module is evaluated again, and requests under
\* way have nobody to return to.
Reload ==
    /\ heap' = LoadedHeap(storage)
    /\ nodes' = LoadNodes(storage)
    /\ phase' = "idle"
    /\ polls' = {}
    /\ shown' = Mock
    /\ UNCHANGED <<storage, clicked, sends>>

-----------------------------------------------------------------------------
(* A POST: the first request goes through axios with a timeout; the others  *)
(* are fetches whose response cannot be read                                *)

Click == Len(clicked)
Tries == {s \in sends : s.click = Click}
Send(try, url) == [click |-> Click, try |-> try, url |-> url, fate |-> "under way"]
LastSend == CHOOSE s \in Tries : \A u \in Tries : u.try <= s.try
Fate == LastSend.fate

\* The button of Mining.js, Transactions.js or Wallet.js, disabled until the
\* POST returns.
Post ==
    /\ phase = "idle" /\ Click < MaxClicks
    /\ clicked' = Append(clicked, BaseUrl)
    /\ phase' = "axios"
    /\ sends' = sends \cup {[click |-> Click + 1, try |-> 1, url |-> BaseUrl, fate |-> "under way"]}
    /\ UNCHANGED <<listVars, pageVars>>

\* Mutant: the address of the node that is selected by now.
RetryActive(to) ==
    /\ phase' = to
    /\ sends' = sends \cup {Send(Cardinality(Tries) + 1, BaseUrl)}
    /\ UNCHANGED <<clicked, listVars, pageVars>>

\* The same POST again, to the address of the first one.
Retry(to) ==
    /\ phase' = to
    /\ sends' = sends \cup {Send(Cardinality(Tries) + 1, clicked[Click])}
    /\ UNCHANGED <<clicked, listVars, pageVars>>

Return ==
    /\ phase' = "idle"
    /\ UNCHANGED <<clicked, sends, listVars, pageVars>>

AxiosAnswered ==
    /\ phase = "axios" /\ Fate = "done"
    /\ Return

\* The node answers with an error status, or fifteen seconds have passed: the
\* request may be carried out later, or has been and the answer is late.
AxiosRejects ==
    /\ phase = "axios"
    /\ Retry("fetch")

\* No answer the browser lets the page see: the connection failed, or the
\* answer came without the CORS headers.  The response interceptor retries.
AxiosNetworkError ==
    /\ phase = "axios" /\ Fate \in {"lost", "done"}
    /\ Retry("fallback")

\* The fetch of attemptFetchFallback went through.
FallbackAnswered ==
    /\ phase = "fallback" /\ Fate \in {"done", "refused"}
    /\ Return

\* Mutant: after the fallback the POST starts from the beginning.
FallbackRestarts ==
    /\ phase = "fallback" /\ Fate \in {"lost", "done"}
    /\ Cardinality(Tries) < 4
    /\ Retry("axios")

\* It failed, before or after the node got it: the interceptor rejects, and
\* directPost fetches.
FallbackFails ==
    /\ phase = "fallback" /\ Fate \in {"lost", "done"}
    /\ Retry("fetch")

\* Mutant: the last fetch has to go through.
FetchAnswered ==
    /\ phase = "fetch" /\ Fate \in {"done", "refused"}
    /\ Return

\* directPost's own fetch: success, whatever came of it.
FetchEnds ==
    /\ phase = "fetch" /\ Fate # "under way"
    /\ Return

\* What becomes of a request: the API carries it out, refuses it, or the
\* network loses it; also when the page has given it up.
Settle(s, fate) ==
    /\ s.fate = "under way"
    /\ sends' = (sends \ {s}) \cup {[s EXCEPT !.fate = fate]}
    /\ UNCHANGED <<clicked, phase, listVars, pageVars>>

-----------------------------------------------------------------------------
(* A page that polls: fetchMiningStats, fetchDashboardData,                *)
(* checkNodeConnection                                                      *)

Poll ==
    /\ BaseUrl \notin polls
    /\ polls' = polls \cup {BaseUrl}
    /\ UNCHANGED <<shown, listVars, postVars>>

\* The response is shown, whatever node is selected by now; getStatistics
\* makes one up when the request failed.
Resolve(url) ==
    /\ url \in polls
    /\ polls' = polls \ {url}
    /\ shown' \in {url, Mock}
    /\ UNCHANGED <<listVars, postVars>>

-----------------------------------------------------------------------------
\* The dialog of an entry opens with its address, which may stay.
ListStep ==
    \/ \E i \in DOMAIN nodes : SetActiveNode(i) \/ RemoveNode(i)
    \/ \E url \in Typed : AddNode(url)
    \/ \E i \in DOMAIN nodes : \E url \in Typed \cup {heap[nodes[i]].url} : EditNode(i, url)
    \/ ResetToDefaults
    \/ Reload

DirectPost ==
    \/ AxiosAnswered
    \/ AxiosRejects
    \/ AxiosNetworkError
    \/ FallbackAnswered
    \/ FallbackFails
    \/ FetchEnds

Next ==
    \/ ListStep
    \/ Post
    \/ DirectPost
    \/ \E s \in sends, fate \in {"done", "refused", "lost"} : Settle(s, fate)
    \/ Poll
    \/ \E url \in Url : Resolve(url)

Spec == Init /\ [][Next]_vars

-----------------------------------------------------------------------------
(* Properties *)

\* The types of the variables; the list is never empty and holds no object
\* twice.
ClientTypeOK ==
    /\ heap \in [Kept(nodes) -> [url : Url, active : BOOLEAN]]
    /\ nodes \in Seq(Ref) /\ nodes # <<>>
    /\ Cardinality(Elems(nodes)) = Len(nodes)
    /\ storage \in Seq([url : Url, active : BOOLEAN])
    /\ clicked \in Seq(Url)
    /\ phase \in {"idle", "axios", "fallback", "fetch"}
    /\ sends \subseteq [click : 1 .. MaxClicks, try : Nat, url : Url,
                        fate : {"under way", "done", "refused", "lost"}]
    /\ polls \subseteq Url
    /\ shown \in Url \cup {Mock}

\* However the user switches, edits and resets the list meanwhile, all requests
\* of a POST go to the node that was selected when the button was pressed.
OneNodePerClick == \A s \in sends : s.url = clicked[s.click]

\* A POST is carried out at most three times: neither mining nor paying is
\* idempotent, and the retries follow requests that may have been carried out.
AtMostThreeTimes ==
    \A k \in DOMAIN clicked : Cardinality({s \in sends : s.click = k /\ s.fate = "done"}) <= 3

\* directPost does what Posting.tla promises, whatever the user does to the list
\* of nodes and however its requests fail.
Sent == {<<s.click, s.try, s.url>> : s \in sends}
Carried == {<<s.click, s.try, s.url>> : s \in {r \in sends : r.fate = "done"}}
Posts == INSTANCE Posting WITH
             Address <- Url, MaxTries <- 3,
             posts <- clicked, waiting <- phase # "idle", sent <- Sent, carried <- Carried
PostsRefine == Posts!PostingSpec

\* The list, with the selected node, survives a reload of the page.
ReloadKeepsList == [][Reload => List' = List]_vars
=============================================================================
