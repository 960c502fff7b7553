----------------------------- MODULE AppProofs ------------------------------
(***************************************************************************)
(* Theorems of the browser's program, for every list of default nodes,     *)
(* whatever the user types and selects and for any number of functions     *)
(* under way: what Client.tla is checked for, directPost against           *)
(* Posting.tla, the pages of App.tla against Client.tla and Fetching.tla,  *)
(* the types, and what the pages say of transactions.                      *)
(***************************************************************************)
EXTENDS App, FiniteSetTheorems, TLAPS

-----------------------------------------------------------------------------
(* A POST and the node it is for *)

\* The inductive invariant: the last POST has a number while it is under way,
\* and no request belongs to a POST that was not made.
ClickInv ==
    /\ \E S : clicked \in Seq(S)
    /\ phase # "idle" => clicked # <<>>
    /\ \A s \in sends : DOMAIN s = {"click", "try", "url", "fate"} /\ s.click \in DOMAIN clicked
    /\ OneNodePerClick

-----------------------------------------------------------------------------
\* A retry goes to the address of the first request.
LEMMA RetryKeeps ==
    ASSUME ClickInv, phase # "idle", NEW to, Retry(to)
    PROVE  ClickInv'
<1>1. PICK S : clicked \in Seq(S)
  BY DEF ClickInv
<1>2. Click \in DOMAIN clicked
  BY <1>1 DEF ClickInv, Click
<1>3. clicked' = clicked
  BY DEF Retry
<1>4. ASSUME NEW s \in sends'
      PROVE  /\ DOMAIN s = {"click", "try", "url", "fate"}
             /\ s.click \in DOMAIN clicked /\ s.url = clicked[s.click]
  <2>1. CASE s \in sends
    BY <2>1 DEF ClickInv, OneNodePerClick
  <2>2. CASE s = Send(Cardinality(Tries) + 1, clicked[Click])
    BY <2>2, <1>2 DEF Send
  <2> QED BY <1>4, <2>1, <2>2 DEF Retry
<1> QED BY <1>1, <1>3, <1>4 DEF ClickInv, OneNodePerClick

\* A step that makes no request and no POST.
LEMMA QuietKeeps ==
    ASSUME ClickInv, UNCHANGED <<clicked, sends>>, phase' \in {phase, "idle"}
    PROVE  ClickInv'
BY DEF ClickInv, OneNodePerClick

\* The fate of a request changes neither its POST nor its address.
LEMMA SettleKeeps ==
    ASSUME ClickInv, NEW s \in sends, NEW fate, Settle(s, fate)
    PROVE  ClickInv'
<1>1. ASSUME NEW r \in sends'
      PROVE  /\ DOMAIN r = {"click", "try", "url", "fate"}
             /\ \E q \in sends : r.click = q.click /\ r.url = q.url
  <2>1. CASE r \in sends
    BY <2>1 DEF ClickInv
  <2>2. CASE r = [s EXCEPT !.fate = fate]
    <3>1. DOMAIN s = {"click", "try", "url", "fate"}
      BY DEF ClickInv
    <3>2. DOMAIN r = DOMAIN s /\ r.click = s.click /\ r.url = s.url
      BY <2>2, <3>1
    <3> QED BY <3>1, <3>2
  <2> QED BY <1>1, <2>1, <2>2 DEF Settle
<1>2. clicked' = clicked /\ phase' = phase
  BY DEF Settle
<1> QED BY <1>1, <1>2 DEF ClickInv, OneNodePerClick

\* The first request of a POST goes to the address the POST is recorded with.
LEMMA PostKeeps ==
    ASSUME ClickInv, Post
    PROVE  ClickInv'
<1> DEFINE url == BaseUrl
<1>1. PICK S : clicked \in Seq(S)
  BY DEF ClickInv
<1>2. clicked' = Append(clicked, url)
  BY DEF Post
<1> HIDE DEF url
<1>3. clicked \in Seq(S \cup {url})
  BY <1>1
<1>4. /\ clicked' \in Seq(S \cup {url})
      /\ Len(clicked') = Len(clicked) + 1
      /\ clicked'[Len(clicked) + 1] = url
      /\ Len(clicked) + 1 \in DOMAIN clicked'
      /\ \A k \in DOMAIN clicked : k \in DOMAIN clicked' /\ clicked'[k] = clicked[k]
  BY <1>2, <1>3
<1>5. ASSUME NEW s \in sends'
      PROVE  /\ DOMAIN s = {"click", "try", "url", "fate"}
             /\ s.click \in DOMAIN clicked' /\ s.url = clicked'[s.click]
  <2>1. CASE s \in sends
    BY <2>1, <1>4 DEF ClickInv, OneNodePerClick
  <2>2. CASE s = [click |-> Len(clicked) + 1, try |-> 1, url |-> url, fate |-> "under way"]
    BY <2>2, <1>1, <1>4
  <2> QED BY <1>5, <2>1, <2>2 DEF Post, Click, url
<1>6. clicked' # <<>>
  BY <1>1, <1>4
<1> QED BY <1>4, <1>5, <1>6 DEF ClickInv, OneNodePerClick

\* Every step keeps the inductive invariant.
LEMMA ClickInvNext == ClickInv /\ [Next]_vars => ClickInv'
<1> SUFFICES ASSUME ClickInv, [Next]_vars PROVE ClickInv'
  OBVIOUS
<1>1. CASE ListStep
  <2>1. UNCHANGED <<clicked, sends>> /\ phase' \in {phase, "idle"}
    BY <1>1 DEF ListStep, SetActiveNode, RemoveNode, AddNode, EditNode, ResetToDefaults,
                Reload, postVars
  <2> QED BY <2>1, QuietKeeps
<1>2. CASE Post
  BY <1>2, PostKeeps
<1>3. CASE DirectPost
  <2>1. CASE AxiosAnswered \/ FallbackAnswered \/ FetchEnds
    BY <2>1, QuietKeeps DEF AxiosAnswered, FallbackAnswered, FetchEnds, Return
  <2>2. CASE AxiosRejects \/ AxiosNetworkError \/ FallbackFails
    <3>1. phase # "idle"
      BY <2>2 DEF AxiosRejects, AxiosNetworkError, FallbackFails
    <3>2. PICK to \in {"fetch", "fallback"} : Retry(to)
      BY <2>2 DEF AxiosRejects, AxiosNetworkError, FallbackFails
    <3> QED BY <3>1, <3>2, RetryKeeps
  <2> QED BY <1>3, <2>1, <2>2 DEF DirectPost
<1>4. ASSUME NEW s \in sends, NEW fate, Settle(s, fate) PROVE ClickInv'
  BY <1>4, SettleKeeps DEF Settle
<1>5. CASE Poll \/ \E url \in Url : Resolve(url)
  BY <1>5, QuietKeeps DEF Poll, Resolve, postVars
<1>6. CASE UNCHANGED vars
  BY <1>6, QuietKeeps DEF vars, postVars
<1> QED BY <1>1, <1>2, <1>3, <1>4, <1>5, <1>6 DEF Next

\* All requests of a POST (directPost with its fetches) go to the node that was
\* selected when the button was pressed, whatever the user does to the list of
\* nodes meanwhile.
THEOREM PostsStayWithTheirNode == Spec => []OneNodePerClick
<1>1. Init => ClickInv
  <2>1. <<>> \in Seq({})
    OBVIOUS
  <2> QED BY <2>1 DEF Init, ClickInv, OneNodePerClick
<1>2. ClickInv => OneNodePerClick
  BY DEF ClickInv
<1> QED BY <1>1, <1>2, ClickInvNext, PTL DEF Spec

-----------------------------------------------------------------------------
(* The requests of a POST are numbered *)

\* Requests of a POST that have been carried out, or not.
SendsOf(k) == {s \in sends : s.click = k}
Numbers(k) == {s.try : s \in SendsOf(k)}

Distinct == \A s, r \in sends : s.click = r.click /\ s.try = r.try => s = r

\* How many requests the POST that is under way has made.
TryInv ==
    /\ Distinct
    /\ \A s \in sends : s.try \in 1 .. 3
    /\ phase \in {"idle", "axios", "fallback", "fetch"}
    /\ phase = "axios" => Numbers(Click) = 1 .. 1
    /\ phase = "fallback" => Numbers(Click) = 1 .. 2
    /\ phase = "fetch" => Numbers(Click) \in {1 .. 2, 1 .. 3}

\* Requests of a POST with numbers up to n are at most n.
LEMMA AtMostNumbers ==
    ASSUME Distinct, NEW n \in Nat, NEW k,
           NEW S \in SUBSET SendsOf(k), {s.try : s \in S} \subseteq 1 .. n
    PROVE  /\ Cardinality(S) <= n
           /\ {s.try : s \in S} = 1 .. n => Cardinality(S) = n
<1> DEFINE number == [s \in S |-> s.try]
<1>1. number \in [S -> 1 .. n]
  OBVIOUS
<1>2. IsInjective(number)
  <2> SUFFICES ASSUME NEW s \in S, NEW r \in S, number[s] = number[r] PROVE s = r
    BY <1>1 DEF IsInjective
  <2>1. s.try = r.try
    OBVIOUS
  <2> QED BY <2>1 DEF Distinct, SendsOf
<1>3. number \in Injection(S, 1 .. n)
  BY <1>1, <1>2 DEF Injection
<1>4. IsFiniteSet(1 .. n) /\ Cardinality(1 .. n) = n
  BY FS_Interval
<1>5. ASSUME {s.try : s \in S} = 1 .. n PROVE number \in Surjection(S, 1 .. n)
  <2>1. \A t \in 1 .. n : \E s \in S : number[s] = t
    BY <1>5
  <2> QED BY <1>1, <2>1 DEF Surjection
<1> HIDE DEF number
<1> QED BY <1>3, <1>4, <1>5, FS_Injection

\* A POST is carried out at most three times, however often its requests fail
\* and whatever became of them: those of axios, of the fallback of its response
\* interceptor and of directPost's own fetch are all there are.
LEMMA AtMostThreeInv == TryInv => AtMostThreeTimes
<1> SUFFICES ASSUME TryInv, NEW k \in DOMAIN clicked
             PROVE  Cardinality({s \in sends : s.click = k /\ s.fate = "done"}) <= 3
  BY DEF AtMostThreeTimes
<1> DEFINE S == {s \in sends : s.click = k /\ s.fate = "done"}
<1>1. S \in SUBSET SendsOf(k)
  BY DEF SendsOf
<1>2. {s.try : s \in S} \subseteq 1 .. 3
  BY DEF TryInv
<1> HIDE DEF S
<1>3. Cardinality(S) <= 3
  BY <1>1, <1>2, AtMostNumbers DEF TryInv
<1> QED BY <1>3 DEF S

\* What of a request does not change when its fate does.
LEMMA SettledSends ==
    ASSUME ClickInv, NEW s \in sends, NEW fate
    PROVE  LET r == [s EXCEPT !.fate = fate]
           IN  r.click = s.click /\ r.try = s.try /\ r.url = s.url /\ r.fate = fate
<1>1. DOMAIN s = {"click", "try", "url", "fate"}
  BY DEF ClickInv
<1> QED BY <1>1

LEMMA TrySettle ==
    ASSUME ClickInv, TryInv, NEW s \in sends, NEW fate, Settle(s, fate)
    PROVE  TryInv'
<1> DEFINE q == [s EXCEPT !.fate = fate]
<1>1. q.click = s.click /\ q.try = s.try
  BY SettledSends
<1>2. sends' = (sends \ {s}) \cup {q} /\ clicked' = clicked /\ phase' = phase
  BY DEF Settle
<1> HIDE DEF q
<1>3. Distinct'
  <2> SUFFICES ASSUME NEW r \in sends', NEW t \in sends', r.click = t.click, r.try = t.try
               PROVE  r = t
    BY DEF Distinct
  <2>1. CASE r = q /\ t = q
    BY <2>1
  <2>2. CASE r = q /\ t # q
    BY <2>2, <1>1, <1>2 DEF TryInv, Distinct
  <2>3. CASE r # q /\ t = q
    BY <2>3, <1>1, <1>2 DEF TryInv, Distinct
  <2>4. CASE r # q /\ t # q
    BY <2>4, <1>2 DEF TryInv, Distinct
  <2> QED BY <2>1, <2>2, <2>3, <2>4
<1>4. \A r \in sends' : r.try \in 1 .. 3
  BY <1>1, <1>2 DEF TryInv
<1>5. ASSUME NEW k PROVE Numbers(k)' = Numbers(k)
  <2>1. ASSUME NEW r \in sends', r.click = k PROVE \E t \in sends : t.click = k /\ t.try = r.try
    BY <2>1, <1>1, <1>2
  <2>2. ASSUME NEW r \in sends, r.click = k PROVE \E t \in sends' : t.click = k /\ t.try = r.try
    BY <2>2, <1>1, <1>2
  <2> QED BY <2>1, <2>2 DEF Numbers, SendsOf
<1>6. Click' = Click
  BY <1>2 DEF Click
<1>7. Numbers(Click)' = Numbers(Click)
  BY <1>5, <1>6
<1> QED BY <1>2, <1>3, <1>4, <1>7 DEF TryInv

\* One more request of the POST under way.
LEMMA TryRetry ==
    ASSUME ClickInv, TryInv, NEW n \in {1, 2}, Numbers(Click) = 1 .. n,
           NEW to, to = "fetch" \/ (to = "fallback" /\ n = 1), Retry(to)
    PROVE  TryInv' /\ n + 1 \notin Numbers(Click)
<1>1. Cardinality(Tries) = n
  <2>1. Tries = SendsOf(Click) /\ {s.try : s \in Tries} = 1 .. n
    BY DEF Tries, SendsOf, Numbers
  <2> QED BY <2>1, AtMostNumbers DEF TryInv
<1> DEFINE q == Send(n + 1, clicked[Click])
<1>2. sends' = sends \cup {q} /\ clicked' = clicked /\ phase' = to
  BY <1>1 DEF Retry
<1>3. q.click = Click /\ q.try = n + 1
  BY DEF Send
<1> HIDE DEF q
<1>4. n + 1 \notin Numbers(Click)
  OBVIOUS
<1>5. ASSUME NEW s \in sends, s.click = Click PROVE s.try # n + 1
  BY <1>4, <1>5 DEF Numbers, SendsOf
<1>6. Distinct'
  BY <1>2, <1>3, <1>5 DEF TryInv, Distinct
<1>7. \A s \in sends' : s.try \in 1 .. 3
  BY <1>2, <1>3 DEF TryInv
<1>8. Numbers(Click)' = Numbers(Click) \cup {n + 1}
  <2>1. Click' = Click
    BY <1>2 DEF Click
  <2> QED BY <1>2, <1>3, <2>1 DEF Numbers, SendsOf
<1>9. (1 .. n) \cup {n + 1} = 1 .. n + 1
  OBVIOUS
<1>10. CASE n = 1
  BY <1>2, <1>4, <1>6, <1>7, <1>8, <1>9, <1>10 DEF TryInv
<1>11. CASE n = 2
  BY <1>2, <1>4, <1>6, <1>7, <1>8, <1>9, <1>11 DEF TryInv
<1> QED BY <1>10, <1>11

\* The first request of a POST.
LEMMA TryPost ==
    ASSUME ClickInv, TryInv, Post
    PROVE  TryInv'
<1> DEFINE q == [click |-> Click + 1, try |-> 1, url |-> BaseUrl, fate |-> "under way"]
<1>1. PICK S : clicked \in Seq(S)
  BY DEF ClickInv
<1>2. Click \in Nat /\ Click' = Click + 1
  <2> DEFINE url == BaseUrl
  <2>1. clicked' = Append(clicked, url)
    BY DEF Post
  <2> HIDE DEF url
  <2>2. clicked \in Seq(S \cup {url})
    BY <1>1
  <2> QED BY <2>1, <2>2 DEF Click
<1>3. sends' = sends \cup {q} /\ phase' = "axios"
  BY DEF Post
<1>4. q.click = Click + 1 /\ q.try = 1
  OBVIOUS
<1> HIDE DEF q
<1>5. ASSUME NEW s \in sends PROVE s.click # Click + 1
  BY <1>1, <1>2 DEF ClickInv, Click
<1>6. Distinct'
  BY <1>3, <1>4, <1>5 DEF TryInv, Distinct
<1>7. \A s \in sends' : s.try \in 1 .. 3
  BY <1>3, <1>4 DEF TryInv
<1>8. Numbers(Click)' = {1}
  BY <1>2, <1>3, <1>4, <1>5 DEF Numbers, SendsOf
<1>9. {1} = 1 .. 1
  OBVIOUS
<1> QED BY <1>3, <1>6, <1>7, <1>8, <1>9 DEF TryInv

\* A step that makes no request: the page waits on, or no more.
LEMMA TryQuiet ==
    ASSUME TryInv, UNCHANGED <<clicked, sends>>, phase' \in {phase, "idle"}
    PROVE  TryInv'
<1>1. Numbers(Click)' = Numbers(Click)
  BY DEF Numbers, SendsOf, Click
<1> QED BY <1>1 DEF TryInv, Distinct

LEMMA TryInvNext == ClickInv /\ TryInv /\ [Next]_vars => TryInv'
<1> SUFFICES ASSUME ClickInv, TryInv, [Next]_vars PROVE TryInv'
  OBVIOUS
<1>1. CASE ListStep
  <2>1. UNCHANGED <<clicked, sends>> /\ phase' \in {phase, "idle"}
    BY <1>1 DEF ListStep, SetActiveNode, RemoveNode, AddNode, EditNode, ResetToDefaults,
                Reload, postVars
  <2> QED BY <2>1, TryQuiet
<1>2. CASE Post
  BY <1>2, TryPost
<1>3. CASE AxiosAnswered \/ FallbackAnswered \/ FetchEnds
  BY <1>3, TryQuiet DEF AxiosAnswered, FallbackAnswered, FetchEnds, Return
<1>4. CASE AxiosRejects \/ AxiosNetworkError \/ FallbackFails
  <2>1. PICK n \in {1, 2}, to \in {"fetch", "fallback"} :
           Numbers(Click) = 1 .. n /\ (to = "fetch" \/ n = 1) /\ Retry(to)
    BY <1>4 DEF AxiosRejects, AxiosNetworkError, FallbackFails, TryInv
  <2> QED BY <2>1, TryRetry
<1>5. ASSUME NEW s \in sends, NEW fate, Settle(s, fate) PROVE TryInv'
  BY <1>5, TrySettle
<1>6. CASE Poll \/ \E url \in Url : Resolve(url)
  BY <1>6, TryQuiet DEF Poll, Resolve, postVars
<1>7. CASE UNCHANGED vars
  BY <1>7, TryQuiet DEF vars, postVars
<1> QED BY <1>1, <1>2, <1>3, <1>4, <1>5, <1>6, <1>7 DEF Next, DirectPost

LEMMA InitTry == Init => ClickInv /\ TryInv
<1>1. <<>> \in Seq({})
  OBVIOUS
<1> QED BY <1>1 DEF Init, ClickInv, OneNodePerClick, TryInv, Distinct

\* A POST is carried out at most three times: the request through axios, that of
\* attemptFetchFallback and directPost's own fetch are all there are, whichever
\* of them fail and whatever becomes of those that were given up.
THEOREM AtMostThree == Spec => []AtMostThreeTimes
<1>1. ClickInv /\ TryInv /\ [Next]_vars => (ClickInv /\ TryInv)'
  BY ClickInvNext, TryInvNext
<1> QED BY <1>1, InitTry, AtMostThreeInv, PTL DEF Spec

-----------------------------------------------------------------------------
(* The list of nodes, and what is saved of it *)

Fields == [url : Url, active : BOOLEAN]

\* The list that a first visit shows.
DefaultList == [i \in DOMAIN DefaultUrls |-> Entry(DefaultUrls[i], i = 1)]

ListInv ==
    /\ heap \in [DOMAIN heap -> Fields]
    /\ DOMAIN DefaultUrls \subseteq DOMAIN heap
    /\ nodes \in Seq(DOMAIN heap) /\ nodes # <<>>
    /\ storage \in Seq(Fields)
    /\ List = IF storage = <<>> THEN DefaultList ELSE storage

LEMMA EntryType ==
    ASSUME NEW url \in Url, NEW active \in BOOLEAN
    PROVE  Entry(url, active) \in Fields
BY DEF Entry, Fields

LEMMA ElemsSeq ==
    ASSUME NEW S, NEW s \in Seq(S)
    PROVE  Elems(s) \subseteq S /\ s \in Seq(Elems(s))
BY DEF Elems

LEMMA ActiveIndexType ==
    ASSUME ListInv
    PROVE  ActiveIndex \in DOMAIN nodes /\ BaseUrl \in Url
<1> DEFINE flagged == {i \in DOMAIN nodes : heap[nodes[i]].active}
<1>1. DOMAIN nodes = 1 .. Len(nodes) /\ 1 \in DOMAIN nodes
  BY DEF ListInv
<1>2. ASSUME flagged # {}
      PROVE  \E i \in flagged : \A j \in flagged : i <= j
  <2>1. flagged \subseteq Nat
    BY <1>1
  <2> HIDE DEF flagged
  <2>2. PICK i \in flagged : \A j \in flagged : <<j, i>> \notin OpToRel(<, Nat)
    BY <1>2, <2>1, NatLessThanWellFounded, WFMin
  <2>3. ASSUME NEW j \in flagged PROVE i <= j
    <3>1. i \in Nat /\ j \in Nat
      BY <2>1
    <3>2. <<j, i>> \notin OpToRel(<, Nat)
      BY <2>2
    <3>3. ~(j < i)
      BY <3>1, <3>2 DEF OpToRel
    <3> QED BY <3>1, <3>3
  <2> QED BY <2>3
<1>3. ActiveIndex \in DOMAIN nodes
  <2>1. CASE flagged = {}
    BY <2>1, <1>1 DEF ActiveIndex
  <2>2. CASE flagged # {}
    <3>1. ActiveIndex = CHOOSE i \in flagged : \A j \in flagged : i <= j
      BY <2>2 DEF ActiveIndex
    <3>2. ActiveIndex \in flagged
      BY <1>2, <2>2, <3>1
    <3> QED BY <3>2
  <2> QED BY <2>1, <2>2
<1>4. nodes[ActiveIndex] \in DOMAIN heap
  BY <1>3 DEF ListInv
<1> QED BY <1>3, <1>4 DEF BaseUrl, ListInv, Fields

\* A step that saves the list keeps what is saved in order.
LEMMA SavedKeeps ==
    ASSUME heap' \in [DOMAIN heap' -> Fields], DOMAIN DefaultUrls \subseteq DOMAIN heap',
           nodes' \in Seq(DOMAIN heap'), nodes' # <<>>, SaveNodes
    PROVE  ListInv'
<1>1. List' = storage'
  BY DEF SaveNodes, List
<1>2. DOMAIN nodes' = 1 .. Len(nodes') /\ Len(nodes') \in Nat /\ Len(nodes') # 0
  OBVIOUS
<1>3. \A i \in DOMAIN nodes' : heap'[nodes'[i]] \in Fields
  BY <1>2
<1>4. storage' = [i \in 1 .. Len(nodes') |-> heap'[nodes'[i]]]
  BY <1>2 DEF SaveNodes
<1>5. storage' \in Seq(Fields) /\ Len(storage') = Len(nodes')
  BY <1>2, <1>3, <1>4
<1>6. storage' # <<>>
  BY <1>2, <1>5
<1> QED BY <1>1, <1>5, <1>6 DEF ListInv

\* What the list of a page that has just been loaded holds.
LEMMA LoadedList ==
    ASSUME NEW list \in Seq(Fields)
    PROVE  /\ LoadedHeap(list) \in [DOMAIN LoadedHeap(list) -> Fields]
           /\ DOMAIN DefaultUrls \subseteq DOMAIN LoadedHeap(list)
           /\ LoadNodes(list) \in Seq(DOMAIN LoadedHeap(list)) /\ LoadNodes(list) # <<>>
           /\ [i \in DOMAIN LoadNodes(list) |-> LoadedHeap(list)[LoadNodes(list)[i]]]
                = IF list = <<>> THEN DefaultList ELSE list
<1> DEFINE L == Len(DefaultUrls)
           h == LoadedHeap(list)
<1>1. L \in Nat /\ L # 0 /\ DOMAIN DefaultUrls = 1 .. L /\ \A i \in 1 .. L : DefaultUrls[i] \in Url
  BY ClientAssumption
<1>2. Len(list) \in Nat /\ DOMAIN list = 1 .. Len(list) /\ \A i \in DOMAIN list : list[i] \in Fields
  OBVIOUS
<1>3. /\ DOMAIN h = 1 .. L + Len(list)
      /\ \A r \in 1 .. L : h[r] = Entry(DefaultUrls[r], r = 1)
      /\ \A i \in DOMAIN list : i + L \in DOMAIN h /\ h[i + L] = list[i]
  BY <1>1, <1>2 DEF LoadedHeap
<1>4. ASSUME NEW r \in DOMAIN h PROVE h[r] \in Fields
  <2>1. CASE r \in 1 .. L
    <3>1. (r = 1) \in BOOLEAN
      OBVIOUS
    <3>2. h[r] = Entry(DefaultUrls[r], r = 1) /\ DefaultUrls[r] \in Url
      BY <2>1, <1>1, <1>3
    <3> QED BY <3>1, <3>2, EntryType
  <2>2. CASE r \notin 1 .. L
    <3>1. r - L \in DOMAIN list /\ r = (r - L) + L
      BY <2>2, <1>1, <1>2, <1>3
    <3> QED BY <3>1, <1>2, <1>3
  <2> QED BY <2>1, <2>2
<1>5. h \in [DOMAIN h -> Fields]
  <2>1. h = [r \in DOMAIN h |-> h[r]]
    BY DEF LoadedHeap
  <2> HIDE DEF h
  <2> QED BY <2>1, <1>4
<1> HIDE DEF h
<1>6. CASE list = <<>>
  <2>1. LoadNodes(list) = [i \in 1 .. L |-> i]
    BY <1>1, <1>6 DEF LoadNodes, DEFAULT_NODES
  <2>2. [i \in 1 .. L |-> i] \in Seq(DOMAIN h) /\ [i \in 1 .. L |-> i] # <<>>
    BY <1>1, <1>2, <1>3
  <2>3. [i \in 1 .. L |-> h[[k \in 1 .. L |-> k][i]]] = DefaultList
    BY <1>1, <1>3 DEF DefaultList
  <2> QED BY <1>1, <1>2, <1>3, <1>5, <1>6, <2>1, <2>2, <2>3 DEF h
<1>7. CASE list # <<>>
  <2> DEFINE n == [i \in 1 .. Len(list) |-> i + L]
  <2>1. LoadNodes(list) = n
    BY <1>2, <1>7 DEF LoadNodes
  <2>2. n \in Seq(DOMAIN h) /\ n # <<>>
    BY <1>1, <1>2, <1>3, <1>7
  <2>3. [i \in DOMAIN n |-> h[n[i]]] = list
    BY <1>1, <1>2, <1>3
  <2> HIDE DEF n
  <2> QED BY <1>1, <1>2, <1>3, <1>5, <1>7, <2>1, <2>2, <2>3 DEF h
<1> QED BY <1>6, <1>7

\* A reload shows what was saved.
LEMMA ReloadKeeps ==
    ASSUME ListInv, Reload
    PROVE  ListInv' /\ List' = List
<1>1. storage \in Seq(Fields) /\ heap' = LoadedHeap(storage) /\ nodes' = LoadNodes(storage)
  BY DEF ListInv, Reload
<1>2. storage' = storage
  BY DEF Reload
<1>3. List' = IF storage = <<>> THEN DefaultList ELSE storage
  BY <1>1, LoadedList DEF List
<1> QED BY <1>1, <1>2, <1>3, LoadedList DEF ListInv

\* A list with one element less.
LEMMA WithoutOne ==
    ASSUME NEW S, NEW s \in Seq(S), Len(s) > 1, NEW i \in DOMAIN s
    PROVE  LET t == SubSeq(s, 1, i - 1) \o SubSeq(s, i + 1, Len(s))
           IN  t \in Seq(S) /\ t # <<>>
<1> DEFINE a == SubSeq(s, 1, i - 1)
           b == SubSeq(s, i + 1, Len(s))
<1>1. i \in 1 .. Len(s) /\ Len(s) \in Nat
  OBVIOUS
<1>2. a \in Seq(S) /\ Len(a) = i - 1
  BY <1>1
<1>3. b \in Seq(S) /\ Len(b) = Len(s) - i
  BY <1>1
<1> HIDE DEF a, b
<1>4. a \o b \in Seq(S) /\ Len(a \o b) = Len(s) - 1
  BY <1>1, <1>2, <1>3
<1>5. a \o b # <<>>
  BY <1>1, <1>4
<1> QED BY <1>4, <1>5 DEF a, b

\* The objects that are kept are those of DEFAULT_NODES and of the list.
LEMMA KeptObjects ==
    ASSUME ListInv, NEW n \in Seq(DOMAIN heap)
    PROVE  /\ Kept(n) \subseteq DOMAIN heap /\ DOMAIN DefaultUrls \subseteq Kept(n)
           /\ n \in Seq(Kept(n))
BY ElemsSeq DEF ListInv, Kept, Elems

LEMMA ActiveType ==
    ASSUME NEW f \in Fields, NEW active \in BOOLEAN
    PROVE  [f EXCEPT !.active = active] \in Fields
BY DEF Fields

LEMMA ListInvNext == ListInv /\ [Next]_vars => ListInv'
<1> SUFFICES ASSUME ListInv, [Next]_vars PROVE ListInv'
  OBVIOUS
<1>0. /\ \A r \in DOMAIN heap : heap[r] \in Fields
      /\ nodes \in Seq(DOMAIN heap) /\ nodes # <<>> /\ Len(nodes) \in Nat
      /\ \A i \in DOMAIN nodes : nodes[i] \in DOMAIN heap
  BY DEF ListInv
<1>1. ASSUME NEW i \in DOMAIN nodes, SetActiveNode(i) PROVE ListInv'
  <2>1. /\ nodes' = nodes /\ SaveNodes
        /\ heap' = [r \in DOMAIN heap |-> IF r \in Elems(nodes)
                      THEN [heap[r] EXCEPT !.active = (r = nodes[i])] ELSE heap[r]]
    BY <1>1 DEF SetActiveNode
  <2>2. ASSUME NEW r \in DOMAIN heap PROVE heap'[r] \in Fields
    <3>1. (r = nodes[i]) \in BOOLEAN
      OBVIOUS
    <3> QED BY <1>0, <2>1, <3>1, ActiveType
  <2>3. DOMAIN heap' = DOMAIN heap /\ heap' \in [DOMAIN heap' -> Fields]
    BY <2>1, <2>2
  <2> QED BY <1>0, <2>1, <2>3, SavedKeeps DEF ListInv
<1>2. ASSUME NEW i \in DOMAIN nodes, RemoveNode(i) PROVE ListInv'
  <2>1. nodes' \in Seq(DOMAIN heap) /\ nodes' # <<>>
    BY <1>0, <1>2, WithoutOne DEF RemoveNode
  <2>2. /\ SaveNodes
        /\ heap' = [r \in Kept(nodes') |-> IF heap[nodes[i]].active /\ r = nodes'[1]
                      THEN [heap[r] EXCEPT !.active = TRUE] ELSE heap[r]]
    BY <1>2 DEF RemoveNode
  <2>3. /\ Kept(nodes') \subseteq DOMAIN heap /\ DOMAIN DefaultUrls \subseteq Kept(nodes')
        /\ nodes' \in Seq(Kept(nodes'))
    BY <2>1, KeptObjects
  <2>4. ASSUME NEW r \in Kept(nodes') PROVE heap'[r] \in Fields
    BY <1>0, <2>2, <2>3, ActiveType
  <2>5. DOMAIN heap' = Kept(nodes') /\ heap' \in [DOMAIN heap' -> Fields]
    BY <2>2, <2>4
  <2> QED BY <2>1, <2>2, <2>3, <2>5, SavedKeeps
<1>3. ASSUME NEW url \in Typed, AddNode(url) PROVE ListInv'
  <2>1. /\ nodes' = Append(nodes, Fresh) /\ SaveNodes
        /\ heap' = [r \in DOMAIN heap \cup {Fresh} |->
                      IF r = Fresh THEN Entry(url, FALSE) ELSE heap[r]]
    BY <1>3 DEF AddNode
  <2>2. Entry(url, FALSE) \in Fields
    BY ClientAssumption, EntryType
  <2>3. ASSUME NEW r \in DOMAIN heap \cup {Fresh} PROVE heap'[r] \in Fields
    BY <1>0, <2>1, <2>2
  <2>4. DOMAIN heap' = DOMAIN heap \cup {Fresh} /\ heap' \in [DOMAIN heap' -> Fields]
    BY <2>1, <2>3
  <2> DEFINE fresh == Fresh
  <2>5. nodes' = Append(nodes, fresh)
    BY <2>1
  <2>6. nodes \in Seq(DOMAIN heap') /\ fresh \in DOMAIN heap'
    BY <1>0, <2>4
  <2> HIDE DEF fresh
  <2>7. nodes' \in Seq(DOMAIN heap') /\ nodes' # <<>>
    BY <1>0, <2>5, <2>6
  <2> QED BY <2>1, <2>4, <2>7, SavedKeeps DEF ListInv
<1>4. ASSUME NEW i \in DOMAIN nodes, NEW url \in Url, EditNode(i, url) PROVE ListInv'
  <2>1. nodes' = nodes /\ SaveNodes /\ heap' = [heap EXCEPT ![nodes[i]].url = url]
    BY <1>4 DEF EditNode
  <2>2. [heap[nodes[i]] EXCEPT !.url = url] \in Fields
    BY <1>0 DEF Fields
  <2>3. DOMAIN heap' = DOMAIN heap /\ heap' \in [DOMAIN heap' -> Fields]
    BY <1>0, <2>1, <2>2 DEF ListInv
  <2> QED BY <1>0, <2>1, <2>3, SavedKeeps DEF ListInv
<1>5. CASE ResetToDefaults
  <2>1. DEFAULT_NODES \in Seq(DOMAIN heap) /\ DEFAULT_NODES # <<>>
    <3>1. Len(DefaultUrls) \in Nat /\ Len(DefaultUrls) # 0
      BY ClientAssumption
    <3>2. DOMAIN DefaultUrls = 1 .. Len(DefaultUrls)
      BY ClientAssumption
    <3>3. DEFAULT_NODES = [i \in 1 .. Len(DefaultUrls) |-> i] /\ 1 .. Len(DefaultUrls) \subseteq DOMAIN heap
      BY <3>2 DEF DEFAULT_NODES, ListInv
    <3> QED BY <3>1, <3>3
  <2>2. nodes' = DEFAULT_NODES /\ SaveNodes /\ heap' = [r \in Kept(nodes') |-> heap[r]]
    BY <1>5 DEF ResetToDefaults
  <2>3. /\ Kept(nodes') \subseteq DOMAIN heap /\ DOMAIN DefaultUrls \subseteq Kept(nodes')
        /\ nodes' \in Seq(Kept(nodes'))
    BY <2>1, <2>2, KeptObjects
  <2>4. DOMAIN heap' = Kept(nodes') /\ heap' \in [DOMAIN heap' -> Fields]
    BY <1>0, <2>2, <2>3
  <2> QED BY <2>1, <2>2, <2>3, <2>4, SavedKeeps
<1>6. CASE Reload
  BY <1>6, ReloadKeeps
<1>7. CASE UNCHANGED listVars
  BY <1>7 DEF listVars, ListInv, List
<1>8. CASE Poll \/ \E url \in Url : Resolve(url)
  BY <1>7, <1>8 DEF Poll, Resolve
<1>9. CASE Post \/ DirectPost
  BY <1>7, <1>9 DEF Post, DirectPost, AxiosAnswered, AxiosRejects, AxiosNetworkError,
                    FallbackAnswered, FallbackFails, FetchEnds, Return, Retry
<1>10. ASSUME NEW s \in sends, NEW fate, Settle(s, fate) PROVE ListInv'
  BY <1>7, <1>10 DEF Settle
<1>11. \A i \in DOMAIN nodes : Typed \cup {heap[nodes[i]].url} \subseteq Url
  BY <1>0, ClientAssumption DEF Fields
<1> QED BY <1>1, <1>2, <1>3, <1>4, <1>5, <1>6, <1>7, <1>8, <1>9, <1>10, <1>11
        DEF Next, ListStep, vars

LEMMA InitList == Init => ListInv
<1> SUFFICES ASSUME Init PROVE ListInv
  OBVIOUS
<1>1. <<>> \in Seq(Fields) /\ storage = <<>> /\ heap = LoadedHeap(<<>>) /\ nodes = LoadNodes(<<>>)
  BY DEF Init
<1> QED BY <1>1, LoadedList DEF ListInv, List

\* A reload shows the list, and the selected node, that the user left: every
\* operation of NodeConnectionManager that changes the list saves it, and a list
\* that was never changed is the default one.
THEOREM ReloadShowsTheList == Spec => ReloadKeepsList
<1>1. ListInv /\ [Next]_vars => [Reload => List' = List]_vars
  BY ReloadKeeps
<1> QED BY <1>1, InitList, ListInvNext, PTL DEF Spec, ReloadKeepsList

-----------------------------------------------------------------------------
(* The objects of the list, and the types *)

Fates == {"under way", "done", "refused", "lost"}
Requests == [click : 1 .. MaxClicks, try : Nat, url : Url, fate : Fates]

\* No object is twice in a list.
Once(list) == \A i, j \in DOMAIN list : list[i] = list[j] => i = j

\* The page refers to the objects of DEFAULT_NODES and of its list, and to no
\* others.
ObjectsInv ==
    /\ DOMAIN heap = Kept(nodes)
    /\ nodes \in Seq(Ref) /\ Len(nodes) <= MaxNodes
    /\ Once(nodes)

TypesInv ==
    /\ clicked \in Seq(Url) /\ Len(clicked) <= MaxClicks
    /\ sends \subseteq Requests
    /\ polls \subseteq Url
    /\ shown \in Url \cup {Mock}

LEMMA UpTo ==
    ASSUME NEW n \in Nat
    PROVE  IsFiniteSet(1 .. n) /\ Cardinality(1 .. n) = n
BY FS_Interval

\* A list without repetitions is as long as it has elements.
LEMMA OnceCounts ==
    ASSUME NEW S, NEW s \in Seq(S)
    PROVE  /\ IsFiniteSet(Elems(s)) /\ Cardinality(Elems(s)) <= Len(s)
           /\ Once(s) => Cardinality(Elems(s)) = Len(s)
<1> DEFINE D == 1 .. Len(s)
<1>1. IsFiniteSet(D) /\ Cardinality(D) = Len(s)
  <2>1. Len(s) \in Nat
    OBVIOUS
  <2> QED BY <2>1, UpTo
<1>2. s \in [D -> Elems(s)] /\ \A x \in Elems(s) : \E i \in D : s[i] = x
  BY DEF Elems
<1>3. s \in Surjection(D, Elems(s))
  BY <1>2 DEF Surjection
<1>4. Once(s) => s \in Injection(D, Elems(s))
  BY <1>2 DEF Injection, IsInjective, Once
<1> HIDE DEF D
<1> QED BY <1>1, <1>3, <1>4, FS_Surjection

\* Two lists, one after the other.
LEMMA Joined ==
    ASSUME NEW S, NEW a \in Seq(S), NEW b \in Seq(S)
    PROVE  /\ a \o b \in Seq(S) /\ Len(a \o b) = Len(a) + Len(b)
           /\ DOMAIN (a \o b) = 1 .. Len(a) + Len(b)
           /\ \A k \in 1 .. Len(a) + Len(b) : (a \o b)[k] = IF k <= Len(a) THEN a[k] ELSE b[k - Len(a)]
OBVIOUS

\* A list that loses an element.
LEMMA OnceWithout ==
    ASSUME NEW S, NEW s \in Seq(S), Once(s), NEW i \in DOMAIN s
    PROVE  LET t == SubSeq(s, 1, i - 1) \o SubSeq(s, i + 1, Len(s))
           IN  t \in Seq(S) /\ Once(t) /\ Len(t) <= Len(s)
<1> DEFINE a == SubSeq(s, 1, i - 1)
           b == SubSeq(s, i + 1, Len(s))
           t == a \o b
           from(k) == IF k < i THEN k ELSE k + 1
<1>1. i \in 1 .. Len(s) /\ Len(s) \in Nat
  OBVIOUS
<1>2. a \in Seq(S) /\ Len(a) = i - 1 /\ \A k \in 1 .. i - 1 : a[k] = s[k]
  BY <1>1
<1>3. b \in Seq(S) /\ Len(b) = Len(s) - i /\ \A k \in 1 .. Len(s) - i : b[k] = s[k + i]
  BY <1>1
<1> HIDE DEF a, b
<1>4. /\ t \in Seq(S) /\ Len(t) = Len(s) - 1 /\ DOMAIN t = 1 .. Len(s) - 1
      /\ \A k \in 1 .. Len(s) - 1 : t[k] = IF k < i THEN a[k] ELSE b[k - (i - 1)]
  <2>1. t \in Seq(S) /\ Len(t) = Len(a) + Len(b) /\ DOMAIN t = 1 .. Len(t)
    BY <1>2, <1>3, Joined
  <2>2. Len(t) = Len(s) - 1
    BY <1>1, <1>2, <1>3, <2>1
  <2>3. \A k \in 1 .. Len(a) + Len(b) : t[k] = IF k <= Len(a) THEN a[k] ELSE b[k - Len(a)]
    BY <1>2, <1>3, Joined
  <2>4. ASSUME NEW k \in 1 .. Len(s) - 1 PROVE t[k] = IF k < i THEN a[k] ELSE b[k - (i - 1)]
    <3>1. k \in 1 .. Len(a) + Len(b) /\ (k <= Len(a) <=> k < i)
      BY <1>1, <1>2, <1>3
    <3> QED BY <1>2, <2>3, <3>1
  <2> HIDE DEF t
  <2> QED BY <2>1, <2>2, <2>4
<1>5. ASSUME NEW k \in 1 .. Len(s) - 1 PROVE t[k] = s[from(k)] /\ from(k) \in DOMAIN s
  <2>1. CASE k < i
    BY <1>1, <1>2, <1>4, <2>1
  <2>2. CASE ~(k < i)
    <3>1. k - (i - 1) \in 1 .. Len(s) - i /\ (k - (i - 1)) + i = k + 1
      BY <1>1, <2>2
    <3>2. t[k] = b[k - (i - 1)] /\ b[k - (i - 1)] = s[k + 1]
      BY <1>3, <1>4, <2>2, <3>1
    <3>3. from(k) = k + 1 /\ k + 1 \in DOMAIN s
      BY <1>1, <2>2
    <3> QED BY <3>2, <3>3
  <2> QED BY <2>1, <2>2
<1>6. \A k, l \in 1 .. Len(s) - 1 : from(k) = from(l) => k = l
  BY <1>1
<1> HIDE DEF t, from
<1>7. Once(t)
  <2>1. ASSUME NEW k \in DOMAIN t, NEW l \in DOMAIN t, t[k] = t[l] PROVE k = l
    <3>1. k \in 1 .. Len(s) - 1 /\ l \in 1 .. Len(s) - 1
      BY <1>4
    <3>2. s[from(k)] = s[from(l)] /\ from(k) \in DOMAIN s /\ from(l) \in DOMAIN s
      BY <1>5, <2>1, <3>1
    <3>3. from(k) = from(l)
      BY <3>2 DEF Once
    <3> QED BY <1>6, <3>1, <3>3
  <2> QED BY <2>1 DEF Once
<1>8. Len(t) <= Len(s)
  BY <1>1, <1>4
<1> QED BY <1>4, <1>7, <1>8 DEF t, a, b

\* While the list is not full there is a name for one more object.
LEMMA FreshObject ==
    ASSUME ObjectsInv, Len(nodes) < MaxNodes
    PROVE  Fresh \in Ref /\ Fresh \notin DOMAIN heap
<1> DEFINE L == Len(DefaultUrls)
           free == Ref \ DOMAIN heap
<1>1. L \in Nat /\ MaxNodes \in Nat /\ Len(nodes) \in Nat /\ DOMAIN DefaultUrls = 1 .. L
  BY ClientAssumption DEF ObjectsInv
<1>2. IsFiniteSet(Ref) /\ Cardinality(Ref) = L + MaxNodes
  <2>1. L + MaxNodes \in Nat
    BY <1>1
  <2> QED BY <2>1, FS_Interval DEF Ref
<1>3. IsFiniteSet(DOMAIN heap) /\ Cardinality(DOMAIN heap) <= L + Len(nodes)
  <2>1. IsFiniteSet(1 .. L) /\ Cardinality(1 .. L) = L
    <3>1. L \in Nat
      BY <1>1
    <3> HIDE DEF L
    <3> QED BY <3>1, UpTo
  <2>2. IsFiniteSet(Elems(nodes)) /\ Cardinality(Elems(nodes)) <= Len(nodes)
    BY OnceCounts DEF ObjectsInv
  <2>3. DOMAIN heap = (1 .. L) \cup Elems(nodes)
    BY <1>1 DEF ObjectsInv, Kept
  <2>4. /\ IsFiniteSet((1 .. L) \cup Elems(nodes))
        /\ Cardinality((1 .. L) \cup Elems(nodes))
             = Cardinality(1 .. L) + Cardinality(Elems(nodes)) - Cardinality((1 .. L) \cap Elems(nodes))
    BY <2>1, <2>2, FS_Union
  <2>5. Cardinality((1 .. L) \cap Elems(nodes)) \in Nat /\ Cardinality(Elems(nodes)) \in Nat
    BY <2>1, <2>2, FS_Intersection, FS_CardinalityType
  <2> QED BY <1>1, <2>1, <2>2, <2>3, <2>4, <2>5
<1>4. free # {}
  <2>1. CASE free = {}
    <3>1. Ref \in SUBSET DOMAIN heap
      BY <2>1
    <3>2. Cardinality(Ref) <= Cardinality(DOMAIN heap)
      BY <1>3, <3>1, FS_Subset
    <3>3. Cardinality(DOMAIN heap) \in Nat
      BY <1>3, FS_CardinalityType
    <3> QED BY <1>1, <1>2, <1>3, <3>2, <3>3
  <2> QED BY <2>1
<1>5. free \subseteq Nat
  BY DEF Ref
<1>6. PICK r \in free : \A q \in free : <<q, r>> \notin OpToRel(<, Nat)
  <2> HIDE DEF free
  <2> QED BY <1>4, <1>5, NatLessThanWellFounded, WFMin
<1>7. ASSUME NEW q \in Ref, q < r PROVE q \in DOMAIN heap
  BY <1>5, <1>6, <1>7 DEF OpToRel
<1>8. \E f \in Ref : f \notin DOMAIN heap /\ \A q \in Ref : q < f => q \in DOMAIN heap
  BY <1>6, <1>7
<1> QED BY <1>8 DEF Fresh

\* The objects of a page that has just been loaded.
LEMMA LoadedObjects ==
    ASSUME NEW list \in Seq(Fields), Len(list) <= MaxNodes
    PROVE  /\ DOMAIN LoadedHeap(list) = Kept(LoadNodes(list))
           /\ LoadNodes(list) \in Seq(Ref) /\ Len(LoadNodes(list)) <= MaxNodes
           /\ Once(LoadNodes(list))
<1> DEFINE L == Len(DefaultUrls)
<1>0. L \in Nat \ {0} /\ MaxNodes \in Nat /\ L <= MaxNodes /\ DOMAIN DefaultUrls = 1 .. L
  BY ClientAssumption
<1>1. Len(list) \in Nat /\ DOMAIN list = 1 .. Len(list)
  OBVIOUS
<1>2. DOMAIN LoadedHeap(list) = 1 .. L + Len(list)
  BY DEF LoadedHeap
<1>3. CASE list = <<>>
  <2> DEFINE n == [i \in 1 .. L |-> i]
  <2>1. LoadNodes(list) = n /\ Len(list) = 0
    BY <1>0, <1>3 DEF LoadNodes, DEFAULT_NODES
  <2>2. \A i \in 1 .. L : i \in Ref
    BY <1>0 DEF Ref
  <2>3. n \in Seq(Ref) /\ Len(n) = L /\ Once(n) /\ Elems(n) = 1 .. L
    BY <1>0, <2>2 DEF Once, Elems
  <2>4. 1 .. L + Len(list) = Kept(n)
    BY <1>0, <2>1, <2>3 DEF Kept
  <2> HIDE DEF n
  <2> QED BY <1>0, <1>2, <2>1, <2>3, <2>4
<1>4. CASE list # <<>>
  <2> DEFINE n == [i \in 1 .. Len(list) |-> i + L]
  <2>1. LoadNodes(list) = n
    BY <1>1, <1>4 DEF LoadNodes
  <2>2. \A i \in 1 .. Len(list) : i + L \in Ref
    BY <1>0, <1>1 DEF Ref
  <2>3. n \in Seq(Ref) /\ Len(n) = Len(list)
    BY <1>1, <2>2
  <2>4. Once(n)
    BY <1>0, <1>1 DEF Once
  <2>5. 1 .. L + Len(list) = Kept(n)
    <3>1. ASSUME NEW r \in 1 .. L + Len(list) PROVE r \in Kept(n)
      <4>1. CASE r \in 1 .. L
        BY <1>0, <4>1 DEF Kept
      <4>2. CASE r \notin 1 .. L
        <5>1. r - L \in 1 .. Len(list) /\ (r - L) + L = r
          BY <1>0, <1>1, <4>2
        <5> QED BY <1>1, <5>1 DEF Kept, Elems
      <4> QED BY <4>1, <4>2
    <3>2. ASSUME NEW r \in Kept(n) PROVE r \in 1 .. L + Len(list)
      <4>1. CASE r \in 1 .. L
        BY <1>0, <1>1, <4>1
      <4>2. CASE r \notin 1 .. L
        <5>1. PICK i \in 1 .. Len(list) : r = i + L
          BY <1>0, <1>1, <4>2 DEF Kept, Elems
        <5> QED BY <1>0, <1>1, <5>1
      <4> QED BY <4>1, <4>2
    <3> QED BY <3>1, <3>2
  <2> HIDE DEF n
  <2> QED BY <1>2, <2>1, <2>3, <2>4, <2>5
<1> QED BY <1>3, <1>4

LEMMA ObjectsInvNext == ListInv /\ ObjectsInv /\ [Next]_vars => ObjectsInv'
<1> SUFFICES ASSUME ListInv, ObjectsInv, [Next]_vars PROVE ObjectsInv'
  OBVIOUS
<1> DEFINE L == Len(DefaultUrls)
<1>0. L \in Nat \ {0} /\ MaxNodes \in Nat /\ L <= MaxNodes /\ DOMAIN DefaultUrls = 1 .. L
  BY ClientAssumption
<1>1. CASE nodes' = nodes /\ DOMAIN heap' = DOMAIN heap
  BY <1>1 DEF ObjectsInv
<1>2. ASSUME NEW i \in DOMAIN nodes, RemoveNode(i) PROVE ObjectsInv'
  <2>1. /\ nodes' = SubSeq(nodes, 1, i - 1) \o SubSeq(nodes, i + 1, Len(nodes))
        /\ DOMAIN heap' = Kept(nodes')
    BY <1>2 DEF RemoveNode
  <2>2. nodes' \in Seq(Ref) /\ Once(nodes') /\ Len(nodes') <= Len(nodes)
    BY <2>1, OnceWithout DEF ObjectsInv
  <2>3. Len(nodes') <= MaxNodes
    BY <1>0, <2>2 DEF ObjectsInv
  <2> QED BY <2>1, <2>2, <2>3 DEF ObjectsInv
<1>3. ASSUME NEW url \in Typed, AddNode(url) PROVE ObjectsInv'
  <2> DEFINE f == Fresh
  <2>1. Len(nodes) < MaxNodes /\ nodes' = Append(nodes, f) /\ DOMAIN heap' = DOMAIN heap \cup {f}
    BY <1>3 DEF AddNode
  <2>2. f \in Ref /\ f \notin DOMAIN heap
    BY <2>1, FreshObject
  <2> HIDE DEF f
  <2>3. nodes \in Seq(Ref) /\ Len(nodes) \in Nat
    BY DEF ObjectsInv
  <2>4. /\ nodes' \in Seq(Ref) /\ Len(nodes') = Len(nodes) + 1 /\ DOMAIN nodes' = 1 .. Len(nodes) + 1
        /\ \A k \in 1 .. Len(nodes) : nodes'[k] = nodes[k]
        /\ nodes'[Len(nodes) + 1] = f
    BY <2>1, <2>2, <2>3
  <2>5. Len(nodes') <= MaxNodes
    BY <1>0, <2>1, <2>3, <2>4
  <2>6. Elems(nodes') = Elems(nodes) \cup {f}
    <3>1. ASSUME NEW k \in DOMAIN nodes' PROVE nodes'[k] \in Elems(nodes) \cup {f}
      <4>1. k \in 1 .. Len(nodes) \/ k = Len(nodes) + 1
        BY <2>3, <2>4
      <4> QED BY <2>3, <2>4, <4>1 DEF Elems
    <3>2. ASSUME NEW k \in DOMAIN nodes PROVE nodes[k] \in Elems(nodes')
      BY <2>3, <2>4 DEF Elems
    <3>3. f \in Elems(nodes')
      BY <2>3, <2>4 DEF Elems
    <3> QED BY <3>1, <3>2, <3>3 DEF Elems
  <2>7. DOMAIN heap' = Kept(nodes')
    BY <2>1, <2>6 DEF ObjectsInv, Kept
  <2>8. \A k \in 1 .. Len(nodes) : nodes[k] # f
    BY <2>2, <2>3 DEF ObjectsInv, Kept, Elems
  <2>9. Once(nodes')
    <3>1. \A k \in DOMAIN nodes' : k \in 1 .. Len(nodes) \/ k = Len(nodes) + 1
      BY <2>3, <2>4
    <3> QED BY <2>3, <2>4, <2>8, <3>1 DEF ObjectsInv, Once
  <2> QED BY <2>4, <2>5, <2>7, <2>9 DEF ObjectsInv
<1>4. CASE ResetToDefaults
  <2>1. nodes' = [i \in 1 .. L |-> i] /\ DOMAIN heap' = Kept(nodes')
    BY <1>0, <1>4 DEF ResetToDefaults, DEFAULT_NODES
  <2>2. nodes' \in Seq(Ref) /\ Len(nodes') = L /\ Once(nodes')
    <3>1. \A i \in 1 .. L : i \in Ref
      BY <1>0 DEF Ref
    <3> QED BY <1>0, <2>1, <3>1 DEF Once
  <2> QED BY <1>0, <2>1, <2>2 DEF ObjectsInv
<1>5. CASE Reload
  <2>1. storage \in Seq(Fields) /\ heap' = LoadedHeap(storage) /\ nodes' = LoadNodes(storage)
    BY <1>5 DEF ListInv, Reload
  <2>2. Len(storage) <= MaxNodes
    <3>1. CASE storage = <<>>
      BY <1>0, <3>1
    <3>2. CASE storage # <<>>
      <4>1. storage = [i \in 1 .. Len(nodes) |-> heap[nodes[i]]] /\ Len(nodes) \in Nat
        BY <3>2 DEF ListInv, List
      <4>2. Len(storage) = Len(nodes)
        BY <2>1, <4>1
      <4> QED BY <4>2 DEF ObjectsInv
    <3> QED BY <3>1, <3>2
  <2> QED BY <2>1, <2>2, LoadedObjects DEF ObjectsInv
<1>6. ASSUME NEW i \in DOMAIN nodes, SetActiveNode(i) PROVE ObjectsInv'
  BY <1>1, <1>6 DEF SetActiveNode
<1>7. ASSUME NEW i \in DOMAIN nodes, NEW url, EditNode(i, url) PROVE ObjectsInv'
  <2>1. nodes' = nodes /\ heap' = [heap EXCEPT ![nodes[i]].url = url]
    BY <1>7 DEF EditNode
  <2> QED BY <1>1, <2>1
<1>8. CASE UNCHANGED listVars
  BY <1>1, <1>8 DEF listVars
<1>9. CASE Poll \/ Post \/ DirectPost \/ \E url \in Url : Resolve(url)
  BY <1>8, <1>9 DEF Poll, Resolve, Post, DirectPost, AxiosAnswered, AxiosRejects, AxiosNetworkError,
                    FallbackAnswered, FallbackFails, FetchEnds, Return, Retry
<1>10. ASSUME NEW s \in sends, NEW fate, Settle(s, fate) PROVE ObjectsInv'
  BY <1>8, <1>10 DEF Settle
<1> QED BY <1>2, <1>3, <1>4, <1>5, <1>6, <1>7, <1>8, <1>9, <1>10 DEF Next, ListStep, vars

LEMMA RetryTypes ==
    ASSUME TypesInv, ClickInv, TryInv, phase # "idle", NEW n \in {1, 2}, Numbers(Click) = 1 .. n,
           NEW to, Retry(to)
    PROVE  TypesInv'
<1>1. Cardinality(Tries) = n
  <2>1. Tries = SendsOf(Click) /\ {s.try : s \in Tries} = 1 .. n
    BY DEF Tries, SendsOf, Numbers
  <2> QED BY <2>1, AtMostNumbers DEF TryInv
<1>2. Click \in 1 .. MaxClicks /\ clicked[Click] \in Url
  BY ClientAssumption DEF ClickInv, TypesInv, Click
<1>3. n + 1 \in Nat /\ "under way" \in Fates
  BY DEF Fates
<1>4. Send(n + 1, clicked[Click]) \in Requests
  BY <1>2, <1>3 DEF Send, Requests
<1>5. sends' = sends \cup {Send(n + 1, clicked[Click])} /\ UNCHANGED <<clicked, polls, shown>>
  BY <1>1 DEF Retry, pageVars
<1> QED BY <1>4, <1>5 DEF TypesInv

LEMMA TypesInvNext == ClickInv /\ TryInv /\ ListInv /\ TypesInv /\ [Next]_vars => TypesInv'
<1> SUFFICES ASSUME ClickInv, TryInv, ListInv, TypesInv, [Next]_vars PROVE TypesInv'
  OBVIOUS
<1>1. CASE UNCHANGED <<clicked, sends, polls, shown>>
  BY <1>1 DEF TypesInv
<1>2. CASE ListStep
  <2>1. CASE Reload
    BY <2>1 DEF Reload, TypesInv
  <2>2. CASE ~Reload
    BY <1>1, <1>2, <2>2 DEF ListStep, SetActiveNode, RemoveNode, AddNode, EditNode,
                            ResetToDefaults, postVars, pageVars
  <2> QED BY <2>1, <2>2
<1>3. CASE Post
  <2> DEFINE url == BaseUrl
             q == [click |-> Click + 1, try |-> 1, url |-> url, fate |-> "under way"]
  <2>1. url \in Url
    BY ActiveIndexType
  <2>2. Click < MaxClicks /\ clicked' = Append(clicked, url) /\ sends' = sends \cup {q}
        /\ polls' = polls /\ shown' = shown
    BY <1>3 DEF Post, pageVars
  <2> HIDE DEF url
  <2>3. Len(clicked) \in Nat /\ MaxClicks \in Nat /\ Len(clicked) < MaxClicks
    <3>1. Len(clicked) \in Nat
      BY DEF TypesInv
    <3>2. MaxClicks \in Nat
      BY ClientAssumption
    <3> QED BY <2>2, <3>1, <3>2 DEF Click
  <2>4. clicked' \in Seq(Url) /\ Len(clicked') <= MaxClicks
    <3>1. clicked \in Seq(Url)
      BY DEF TypesInv
    <3>2. Append(clicked, url) \in Seq(Url) /\ Len(Append(clicked, url)) = Len(clicked) + 1
      BY <2>1, <3>1
    <3>3. clicked' = Append(clicked, url)
      BY <2>2
    <3>4. Len(clicked) + 1 <= MaxClicks
      BY <2>3
    <3> QED BY <3>2, <3>3, <3>4
  <2>5. Click + 1 \in 1 .. MaxClicks /\ 1 \in Nat /\ "under way" \in Fates
    BY <2>3 DEF Click, Fates
  <2>6. q \in Requests
    BY <2>1, <2>5 DEF Requests
  <2> HIDE DEF q
  <2> QED BY <2>2, <2>4, <2>6 DEF TypesInv
<1>4. CASE AxiosAnswered \/ FallbackAnswered \/ FetchEnds
  BY <1>1, <1>4 DEF AxiosAnswered, FallbackAnswered, FetchEnds, Return, pageVars
<1>5. CASE AxiosRejects \/ AxiosNetworkError \/ FallbackFails
  <2>1. PICK n \in {1, 2}, to \in {"fetch", "fallback"} :
           Numbers(Click) = 1 .. n /\ Retry(to) /\ phase # "idle"
    BY <1>5 DEF AxiosRejects, AxiosNetworkError, FallbackFails, TryInv
  <2> QED BY <2>1, RetryTypes
<1>6. ASSUME NEW s \in sends, NEW fate \in {"done", "refused", "lost"}, Settle(s, fate)
      PROVE  TypesInv'
  <2>1. [s EXCEPT !.fate = fate] \in Requests
    BY DEF TypesInv, Requests, Fates
  <2>2. sends' = (sends \ {s}) \cup {[s EXCEPT !.fate = fate]} /\ UNCHANGED <<clicked, polls, shown>>
    BY <1>6 DEF Settle, pageVars
  <2> QED BY <2>1, <2>2 DEF TypesInv
<1>7. CASE Poll
  BY <1>7, ActiveIndexType DEF Poll, postVars, TypesInv
<1>8. ASSUME NEW url \in Url, Resolve(url) PROVE TypesInv'
  BY <1>8 DEF Resolve, postVars, TypesInv
<1>9. CASE UNCHANGED vars
  BY <1>1, <1>9 DEF vars, postVars, pageVars
<1> QED BY <1>2, <1>3, <1>4, <1>5, <1>6, <1>7, <1>8, <1>9 DEF Next, DirectPost

LEMMA InitObjects == Init => ObjectsInv /\ TypesInv
<1> SUFFICES ASSUME Init PROVE ObjectsInv /\ TypesInv
  OBVIOUS
<1>1. <<>> \in Seq(Fields) /\ <<>> \in Seq(Url) /\ Len(<<>>) = 0 /\ MaxNodes \in Nat /\ MaxClicks \in Nat
  BY ClientAssumption
<1>2. heap = LoadedHeap(<<>>) /\ nodes = LoadNodes(<<>>)
  BY DEF Init
<1>3. ObjectsInv
  <2>1. Len(<<>>) <= MaxNodes
    BY <1>1
  <2>2. /\ DOMAIN LoadedHeap(<<>>) = Kept(LoadNodes(<<>>))
        /\ LoadNodes(<<>>) \in Seq(Ref) /\ Len(LoadNodes(<<>>)) <= MaxNodes
        /\ Once(LoadNodes(<<>>))
    BY <1>1, <2>1, LoadedObjects
  <2> QED BY <1>2, <2>2 DEF ObjectsInv
<1>4. TypesInv
  BY <1>1 DEF Init, TypesInv
<1> QED BY <1>3, <1>4

\* The variables keep their types; the list of nodes is never empty, no object
\* is in it twice, and the page refers to no objects but those of the list and
\* of DEFAULT_NODES, however NodeConnectionManager's operations and reloads
\* follow each other.
THEOREM ClientTypeCorrect == Spec => []ClientTypeOK
<1>1. ListInv /\ TryInv /\ ObjectsInv /\ TypesInv => ClientTypeOK
  <2> SUFFICES ASSUME ListInv, TryInv, ObjectsInv, TypesInv PROVE ClientTypeOK
    OBVIOUS
  <2>1. heap \in [Kept(nodes) -> [url : Url, active : BOOLEAN]] /\ nodes # <<>>
        /\ storage \in Seq([url : Url, active : BOOLEAN])
    BY DEF ListInv, ObjectsInv, Fields
  <2>2. nodes \in Seq(Ref) /\ Cardinality(Elems(nodes)) = Len(nodes)
    BY OnceCounts DEF ObjectsInv
  <2>3. /\ clicked \in Seq(Url) /\ polls \subseteq Url /\ shown \in Url \cup {Mock}
        /\ sends \subseteq [click : 1 .. MaxClicks, try : Nat, url : Url,
                            fate : {"under way", "done", "refused", "lost"}]
    BY DEF TypesInv, Requests, Fates
  <2>4. phase \in {"idle", "axios", "fallback", "fetch"}
    BY DEF TryInv
  <2> QED BY <2>1, <2>2, <2>3, <2>4 DEF ClientTypeOK
<1>2. ClickInv /\ TryInv /\ ListInv /\ ObjectsInv /\ TypesInv /\ [Next]_vars
        => (ClickInv /\ TryInv /\ ListInv /\ ObjectsInv /\ TypesInv)'
  BY ClickInvNext, TryInvNext, ListInvNext, ObjectsInvNext, TypesInvNext
<1> QED BY <1>1, <1>2, InitTry, InitList, InitObjects, PTL DEF Spec

-----------------------------------------------------------------------------
(* directPost implements Posting.tla *)

\* A step that makes no request: at most the page stops waiting.
LEMMA QuietRefines ==
    ASSUME UNCHANGED <<clicked, sends>>, phase' \in {phase, "idle"}
    PROVE  [Posts!PostingNext]_Posts!postingVars
<1>1. Sent' = Sent /\ Carried' = Carried
  BY DEF Sent, Carried
<1>2. CASE phase' = phase
  BY <1>1, <1>2 DEF Posts!postingVars
<1>3. CASE phase' = "idle"
  BY <1>1, <1>3 DEF Posts!PostingNext, Posts!Answer
<1> QED BY <1>2, <1>3

\* The button is pressed.
LEMMA PostRefines ==
    ASSUME ClickInv, ListInv, Post
    PROVE  Posts!Press(BaseUrl) /\ BaseUrl \in Url
<1> DEFINE q == [click |-> Click + 1, try |-> 1, url |-> BaseUrl, fate |-> "under way"]
<1>1. sends' = sends \cup {q} /\ phase = "idle" /\ phase' = "axios"
  BY DEF Post
<1>2. q.click = Len(clicked) + 1 /\ q.try = 1 /\ q.url = BaseUrl /\ q.fate = "under way"
  BY DEF Click
<1> HIDE DEF q
<1>3. Sent' = Sent \cup {<<Len(clicked) + 1, 1, BaseUrl>>}
  BY <1>1, <1>2 DEF Sent
<1>4. Carried' = Carried
  BY <1>1, <1>2 DEF Carried
<1>5. clicked' = Append(clicked, BaseUrl)
  BY DEF Post
<1> QED BY <1>1, <1>3, <1>4, <1>5, ActiveIndexType DEF Posts!Press

\* The POST is sent again: to the same address, under a number of its own.
LEMMA RetryRefines ==
    ASSUME ClickInv, TryInv, NEW n \in {1, 2}, Numbers(Click) = 1 .. n, phase # "idle",
           NEW to \in {"fetch", "fallback"}, to = "fetch" \/ n = 1, Retry(to)
    PROVE  Posts!SendAgain(n + 1)
<1>1. n + 1 \notin Numbers(Click)
  BY TryRetry
<1>2. Cardinality(Tries) = n
  <2>1. Tries = SendsOf(Click) /\ {s.try : s \in Tries} = 1 .. n
    BY DEF Tries, SendsOf, Numbers
  <2> QED BY <2>1, AtMostNumbers DEF TryInv
<1> DEFINE q == Send(n + 1, clicked[Click])
<1>3. sends' = sends \cup {q} /\ clicked' = clicked /\ phase' = to
  BY <1>2 DEF Retry
<1>4. q.click = Len(clicked) /\ q.try = n + 1 /\ q.url = clicked[Len(clicked)] /\ q.fate = "under way"
  BY DEF Send, Click
<1> HIDE DEF q
<1>5. Sent' = Sent \cup {<<Len(clicked), n + 1, clicked[Len(clicked)]>>}
  BY <1>3, <1>4 DEF Sent
<1>6. Carried' = Carried
  BY <1>3, <1>4 DEF Carried
<1>7. ASSUME NEW r \in Sent PROVE ~(r[1] = Len(clicked) /\ r[2] = n + 1)
  <2>1. PICK s \in sends : r = <<s.click, s.try, s.url>>
    BY DEF Sent
  <2>2. r[1] = s.click /\ r[2] = s.try
    BY <2>1
  <2> QED BY <1>1, <2>2 DEF Numbers, SendsOf, Click
<1> QED BY <1>3, <1>5, <1>6, <1>7 DEF Posts!SendAgain

\* A request is carried out, or is not.
LEMMA SettleRefines ==
    ASSUME ClickInv, NEW s \in sends, NEW fate, Settle(s, fate)
    PROVE  [Posts!PostingNext]_Posts!postingVars
<1> DEFINE q == [s EXCEPT !.fate = fate]
           r == <<s.click, s.try, s.url>>
<1>1. q.click = s.click /\ q.try = s.try /\ q.url = s.url /\ q.fate = fate
  BY SettledSends
<1>2. /\ sends' = (sends \ {s}) \cup {q} /\ s.fate = "under way"
      /\ clicked' = clicked /\ phase' = phase
  BY DEF Settle
<1> HIDE DEF q
<1>3. r \in Sent /\ Sent' = Sent
  BY <1>1, <1>2 DEF Sent
<1>4. CASE fate = "done"
  <2>1. Carried' = Carried \cup {r}
    BY <1>1, <1>2, <1>4 DEF Carried
  <2> QED BY <1>2, <1>3, <2>1 DEF Posts!PostingNext, Posts!CarryOut
<1>5. CASE fate # "done"
  <2>1. Carried' = Carried
    BY <1>1, <1>2, <1>5 DEF Carried
  <2> QED BY <1>2, <1>3, <2>1 DEF Posts!postingVars
<1> QED BY <1>4, <1>5

LEMMA StepRefines ==
    ClickInv /\ TryInv /\ ListInv /\ [Next]_vars => [Posts!PostingNext]_Posts!postingVars
<1> SUFFICES ASSUME ClickInv, TryInv, ListInv, [Next]_vars
             PROVE  [Posts!PostingNext]_Posts!postingVars
  OBVIOUS
<1>1. CASE ListStep
  <2>1. UNCHANGED <<clicked, sends>> /\ phase' \in {phase, "idle"}
    BY <1>1 DEF ListStep, SetActiveNode, RemoveNode, AddNode, EditNode, ResetToDefaults,
                Reload, postVars
  <2> QED BY <2>1, QuietRefines
<1>2. CASE Post
  BY <1>2, PostRefines DEF Posts!PostingNext
<1>3. CASE AxiosAnswered \/ FallbackAnswered \/ FetchEnds
  BY <1>3, QuietRefines DEF AxiosAnswered, FallbackAnswered, FetchEnds, Return
<1>4. CASE AxiosRejects \/ AxiosNetworkError \/ FallbackFails
  <2>1. PICK n \in {1, 2}, to \in {"fetch", "fallback"} :
           Numbers(Click) = 1 .. n /\ (to = "fetch" \/ n = 1) /\ Retry(to) /\ phase # "idle"
    BY <1>4 DEF AxiosRejects, AxiosNetworkError, FallbackFails, TryInv
  <2>2. Posts!SendAgain(n + 1) /\ n + 1 \in 2 .. 3
    BY <2>1, RetryRefines
  <2> QED BY <2>2 DEF Posts!PostingNext
<1>5. ASSUME NEW s \in sends, NEW fate, Settle(s, fate)
      PROVE  [Posts!PostingNext]_Posts!postingVars
  BY <1>5, SettleRefines
<1>6. CASE Poll \/ \E url \in Url : Resolve(url)
  BY <1>6, QuietRefines DEF Poll, Resolve, postVars
<1>7. CASE UNCHANGED vars
  BY <1>7, QuietRefines DEF vars, postVars
<1> QED BY <1>1, <1>2, <1>3, <1>4, <1>5, <1>6, <1>7 DEF Next, DirectPost

\* directPost does what Posting.tla promises: whichever requests fail, time out
\* or are carried out late, and whatever the user does to the list of nodes, a
\* POST is sent to the node selected when the button was pressed, to no other,
\* and never under a number it has used before.
THEOREM DirectPostImplementsPosting == Spec => PostsRefine
<1>1. Init => Posts!PostingInit
  BY DEF Init, Posts!PostingInit, Sent, Carried
<1>2. ClickInv /\ TryInv /\ ListInv /\ [Next]_vars => (ClickInv /\ TryInv /\ ListInv)'
  BY ClickInvNext, TryInvNext, ListInvNext
<1> QED BY <1>1, <1>2, InitTry, InitList, StepRefines, PTL
        DEF Spec, PostsRefine, Posts!PostingSpec

-----------------------------------------------------------------------------
(* The pages and what they fetch *)

FlagSets == {{}} \cup {{f} : f \in Flag}

\* Functions under way have names of their own.
CallsInv ==
    /\ \A c \in calls : DOMAIN c = {"id", "fn", "flags", "arg"} /\ c.id \in 1 .. MaxCalls
    /\ \A c, d \in calls : c.id = d.id => c = d

-----------------------------------------------------------------------------
(* What a step does to the functions under way *)

Stays == UNCHANGED <<page, busy, calls>>

Asks == page' = page /\ \E fn, arg : \E flags \in FlagSets : Starts(fn, flags, arg)

GivesUp(c) ==
    /\ calls' = (calls \ {c}) \cup {[c EXCEPT !.arg[2] = FALSE]}
    /\ busy' = busy \ c.flags

Hears(c) ==
    /\ page' = page
    /\ \/ Ends(c)
       \/ \E fn, arg : Continues(c, fn, arg)
       \/ \E fn, arg : \E flags \in FlagSets : EndsAndStarts(c, fn, flags, arg)
       \/ GivesUp(c)

\* What a page awaits when it is mounted.
AsksFirst(o) ==
    \/ o.flags = {} /\ o.calls = {}
    \/ \E fn, arg : \E flags \in FlagSets :
         o.flags = flags /\ o.calls = {Call(1, fn, flags, arg)}

Leaves ==
    \E p, o : /\ Mounts(p, o) /\ AsksFirst(o)
              /\ \/ p \in {"Block", "Address"}
                 \/ p = "Transaction" /\ o \in {TransactionOpened(n) : n \in Number}
                 \/ p \in DOMAIN Routes /\ o \in Routes[p]

Move == Stays \/ Asks \/ (\E c \in calls : Hears(c)) \/ Leaves

-----------------------------------------------------------------------------
(* Names of functions *)

\* A function that is called gets a name that is free.
LEMMA StartsFresh ==
    ASSUME NEW fn, NEW flags, NEW arg, Starts(fn, flags, arg)
    PROVE  \E id \in 1 .. MaxCalls :
             /\ \A c \in calls : c.id # id
             /\ calls' = calls \cup {Call(id, fn, flags, arg)}
             /\ busy' = busy \cup flags
<1> DEFINE least == CHOOSE i \in FreeIds : \A j \in FreeIds : i <= j
<1>1. FreeIds \subseteq Nat /\ FreeIds # {}
  BY ServiceAssumption DEF FreeIds, Starts
<1>2. PICK i \in FreeIds : \A j \in FreeIds : <<j, i>> \notin OpToRel(<, Nat)
  BY <1>1, NatLessThanWellFounded, WFMin
<1>3. ASSUME NEW j \in FreeIds PROVE i <= j
  <2>1. i \in Nat /\ j \in Nat
    BY <1>1
  <2>2. <<j, i>> \notin OpToRel(<, Nat)
    BY <1>2
  <2>3. ~(j < i)
    BY <2>1, <2>2 DEF OpToRel
  <2> QED BY <2>1, <2>3
<1>4. least \in FreeIds
  BY <1>3
<1>5. calls' = calls \cup {Call(least, fn, flags, arg)} /\ busy' = busy \cup flags
  BY DEF Starts
<1> HIDE DEF least
<1> QED BY <1>4, <1>5 DEF FreeIds

LEMMA CallFields ==
    ASSUME NEW id, NEW fn, NEW flags, NEW arg
    PROVE  LET c == Call(id, fn, flags, arg)
           IN  DOMAIN c = {"id", "fn", "flags", "arg"} /\ c.id = id /\ c.flags = flags
BY DEF Call

\* A function that takes the place of another under the same name.
LEMMA ReplaceKeeps ==
    ASSUME CallsInv, NEW c \in calls, NEW d, DOMAIN d = {"id", "fn", "flags", "arg"},
           d.id = c.id, calls' = (calls \ {c}) \cup {d}
    PROVE  CallsInv'
<1>1. \A e \in calls' : e = d \/ (e \in calls /\ e.id # c.id)
  BY DEF CallsInv
<1> QED BY <1>1 DEF CallsInv

LEMMA GivesUpFields ==
    ASSUME CallsInv, NEW c \in calls
    PROVE  LET d == [c EXCEPT !.arg[2] = FALSE]
           IN  DOMAIN d = {"id", "fn", "flags", "arg"} /\ d.id = c.id /\ d.flags = c.flags
<1>1. DOMAIN c = {"id", "fn", "flags", "arg"}
  BY DEF CallsInv
<1> QED BY <1>1

LEMMA MoveKeeps == CallsInv /\ Move => CallsInv'
<1> SUFFICES ASSUME CallsInv, Move PROVE CallsInv'
  OBVIOUS
<1>1. CASE Stays
  BY <1>1 DEF Stays, CallsInv
<1>2. CASE Asks
  <2>1. PICK fn, arg : \E flags \in FlagSets : Starts(fn, flags, arg)
    BY <1>2 DEF Asks
  <2>2. PICK flags \in FlagSets : Starts(fn, flags, arg)
    BY <2>1
  <2>3. PICK id \in 1 .. MaxCalls :
           (\A c \in calls : c.id # id) /\ calls' = calls \cup {Call(id, fn, flags, arg)}
    BY <2>2, StartsFresh
  <2> QED BY <2>3, CallFields DEF CallsInv
<1>3. ASSUME NEW c \in calls, Hears(c) PROVE CallsInv'
  <2>1. CASE Ends(c)
    BY <2>1 DEF Ends, CallsInv
  <2>2. ASSUME NEW fn, NEW arg, NEW flags, calls' = (calls \ {c}) \cup {Call(c.id, fn, flags, arg)}
        PROVE  CallsInv'
    BY <2>2, CallFields, ReplaceKeeps
  <2>3. CASE GivesUp(c)
    BY <2>3, GivesUpFields, ReplaceKeeps DEF GivesUp
  <2> QED BY <1>3, <2>1, <2>2, <2>3 DEF Hears, Continues, EndsAndStarts
<1>4. CASE Leaves
  <2>1. PICK p, o : Mounts(p, o) /\ AsksFirst(o)
    BY <1>4 DEF Leaves
  <2>2. calls' = {} \/ \E fn, arg, flags : calls' = {Call(1, fn, flags, arg)}
    BY <2>1 DEF Mounts, AsksFirst
  <2>3. 1 \in 1 .. MaxCalls
    BY ServiceAssumption
  <2> QED BY <2>2, <2>3, CallFields DEF CallsInv
<1> QED BY <1>1, <1>2, <1>3, <1>4 DEF Move

-----------------------------------------------------------------------------
(* Every such step is one of Fetching.tla *)

LEMMA WaitingOf ==
    ASSUME NEW c \in calls
    PROVE  Fetches!Waits(c.id, c.flags) \in Waiting
BY DEF Waiting, Fetches!Waits

LEMMA AsksRefines ==
    ASSUME Asks
    PROVE  Fetches!FetchNext
<1>1. PICK fn, arg : \E flags \in FlagSets : Starts(fn, flags, arg)
  BY DEF Asks
<1>2. PICK flags \in FlagSets : Starts(fn, flags, arg)
  BY <1>1
<1>3. PICK id \in 1 .. MaxCalls : /\ \A c \in calls : c.id # id
                                  /\ calls' = calls \cup {Call(id, fn, flags, arg)}
                                  /\ busy' = busy \cup flags
  BY <1>2, StartsFresh
<1> DEFINE d == Call(id, fn, flags, arg)
<1>4. d.id = id /\ d.flags = flags
  BY CallFields
<1> HIDE DEF d
<1>5. Waiting' = Waiting \cup {Fetches!Waits(id, flags)}
  BY <1>3, <1>4 DEF Waiting, Fetches!Waits, d
<1>6. \A w \in Waiting : w.id # id
  BY <1>3 DEF Waiting
<1>7. Fetches!Ask(id, flags)
  BY <1>3, <1>5, <1>6 DEF Fetches!Ask, Asks
<1> QED BY <1>7 DEF Fetches!FetchNext, FlagSets

LEMMA HearsRefines ==
    ASSUME CallsInv, NEW c \in calls, Hears(c)
    PROVE  [Fetches!FetchNext]_Fetches!fetchVars
<1> DEFINE w == Fetches!Waits(c.id, c.flags)
<1>1. w \in Waiting
  BY WaitingOf
<1>2. w.id = c.id /\ w.flags = c.flags
  BY DEF Fetches!Waits
<1>3. page' = page
  BY DEF Hears
<1>4. ASSUME NEW d \in calls, d # c PROVE Fetches!Waits(d.id, d.flags) # w
  BY <1>4 DEF CallsInv, Fetches!Waits
<1>5. ASSUME NEW d, d.id = c.id, calls' = (calls \ {c}) \cup {d}
      PROVE  Waiting' = (Waiting \ {w}) \cup {Fetches!Waits(w.id, d.flags)}
  <2>1. Waiting' = {Fetches!Waits(e.id, e.flags) : e \in calls \ {c}} \cup {Fetches!Waits(d.id, d.flags)}
    BY <1>5 DEF Waiting, Fetches!Waits
  <2>2. {Fetches!Waits(e.id, e.flags) : e \in calls \ {c}} = Waiting \ {w}
    BY <1>4 DEF Waiting, Fetches!Waits
  <2> QED BY <1>2, <1>5, <2>1, <2>2
<1> HIDE DEF w
<1>6. CASE Ends(c)
  <2>1. Waiting' = Waiting \ {w}
    BY <1>4, <1>6 DEF Waiting, Ends, Fetches!Waits, w
  <2>2. Fetches!Finish(w)
    BY <1>2, <1>3, <1>6, <2>1 DEF Ends, Fetches!Finish
  <2> QED BY <1>1, <2>2 DEF Fetches!FetchNext
<1>7. ASSUME NEW fn, NEW arg, Continues(c, fn, arg)
      PROVE  [Fetches!FetchNext]_Fetches!fetchVars
  <2> DEFINE d == Call(c.id, fn, c.flags, arg)
  <2>1. d.id = c.id /\ d.flags = c.flags
    BY CallFields
  <2>2. calls' = (calls \ {c}) \cup {d} /\ busy' = busy
    BY <1>7 DEF Continues
  <2> HIDE DEF d
  <2>3. Waiting' = Waiting
    BY <1>1, <1>2, <1>5, <2>1, <2>2 DEF w
  <2> QED BY <1>3, <2>2, <2>3 DEF Fetches!fetchVars
<1>8. ASSUME NEW fn, NEW arg, NEW flags \in FlagSets, EndsAndStarts(c, fn, flags, arg)
      PROVE  Fetches!FetchNext
  <2> DEFINE d == Call(c.id, fn, flags, arg)
  <2>1. d.id = c.id /\ d.flags = flags
    BY CallFields
  <2>2. calls' = (calls \ {c}) \cup {d} /\ busy' = (busy \cup flags) \ c.flags
    BY <1>8 DEF EndsAndStarts
  <2> HIDE DEF d
  <2>3. Fetches!PassOn(w, flags)
    BY <1>2, <1>3, <1>5, <2>1, <2>2 DEF Fetches!PassOn
  <2> QED BY <1>1, <2>3 DEF Fetches!FetchNext, FlagSets
<1>9. CASE GivesUp(c)
  <2> DEFINE d == [c EXCEPT !.arg[2] = FALSE]
  <2>1. d.id = c.id /\ d.flags = c.flags
    BY GivesUpFields
  <2>2. calls' = (calls \ {c}) \cup {d} /\ busy' = busy \ c.flags
    BY <1>9 DEF GivesUp
  <2> HIDE DEF d
  <2>3. Waiting' = Waiting
    BY <1>1, <1>2, <1>5, <2>1, <2>2 DEF w
  <2>4. Fetches!GiveUp(w)
    BY <1>2, <1>3, <2>2, <2>3 DEF Fetches!GiveUp
  <2> QED BY <1>1, <2>4 DEF Fetches!FetchNext
<1> QED BY <1>6, <1>7, <1>8, <1>9 DEF Hears

LEMMA MountedRefines ==
    ASSUME NEW o, AsksFirst(o)
    PROVE  LET now == {[id |-> c.id, flags |-> c.flags] : c \in o.calls}
           IN  \/ o.flags = {} /\ now = {}
               \/ \E flags \in FlagSets : o.flags = flags /\ now = {Fetches!Waits(1, flags)}
<1>1. CASE o.flags = {} /\ o.calls = {}
  BY <1>1
<1>2. ASSUME NEW fn, NEW arg, NEW flags \in FlagSets,
             o.flags = flags, o.calls = {Call(1, fn, flags, arg)}
      PROVE  {[id |-> c.id, flags |-> c.flags] : c \in o.calls} = {Fetches!Waits(1, flags)}
  <2> DEFINE d == Call(1, fn, flags, arg)
  <2>1. d.id = 1 /\ d.flags = flags
    BY CallFields
  <2> HIDE DEF d
  <2> QED BY <1>2, <2>1 DEF Fetches!Waits, d
<1> QED BY <1>1, <1>2 DEF AsksFirst

LEMMA LeavesRefines ==
    ASSUME Leaves
    PROVE  Fetches!FetchNext
<1>1. PICK p, o : Mounts(p, o) /\ AsksFirst(o) /\ p \in Pages
  BY DEF Leaves, Pages, Details
<1>2. Waiting' = {[id |-> c.id, flags |-> c.flags] : c \in o.calls}
  BY <1>1 DEF Waiting, Mounts
<1>3. 1 \in 1 .. MaxCalls
  BY ServiceAssumption
<1>4. Fetches!Mounted(p)
  BY <1>1, <1>2, <1>3, MountedRefines DEF Mounts, Fetches!Mounted, FlagSets
<1> QED BY <1>1, <1>4 DEF Fetches!FetchNext

LEMMA MoveRefines == CallsInv /\ Move => [Fetches!FetchNext]_Fetches!fetchVars
<1>1. Stays => UNCHANGED Fetches!fetchVars
  BY DEF Stays, Fetches!fetchVars, Waiting
<1> QED BY <1>1, AsksRefines, HearsRefines, LeavesRefines DEF Move

-----------------------------------------------------------------------------
(* The steps of the pages *)

LEMMA AFlag ==
    ASSUME NEW f \in Flag
    PROVE  {f} \in FlagSets /\ {} \in FlagSets
BY DEF FlagSets

LEMMA AsksOne ==
    ASSUME page' = page, NEW fn, NEW arg, NEW f \in Flag,
           Starts(fn, {f}, arg) \/ Starts(fn, {}, arg)
    PROVE  Move
BY AFlag DEF Move, Asks

LEMMA MiningMoves == MiningStep => page = "Mining" /\ Move
<1> SUFFICES ASSUME MiningStep PROVE page = "Mining" /\ Move
  OBVIOUS
<1>1. CASE FetchMiningStats
  BY <1>1, AsksOne DEF FetchMiningStats, Flag
<1>2. CASE \E n \in Difficulty : MoveSlider(n)
  BY <1>2 DEF MoveSlider, Move, Stays
<1>3. CASE UpdateDifficulty
  BY <1>3, AsksOne DEF UpdateDifficulty, Flag
<1>4. CASE MineBlock
  BY <1>4, AsksOne DEF MineBlock, Flag
<1> QED BY <1>1, <1>2, <1>3, <1>4 DEF MiningStep

LEMMA SettingsMoves == SettingsStep => page = "Settings" /\ Move
<1> SUFFICES ASSUME SettingsStep PROVE page = "Settings" /\ Move
  OBVIOUS
<1>1. CASE EditSettings \/ ResetSettings \/ CloseSnackbar
  BY <1>1 DEF EditSettings, ResetSettings, CloseSnackbar, Editable, Move, Stays
<1>2. CASE SaveSettings
  BY <1>2, AsksOne DEF SaveSettings, Editable, Flag
<1> QED BY <1>1, <1>2 DEF SettingsStep

LEMMA WalletMoves == WalletStep => page = "Wallet" /\ Move
<1> SUFFICES ASSUME WalletStep PROVE page = "Wallet" /\ Move
  OBVIOUS
<1>1. CASE FetchWalletData
  BY <1>1, AsksOne DEF FetchWalletData, WalletShown, Flag
<1>2. CASE (\E form \in Form : FillWalletForm(form)) \/ WalletAlert
  BY <1>2 DEF FillWalletForm, WalletAlert, WalletShown, Move, Stays
<1>3. CASE PayFromWallet
  <2>1. CASE data.form = "valid"
    BY <1>3, <2>1, AsksOne DEF PayFromWallet, WalletShown, Flag
  <2>2. CASE data.form # "valid"
    BY <1>3, <2>2 DEF PayFromWallet, WalletShown, Move, Stays
  <2> QED BY <2>1, <2>2
<1> QED BY <1>1, <1>2, <1>3 DEF WalletStep

LEMMA TransactionsMoves == TransactionsStep => page = "Transactions" /\ Move
<1> SUFFICES ASSUME TransactionsStep PROVE page = "Transactions" /\ Move
  OBVIOUS
<1>1. CASE ChangeTab \/ \E form \in Form : FillTransactionForm(form)
  BY <1>1 DEF ChangeTab, FillTransactionForm, Move, Stays
<1>2. CASE CreateTransaction
  <2>1. CASE UNCHANGED <<page, busy, calls>>
    BY <1>2, <2>1 DEF CreateTransaction, Move, Stays
  <2>2. CASE Starts("createTransaction", {"creating"}, <<>>)
    BY <1>2, <2>2, AsksOne DEF CreateTransaction, Flag
  <2> QED BY <1>2, <2>1, <2>2 DEF CreateTransaction
<1> QED BY <1>1, <1>2 DEF TransactionsStep

LEMMA PeersMoves == PeersStep => page = "Peers" /\ Move
<1> SUFFICES ASSUME PeersStep PROVE page = "Peers" /\ Move
  OBVIOUS
<1>1. CASE FetchPeers
  BY <1>1, AsksOne DEF FetchPeers, Flag
<1>2. CASE PeerDialog \/ DisconnectPeer \/ ClosePeersAlert
  BY <1>2 DEF PeerDialog, DisconnectPeer, ClosePeersAlert, Move, Stays
<1>3. CASE ConnectPeer
  <2>1. CASE data.filled
    BY <1>3, <2>1, AsksOne DEF ConnectPeer, Flag
  <2>2. CASE ~data.filled
    BY <1>3, <2>2 DEF ConnectPeer, Move, Stays
  <2> QED BY <2>1, <2>2
<1> QED BY <1>1, <1>2, <1>3 DEF PeersStep

LEMMA SyncMoves == SyncStep => page = "Sync" /\ Move
<1> SUFFICES ASSUME SyncStep PROVE page = "Sync" /\ Move
  OBVIOUS
<1>1. CASE RefreshSync
  BY <1>1, AsksOne DEF RefreshSync, Startable, SyncShown, Flag
<1>2. CASE StartSync
  <2>1. CASE data.peers
    BY <1>2, <2>1, AsksOne DEF StartSync, Startable, SyncShown, Flag
  <2>2. CASE ~data.peers
    BY <1>2, <2>2 DEF StartSync, Startable, SyncShown, Move, Stays
  <2> QED BY <2>1, <2>2
<1>3. CASE TickSync \/ CompleteSync \/ CancelSync \/ CloseSyncAlert
  BY <1>3 DEF TickSync, CompleteSync, CancelSync, CloseSyncAlert, SyncShown, Move, Stays
<1> QED BY <1>1, <1>2, <1>3 DEF SyncStep

LEMMA DashboardMoves == DashboardStep => page = "Dashboard" /\ Move
<1> SUFFICES ASSUME DashboardStep PROVE page = "Dashboard" /\ Move
  OBVIOUS
<1>1. CASE FetchDashboardData \/ DashboardMine
  BY <1>1, AsksOne DEF FetchDashboardData, DashboardMine, Flag
<1>2. ASSUME NEW c \in calls, MiningTimesOut(c) PROVE page = "Dashboard" /\ Move
  BY <1>2 DEF MiningTimesOut, GivesUp, Hears, Move
<1> QED BY <1>1, <1>2 DEF DashboardStep

\* What a page shows first.
LEMMA OpenedAsks ==
    ASSUME NEW shows, NEW fn, NEW f \in Flag
    PROVE  LET o == Opened(shows, fn, {f}) IN AsksFirst(o) /\ o.data = shows
BY AFlag DEF Opened, AsksFirst

LEMMA DetailsAsk ==
    ASSUME NEW n
    PROVE  AsksFirst(BlockOpened(n)) /\ AsksFirst(TransactionOpened(n)) /\ AsksFirst(AddressOpened)
BY AFlag DEF BlockOpened, TransactionOpened, AddressOpened, AsksFirst, Flag

LEMMA RoutesAsk ==
    ASSUME NEW p \in DOMAIN Routes, NEW o \in Routes[p]
    PROVE  AsksFirst(o)
<1>0. "loading" \in Flag
  BY DEF Flag
<1>1. ASSUME o \in MiningOpened PROVE AsksFirst(o)
  BY <1>0, <1>1, OpenedAsks DEF MiningOpened
<1>2. ASSUME o \in SettingsOpened PROVE AsksFirst(o)
  BY <1>0, <1>2, OpenedAsks DEF SettingsOpened
<1>3. ASSUME o \in WalletOpened PROVE AsksFirst(o)
  <2> DEFINE shows == [address |-> "", list |-> <<>>, form |-> "empty"]
  <2>1. o = Opened(shows, "getWalletInfo", {"loading"})
    BY <1>3 DEF WalletOpened
  <2> HIDE DEF shows
  <2> QED BY <1>0, <2>1, OpenedAsks
<1>4. ASSUME o \in TransactionsOpened PROVE AsksFirst(o)
  BY <1>0, <1>4, OpenedAsks DEF TransactionsOpened
<1>5. ASSUME o \in MempoolOpened PROVE AsksFirst(o)
  BY <1>0, <1>5, OpenedAsks DEF MempoolOpened
<1>6. ASSUME o \in ExplorerOpened PROVE AsksFirst(o)
  BY <1>0, <1>6, OpenedAsks DEF ExplorerOpened
<1>7. ASSUME o \in BlockchainOpened PROVE AsksFirst(o)
  BY <1>0, <1>7, OpenedAsks DEF BlockchainOpened
<1>8. ASSUME o \in PeersOpened PROVE AsksFirst(o)
  BY <1>0, <1>8, OpenedAsks DEF PeersOpened
<1>9. ASSUME o \in SyncOpened PROVE AsksFirst(o)
  BY <1>0, <1>9, OpenedAsks DEF SyncOpened
<1>10. ASSUME o \in DashboardOpened PROVE AsksFirst(o)
  BY <1>0, <1>10, OpenedAsks DEF DashboardOpened
<1>11. o \in UNION {MiningOpened, SettingsOpened, WalletOpened, TransactionsOpened, MempoolOpened,
                   ExplorerOpened, BlockchainOpened, PeersOpened, SyncOpened, DashboardOpened}
  BY DEF Routes
<1> QED BY <1>1, <1>2, <1>3, <1>4, <1>5, <1>6, <1>7, <1>8, <1>9, <1>10, <1>11

LEMMA DetailsLeave ==
    ASSUME NEW n, \/ Mounts("Block", BlockOpened(n))
                  \/ Mounts("Address", AddressOpened)
                  \/ n \in Number /\ Mounts("Transaction", TransactionOpened(n))
    PROVE  Leaves
BY DetailsAsk DEF Leaves

LEMMA ExplorerMoves == ExplorerStep => page \in {"Explorer", "Block", "Transaction"} /\ Move
<1> SUFFICES ASSUME ExplorerStep
             PROVE  page \in {"Explorer", "Block", "Transaction"} /\ Move
  OBVIOUS
<1>1. ASSUME NEW n, \/ Mounts("Block", BlockOpened(n))
                    \/ Mounts("Address", AddressOpened)
                    \/ n \in Number /\ Mounts("Transaction", TransactionOpened(n))
      PROVE  Move
  BY <1>1, DetailsLeave DEF Move
<1>2. ASSUME NEW n \in Number, OtherBlock(n) \/ OtherTransaction(n)
      PROVE  page \in {"Explorer", "Block", "Transaction"} /\ Move
  BY <1>2, AsksOne DEF OtherBlock, OtherTransaction, Flag
<1>3. ASSUME NEW input, Search(input)
      PROVE  page \in {"Explorer", "Block", "Transaction"} /\ Move
  BY <1>1, <1>3 DEF Search
<1>4. CASE FollowRow
  BY <1>1, <1>4 DEF FollowRow
<1>5. CASE FollowDetail
  BY <1>1, <1>5 DEF FollowDetail
<1> QED BY <1>2, <1>3, <1>4, <1>5 DEF ExplorerStep

LEMMA PageMoves == PageStep => page \notin Parts /\ Move
<1> SUFFICES ASSUME PageStep PROVE page \notin Parts /\ Move
  OBVIOUS
<1>1. CASE FetchMempool
  BY <1>1, AsksOne DEF FetchMempool, Parts, Flag
<1>2. CASE OpenCard
  <2>1. PICK n \in Number : Mounts("Transaction", TransactionOpened(n))
    BY <1>2 DEF OpenCard
  <2>2. Move
    BY <2>1, DetailsLeave DEF Move
  <2>3. page \notin Parts
    BY <1>2 DEF OpenCard, Parts
  <2> QED BY <2>2, <2>3
<1>3. ASSUME NEW p \in DOMAIN Routes, Navigate(p)
      PROVE  page \notin Parts /\ Move
  <2>1. PICK o \in Routes[p] : Mounts(p, o)
    BY <1>3 DEF Navigate
  <2>2. Move
    BY <2>1, RoutesAsk DEF Move, Leaves
  <2> QED BY <1>3, <2>2 DEF Navigate
<1> QED BY <1>1, <1>2, <1>3, MiningMoves, SettingsMoves, WalletMoves, TransactionsMoves,
           ExplorerMoves, PeersMoves, SyncMoves, DashboardMoves
        DEF PageStep, Parts

-----------------------------------------------------------------------------
(* The answers *)

LEMMA EndsMoves ==
    ASSUME NEW c \in calls, page' = page, Ends(c)
    PROVE  Move
BY DEF Move, Hears

LEMMA ContinuesMoves ==
    ASSUME NEW c \in calls, page' = page, NEW fn, NEW arg, Continues(c, fn, arg)
    PROVE  Move
BY DEF Move, Hears

LEMMA PassesOnMoves ==
    ASSUME NEW c \in calls, page' = page, NEW fn, NEW arg, NEW f \in Flag,
           EndsAndStarts(c, fn, {f}, arg) \/ EndsAndStarts(c, fn, {}, arg)
    PROVE  Move
BY AFlag DEF Move, Hears

LEMMA AnswerMoves ==
    ASSUME NEW c \in calls, Answered(c)
    PROVE  /\ Move /\ page' = page
           /\ page = "Selector" => ConnectionTested(c)
           /\ page = "Sync" => SyncAnswered(c)
<1>0. "loading" \in Flag
  BY DEF Flag
<1>1. CASE MiningAnswered(c) \/ SettingsAnswered(c)
  BY <1>0, <1>1, EndsMoves, PassesOnMoves
     DEF MiningAnswered, MiningStatsAnswered, MiningPosted, SettingsAnswered, SettingsLoaded,
         SettingsSaved
<1>2. CASE WalletAnswered(c)
  BY <1>0, <1>2, EndsMoves, ContinuesMoves, PassesOnMoves
     DEF WalletAnswered, WalletInfoAnswered, WalletListed, WalletPaid, WalletTimeout
<1>3. CASE TransactionsAnswered(c) \/ MempoolAnswered(c)
  BY <1>0, <1>3, EndsMoves, PassesOnMoves
     DEF TransactionsAnswered, HistoryAnswered, TransactionCreated, MempoolAnswered
<1>4. CASE ExplorerPagesAnswered(c)
  BY <1>4, EndsMoves, ContinuesMoves
     DEF ExplorerPagesAnswered, ExplorerAnswered, BlockAnswered, TransactionAnswered,
         BlockchainAnswered
<1>5. CASE PeersPageAnswered(c) \/ SyncAnswered(c)
  BY <1>0, <1>5, EndsMoves, PassesOnMoves
     DEF PeersPageAnswered, PeersAnswered, PeerConnected, SyncAnswered, SyncLoaded, SyncStarted
<1>6. CASE DashboardPageAnswered(c)
  BY <1>6, EndsMoves, ContinuesMoves
     DEF DashboardPageAnswered, DashboardAnswered, BlockMined, MinedShown
<1>7. CASE HeaderPagesAnswered(c)
  BY <1>7, EndsMoves DEF HeaderPagesAnswered, HeaderAnswered, ConnectionTested
<1> QED BY <1>1, <1>2, <1>3, <1>4, <1>5, <1>6, <1>7 DEF Answered

-----------------------------------------------------------------------------
(* The dialogs of NodeSelector.js, and the synchronisation *)

\* What the dialog of an entry holds: an address the user has typed, or that of
\* the entry, which is in the list as long as the dialog is open.
SelectorInv ==
    page = "Selector" =>
      /\ DOMAIN data = {"dialog", "index", "url", "testing"}
      /\ data.dialog = "edit" =>
           \/ data.index = Undefined /\ data.url \in {<<>>} \cup {<<u>> : u \in Typed}
           \/ /\ data.index \in DOMAIN nodes
              /\ data.url \in {<<u>> : u \in Typed \cup {heap[nodes[data.index]].url}}

\* The synchronisation with its types.
SyncInv ==
    page = "Sync" =>
      /\ DOMAIN data = {"inProgress", "progress", "status", "peers", "ending"}
      /\ data.inProgress \in BOOLEAN /\ data.progress \in 0 .. Steps /\ data.ending \in BOOLEAN
      /\ SyncConsistent

\* The dialogs do nothing with the list that Client.tla does not allow.
LEMMA SaveNodeSteps ==
    ASSUME ListInv, SelectorInv, SaveNode
    PROVE  ListStep \/ UNCHANGED clientVars
<1>1. data.dialog = "edit" /\ page = "Selector" /\ data.url # <<>>
  BY DEF SaveNode, SelectorUI
<1>2. CASE UNCHANGED clientVars
  BY <1>2
<1>3. CASE data.index = Undefined /\ AddNode(data.url[1])
  <2>1. Undefined \notin DOMAIN nodes
    BY DEF ListInv, Undefined
  <2>2. data.url \in {<<u>> : u \in Typed}
    BY <1>1, <1>3, <2>1 DEF SelectorInv
  <2>3. data.url[1] \in Typed
    BY <2>2
  <2> QED BY <1>3, <2>3 DEF ListStep
<1>4. CASE data.index # Undefined /\ EditNode(data.index, data.url[1])
  <2>1. /\ data.index \in DOMAIN nodes
        /\ data.url \in {<<u>> : u \in Typed \cup {heap[nodes[data.index]].url}}
    BY <1>1, <1>4 DEF SelectorInv
  <2>2. data.url[1] \in Typed \cup {heap[nodes[data.index]].url}
    BY <2>1
  <2> QED BY <1>4, <2>1, <2>2 DEF ListStep
<1> QED BY <1>2, <1>3, <1>4 DEF SaveNode

LEMMA SelectorSteps ==
    ASSUME ListInv, SelectorInv, SelectorStep
    PROVE  /\ page = "Selector" /\ page' = page /\ Move
           /\ ListStep \/ UNCHANGED clientVars
           /\ SelectorInv'
<1>1. CASE TurnTo
  <2>1. page = "Selector" /\ page' = page /\ UNCHANGED <<busy, calls, clientVars>>
    BY <1>1 DEF TurnTo, Quiet
  <2>2. PICK next \in {"menu", "none", "manage"} : data' = [data EXCEPT !.dialog = next]
    BY <1>1 DEF TurnTo
  <2>3. DOMAIN data' = {"dialog", "index", "url", "testing"} /\ data'.dialog # "edit"
    BY <2>1, <2>2 DEF SelectorInv
  <2> QED BY <2>1, <2>3 DEF SelectorInv, Move, Stays
<1>2. ASSUME NEW i \in DOMAIN nodes, SelectNode(i)
      PROVE  /\ page = "Selector" /\ page' = page /\ Move /\ ListStep
             /\ SelectorInv'
  BY <1>2 DEF SelectNode, SelectorUI, ListStep, SelectorInv, Move, Stays
<1>3. CASE OpenAddNode
  <2>1. page = "Selector" /\ page' = page /\ UNCHANGED <<busy, calls, clientVars>>
    BY <1>3 DEF OpenAddNode, SelectorUI, Quiet
  <2>2. data' = [data EXCEPT !.dialog = "edit", !.index = Undefined, !.url = <<>>]
    BY <1>3 DEF OpenAddNode
  <2>3. /\ DOMAIN data' = {"dialog", "index", "url", "testing"}
        /\ data'.index = Undefined /\ data'.url = <<>>
    BY <2>1, <2>2 DEF SelectorInv
  <2> QED BY <2>1, <2>3 DEF SelectorInv, Move, Stays
<1>4. ASSUME NEW i \in DOMAIN nodes, OpenEditNode(i)
      PROVE  /\ page = "Selector" /\ page' = page /\ Move /\ UNCHANGED clientVars
             /\ SelectorInv'
  <2>1. page = "Selector" /\ page' = page /\ UNCHANGED <<busy, calls, clientVars>>
    BY <1>4 DEF OpenEditNode, SelectorUI, Quiet
  <2>2. data' = [data EXCEPT !.dialog = "edit", !.index = i, !.url = <<heap[nodes[i]].url>>]
    BY <1>4 DEF OpenEditNode
  <2>3. /\ DOMAIN data' = {"dialog", "index", "url", "testing"}
        /\ data'.index = i /\ data'.url = <<heap[nodes[i]].url>>
    BY <2>1, <2>2 DEF SelectorInv
  <2>4. heap' = heap /\ nodes' = nodes
    BY <2>1 DEF clientVars, vars, listVars
  <2> QED BY <2>1, <2>3, <2>4 DEF SelectorInv, Move, Stays
<1>5. ASSUME NEW u \in Typed, TypeUrl(u)
      PROVE  /\ page = "Selector" /\ page' = page /\ Move /\ UNCHANGED clientVars
             /\ SelectorInv'
  <2>1. page = "Selector" /\ page' = page /\ UNCHANGED <<busy, calls, clientVars>>
    BY <1>5 DEF TypeUrl, SelectorUI, Quiet
  <2>2. data.dialog = "edit" /\ data' = [data EXCEPT !.url = <<u>>]
    BY <1>5 DEF TypeUrl, SelectorUI
  <2>3. /\ DOMAIN data' = {"dialog", "index", "url", "testing"}
        /\ data'.index = data.index /\ data'.url = <<u>>
    BY <2>1, <2>2 DEF SelectorInv
  <2>4. heap' = heap /\ nodes' = nodes
    BY <2>1 DEF clientVars, vars, listVars
  <2> QED BY <2>1, <2>2, <2>3, <2>4 DEF SelectorInv, Move, Stays
<1>6. CASE SaveNode
  <2>1. page = "Selector" /\ page' = page /\ UNCHANGED <<busy, calls>>
        /\ data' = [data EXCEPT !.dialog = "manage"]
    BY <1>6 DEF SaveNode, SelectorUI
  <2>2. DOMAIN data' = {"dialog", "index", "url", "testing"} /\ data'.dialog # "edit"
    BY <2>1 DEF SelectorInv
  <2> QED BY <1>6, <2>1, <2>2, SaveNodeSteps DEF SelectorInv, Move, Stays
<1>7. ASSUME NEW i \in DOMAIN nodes, DeleteNode(i)
      PROVE  /\ page = "Selector" /\ page' = page /\ Move /\ ListStep
             /\ SelectorInv'
  BY <1>7 DEF DeleteNode, SelectorUI, ListStep, SelectorInv, Move, Stays
<1>8. CASE ResetNodes
  BY <1>8 DEF ResetNodes, SelectorUI, ListStep, SelectorInv, Move, Stays
<1>9. ASSUME NEW i \in DOMAIN nodes, TestConnection(i)
      PROVE  /\ page = "Selector" /\ page' = page /\ Move /\ UNCHANGED clientVars
             /\ SelectorInv'
  <2>1. page = "Selector" /\ page' = page /\ UNCHANGED clientVars
        /\ data.dialog = "manage" /\ data' = [data EXCEPT !.testing = i]
    BY <1>9 DEF TestConnection, SelectorUI
  <2>2. DOMAIN data' = {"dialog", "index", "url", "testing"} /\ data'.dialog # "edit"
    BY <2>1 DEF SelectorInv
  <2>3. Move
    BY <1>9, AsksOne DEF TestConnection, Flag
  <2> QED BY <2>1, <2>2, <2>3 DEF SelectorInv
<1> QED BY <1>1, <1>2, <1>3, <1>4, <1>5, <1>6, <1>7, <1>8, <1>9 DEF SelectorStep

\* The page of the synchronisation keeps what it shows consistent.
LEMMA SyncSteps ==
    ASSUME SyncInv, page = "Sync", SyncStep \/ \E c \in calls : SyncAnswered(c)
    PROVE  SyncInv'
<1> DEFINE Fields5 == {"inProgress", "progress", "status", "peers", "ending"}
<1>0. /\ DOMAIN data = Fields5 /\ data.inProgress \in BOOLEAN /\ data.progress \in 0 .. Steps
      /\ data.ending \in BOOLEAN
      /\ (data.status = "syncing" => data.inProgress)
      /\ (data.status \in {"completed", "cancelled"} => ~data.inProgress)
      /\ (data.status = "completed" => data.progress = Steps)
      /\ (data.inProgress => data.progress < Steps \/ data.ending)
      /\ Steps \in Nat \ {0}
  BY StepsAssumption DEF SyncInv, SyncConsistent
<1>1. CASE RefreshSync \/ StartSync \/ CloseSyncAlert
  <2>1. data' = data
    BY <1>1 DEF RefreshSync, StartSync, CloseSyncAlert
  <2> QED BY <1>0, <2>1 DEF SyncInv, SyncConsistent
<1>2. CASE TickSync
  <2>1. /\ data.inProgress /\ data.progress < Steps
        /\ data' = [data EXCEPT !.progress = data.progress + 1,
                               !.ending = data.ending \/ data.progress + 1 = Steps]
    BY <1>0, <1>2 DEF TickSync
  <2>2. /\ DOMAIN data' = Fields5 /\ data'.progress = data.progress + 1
        /\ data'.ending = (data.ending \/ data.progress + 1 = Steps)
        /\ data'.inProgress = data.inProgress /\ data'.status = data.status
    BY <1>0, <2>1
  <2>3. data'.progress \in 0 .. Steps /\ (data'.progress < Steps \/ data'.progress = Steps)
    BY <1>0, <2>1, <2>2
  <2>4. data'.ending \in BOOLEAN /\ (data'.progress < Steps \/ data'.ending)
    BY <2>2, <2>3
  <2>5. data'.status \notin {"completed", "cancelled"}
    BY <1>0, <2>1, <2>2
  <2> QED BY <1>0, <2>1, <2>2, <2>3, <2>4, <2>5 DEF SyncInv, SyncConsistent
<1>6. CASE CompleteSync
  <2>1. data' = [data EXCEPT !.inProgress = FALSE, !.progress = Steps, !.status = "completed",
                             !.ending = FALSE]
    BY <1>6 DEF CompleteSync
  <2>2. /\ DOMAIN data' = Fields5 /\ data'.progress = Steps /\ data'.inProgress = FALSE
        /\ data'.status = "completed" /\ data'.ending = FALSE
    BY <1>0, <2>1
  <2>3. Steps \in 0 .. Steps
    BY <1>0
  <2>4. data'.inProgress \in BOOLEAN /\ ~data'.inProgress /\ data'.ending \in BOOLEAN
    BY <2>2
  <2> QED BY <2>2, <2>3, <2>4 DEF SyncInv, SyncConsistent
<1>3. CASE CancelSync
  <2>1. data' = [data EXCEPT !.inProgress = FALSE, !.status = "cancelled"]
    BY <1>3 DEF CancelSync
  <2>2. /\ DOMAIN data' = Fields5 /\ data'.progress = data.progress
        /\ data'.inProgress = FALSE /\ data'.status = "cancelled" /\ data'.ending = data.ending
    BY <1>0, <2>1
  <2> QED BY <1>0, <2>2 DEF SyncInv, SyncConsistent
<1>4. ASSUME NEW c \in calls, SyncLoaded(c) PROVE SyncInv'
  <2>1. PICK some \in BOOLEAN :
           data' = [data EXCEPT !.peers = some, !.status = "idle", !.progress = 0]
    BY <1>4 DEF SyncLoaded
  <2>2. /\ DOMAIN data' = Fields5 /\ data'.progress = 0
        /\ data'.inProgress = data.inProgress /\ data'.status = "idle"
        /\ data'.ending = data.ending
    BY <1>0, <2>1
  <2> QED BY <1>0, <2>2 DEF SyncInv, SyncConsistent
<1>5. ASSUME NEW c \in calls, SyncStarted(c) PROVE SyncInv'
  <2>1. data' = [data EXCEPT !.inProgress = TRUE, !.progress = 0, !.status = "syncing"]
    BY <1>5 DEF SyncStarted
  <2>2. /\ DOMAIN data' = Fields5 /\ data'.progress = 0
        /\ data'.inProgress = TRUE /\ data'.status = "syncing" /\ data'.ending = data.ending
    BY <1>0, <2>1
  <2>3. data'.progress \in 0 .. Steps /\ data'.progress < Steps
    BY <1>0, <2>2
  <2>4. data'.inProgress \in BOOLEAN /\ data'.inProgress /\ data'.ending \in BOOLEAN
    BY <1>0, <2>2
  <2> QED BY <2>2, <2>3, <2>4 DEF SyncInv, SyncConsistent
<1> QED BY <1>1, <1>2, <1>3, <1>4, <1>5, <1>6 DEF SyncStep, SyncAnswered

\* What the page shows when it has just been mounted.
LEMMA SyncMounted ==
    ASSUME Leaves
    PROVE  SyncInv' /\ SelectorInv'
<1>1. PICK p, o : Mounts(p, o) /\ (p \in Details \/ (p \in DOMAIN Routes /\ o \in Routes[p]))
  BY DEF Leaves, Details
<1>2. page' = p /\ p # "Selector" /\ data' = o.data
  BY <1>1 DEF Mounts, Details, Routes
<1>3. CASE p = "Sync"
  <2> DEFINE shows == [inProgress |-> FALSE, progress |-> 0, status |-> "idle", peers |-> FALSE,
                     ending |-> FALSE]
  <2>1. o \in SyncOpened
    BY <1>1, <1>3 DEF Details, Routes
  <2>2. o.data = shows
    BY <2>1 DEF SyncOpened, Opened
  <2> QED BY <1>2, <2>2, StepsAssumption DEF SyncInv, SyncConsistent, SelectorInv
<1>4. CASE p # "Sync"
  BY <1>2, <1>4 DEF SyncInv, SelectorInv
<1> QED BY <1>3, <1>4

LEMMA MoveStays == Move => Leaves \/ page' = page
BY DEF Move, Stays, Asks, Hears

\* A step of a page that does not lead to another is one of its own.
LEMMA OwnStep ==
    ASSUME PageStep, ~Leaves
    PROVE  /\ page = "Mining"       => MiningStep
           /\ page = "Settings"     => SettingsStep
           /\ page = "Wallet"       => WalletStep
           /\ page = "Transactions" => TransactionsStep
           /\ page = "Mempool"      => FetchMempool
           /\ page = "Transaction"  => \E n \in Number : OtherTransaction(n)
           /\ page = "Sync"         => SyncStep
           /\ page = "Dashboard"    => DashboardStep
           /\ page \notin {"Explorer", "Blockchain", "Header", "Selector"}
<1>1. ASSUME NEW p \in DOMAIN Routes, Navigate(p) PROVE FALSE
  <2>1. PICK o \in Routes[p] : Mounts(p, o)
    BY <1>1 DEF Navigate
  <2> QED BY <2>1, RoutesAsk DEF Leaves
<1>2. ~OpenCard
  BY DetailsLeave DEF OpenCard
<1>3. ASSUME ExplorerStep PROVE \E n \in Number : OtherBlock(n) \/ OtherTransaction(n)
  BY <1>3, DetailsLeave DEF ExplorerStep, Search, FollowRow, FollowDetail
<1> QED BY <1>1, <1>2, <1>3, MiningMoves, SettingsMoves, WalletMoves, TransactionsMoves,
           PeersMoves, SyncMoves, DashboardMoves
        DEF PageStep, FetchMempool, OtherBlock, OtherTransaction

LEMMA PageStepKeeps ==
    ASSUME SyncInv, PageStep
    PROVE  SyncInv' /\ SelectorInv'
<1>1. page \notin Parts /\ Move
  BY PageMoves
<1>2. CASE Leaves
  BY <1>2, SyncMounted
<1>3. CASE ~Leaves
  <2>1. page' = page /\ page # "Selector"
    BY <1>1, <1>3, MoveStays DEF Parts
  <2>2. CASE page = "Sync"
    <3>1. SyncStep
      BY <1>3, <2>2, OwnStep
    <3> QED BY <2>1, <2>2, <3>1, SyncSteps DEF SelectorInv
  <2>3. CASE page # "Sync"
    BY <2>1, <2>3 DEF SyncInv, SelectorInv
  <2> QED BY <2>2, <2>3
<1> QED BY <1>2, <1>3

\* A step of the program: what it does to the pages, and to the list.
LEMMA AppStep ==
    ASSUME ListInv, SelectorInv, SyncInv, [AppNext]_appVars
    PROVE  Move /\ [Next]_vars /\ SelectorInv' /\ SyncInv'
<1>1. CASE page = "Any" /\ Next /\ UNCHANGED uiVars
  BY <1>1 DEF uiVars, Move, Stays, SelectorInv, SyncInv
<1>2. CASE CheckPeriodically
  <2>1. page = "Header" /\ page' = page /\ UNCHANGED clientVars
    BY <1>2 DEF CheckPeriodically
  <2>2. Move
    BY <1>2, AsksOne DEF CheckPeriodically, CheckNodeConnection, Flag
  <2> QED BY <2>1, <2>2 DEF clientVars, SelectorInv, SyncInv
<1>3. CASE HeaderListStep
  <2>1. page = "Header" /\ page' = page
    BY <1>3 DEF HeaderListStep
  <2>2. ListStep
    BY <1>3 DEF HeaderListStep, ListStep
  <2>3. Move
    <3>1. CASE CheckNodeConnection
      BY <2>1, <3>1, AsksOne DEF CheckNodeConnection, Flag
    <3>2. CASE UNCHANGED <<busy, calls>>
      BY <2>1, <3>2 DEF Move, Stays
    <3> QED BY <1>3, <3>1, <3>2 DEF HeaderListStep
  <2> QED BY <2>1, <2>2, <2>3 DEF Next, SelectorInv, SyncInv
<1>4. CASE SelectorStep
  BY <1>4, SelectorSteps DEF Next, clientVars, SyncInv
<1>5. CASE Quietly(PageStep)
  BY <1>5, PageMoves, PageStepKeeps DEF Quietly, clientVars
<1>6. ASSUME NEW c \in calls, Quietly(Answered(c))
      PROVE  Move /\ [Next]_vars /\ SelectorInv' /\ SyncInv'
  <2>1. /\ Move /\ page' = page /\ UNCHANGED vars
        /\ page = "Selector" => ConnectionTested(c)
        /\ page = "Sync" => SyncAnswered(c)
    BY <1>6, AnswerMoves DEF Quietly, clientVars
  <2>2. SyncInv'
    BY <2>1, SyncSteps DEF SyncInv
  <2>3. CASE page = "Selector"
    <3>1. data' = [data EXCEPT !.testing = Undefined] /\ DOMAIN data = {"dialog", "index", "url", "testing"}
      BY <2>1, <2>3 DEF ConnectionTested, SelectorInv
    <3>2. /\ DOMAIN data' = {"dialog", "index", "url", "testing"} /\ data'.dialog = data.dialog
          /\ data'.index = data.index /\ data'.url = data.url
      BY <3>1
    <3>3. heap' = heap /\ nodes' = nodes
      BY <2>1 DEF vars, listVars
    <3> QED BY <2>1, <2>2, <2>3, <3>2, <3>3 DEF SelectorInv
  <2>4. CASE page # "Selector"
    BY <2>1, <2>2, <2>4 DEF SelectorInv
  <2> QED BY <2>3, <2>4
<1>7. CASE UNCHANGED appVars
  <2>1. UNCHANGED vars /\ UNCHANGED <<page, data, busy, calls>>
    BY <1>7 DEF appVars, clientVars, uiVars
  <2>2. heap' = heap /\ nodes' = nodes
    BY <2>1 DEF vars, listVars
  <2> QED BY <2>1, <2>2 DEF Move, Stays, SelectorInv, SyncInv, SyncConsistent
<1> QED BY <1>1, <1>2, <1>3, <1>4, <1>5, <1>6, <1>7 DEF AppNext

-----------------------------------------------------------------------------
(* Lists that are made of shorter ones *)

LEMMA EveryNumber ==
    ASSUME NEW T, 0 \in T, \A n \in Nat : n \in T => n + 1 \in T
    PROVE  Nat \subseteq T
<1> SUFFICES ASSUME Nat \ T # {} PROVE FALSE
  OBVIOUS
<1>1. PICK n \in Nat \ T : \A m \in Nat \ T : ~(<<m, n>> \in OpToRel(<, Nat))
  BY NatLessThanWellFounded, WFMin
<1>2. n # 0
  BY <1>1
<1>3. n - 1 \in Nat /\ n - 1 < n /\ (n - 1) + 1 = n
  BY <1>2
<1>4. <<n - 1, n>> \in OpToRel(<, Nat)
  BY <1>1, <1>3 DEF OpToRel
<1>5. n - 1 \in T
  BY <1>1, <1>3, <1>4
<1> QED BY <1>1, <1>3, <1>5

\* f[i] is the first i sequences of ss put together.
IsFlat(f, ss, n) == f = [i \in 1 .. n |-> IF i = 1 THEN ss[i] ELSE f[i - 1] \o ss[i]]

LEMMA FlatExists ==
    ASSUME NEW ss, NEW n \in Nat
    PROVE  \E f : IsFlat(f, ss, n)
<1> DEFINE T == {m \in Nat : \E f : IsFlat(f, ss, m)}
<1>1. 0 \in T
  <2>1. IsFlat([i \in 1 .. 0 |-> 0], ss, 0)
    BY DEF IsFlat
  <2> QED BY <2>1
<1>2. ASSUME NEW m \in Nat, m \in T PROVE m + 1 \in T
  <2>1. PICK f : IsFlat(f, ss, m)
    BY <1>2
  <2> DEFINE g == [i \in 1 .. m + 1 |->
                     IF i = 1 THEN ss[1] ELSE IF i = m + 1 THEN f[m] \o ss[m + 1] ELSE f[i]]
  <2>2. ASSUME NEW i \in 1 .. m + 1 PROVE g[i] = IF i = 1 THEN ss[i] ELSE g[i - 1] \o ss[i]
    <3>1. ASSUME NEW k \in 1 .. m PROVE g[k] = f[k]
      <4>1. k # m + 1 /\ k \in 1 .. m + 1
        OBVIOUS
      <4>2. k = 1 => f[k] = ss[1]
        BY <2>1 DEF IsFlat
      <4> QED BY <4>1, <4>2
    <3>2. CASE i = 1
      BY <3>2
    <3>3. CASE i # 1 /\ i = m + 1
      <4>0. i - 1 = m /\ m \in 1 .. m
        BY <3>3
      <4>1. g[i] = f[m] \o ss[m + 1] /\ i - 1 = m /\ m \in 1 .. m
        BY <3>3, <4>0
      <4>2. g[m] = f[m]
        BY <4>1, <3>1
      <4> HIDE DEF g
      <4> QED BY <3>3, <4>1, <4>2
    <3>4. CASE i # 1 /\ i # m + 1
      <4>1. i \in 1 .. m /\ i - 1 \in 1 .. m
        BY <3>4
      <4>2. f[i] = f[i - 1] \o ss[i]
        BY <2>1, <3>4, <4>1 DEF IsFlat
      <4>3. g[i] = f[i] /\ g[i - 1] = f[i - 1]
        BY <4>1, <3>1
      <4> HIDE DEF g
      <4> QED BY <3>4, <4>2, <4>3
    <3> QED BY <3>2, <3>3, <3>4
  <2>3. IsFlat(g, ss, m + 1)
    BY <2>2 DEF IsFlat
  <2> QED BY <2>3
<1>3. Nat \subseteq T
  <2> HIDE DEF T
  <2> QED BY <1>1, <1>2, EveryNumber
<1> QED BY <1>3

\* Of sequences with one element at most FlattenSeq makes one that is no longer
\* than their number.
LEMMA FlattenShort ==
    ASSUME NEW S, NEW n \in Nat, NEW ss, ss = [i \in 1 .. n |-> ss[i]],
           \A i \in 1 .. n : ss[i] \in Seq(S) /\ Len(ss[i]) <= 1
    PROVE  SeqExt!FlattenSeq(ss) \in Seq(S) /\ Len(SeqExt!FlattenSeq(ss)) <= n
<1>1. ss \in Seq(Seq(S)) /\ Len(ss) = n
  OBVIOUS
<1>2. CASE n = 0
  <2>1. SeqExt!FlattenSeq(ss) = ss
    BY <1>1, <1>2 DEF SeqExt!FlattenSeq
  <2>2. ss = <<>>
    BY <1>1, <1>2
  <2>3. SeqExt!FlattenSeq(ss) = <<>>
    BY <2>1, <2>2
  <2>4. <<>> \in Seq(S) /\ Len(<<>>) <= n
    OBVIOUS
  <2> QED BY <2>3, <2>4
<1>3. CASE n # 0
  <2> DEFINE Eq(f) == f = [i \in 1 .. Len(ss) |-> IF i = 1 THEN ss[i] ELSE f[i - 1] \o ss[i]]
  <2>1. SeqExt!FlattenSeq(ss) = (CHOOSE f : Eq(f))[Len(ss)]
    BY <1>1, <1>3 DEF SeqExt!FlattenSeq
  <2>2. \A f : Eq(f) <=> IsFlat(f, ss, n)
    BY <1>1 DEF IsFlat
  <2> HIDE DEF Eq
  <2>3. PICK f : IsFlat(f, ss, n) /\ SeqExt!FlattenSeq(ss) = f[n]
    <3>1. \E f : Eq(f)
      BY <2>2, FlatExists
    <3>2. Eq(CHOOSE f : Eq(f))
      BY <3>1
    <3> QED BY <1>1, <2>1, <2>2, <3>2
  <2> DEFINE Good(m) == f[m] \in Seq(S) /\ Len(f[m]) <= m
             T == {m \in Nat : m + 1 <= n => Good(m + 1)}
  <2>4. 0 \in T
    <3>1. 1 \in 1 .. n
      BY <1>3
    <3>2. f[1] = ss[1]
      BY <2>3, <3>1 DEF IsFlat
    <3> QED BY <3>1, <3>2
  <2>5. ASSUME NEW m \in Nat, m \in T PROVE m + 1 \in T
    <3>1. SUFFICES ASSUME m + 2 <= n PROVE Good(m + 2)
      <4>1. (m + 1) + 1 = m + 2
        OBVIOUS
      <4> HIDE DEF Good
      <4> QED BY <4>1
    <3>2. f[m + 1] \in Seq(S) /\ Len(f[m + 1]) <= m + 1
      BY <2>5, <3>1
    <3>3. f[m + 2] = f[m + 1] \o ss[m + 2] /\ ss[m + 2] \in Seq(S) /\ Len(ss[m + 2]) <= 1
      <4>1. m + 2 \in 1 .. n /\ m + 2 # 1 /\ (m + 2) - 1 = m + 1
        BY <3>1
      <4> QED BY <2>3, <4>1 DEF IsFlat
    <3>4. ASSUME NEW a \in Seq(S), NEW b \in Seq(S), Len(a) <= m + 1, Len(b) <= 1
          PROVE  a \o b \in Seq(S) /\ Len(a \o b) <= m + 2
      BY <3>4
    <3> QED BY <3>2, <3>3, <3>4
  <2>6. Good(n)
    <3>1. n - 1 \in Nat /\ (n - 1) + 1 = n
      BY <1>3
    <3>2. n - 1 \in T
      <4> HIDE DEF T
      <4> QED BY <3>1, <2>4, <2>5, EveryNumber
    <3> HIDE DEF Good
    <3> QED BY <3>1, <3>2
  <2> QED BY <2>3, <2>6
<1> QED BY <1>2, <1>3

\* The transactions the API lists, in the forms a page can get them.
Listed == PendingListed \cup ConfirmedListed

LEMMA ListedTypes ==
    ASSUME NEW tx \in Listed
    PROVE  /\ Tells(ItemChip(tx), tx) /\ Tells(CardChip(tx), tx)
           /\ tx.block = 0 \/ Tells(DetailChip(tx), tx)
           /\ [tx EXCEPT !.status = IF tx.block # Undefined \/ tx.status = "Confirmed"
                                    THEN "Confirmed" ELSE "Pending"] = tx
BY DEF Listed, PendingListed, ConfirmedListed, Transaction, Tells, ItemChip, CardChip, DetailChip,
       Truthy, Undefined, Null

LEMMA AtMostOneType ==
    ASSUME NEW S, NEW s \in AtMostOne(S)
    PROVE  s \in Seq(S) /\ Len(s) <= 1
<1>1. ASSUME NEW x \in S PROVE <<x>> \in Seq(S) /\ Len(<<x>>) = 1
  OBVIOUS
<1>2. ASSUME s = <<>> PROVE s \in Seq(S) /\ Len(s) <= 1
  BY <1>2
<1>3. s = <<>> \/ \E x \in S : s = <<x>>
  BY DEF AtMostOne
<1>4. ASSUME NEW x \in S, s = <<x>> PROVE s \in Seq(S) /\ Len(s) <= 1
  BY <1>1, <1>4
<1> QED BY <1>2, <1>3, <1>4

LEMMA LatestTransactionsType ==
    ASSUME NEW list \in LatestTransactions
    PROVE  list \in Seq(Listed)
<1>1. PICK m \in AtMostOne(PendingListed), c \in AtMostOne(ConfirmedListed) : list = m \o c
  BY DEF LatestTransactions
<1>2. m \in Seq(PendingListed) /\ c \in Seq(ConfirmedListed)
  BY AtMostOneType
<1>3. m \in Seq(Listed) /\ c \in Seq(Listed)
  BY <1>2 DEF Listed
<1> QED BY <1>1, <1>3

\* What the pages make of the mempool's transactions, which have no status.
LEMMA MempoolType ==
    ASSUME NEW txs \in MempoolReplies
    PROVE  [i \in DOMAIN txs |-> [txs[i] EXCEPT !.status = "Pending"]] \in Seq(PendingListed)
<1> DEFINE Bare == {Transaction(own, Undefined, "none", "mempool") : own \in BOOLEAN}
<1>1. txs \in Seq(Bare)
  BY AtMostOneType DEF MempoolReplies
<1>2. ASSUME NEW tx \in Bare PROVE [tx EXCEPT !.status = "Pending"] \in PendingListed
  BY DEF Transaction, PendingListed
<1> HIDE DEF Bare
<1>3. DOMAIN txs = 1 .. Len(txs) /\ Len(txs) \in Nat /\ \A i \in 1 .. Len(txs) : txs[i] \in Bare
  BY <1>1
<1> QED BY <1>2, <1>3

\* processTransactions keeps transactions as the API lists them.
LEMMA ProcessedType ==
    ASSUME NEW latest \in LatestTransactions, NEW mempool \in MempoolReplies, NEW address
    PROVE  ProcessTransactions(ListPending(latest, mempool), address) \in Seq(Listed)
<1> DEFINE txs == ListPending(latest, mempool)
<1>1. txs \in Seq(Listed)
  <2>1. [i \in DOMAIN mempool |-> [mempool[i] EXCEPT !.status = "Pending"]] \in Seq(Listed)
    BY MempoolType DEF Listed
  <2> QED BY <2>1, LatestTransactionsType DEF ListPending
<1> HIDE DEF txs
<1>2. DOMAIN txs = 1 .. Len(txs) /\ Len(txs) \in Nat /\ \A i \in 1 .. Len(txs) : txs[i] \in Listed
  BY <1>1
<1> DEFINE Processed(tx) == [tx EXCEPT !.status = IF tx.block # Undefined \/ tx.status = "Confirmed"
                                                 THEN "Confirmed" ELSE "Pending"]
           ss == [i \in 1 .. Len(txs) |->
                    IF txs[i].own /\ address = "own" THEN <<Processed(txs[i])>> ELSE <<>>]
<1>3. ProcessTransactions(txs, address) = SeqExt!FlattenSeq(ss)
  BY <1>2 DEF ProcessTransactions
<1>4. \A i \in 1 .. Len(txs) : Processed(txs[i]) \in Listed
  BY <1>2, ListedTypes
<1> HIDE DEF Processed
<1>5. \A i \in 1 .. Len(txs) : ss[i] \in Seq(Listed) /\ Len(ss[i]) <= 1
  BY <1>4
<1>6. ss = [i \in 1 .. Len(txs) |-> ss[i]]
  OBVIOUS
<1> HIDE DEF ss
<1> QED BY <1>2, <1>3, <1>5, <1>6, FlattenShort DEF txs

\* getLatestBlocks and getAllBlocks answer with no more blocks than were asked for.
LEMMA LatestBlocksType ==
    ASSUME NEW limit \in Nat, NEW list \in LatestBlocks(limit)
    PROVE  /\ DOMAIN list = 1 .. Len(list) /\ Len(list) \in 0 .. limit
           /\ list # <<>> => Len(list) # 0
<1>1. CASE list = <<>>
  BY <1>1
<1>2. ASSUME NEW h \in Height, list = [i \in 1 .. IF h < limit THEN h ELSE limit |-> h - i]
      PROVE  DOMAIN list = 1 .. Len(list) /\ Len(list) \in 0 .. limit /\ (list # <<>> => Len(list) # 0)
  <2>1. h \in Nat
    BY ServiceAssumption
  <2> DEFINE n == IF h < limit THEN h ELSE limit
  <2>2. n \in 0 .. limit
    BY <2>1
  <2> HIDE DEF n
  <2>3. list = [i \in 1 .. n |-> h - i]
    BY <1>2 DEF n
  <2>4. list \in Seq(Int) /\ Len(list) = n
    BY <2>1, <2>2, <2>3
  <2> QED BY <2>2, <2>4
<1> QED BY <1>1, <1>2 DEF LatestBlocks

LEMMA AllBlocksType ==
    ASSUME NEW maxBlocks \in Nat, NEW list \in AllBlocks(maxBlocks)
    PROVE  Len(list) <= maxBlocks
<1>1. CASE list = <<>>
  BY <1>1
<1>2. ASSUME NEW h \in Height \cup {MockHeight}, NEW n, n = (IF h < maxBlocks THEN h ELSE maxBlocks),
             NEW outcome \in [1 .. n -> {"read", "opaque", "failed"}], NEW ss,
             ss = [i \in DOMAIN outcome |-> CASE outcome[i] = "read"   -> <<h - i>>
                                               [] outcome[i] = "opaque" -> <<Undefined>>
                                               [] outcome[i] = "failed" -> <<>>]
      PROVE  Len(SeqExt!FlattenSeq(ss)) <= maxBlocks
  <2>1. h \in Nat /\ n \in Nat /\ n <= maxBlocks
    BY <1>2, ServiceAssumption
  <2>2. \A i \in 1 .. n : ss[i] \in Seq(Int) /\ Len(ss[i]) <= 1
    BY <1>2, <2>1 DEF Undefined
  <2>3. ss = [i \in 1 .. n |-> ss[i]]
    BY <1>2
  <2>4. SeqExt!FlattenSeq(ss) \in Seq(Int) /\ Len(SeqExt!FlattenSeq(ss)) <= n
    BY ONLY <2>1, <2>2, <2>3, FlattenShort
  <2> QED BY <2>1, <2>4
<1>3. CASE list # <<>>
  <2> DEFINE Of(h, outcome) == [i \in DOMAIN outcome |-> CASE outcome[i] = "read"   -> <<h - i>>
                                                           [] outcome[i] = "opaque" -> <<Undefined>>
                                                           [] outcome[i] = "failed" -> <<>>]
         Made(h) == {SeqExt!FlattenSeq(Of(h, outcome)) :
                       outcome \in [1 .. IF h < maxBlocks THEN h ELSE maxBlocks
                                       -> {"read", "opaque", "failed"}]}
  <2>1. list \in UNION {Made(h) : h \in Height \cup {MockHeight}}
    BY <1>3 DEF AllBlocks
  <2> HIDE DEF Made
  <2>2. PICK h \in Height \cup {MockHeight} : list \in Made(h)
    BY <2>1
  <2>3. PICK outcome \in [1 .. IF h < maxBlocks THEN h ELSE maxBlocks -> {"read", "opaque", "failed"}] :
             list = SeqExt!FlattenSeq(Of(h, outcome))
    BY <2>2 DEF Made
  <2> QED BY <1>2, <2>3
<1> QED BY <1>1, <1>3

-----------------------------------------------------------------------------
(* What each page shows *)

\* Where the rows of the Dashboard come from.
Origin == {"node", "mock", "mined"}

\* The transactions of the Dashboard that are not made up have the right chip.
ListsTruly(txs) ==
    \A i \in DOMAIN txs : txs[i].placed = "nowhere" \/ Tells(CardChip(txs[i]), txs[i])

MiningInv   == page = "Mining"   => data \in [difficulty : 1 .. 8, slider : 1 .. 8]
SettingsInv == page = "Settings" => data \in [difficulty : 1 .. 8, edited : BOOLEAN]

\* The lists of the wallet, that on the page and those a payment has kept for
\* when it ends, hold what the API lists and placeholders.
WalletInv ==
    page = "Wallet" =>
      /\ data \in [address : WalletReplies \cup {""}, list : Seq(Listed \cup {Placeholder}), form : Form]
      /\ \A c \in calls : c.fn = "createTransaction" => c.arg \in Seq(Listed \cup {Placeholder})

HistoryInv ==
    page = "Transactions" => data \in [list : Seq(Listed), tab : 0 .. 1, form : Form]
MempoolInv == page = "Mempool" => data \in [list : Seq(Listed)]
ExplorerInv ==
    page = "Explorer" => data \in [height : Nat, blocks : LatestBlocks(Rows), list : Seq(Listed)]
DetailInv ==
    page = "Transaction" => data \in [hash : Number, tx : AtMostOne(DetailReplies), error : BOOLEAN]
BlockchainInv == page = "Blockchain" => data \in [blocks : AllBlocks(MaxBlocks)]
DashboardInv ==
    page = "Dashboard" =>
      /\ DOMAIN data = {"height", "rows", "transactions"}
      /\ data.rows \in Seq(Origin) /\ Len(data.rows) <= Blocks
      /\ ListsTruly(data.transactions)
HeaderInv == page = "Header" => data \in [port : Nat \cup {Undefined, Null}]

ShownInv ==
    /\ MiningInv
    /\ SettingsInv
    /\ WalletInv
    /\ HistoryInv
    /\ MempoolInv
    /\ ExplorerInv
    /\ DetailInv
    /\ BlockchainInv
    /\ DashboardInv
    /\ HeaderInv

LEMMA MiningSteps ==
    ASSUME MiningInv, page = "Mining", page' = page,
           MiningStep \/ \E c \in calls : MiningAnswered(c)
    PROVE  MiningInv'
<1>1. data \in [difficulty : 1 .. 8, slider : 1 .. 8]
  BY DEF MiningInv
<1>2. CASE data' = data
  BY <1>1, <1>2 DEF MiningInv
<1>3. ASSUME NEW n \in Difficulty, MoveSlider(n) PROVE MiningInv'
  <2>1. n \in 1 .. 8
    BY ServiceAssumption
  <2> QED BY <1>1, <1>3, <2>1 DEF MiningInv, MoveSlider
<1>4. ASSUME NEW c \in calls, MiningStatsAnswered(c) PROVE MiningInv'
  <2>1. PICK s \in StatisticsReplies :
           data' = [difficulty |-> Or(s.difficulty, 4), slider |-> Or(s.difficulty, 4)]
    BY <1>4 DEF MiningStatsAnswered
  <2>2. Or(s.difficulty, 4) \in 1 .. 8
    <3>1. s.difficulty \in Difficulty \cup {4, Undefined}
      BY DEF StatisticsReplies, MockStatistics, NoStatistics
    <3>2. 4 \in 1 .. 8 /\ Difficulty \subseteq 1 .. 8
      BY ServiceAssumption
    <3>3. s.difficulty \in 1 .. 8 \/ s.difficulty = Undefined
      BY <3>1, <3>2
    <3> QED BY <3>3 DEF Or, Truthy, Undefined
  <2> QED BY <2>1, <2>2 DEF MiningInv
<1> QED BY <1>2, <1>3, <1>4
        DEF MiningStep, FetchMiningStats, UpdateDifficulty, MineBlock, MiningAnswered, MiningPosted

LEMMA SettingsSteps ==
    ASSUME SettingsInv, page = "Settings", page' = page,
           SettingsStep \/ \E c \in calls : SettingsAnswered(c)
    PROVE  SettingsInv'
<1>1. data \in [difficulty : 1 .. 8, edited : BOOLEAN] /\ Difficulty \subseteq 1 .. 8
  BY ServiceAssumption DEF SettingsInv
<1>2. CASE data' = data
  BY <1>1, <1>2 DEF SettingsInv
<1>3. ASSUME NEW n \in Difficulty, data' = [data EXCEPT !.difficulty = n] PROVE SettingsInv'
  BY <1>1, <1>3 DEF SettingsInv
<1>4. CASE data' = [data EXCEPT !.edited = TRUE]
  BY <1>1, <1>4 DEF SettingsInv
<1>5. ASSUME NEW n \in SettingsReplies, data' = [difficulty |-> n, edited |-> FALSE] PROVE SettingsInv'
  BY <1>1, <1>5 DEF SettingsInv, SettingsReplies
<1>6. CASE data' = [difficulty |-> 4, edited |-> FALSE]
  BY <1>6 DEF SettingsInv
<1> QED BY <1>2, <1>3, <1>4, <1>5, <1>6
        DEF SettingsStep, EditSettings, ResetSettings, SaveSettings, CloseSnackbar, SettingsAnswered,
            SettingsLoaded, SettingsSaved

LEMMA WalletSteps ==
    ASSUME WalletInv, page = "Wallet", page' = page,
           WalletStep \/ \E c \in calls : WalletAnswered(c)
    PROVE  WalletInv'
<1> DEFINE Lists == Seq(Listed \cup {Placeholder})
           Kind == [address : WalletReplies \cup {""}, list : Lists, form : Form]
           KeepsFor(cs) == \A c \in cs : c.fn = "createTransaction" => c.arg \in Lists
<1>1. data \in Kind /\ KeepsFor(calls)
  BY DEF WalletInv
<1>2. Kind' = Kind /\ Lists' = Lists
  OBVIOUS
<1>3. data' \in Kind /\ KeepsFor(calls') => WalletInv'
  BY DEF WalletInv
<1>4. <<>> \in Lists /\ "empty" \in Form
  BY DEF Form
<1>5. ASSUME NEW list \in Seq(Listed) PROVE list \in Lists
  BY <1>5
<1>6. ASSUME NEW list \in Lists PROVE <<Placeholder>> \o list \in Lists
  <2>1. <<Placeholder>> \in Seq(Listed \cup {Placeholder})
    OBVIOUS
  <2> QED BY <2>1
<1> HIDE DEF Lists
<1>7. ASSUME NEW list \in Lists PROVE [data EXCEPT !.list = list] \in Kind
  BY <1>1, <1>7
<1>8. ASSUME NEW form \in Form PROVE [data EXCEPT !.form = form] \in Kind
  BY <1>1, <1>8
<1>9. ASSUME NEW list \in Lists PROVE [data EXCEPT !.list = list, !.form = "empty"] \in Kind
  BY <1>1, <1>4, <1>9
<1>10. ASSUME NEW address \in WalletReplies PROVE [data EXCEPT !.address = address] \in Kind
  BY <1>1, <1>10
<1>11. data.list \in Lists
  BY <1>1
<1> HIDE DEF Kind
<1>12. ASSUME NEW id, NEW fn, NEW flags, NEW arg, fn # "createTransaction" \/ arg \in Lists,
              calls' \subseteq calls \cup {Call(id, fn, flags, arg)}
       PROVE  KeepsFor(calls')
  <2>1. Call(id, fn, flags, arg).fn = fn /\ Call(id, fn, flags, arg).arg = arg
    BY DEF Call
  <2> QED BY <1>1, <1>12, <2>1
<1>13. ASSUME calls' \subseteq calls PROVE KeepsFor(calls')
  BY <1>1, <1>13
<1> HIDE DEF KeepsFor
<1>14. ASSUME NEW fn, NEW flags, NEW arg, fn # "createTransaction" \/ arg \in Lists, Starts(fn, flags, arg)
       PROVE  KeepsFor(calls')
  <2>1. PICK id \in 1 .. MaxCalls : calls' = calls \cup {Call(id, fn, flags, arg)}
    BY <1>14, StartsFresh
  <2> QED BY <1>12, <1>14, <2>1
<1>15. ASSUME NEW c \in calls, NEW fn, NEW flags, NEW arg, fn # "createTransaction",
              calls' = (calls \ {c}) \cup {Call(c.id, fn, flags, arg)}
       PROVE  KeepsFor(calls')
  BY <1>12, <1>15
<1>16. CASE FetchWalletData
  BY <1>1, <1>3, <1>14, <1>16 DEF FetchWalletData
<1>17. ASSUME NEW form \in Form, FillWalletForm(form) PROVE WalletInv'
  BY <1>3, <1>8, <1>13, <1>17 DEF FillWalletForm
<1>18. CASE PayFromWallet
  <2>1. CASE data.form = "valid"
    BY <1>1, <1>3, <1>11, <1>14, <1>18, <2>1 DEF PayFromWallet
  <2>2. CASE data.form # "valid"
    BY <1>1, <1>3, <1>13, <1>18, <2>2 DEF PayFromWallet
  <2> QED BY <2>1, <2>2
<1>19. CASE WalletAlert
  BY <1>1, <1>3, <1>13, <1>19 DEF WalletAlert
<1>20. ASSUME NEW c \in calls, WalletInfoAnswered(c) PROVE WalletInv'
  <2>1. PICK address \in WalletReplies :
           /\ data' = [data EXCEPT !.address = address]
           /\ Continues(c, "walletTransactions", <<address>>)
    BY <1>20 DEF WalletInfoAnswered
  <2> QED BY <1>3, <1>10, <1>15, <2>1 DEF Continues
<1>21. ASSUME NEW c \in calls, WalletListed(c) PROVE WalletInv'
  <2>1. calls' \subseteq calls
    BY <1>21 DEF WalletListed, Ends
  <2>2. CASE data' = [data EXCEPT !.list = <<>>]
    BY <1>3, <1>4, <1>7, <1>13, <2>1, <2>2
  <2>3. ASSUME NEW latest \in LatestTransactions, NEW mempool \in MempoolReplies,
               data' = [data EXCEPT !.list = ProcessTransactions(ListPending(latest, mempool), c.arg[1])]
        PROVE  WalletInv'
    <3>1. ProcessTransactions(ListPending(latest, mempool), c.arg[1]) \in Lists
      BY <1>5, ProcessedType
    <3> QED BY <1>3, <1>7, <1>13, <2>1, <2>3, <3>1
  <2> QED BY <1>21, <2>2, <2>3 DEF WalletListed
<1>22. ASSUME NEW c \in calls, WalletPaid(c) PROVE WalletInv'
  <2>1. c.arg \in Lists
    BY <1>1, <1>22 DEF WalletPaid, KeepsFor
  <2>2. data' \in Kind
    BY <1>6, <1>9, <1>22, <2>1 DEF WalletPaid
  <2> QED BY <1>3, <1>15, <1>22, <2>2 DEF WalletPaid, EndsAndStarts
<1>23. ASSUME NEW c \in calls, WalletTimeout(c) PROVE WalletInv'
  BY <1>1, <1>3, <1>15, <1>23 DEF WalletTimeout, EndsAndStarts
<1> QED BY <1>16, <1>17, <1>18, <1>19, <1>20, <1>21, <1>22, <1>23 DEF WalletStep, WalletAnswered

LEMMA HistorySteps ==
    ASSUME HistoryInv, page = "Transactions", page' = page,
           TransactionsStep \/ \E c \in calls : TransactionsAnswered(c)
    PROVE  HistoryInv'
<1> DEFINE Lists == Seq(Listed)
           Kind == [list : Lists, tab : 0 .. 1, form : Form]
<1>1. data \in Kind
  BY DEF HistoryInv
<1>2. data' \in Kind => HistoryInv'
  BY DEF HistoryInv
<1>3. \A list \in LatestTransactions : list \in Lists
  BY LatestTransactionsType
<1> HIDE DEF Lists
<1>9. ASSUME NEW list \in Lists PROVE [data EXCEPT !.list = list] \in Kind
  BY <1>1, <1>9
<1>10. ASSUME NEW form \in Form PROVE [data EXCEPT !.form = form] \in Kind
  BY <1>1, <1>10
<1>11. ASSUME NEW form \in Form, NEW tab \in 0 .. 1 PROVE [data EXCEPT !.form = form, !.tab = tab] \in Kind
  BY <1>1, <1>11
<1>12. ASSUME NEW tab \in 0 .. 1 PROVE [data EXCEPT !.tab = tab] \in Kind
  BY <1>1, <1>12
<1>13. data.tab \in 0 .. 1
  BY <1>1
<1> HIDE DEF Kind
<1>4. CASE ChangeTab
  <2>1. 1 - data.tab \in 0 .. 1 /\ data' = [data EXCEPT !.tab = 1 - data.tab]
    BY <1>4, <1>13 DEF ChangeTab
  <2> QED BY <1>2, <1>12, <2>1
<1>5. ASSUME NEW form \in Form, FillTransactionForm(form) PROVE HistoryInv'
  BY <1>2, <1>5, <1>10 DEF FillTransactionForm
<1>6. CASE CreateTransaction
  BY <1>1, <1>2, <1>6 DEF CreateTransaction
<1>7. ASSUME NEW c \in calls, HistoryAnswered(c) PROVE HistoryInv'
  BY <1>1, <1>2, <1>3, <1>7, <1>9 DEF HistoryAnswered
<1>8. ASSUME NEW c \in calls, TransactionCreated(c) PROVE HistoryInv'
  <2>1. "empty" \in Form /\ 1 \in 0 .. 1
    BY DEF Form
  <2> QED BY <1>2, <1>8, <1>11, <2>1 DEF TransactionCreated
<1> QED BY <1>4, <1>5, <1>6, <1>7, <1>8 DEF TransactionsStep, TransactionsAnswered

LEMMA MempoolSteps ==
    ASSUME MempoolInv, page = "Mempool", page' = page,
           FetchMempool \/ \E c \in calls : MempoolAnswered(c)
    PROVE  MempoolInv'
<1>1. CASE FetchMempool
  BY <1>1 DEF FetchMempool, MempoolInv
<1>2. ASSUME NEW c \in calls, MempoolAnswered(c) PROVE MempoolInv'
  <2>1. PICK txs \in MempoolReplies :
           data' = [list |-> [i \in DOMAIN txs |-> [txs[i] EXCEPT !.status = "Pending"]]]
    BY <1>2 DEF MempoolAnswered
  <2>2. [i \in DOMAIN txs |-> [txs[i] EXCEPT !.status = "Pending"]] \in Seq(Listed)
    BY MempoolType DEF Listed
  <2> QED BY <2>1, <2>2 DEF MempoolInv
<1> QED BY <1>1, <1>2

LEMMA ExplorerSteps ==
    ASSUME ExplorerInv, page = "Explorer", page' = page, NEW c \in calls, ExplorerAnswered(c)
    PROVE  ExplorerInv'
<1> DEFINE Lists == Seq(Listed)
           Kind == [height : Nat, blocks : LatestBlocks(Rows), list : Lists]
<1>1. data \in Kind
  BY DEF ExplorerInv
<1>2. data' \in Kind => ExplorerInv'
  BY DEF ExplorerInv
<1>3. \A list \in LatestTransactions : list \in Lists
  BY LatestTransactionsType
<1> HIDE DEF Lists
<1>4. ASSUME NEW s \in StatisticsReplies PROVE Or(s.height, 0) \in Nat
  <2>1. s.height \in Height \cup {MockHeight, Undefined}
    BY DEF StatisticsReplies, MockStatistics, NoStatistics
  <2>2. s.height \in Nat \/ s.height = Undefined
    BY <2>1, ServiceAssumption
  <2> QED BY <2>2 DEF Or, Truthy, Undefined
<1>5. ASSUME NEW n \in Nat PROVE [data EXCEPT !.height = n] \in Kind
  BY <1>1, <1>5
<1>6. ASSUME NEW blocks \in LatestBlocks(Rows) PROVE [data EXCEPT !.blocks = blocks] \in Kind
  BY <1>1, <1>6
<1>7. ASSUME NEW list \in Lists PROVE [data EXCEPT !.list = list] \in Kind
  BY <1>1, <1>7
<1> HIDE DEF Kind
<1> QED BY <1>1, <1>2, <1>3, <1>4, <1>5, <1>6, <1>7 DEF ExplorerAnswered

LEMMA DetailSteps ==
    ASSUME DetailInv, page = "Transaction", page' = page,
           (\E n \in Number : OtherTransaction(n)) \/ \E c \in calls : TransactionAnswered(c)
    PROVE  DetailInv'
<1> DEFINE Kind == [hash : Number, tx : AtMostOne(DetailReplies), error : BOOLEAN]
<1>1. data \in Kind
  BY DEF DetailInv
<1>2. data' \in Kind => DetailInv'
  BY DEF DetailInv
<1>3. ASSUME NEW n \in Number PROVE [data EXCEPT !.hash = n] \in Kind
  BY <1>1, <1>3
<1>4. [data EXCEPT !.error = TRUE] \in Kind
  BY <1>1
<1>5. ASSUME NEW tx \in AtMostOne(DetailReplies) PROVE [data EXCEPT !.tx = tx, !.error = FALSE] \in Kind
  BY <1>1, <1>5
<1>6. ASSUME NEW tx \in DetailReplies PROVE <<tx>> \in AtMostOne(DetailReplies)
  BY DEF AtMostOne
<1> HIDE DEF Kind
<1>7. ASSUME NEW n \in Number, OtherTransaction(n) PROVE DetailInv'
  BY <1>2, <1>3, <1>7 DEF OtherTransaction
<1>8. ASSUME NEW c \in calls, TransactionAnswered(c) PROVE DetailInv'
  BY <1>2, <1>4, <1>5, <1>6, <1>8 DEF TransactionAnswered
<1> QED BY <1>7, <1>8

LEMMA BlockchainSteps ==
    ASSUME BlockchainInv, page = "Blockchain", page' = page, NEW c \in calls, BlockchainAnswered(c)
    PROVE  BlockchainInv'
<1>1. PICK blocks \in AllBlocks(MaxBlocks) : data' = [blocks |-> blocks]
  BY DEF BlockchainAnswered
<1> QED BY <1>1 DEF BlockchainInv

\* The Dashboard never has more rows than it asks for.
LEMMA RowsType ==
    /\ MockRows \in Seq(Origin) /\ Len(MockRows) \in 1 .. Blocks
    /\ \A list \in LatestBlocks(Blocks) :
         list # <<>> => LET rows == [i \in DOMAIN list |-> "node"]
                        IN  rows \in Seq(Origin) /\ Len(rows) \in 1 .. Blocks
<1>1. Blocks \in Nat \ {0} /\ "mock" \in Origin /\ "node" \in Origin
  BY DashboardAssumption DEF Origin
<1>2. ASSUME NEW n \in 1 .. Blocks, NEW from \in Origin
      PROVE  LET rows == [i \in 1 .. n |-> from] IN rows \in Seq(Origin) /\ Len(rows) \in 1 .. Blocks
  BY <1>1
<1>3. Blocks \in 1 .. Blocks
  BY <1>1
<1>4. ASSUME NEW list \in LatestBlocks(Blocks), list # <<>>
      PROVE  DOMAIN list = 1 .. Len(list) /\ Len(list) \in 1 .. Blocks
  <2>1. Len(list) \in 0 .. Blocks /\ Len(list) # 0 /\ DOMAIN list = 1 .. Len(list)
    BY <1>1, <1>4, LatestBlocksType
  <2> QED BY <1>1, <2>1
<1> QED BY <1>1, <1>2, <1>3, <1>4 DEF MockRows

\* What it shows of the node's transactions, and those it makes up.
LEMMA TransactionsShown ==
    /\ ListsTruly(<<>>) /\ ListsTruly(MockTransactions)
    /\ \A listed \in LatestTransactions : ListsTruly(Anyones(listed))
<1>1. ListsTruly(<<>>)
  BY DEF ListsTruly
<1>2. ListsTruly(MockTransactions)
  BY DEF ListsTruly, MockTransactions, Transaction
<1>3. ASSUME NEW tx \in Listed
      PROVE  Tells(CardChip([tx EXCEPT !.own = FALSE]), [tx EXCEPT !.own = FALSE])
  BY DEF Listed, PendingListed, ConfirmedListed, Transaction, Tells, CardChip
<1>4. ASSUME NEW listed \in LatestTransactions
      PROVE  ListsTruly(Anyones(listed))
  <2>1. listed \in Seq(Listed)
    BY LatestTransactionsType
  <2>2. \A i \in DOMAIN listed : listed[i] \in Listed
    BY <2>1
  <2> QED BY <1>3, <2>2 DEF ListsTruly, Anyones
<1> QED BY <1>1, <1>2, <1>4

\* A sequence that gets a new first element and loses its last, if it has one.
LEMMA NewFirst ==
    ASSUME NEW S, NEW s \in Seq(S), Len(s) > 0, NEW x \in S
    PROVE  LET t == <<x>> \o SubSeq(s, 1, Len(s) - 1) IN t \in Seq(S) /\ Len(t) = Len(s)
<1> DEFINE a == SubSeq(s, 1, Len(s) - 1)
<1>1. ASSUME NEW i \in 1 .. Len(s) PROVE SubSeq(s, 1, i - 1) \in Seq(S) /\ Len(SubSeq(s, 1, i - 1)) = i - 1
  BY <1>1
<1>2. Len(s) \in 1 .. Len(s)
  OBVIOUS
<1>3. a \in Seq(S) /\ Len(a) = Len(s) - 1
  BY <1>1, <1>2
<1>4. <<x>> \in Seq(S) /\ Len(<<x>>) = 1
  OBVIOUS
<1> HIDE DEF a
<1>5. <<x>> \o a \in Seq(S) /\ Len(<<x>> \o a) = Len(s)
  BY <1>3, <1>4
<1> QED BY <1>5 DEF a

LEMMA NoRows == <<>> \in Seq(Origin) /\ Len(<<>>) <= Blocks
BY DashboardAssumption

LEMMA FirstRow ==
    ASSUME NEW S, NEW s \in Seq(S), Len(s) <= Blocks, NEW x \in S
    PROVE  LET t == <<x>> \o SubSeq(s, 1, Len(s) - 1) IN t \in Seq(S) /\ Len(t) <= Blocks
<1>1. CASE Len(s) > 0
  BY <1>1, NewFirst
<1>2. CASE Len(s) = 0
  <2>1. SubSeq(s, 1, Len(s) - 1) = <<>>
    BY <1>2
  <2>2. <<x>> \o <<>> = <<x>> /\ <<x>> \in Seq(S) /\ Len(<<x>>) = 1
    OBVIOUS
  <2>3. 1 <= Blocks
    BY DashboardAssumption
  <2> QED BY <2>1, <2>2, <2>3
<1> QED BY <1>1, <1>2

LEMMA DashboardSteps ==
    ASSUME DashboardInv, page = "Dashboard", page' = page,
           DashboardStep \/ \E c \in calls : DashboardPageAnswered(c)
    PROVE  DashboardInv'
<1> DEFINE Shown(d) == /\ DOMAIN d = {"height", "rows", "transactions"}
                       /\ d.rows \in Seq(Origin) /\ Len(d.rows) <= Blocks
                       /\ ListsTruly(d.transactions)
<1>1. Shown(data)
  BY DEF DashboardInv
<1>2. Shown(data') => DashboardInv'
  BY DEF DashboardInv
<1>3. CASE data' = data
  BY <1>1, <1>2, <1>3
<1>4. ASSUME NEW height, NEW rows, NEW txs, rows \in Seq(Origin), Len(rows) \in 1 .. Blocks,
             ListsTruly(txs), data' = [height |-> height, rows |-> rows, transactions |-> txs]
      PROVE  DashboardInv'
  <2>1. Len(rows) <= Blocks
    BY <1>4, DashboardAssumption
  <2> QED BY <1>2, <1>4, <2>1
<1>5. ASSUME NEW c \in calls, DashboardAnswered(c) PROVE DashboardInv'
  <2>1. CASE data' = [height |-> MockHeight, rows |-> MockRows, transactions |-> MockTransactions]
    BY <1>4, <2>1, RowsType, TransactionsShown
  <2>2. ASSUME NEW height, NEW blocks \in LatestBlocks(Blocks),
               NEW txs \in {Anyones(listed) : listed \in LatestTransactions},
               data' = [height |-> height,
                        rows |-> IF blocks = <<>> THEN MockRows ELSE [i \in DOMAIN blocks |-> "node"],
                        transactions |-> IF txs = <<>> THEN MockTransactions ELSE txs]
        PROVE  DashboardInv'
    <3> DEFINE rows == IF blocks = <<>> THEN MockRows ELSE [i \in DOMAIN blocks |-> "node"]
    <3>1. rows \in Seq(Origin) /\ Len(rows) \in 1 .. Blocks
      BY RowsType
    <3>2. ListsTruly(IF txs = <<>> THEN MockTransactions ELSE txs)
      BY TransactionsShown
    <3>3. PICK kept : ListsTruly(kept) /\ data' = [height |-> height, rows |-> rows, transactions |-> kept]
      BY <2>2, <3>2
    <3> HIDE DEF rows
    <3> QED BY <1>4, <3>1, <3>3
  <2> QED BY <1>5, <2>1, <2>2 DEF DashboardAnswered
<1>6. ASSUME NEW c \in calls, MinedShown(c) PROVE DashboardInv'
  <2> DEFINE rows == <<"mined">> \o SubSeq(data.rows, 1, Len(data.rows) - 1)
  <2>1. PICK s \in StatisticsReplies :
           data' = [data EXCEPT !.height = Or(s.height, c.arg[1] + 1),
                                !.rows = <<"mined">> \o SubSeq(@, 1, Len(@) - 1)]
    BY <1>6 DEF MinedShown
  <2>2. rows \in Seq(Origin) /\ Len(rows) <= Blocks
    <3>1. "mined" \in Origin
      BY DEF Origin
    <3> QED BY <1>1, <3>1, FirstRow
  <2>3. DOMAIN data' = DOMAIN data /\ data'.rows = rows /\ data'.transactions = data.transactions
    BY <1>1, <2>1
  <2> HIDE DEF rows
  <2> QED BY <1>1, <1>2, <2>2, <2>3
<1> QED BY <1>3, <1>5, <1>6
        DEF DashboardStep, FetchDashboardData, DashboardMine, MiningTimesOut,
            DashboardPageAnswered, BlockMined

\* The header shows the first digits of an address of the list, or nothing.
LEMMA HeaderSteps ==
    ASSUME ListInv, page = "Header", page' = page, NEW c \in calls, HeaderAnswered(c)
    PROVE  HeaderInv'
<1>1. FirstDigits[BaseUrl] \in Nat \cup {Undefined}
  BY ActiveIndexType, FirstDigitsAssumption
<1> QED BY <1>1 DEF HeaderAnswered, HeaderInv

\* What a page shows when it has just been mounted.
LEMMA ShownMounted ==
    ASSUME Leaves
    PROVE  ShownInv'
<1>1. PICK p, o : /\ Mounts(p, o)
                  /\ \/ p \in {"Block", "Address"}
                     \/ p = "Transaction" /\ o \in {TransactionOpened(n) : n \in Number}
                     \/ p \in DOMAIN Routes /\ o \in Routes[p]
  BY DEF Leaves
<1>2. page' = p /\ data' = o.data /\ calls' = o.calls /\ p # "Header"
  BY <1>1 DEF Mounts, Routes
<1>3. \A T : <<>> \in Seq(T)
  OBVIOUS
<1>4. MiningInv'
  <2>1. CASE p = "Mining"
    <3>1. data' = [difficulty |-> 4, slider |-> 4]
      BY <1>1, <1>2, <2>1 DEF Routes, MiningOpened, Opened
    <3> QED BY <3>1 DEF MiningInv
  <2> QED BY <1>2, <2>1 DEF MiningInv
<1>5. SettingsInv'
  <2>1. CASE p = "Settings"
    <3>1. data' = [difficulty |-> 4, edited |-> FALSE]
      BY <1>1, <1>2, <2>1 DEF Routes, SettingsOpened, Opened
    <3> QED BY <3>1 DEF SettingsInv
  <2> QED BY <1>2, <2>1 DEF SettingsInv
<1>6. WalletInv'
  <2>1. CASE p = "Wallet"
    <3> DEFINE shows == [address |-> "", list |-> <<>>, form |-> "empty"]
               asks == Call(1, "getWalletInfo", {"loading"}, <<>>)
    <3>0. o = Opened(shows, "getWalletInfo", {"loading"})
      BY <1>1, <2>1 DEF Routes, WalletOpened
    <3>1. data' = shows /\ calls' = {asks}
      BY <1>2, <3>0 DEF Opened
    <3>2. \A c \in calls' : c.fn # "createTransaction"
      <4>1. asks.fn = "getWalletInfo"
        BY DEF Call
      <4> QED BY <3>1, <4>1
    <3> QED BY <1>3, <3>1, <3>2 DEF WalletInv, Form
  <2> QED BY <1>2, <2>1 DEF WalletInv
<1>7. HistoryInv'
  <2>1. CASE p = "Transactions"
    <3>1. data' = [list |-> <<>>, tab |-> 0, form |-> "empty"] /\ 0 \in 0 .. 1
      BY <1>1, <1>2, <2>1 DEF Routes, TransactionsOpened, Opened
    <3> QED BY <1>3, <3>1 DEF HistoryInv, Form
  <2> QED BY <1>2, <2>1 DEF HistoryInv
<1>8. MempoolInv'
  <2>1. CASE p = "Mempool"
    <3>1. data' = [list |-> <<>>]
      BY <1>1, <1>2, <2>1 DEF Routes, MempoolOpened, Opened
    <3> QED BY <1>3, <3>1 DEF MempoolInv
  <2> QED BY <1>2, <2>1 DEF MempoolInv
<1>9. ExplorerInv'
  <2>1. CASE p = "Explorer"
    <3>1. data' = [height |-> 0, blocks |-> <<>>, list |-> <<>>]
      BY <1>1, <1>2, <2>1 DEF Routes, ExplorerOpened, Opened
    <3>2. <<>> \in LatestBlocks(Rows) /\ 0 \in Nat
      BY DEF LatestBlocks
    <3> QED BY <1>3, <3>1, <3>2 DEF ExplorerInv
  <2> QED BY <1>2, <2>1 DEF ExplorerInv
<1>10. DetailInv'
  <2>1. CASE p = "Transaction"
    <3>1. PICK n \in Number : o = TransactionOpened(n)
      BY <1>1, <2>1 DEF Routes
    <3>2. data' = [hash |-> n, tx |-> <<>>, error |-> FALSE]
      BY <1>2, <3>1 DEF TransactionOpened
    <3> QED BY <3>2 DEF DetailInv, AtMostOne
  <2> QED BY <1>2, <2>1 DEF DetailInv
<1>11. BlockchainInv'
  <2>1. CASE p = "Blockchain"
    <3>1. data' = [blocks |-> <<>>]
      BY <1>1, <1>2, <2>1 DEF Routes, BlockchainOpened, Opened
    <3> QED BY <3>1 DEF BlockchainInv, AllBlocks
  <2> QED BY <1>2, <2>1 DEF BlockchainInv
<1>12. DashboardInv'
  <2>1. CASE p = "Dashboard"
    <3>1. data' = [height |-> MockHeight, rows |-> <<>>, transactions |-> <<>>]
      BY <1>1, <1>2, <2>1 DEF Routes, DashboardOpened, Opened
    <3> QED BY <3>1, NoRows, TransactionsShown DEF DashboardInv
  <2> QED BY <1>2, <2>1 DEF DashboardInv
<1>13. HeaderInv'
  BY <1>2 DEF HeaderInv
<1> QED BY <1>4, <1>5, <1>6, <1>7, <1>8, <1>9, <1>10, <1>11, <1>12, <1>13 DEF ShownInv

\* An answer is one the page waits for.
LEMMA OwnAnswer ==
    ASSUME NEW c \in calls, Answered(c)
    PROVE  /\ page = "Mining"       => MiningAnswered(c)
           /\ page = "Settings"     => SettingsAnswered(c)
           /\ page = "Wallet"       => WalletAnswered(c)
           /\ page = "Transactions" => TransactionsAnswered(c)
           /\ page = "Mempool"      => MempoolAnswered(c)
           /\ page = "Explorer"     => ExplorerAnswered(c)
           /\ page = "Transaction"  => TransactionAnswered(c)
           /\ page = "Blockchain"   => BlockchainAnswered(c)
           /\ page = "Dashboard"    => DashboardPageAnswered(c)
           /\ page = "Header"       => HeaderAnswered(c)
<1>1. MiningAnswered(c) => page = "Mining"
  BY DEF MiningAnswered, MiningStatsAnswered, MiningPosted
<1>2. SettingsAnswered(c) => page = "Settings"
  BY DEF SettingsAnswered, SettingsLoaded, SettingsSaved
<1>3. WalletAnswered(c) => page = "Wallet"
  BY DEF WalletAnswered, WalletInfoAnswered, WalletListed, WalletPaid, WalletTimeout
<1>4. TransactionsAnswered(c) => page = "Transactions"
  BY DEF TransactionsAnswered, HistoryAnswered, TransactionCreated
<1>5. MempoolAnswered(c) => page = "Mempool"
  BY DEF MempoolAnswered
<1>6. /\ ExplorerAnswered(c) => page = "Explorer"
      /\ BlockAnswered(c) => page = "Block"
      /\ TransactionAnswered(c) => page = "Transaction"
      /\ BlockchainAnswered(c) => page = "Blockchain"
  BY DEF ExplorerAnswered, BlockAnswered, TransactionAnswered, BlockchainAnswered
<1>7. PeersPageAnswered(c) => page = "Peers"
  BY DEF PeersPageAnswered, PeersAnswered, PeerConnected
<1>8. SyncAnswered(c) => page = "Sync"
  BY DEF SyncAnswered, SyncLoaded, SyncStarted
<1>9. DashboardPageAnswered(c) => page = "Dashboard"
  BY DEF DashboardPageAnswered, DashboardAnswered, BlockMined, MinedShown
<1>10. (HeaderAnswered(c) => page = "Header") /\ (ConnectionTested(c) => page = "Selector")
  BY DEF HeaderAnswered, ConnectionTested
<1> QED BY <1>1, <1>2, <1>3, <1>4, <1>5, <1>6, <1>7, <1>8, <1>9, <1>10
        DEF Answered, ExplorerPagesAnswered, HeaderPagesAnswered

\* Of a page that is not mounted nothing is said.
LEMMA Elsewhere ==
    ASSUME page' = page,
           page = "Mining" => MiningInv', page = "Settings" => SettingsInv',
           page = "Wallet" => WalletInv', page = "Transactions" => HistoryInv',
           page = "Mempool" => MempoolInv', page = "Explorer" => ExplorerInv',
           page = "Transaction" => DetailInv', page = "Blockchain" => BlockchainInv',
           page = "Dashboard" => DashboardInv', page = "Header" => HeaderInv'
    PROVE  ShownInv'
<1>1. /\ page # "Mining" => MiningInv'
      /\ page # "Settings" => SettingsInv'
      /\ page # "Wallet" => WalletInv'
  BY DEF MiningInv, SettingsInv, WalletInv
<1>2. /\ page # "Transactions" => HistoryInv'
      /\ page # "Mempool" => MempoolInv'
      /\ page # "Explorer" => ExplorerInv'
  BY DEF HistoryInv, MempoolInv, ExplorerInv
<1>3. /\ page # "Transaction" => DetailInv'
      /\ page # "Blockchain" => BlockchainInv'
      /\ page # "Dashboard" => DashboardInv'
      /\ page # "Header" => HeaderInv'
  BY DEF DetailInv, BlockchainInv, DashboardInv, HeaderInv
<1> QED BY <1>1, <1>2, <1>3 DEF ShownInv

\* Every step keeps what the pages show.
LEMMA ShownNext == ListInv /\ ShownInv /\ [AppNext]_appVars => ShownInv'
<1> SUFFICES ASSUME ListInv, ShownInv, [AppNext]_appVars PROVE ShownInv'
  OBVIOUS
<1>1. CASE page' = page /\ page \in {"Header", "Any"} /\ data' = data
  <2>1. page = "Header" => HeaderInv'
    BY <1>1 DEF ShownInv, HeaderInv
  <2> QED BY <1>1, <2>1, Elsewhere
<1>2. CASE page = "Any" /\ UNCHANGED uiVars
  BY <1>1, <1>2 DEF uiVars
<1>3. CASE CheckPeriodically \/ HeaderListStep
  BY <1>1, <1>3 DEF CheckPeriodically, HeaderListStep
<1>4. CASE page' = page /\ page = "Selector"
  BY <1>4, Elsewhere
<1>5. CASE SelectorStep
  BY <1>4, <1>5 DEF SelectorStep, TurnTo, SelectNode, OpenAddNode, OpenEditNode, TypeUrl, SaveNode,
                    DeleteNode, ResetNodes, TestConnection, SelectorUI, Quiet
<1>6. CASE PageStep
  <2>1. CASE Leaves
    BY <2>1, ShownMounted
  <2>2. CASE ~Leaves
    <3>1. page' = page
      BY <1>6, <2>2, PageMoves, MoveStays
    <3> QED BY <1>6, <2>2, <3>1, OwnStep, MiningSteps, SettingsSteps, WalletSteps, HistorySteps,
               MempoolSteps, DetailSteps, DashboardSteps, Elsewhere DEF ShownInv
  <2> QED BY <2>1, <2>2
<1>7. ASSUME NEW c \in calls, Answered(c) PROVE ShownInv'
  <2>1. page' = page
    BY <1>7, AnswerMoves
  <2>2. page = "Mining" => MiningInv'
    BY <1>7, <2>1, OwnAnswer, MiningSteps DEF ShownInv
  <2>3. page = "Settings" => SettingsInv'
    BY <1>7, <2>1, OwnAnswer, SettingsSteps DEF ShownInv
  <2>4. page = "Wallet" => WalletInv'
    BY <1>7, <2>1, OwnAnswer, WalletSteps DEF ShownInv
  <2>5. page = "Transactions" => HistoryInv'
    BY <1>7, <2>1, OwnAnswer, HistorySteps DEF ShownInv
  <2>6. page = "Mempool" => MempoolInv'
    BY <1>7, <2>1, OwnAnswer, MempoolSteps DEF ShownInv
  <2>7. page = "Explorer" => ExplorerInv'
    BY <1>7, <2>1, OwnAnswer, ExplorerSteps DEF ShownInv
  <2>8. page = "Transaction" => DetailInv'
    BY <1>7, <2>1, OwnAnswer, DetailSteps DEF ShownInv
  <2>9. page = "Blockchain" => BlockchainInv'
    BY <1>7, <2>1, OwnAnswer, BlockchainSteps DEF ShownInv
  <2>10. page = "Dashboard" => DashboardInv'
    BY <1>7, <2>1, OwnAnswer, DashboardSteps DEF ShownInv
  <2>11. page = "Header" => HeaderInv'
    BY <1>7, <2>1, OwnAnswer, HeaderSteps
  <2> QED BY <2>1, <2>2, <2>3, <2>4, <2>5, <2>6, <2>7, <2>8, <2>9, <2>10, <2>11, Elsewhere
<1>8. CASE UNCHANGED appVars
  <2>1. page' = page /\ data' = data /\ calls' = calls
    BY <1>8 DEF appVars, uiVars
  <2>2. MiningInv' /\ SettingsInv' /\ HistoryInv' /\ MempoolInv' /\ BlockchainInv' /\ HeaderInv'
    BY <2>1 DEF ShownInv, MiningInv, SettingsInv, HistoryInv, MempoolInv, BlockchainInv, HeaderInv
  <2>3. WalletInv' /\ ExplorerInv' /\ DetailInv' /\ DashboardInv'
    BY <2>1 DEF ShownInv, WalletInv, ExplorerInv, DetailInv, DashboardInv
  <2> QED BY <2>2, <2>3 DEF ShownInv
<1> QED BY <1>2, <1>3, <1>5, <1>6, <1>7, <1>8 DEF AppNext, Quietly

-----------------------------------------------------------------------------
(* Flags and alerts *)

Alert == {"success", "error", "warning", "info"}

FlagsInv == page \in Pages /\ busy \subseteq Flag /\ \A c \in calls : c.flags \subseteq Flag
NoticeInv == notice \subseteq Alert

LEMMA MoveFlags == CallsInv /\ FlagsInv /\ Move => FlagsInv'
<1> SUFFICES ASSUME CallsInv, FlagsInv, Move PROVE FlagsInv'
  OBVIOUS
<1>0. \A flags \in FlagSets : flags \subseteq Flag
  BY DEF FlagSets
<1>1. CASE Stays
  BY <1>1 DEF Stays, FlagsInv
<1>2. CASE Asks
  <2>1. PICK fn, arg : \E flags \in FlagSets : Starts(fn, flags, arg)
    BY <1>2 DEF Asks
  <2>2. PICK flags \in FlagSets : Starts(fn, flags, arg)
    BY <2>1
  <2>3. PICK id \in 1 .. MaxCalls : calls' = calls \cup {Call(id, fn, flags, arg)} /\ busy' = busy \cup flags
    BY <2>2, StartsFresh
  <2> QED BY <1>0, <1>2, <2>3, CallFields DEF Asks, FlagsInv
<1>3. ASSUME NEW c \in calls, Hears(c) PROVE FlagsInv'
  <2>0. page' = page
    BY <1>3 DEF Hears
  <2>1. CASE Ends(c)
    BY <2>0, <2>1 DEF Ends, FlagsInv
  <2>2. ASSUME NEW fn, NEW arg, Continues(c, fn, arg) PROVE FlagsInv'
    BY <2>0, <2>2, CallFields DEF Continues, FlagsInv
  <2>3. ASSUME NEW fn, NEW arg, NEW flags \in FlagSets, EndsAndStarts(c, fn, flags, arg)
        PROVE  FlagsInv'
    BY <1>0, <2>0, <2>3, CallFields DEF EndsAndStarts, FlagsInv
  <2>4. CASE GivesUp(c)
    BY <2>0, <2>4, GivesUpFields DEF GivesUp, FlagsInv
  <2> QED BY <1>3, <2>1, <2>2, <2>3, <2>4 DEF Hears
<1>4. CASE Leaves
  <2>1. PICK p, o : Mounts(p, o) /\ AsksFirst(o) /\ p \in Pages
    BY <1>4 DEF Leaves, Pages, Details
  <2>2. page' \in Pages /\ busy' = o.flags /\ calls' = o.calls
    BY <2>1 DEF Mounts
  <2> QED BY <1>0, <2>1, <2>2, CallFields DEF AsksFirst, FlagsInv
<1> QED BY <1>1, <1>2, <1>3, <1>4 DEF Move

LEMMA NoticeNext == NoticeInv /\ [AppNext]_appVars => NoticeInv'
<1> SUFFICES ASSUME NoticeInv, [AppNext]_appVars PROVE NoticeInv'
  OBVIOUS
<1> DEFINE Alerts == notice' \subseteq notice \cup Alert
<1>0. Alerts => NoticeInv'
  BY DEF NoticeInv
<1>1. CASE UNCHANGED notice
  BY <1>0, <1>1
<1>2. CASE CheckPeriodically \/ HeaderListStep \/ UNCHANGED uiVars
  BY <1>1, <1>2 DEF CheckPeriodically, HeaderListStep, uiVars
<1>3. ASSUME NEW p, NEW o, Mounts(p, o) PROVE NoticeInv'
  BY <1>3 DEF Mounts, NoticeInv
<1> USE DEF Alert
<1>4. SelectorStep => Alerts
  BY DEF SelectorStep, TurnTo, SelectNode, OpenAddNode, OpenEditNode, TypeUrl, SaveNode, DeleteNode,
         ResetNodes, TestConnection
<1>5. MiningStep \/ SettingsStep \/ FetchMempool => Alerts
  BY DEF MiningStep, FetchMiningStats, MoveSlider, UpdateDifficulty, MineBlock, SettingsStep,
         EditSettings, ResetSettings, SaveSettings, CloseSnackbar, FetchMempool
<1>6. WalletStep \/ TransactionsStep => Alerts
  BY DEF WalletStep, FetchWalletData, FillWalletForm, PayFromWallet, WalletAlert, TransactionsStep,
         ChangeTab, FillTransactionForm, CreateTransaction
<1>7. PeersStep \/ SyncStep \/ DashboardStep => Alerts
  BY DEF PeersStep, FetchPeers, PeerDialog, ConnectPeer, DisconnectPeer, ClosePeersAlert, SyncStep,
         RefreshSync, StartSync, TickSync, CompleteSync, CancelSync, CloseSyncAlert, DashboardStep,
         FetchDashboardData, DashboardMine, MiningTimesOut
<1>8. CASE ExplorerStep
  BY <1>1, <1>3, <1>8 DEF ExplorerStep, Search, FollowRow, FollowDetail, OtherBlock, OtherTransaction
<1>9. CASE PageStep
  BY <1>0, <1>3, <1>5, <1>6, <1>7, <1>8, <1>9 DEF PageStep, OpenCard, Navigate
<1>10. ASSUME NEW c \in calls PROVE Answered(c) => Alerts
  <2>1. MiningAnswered(c) \/ SettingsAnswered(c) \/ MempoolAnswered(c) => Alerts
    BY DEF MiningAnswered, MiningStatsAnswered, MiningPosted, SettingsAnswered, SettingsLoaded,
           SettingsSaved, UpdateReplies, MempoolAnswered
  <2>2. WalletAnswered(c) \/ TransactionsAnswered(c) => Alerts
    BY DEF WalletAnswered, WalletInfoAnswered, WalletListed, WalletPaid, WalletTimeout,
           TransactionsAnswered, HistoryAnswered, TransactionCreated
  <2>3. ExplorerPagesAnswered(c) \/ DashboardPageAnswered(c) => Alerts
    BY DEF ExplorerPagesAnswered, ExplorerAnswered, BlockAnswered, TransactionAnswered,
           BlockchainAnswered, DashboardPageAnswered, DashboardAnswered, BlockMined, MinedShown
  <2>4. PeersPageAnswered(c) \/ SyncAnswered(c) \/ HeaderPagesAnswered(c) => Alerts
    BY DEF PeersPageAnswered, PeersAnswered, PeerConnected, SyncAnswered, SyncLoaded, SyncStarted,
           HeaderPagesAnswered, HeaderAnswered, ConnectionTested
  <2> QED BY <2>1, <2>2, <2>3, <2>4 DEF Answered
<1> HIDE DEF Alert, Alerts
<1> QED BY <1>0, <1>1, <1>2, <1>4, <1>9, <1>10 DEF AppNext, Quietly, appVars, uiVars

-----------------------------------------------------------------------------
(* The inductive invariant, and what follows *)

AppInv ==
    ListInv /\ CallsInv /\ SelectorInv /\ SyncInv /\ ShownInv /\ FlagsInv /\ NoticeInv

LEMMA AppInvNext == AppInv /\ [AppNext]_appVars => AppInv'
<1> SUFFICES ASSUME AppInv, [AppNext]_appVars PROVE AppInv'
  OBVIOUS
<1>1. Move /\ [Next]_vars /\ SelectorInv' /\ SyncInv'
  BY AppStep DEF AppInv
<1>2. ListInv'
  BY <1>1, ListInvNext DEF AppInv
<1>3. CallsInv'
  BY <1>1, MoveKeeps DEF AppInv
<1>4. ShownInv' /\ FlagsInv' /\ NoticeInv'
  BY <1>1, ShownNext, MoveFlags, NoticeNext DEF AppInv
<1> QED BY <1>1, <1>2, <1>3, <1>4 DEF AppInv

\* The program starts with the Dashboard, or with one of the parts.
LEMMA StartPage ==
    ASSUME AppInit
    PROVE  \E p \in {"Dashboard", "Any", "Header", "Selector"} : \E o :
             /\ Opens(p, o) /\ AsksFirst(o)
             /\ p = "Dashboard" => o \in DashboardOpened
             /\ p = "Header" => o \in HeaderOpened
             /\ p = "Selector" => o \in SelectorOpened
<1>1. ASSUME NEW o \in DashboardOpened, Opens("Dashboard", o)
      PROVE  AsksFirst(o)
  <2>1. o \in Routes["Dashboard"] /\ "Dashboard" \in DOMAIN Routes
    BY DEF Routes
  <2> QED BY <2>1, RoutesAsk
<1>2. ASSUME NEW o \in HeaderOpened PROVE AsksFirst(o)
  BY OpenedAsks DEF HeaderOpened, Flag
<1>3. ASSUME NEW o \in AnyOpened \cup SelectorOpened PROVE AsksFirst(o)
  BY DEF AnyOpened, SelectorOpened, AsksFirst
<1> QED BY <1>1, <1>2, <1>3 DEF AppInit

LEMMA AppInitInv == AppInit => AppInv /\ Fetches!FetchInit
<1> SUFFICES ASSUME AppInit PROVE AppInv /\ Fetches!FetchInit
  OBVIOUS
<1>0. PICK p \in {"Dashboard", "Any", "Header", "Selector"} : \E o :
         /\ Opens(p, o) /\ AsksFirst(o)
         /\ p = "Dashboard" => o \in DashboardOpened
         /\ p = "Header" => o \in HeaderOpened
         /\ p = "Selector" => o \in SelectorOpened
  BY StartPage
<1>1. PICK o : /\ Opens(p, o) /\ AsksFirst(o)
               /\ p = "Dashboard" => o \in DashboardOpened
               /\ p = "Header" => o \in HeaderOpened
               /\ p = "Selector" => o \in SelectorOpened
  BY <1>0
<1>10. p \in Pages
  BY DEF Pages, Parts, Routes
<1>2. page = p /\ data = o.data /\ busy = o.flags /\ calls = o.calls /\ notice = {}
  BY <1>1 DEF Opens
<1>3. 1 \in 1 .. MaxCalls
  BY ServiceAssumption
<1>4. ListInv
  BY InitList DEF AppInit
<1>5. CallsInv
  <2>1. calls = {} \/ \E fn, arg, flags : calls = {Call(1, fn, flags, arg)}
    BY <1>1, <1>2 DEF AsksFirst
  <2> QED BY <1>3, <2>1, CallFields DEF CallsInv
<1>6. SelectorInv
  <2>1. CASE p = "Selector"
    <3>1. data = [dialog |-> "none", index |-> Undefined, url |-> <<>>, testing |-> Undefined]
      BY <1>1, <1>2, <2>1 DEF SelectorOpened
    <3> QED BY <3>1 DEF SelectorInv
  <2>2. CASE p # "Selector"
    BY <1>2, <2>2 DEF SelectorInv
  <2> QED BY <2>1, <2>2
<1>7. SyncInv
  BY <1>1, <1>2 DEF SyncInv
<1>8. Waiting = {[id |-> c.id, flags |-> c.flags] : c \in o.calls}
  BY <1>2 DEF Waiting
<1>9. Fetches!FetchInit
  BY <1>1, <1>2, <1>3, <1>8, <1>10, MountedRefines DEF Fetches!FetchInit, FlagSets
<1>11. FlagsInv /\ NoticeInv
  <2>1. \A flags \in FlagSets : flags \subseteq Flag
    BY DEF FlagSets
  <2> QED BY <1>1, <1>2, <1>10, <2>1, CallFields DEF AsksFirst, FlagsInv, NoticeInv
<1>12. DashboardInv
  <2>1. CASE p = "Dashboard"
    <3>1. data = [height |-> MockHeight, rows |-> <<>>, transactions |-> <<>>]
      BY <1>1, <1>2, <2>1 DEF DashboardOpened, Opened
    <3> QED BY <3>1, NoRows, TransactionsShown DEF DashboardInv
  <2>2. CASE p # "Dashboard"
    BY <1>2, <2>2 DEF DashboardInv
  <2> QED BY <2>1, <2>2
<1>13. HeaderInv
  <2>1. CASE p = "Header"
    <3>1. data = [port |-> Null]
      BY <1>1, <1>2, <2>1 DEF HeaderOpened, Opened
    <3> QED BY <3>1 DEF HeaderInv
  <2>2. CASE p # "Header"
    BY <1>2, <2>2 DEF HeaderInv
  <2> QED BY <2>1, <2>2
<1>14. ShownInv
  <2>1. MiningInv /\ SettingsInv /\ WalletInv /\ HistoryInv /\ MempoolInv
    BY <1>2 DEF MiningInv, SettingsInv, WalletInv, HistoryInv, MempoolInv
  <2>2. ExplorerInv /\ DetailInv /\ BlockchainInv
    BY <1>2 DEF ExplorerInv, DetailInv, BlockchainInv
  <2> QED BY <1>12, <1>13, <2>1, <2>2 DEF ShownInv
<1> QED BY <1>4, <1>5, <1>6, <1>7, <1>9, <1>11, <1>14 DEF AppInv

\* The pages, the header and the dialogs of NodeSelector.js use the list of
\* nodes and the POSTs in no way that Client.tla leaves out.
THEOREM AppImplementsClient == AppSpec => Spec
<1>1. AppInit => Init
  BY DEF AppInit
<1>2. AppInv /\ [AppNext]_appVars => [Next]_vars
  BY AppStep DEF AppInv
<1> QED BY <1>1, <1>2, AppInitInv, AppInvNext, PTL DEF AppSpec, Spec

\* What is proved of directPost and of the list of nodes holds of the whole
\* program: one node for each POST, three times at most, and a list that a
\* reload shows again.
THEOREM AppKeepsPromises ==
    AppSpec => /\ []OneNodePerClick /\ []AtMostThreeTimes
               /\ PostsRefine /\ ReloadKeepsList
BY AppImplementsClient, PostsStayWithTheirNode, AtMostThree, DirectPostImplementsPosting,
   ReloadShowsTheList, PTL

\* The pages do what Fetching.tla promises: whatever answers are late, fail or
\* come in another order, a flag that disables a button or shows a spinner is
\* raised only together with a function that will lower it.
THEOREM PagesImplementFetching == AppSpec => PagesRefine
<1>1. AppInv /\ [AppNext]_appVars => [Fetches!FetchNext]_Fetches!fetchVars
  BY AppStep, MoveRefines DEF AppInv
<1> QED BY <1>1, AppInitInv, AppInvNext, PTL DEF AppSpec, PagesRefine, Fetches!FetchSpec

\* A step of the pages keeps every raised flag covered.
LEMMA CoveredNext == Fetches!Covered /\ [Fetches!FetchNext]_Fetches!fetchVars => Fetches!Covered'
<1> SUFFICES ASSUME Fetches!Covered, [Fetches!FetchNext]_Fetches!fetchVars, NEW f \in busy'
             PROVE  \E w \in Waiting' : f \in w.flags
  BY DEF Fetches!Covered
<1>1. ASSUME NEW p \in Pages, Fetches!Mounted(p)
      PROVE  \E w \in Waiting' : f \in w.flags
  <2>1. PICK id \in 1 .. MaxCalls, flags \in FlagSets : busy' = flags /\ Waiting' = {Fetches!Waits(id, flags)}
    BY <1>1 DEF Fetches!Mounted, FlagSets
  <2> QED BY <2>1 DEF Fetches!Waits
<1>2. ASSUME NEW id \in 1 .. MaxCalls, NEW flags \in FlagSets, Fetches!Ask(id, flags)
      PROVE  \E w \in Waiting' : f \in w.flags
  <2>1. CASE f \in busy
    BY <1>2, <2>1 DEF Fetches!Ask, Fetches!Covered
  <2>2. CASE f \in flags
    <3>1. Fetches!Waits(id, flags) \in Waiting'
      BY <1>2 DEF Fetches!Ask
    <3> QED BY <2>2, <3>1 DEF Fetches!Waits
  <2> QED BY <1>2, <2>1, <2>2 DEF Fetches!Ask
<1>3. ASSUME NEW w \in Waiting, Fetches!Finish(w)
      PROVE  \E v \in Waiting' : f \in v.flags
  BY <1>3 DEF Fetches!Finish, Fetches!Covered
<1>4. ASSUME NEW w \in Waiting, NEW flags \in FlagSets, Fetches!PassOn(w, flags)
      PROVE  \E v \in Waiting' : f \in v.flags
  <2>1. CASE f \in flags
    <3>1. Fetches!Waits(w.id, flags) \in Waiting'
      BY <1>4 DEF Fetches!PassOn
    <3> QED BY <2>1, <3>1 DEF Fetches!Waits
  <2>2. CASE f \in busy
    BY <1>4, <2>2 DEF Fetches!PassOn, Fetches!Covered
  <2> QED BY <1>4, <2>1, <2>2 DEF Fetches!PassOn
<1>5. ASSUME NEW w \in Waiting, Fetches!GiveUp(w)
      PROVE  \E v \in Waiting' : f \in v.flags
  BY <1>5 DEF Fetches!GiveUp, Fetches!Covered
<1>6. CASE UNCHANGED Fetches!fetchVars
  BY <1>6 DEF Fetches!fetchVars, Fetches!Covered
<1> QED BY <1>1, <1>2, <1>3, <1>4, <1>5, <1>6 DEF Fetches!FetchNext, FlagSets

\* However functions start, end, fail and give up, a flag that disables a
\* button or shows a spinner (loading, miningLoading, ... of the pages) is
\* raised only while a function is awaited that will lower it.
THEOREM EveryFlagComesDown == AppSpec => []Fetches!Covered
<1>1. Fetches!FetchInit => Fetches!Covered
  <2> SUFFICES ASSUME Fetches!FetchInit, NEW f \in busy
               PROVE  \E w \in Waiting : f \in w.flags
    BY DEF Fetches!Covered
  <2>1. PICK id \in 1 .. MaxCalls, flags \in FlagSets : busy = flags /\ Waiting = {Fetches!Waits(id, flags)}
    BY DEF Fetches!FetchInit, FlagSets
  <2> QED BY <2>1 DEF Fetches!Waits
<1>2. AppInv /\ [AppNext]_appVars => [Fetches!FetchNext]_Fetches!fetchVars
  BY AppStep, MoveRefines DEF AppInv
<1> QED BY <1>1, <1>2, AppInitInv, AppInvNext, CoveredNext, PTL DEF AppSpec

\* SyncNetwork.js says that a synchronisation is going on only while the timer
\* runs, and that one is completed only at the end of its progress, whatever
\* starts, refreshes and cancellations come in between.
THEOREM SynchronisationIsShown == AppSpec => []SyncConsistent
<1>1. AppInv => SyncConsistent
  BY DEF AppInv, SyncInv, SyncConsistent
<1> QED BY <1>1, AppInitInv, AppInvNext, PTL DEF AppSpec

\* Whatever answers come in, late or twice, a chip says Confirmed of a
\* transaction the node has listed exactly when it is in a block (isConfirmed,
\* processTransactions, the status of a TransactionCard and the blockIndex of the
\* explorer), but for those of block 0 in the explorer, and never of the wallet's
\* placeholder.  Nothing is said of the transactions that the Dashboard makes up
\* when it has none from the node: it shows all but one of them as Confirmed.
THEOREM ChipsTellTheTruth == AppSpec => []ChipsTell
<1>1. AppInv => ChipsTell
  <2> SUFFICES ASSUME AppInv PROVE ChipsTell
    OBVIOUS
  <2>0. \A S : \A s \in Seq(S) : \A i \in DOMAIN s : s[i] \in S
    OBVIOUS
  <2>1. Tells(ItemChip(Placeholder), Placeholder)
    BY DEF Tells, ItemChip, Placeholder, Transaction, Undefined, Null
  <2>2. ASSUME page = "Wallet", NEW i \in DOMAIN data.list
        PROVE  Tells(ItemChip(data.list[i]), data.list[i])
    <3>1. data.list \in Seq(Listed \cup {Placeholder})
      BY <2>2 DEF AppInv, ShownInv, WalletInv
    <3>2. data.list[i] \in Listed \cup {Placeholder}
      BY <2>0, <2>2, <3>1
    <3> QED BY <2>1, <3>2, ListedTypes
  <2>3. ASSUME page \in {"Transactions", "Mempool", "Explorer"}, NEW i \in DOMAIN data.list
        PROVE  /\ Tells(CardChip(data.list[i]), data.list[i])
               /\ data.list[i].block = 0 \/ Tells(DetailChip(data.list[i]), data.list[i])
    <3>1. data.list \in Seq(Listed)
      BY <2>3 DEF AppInv, ShownInv, HistoryInv, MempoolInv, ExplorerInv
    <3>2. data.list[i] \in Listed
      BY <2>0, <2>3, <3>1
    <3> QED BY <3>2, ListedTypes
  <2>4. ASSUME page = "Transaction", TransactionShows = "transaction"
        PROVE  data.tx[1].block = 0 \/ Tells(DetailChip(data.tx[1]), data.tx[1])
    <3>1. data.tx \in AtMostOne(DetailReplies) /\ data.error \in BOOLEAN
      BY <2>4 DEF AppInv, ShownInv, DetailInv
    <3>2. data.tx # <<>>
      BY <2>4, <3>1 DEF TransactionShows
    <3>3. PICK tx \in DetailReplies : data.tx = <<tx>>
      BY <3>1, <3>2 DEF AtMostOne
    <3>4. tx.block = 0 \/ Tells(DetailChip(tx), tx)
      BY DEF DetailReplies, Number, Transaction, Tells, DetailChip, Truthy, Undefined, Null
    <3> QED BY <3>3, <3>4
  <2>5. page = "Dashboard" => ListsTruly(data.transactions)
    BY DEF AppInv, ShownInv, DashboardInv
  <2> QED BY <2>2, <2>3, <2>4, <2>5 DEF ChipsTell, ListsTruly
<1> QED BY <1>1, AppInitInv, AppInvNext, PTL DEF AppSpec

\* The types of the browser's program: the list of nodes and the POSTs as
\* above, and for every page what it shows, its flags, its alerts and the
\* functions it awaits, each under a name of its own.
THEOREM AppTypeCorrect == AppSpec => []AppTypeOK
<1>1. AppInv /\ ClientTypeOK => AppTypeOK
  <2> SUFFICES ASSUME AppInv, ClientTypeOK PROVE AppTypeOK
    OBVIOUS
  <2>1. page \in Pages /\ busy \subseteq Flag /\ notice \subseteq {"success", "error", "warning", "info"}
    BY DEF AppInv, FlagsInv, NoticeInv, Alert
  <2>2. /\ \A c \in calls : c.id \in 1 .. MaxCalls /\ c.flags \subseteq Flag
        /\ \A c, d \in calls : c.id = d.id => c = d
    BY DEF AppInv, FlagsInv, CallsInv
  <2>3. /\ page = "Mining" => data \in [difficulty : 1 .. 8, slider : 1 .. 8]
        /\ page = "Settings" => data \in [difficulty : 1 .. 8, edited : BOOLEAN]
    BY DEF AppInv, ShownInv, MiningInv, SettingsInv
  <2>4. page = "Wallet" => data.address \in WalletReplies \cup {""} /\ data.form \in Form
    BY DEF AppInv, ShownInv, WalletInv
  <2>5. page = "Explorer" => data.height \in Nat /\ Len(data.blocks) <= Rows
    <3>1. ASSUME page = "Explorer" PROVE data.height \in Nat /\ data.blocks \in LatestBlocks(Rows)
      BY <3>1 DEF AppInv, ShownInv, ExplorerInv
    <3>2. Rows \in Nat
      BY RowsAssumption
    <3>3. \A list \in LatestBlocks(Rows) : Len(list) \in 0 .. Rows
      BY <3>2, LatestBlocksType
    <3> QED BY <3>1, <3>2, <3>3
  <2>6. page = "Blockchain" => Len(data.blocks) <= MaxBlocks
    <3>1. page = "Blockchain" => data.blocks \in AllBlocks(MaxBlocks)
      BY DEF AppInv, ShownInv, BlockchainInv
    <3> QED BY <3>1, RowsAssumption, AllBlocksType
  <2>7. page = "Sync" => data.progress \in 0 .. Steps
    BY DEF AppInv, SyncInv
  <2>8. page = "Dashboard" => Len(data.rows) <= Blocks
    BY DEF AppInv, ShownInv, DashboardInv
  <2>9. page = "Header" => data.port \in Nat \cup {Undefined, Null}
    BY DEF AppInv, ShownInv, HeaderInv
  <2>10. page = "Selector" /\ data.dialog = "edit" => data.index \in DOMAIN nodes \cup {Undefined}
    BY DEF AppInv, SelectorInv
  <2> QED BY <2>1, <2>2, <2>3, <2>4, <2>5, <2>6, <2>7, <2>8, <2>9, <2>10 DEF AppTypeOK
<1> QED BY <1>1, AppImplementsClient, ClientTypeCorrect, AppInitInv, AppInvNext, PTL DEF AppSpec
=============================================================================
