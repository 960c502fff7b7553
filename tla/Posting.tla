------------------------------ MODULE Posting ------------------------------
(***************************************************************************)
(* What the browser promises about a POST (directPost of                   *)
(* blockchainService.js), whatever becomes of its requests: it is sent to  *)
(* the node that was selected when the button was pressed, to no other,    *)
(* and at most MaxTries times.                                             *)
(***************************************************************************)
EXTENDS Naturals, Sequences

CONSTANTS Address,   \* addresses of nodes
          MaxTries   \* requests of one POST

VARIABLES posts,     \* posts[k]: the address selected when POST k was made
          waiting,   \* the page waits for the last one
          sent,      \* <<k, t, a>>: request t of POST k has gone to address a
          carried    \* those that have been carried out

postingVars == <<posts, waiting, sent, carried>>

PostingInit ==
    /\ posts = <<>>
    /\ waiting = FALSE
    /\ sent = {} /\ carried = {}

\* The button is pressed while address a is selected.
Press(a) ==
    /\ ~waiting
    /\ posts' = Append(posts, a)
    /\ waiting' = TRUE
    /\ sent' = sent \cup {<<Len(posts) + 1, 1, a>>}
    /\ UNCHANGED carried

\* The POST is sent once more.
SendAgain(t) ==
    /\ waiting
    /\ \A r \in sent : ~(r[1] = Len(posts) /\ r[2] = t)
    /\ sent' = sent \cup {<<Len(posts), t, posts[Len(posts)]>>}
    /\ UNCHANGED <<posts, waiting, carried>>

\* A node carries a request out, also when the page has given it up.
CarryOut(r) ==
    /\ carried' = carried \cup {r}
    /\ UNCHANGED <<posts, waiting, sent>>

\* The page waits no more: an answer, a made-up one, or a reload.
Answer ==
    /\ waiting' = FALSE
    /\ UNCHANGED <<posts, sent, carried>>

PostingNext ==
    \/ \E a \in Address : Press(a)
    \/ \E t \in 2 .. MaxTries : SendAgain(t)
    \/ \E r \in sent : CarryOut(r)
    \/ Answer

PostingSpec == PostingInit /\ [][PostingNext]_postingVars
=============================================================================
