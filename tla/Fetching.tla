------------------------------ MODULE Fetching ------------------------------
(***************************************************************************)
(* What the pages of the browser promise about their buttons and spinners, *)
(* whatever they fetch: a flag that disables or hides something is raised  *)
(* only while a function is awaited that will lower it.                    *)
(***************************************************************************)
CONSTANTS Page,   \* pages
          Id,     \* names for the functions under way
          Flags   \* the sets of flags a function raises

VARIABLES page,     \* the page that is mounted
          busy,     \* its raised flags
          waiting   \* the functions it awaits, with the flags each lowers

fetchVars == <<page, busy, waiting>>

Waits(id, flags) == [id |-> id, flags |-> flags]

\* A page that has just been mounted.
Mounted(p) ==
    /\ page' = p
    /\ \/ busy' = {} /\ waiting' = {}
       \/ \E id \in Id, flags \in Flags : busy' = flags /\ waiting' = {Waits(id, flags)}

FetchInit ==
    /\ page \in Page
    /\ \/ busy = {} /\ waiting = {}
       \/ \E id \in Id, flags \in Flags : busy = flags /\ waiting = {Waits(id, flags)}

\* The page calls a function.
Ask(id, flags) ==
    /\ \A w \in waiting : w.id # id
    /\ waiting' = waiting \cup {Waits(id, flags)}
    /\ busy' = busy \cup flags
    /\ UNCHANGED page

\* A function ends.
Finish(w) ==
    /\ waiting' = waiting \ {w}
    /\ busy' = busy \ w.flags
    /\ UNCHANGED page

\* A function ends after calling another that nobody awaits: its own flags go
\* down, also when the other has raised them again.
PassOn(w, flags) ==
    /\ waiting' = (waiting \ {w}) \cup {Waits(w.id, flags)}
    /\ busy' = (busy \cup flags) \ w.flags
    /\ UNCHANGED page

\* A timeout lowers the flags of a function that goes on.
GiveUp(w) ==
    /\ busy' = busy \ w.flags
    /\ UNCHANGED <<page, waiting>>

FetchNext ==
    \/ \E p \in Page : Mounted(p)
    \/ \E id \in Id, flags \in Flags : Ask(id, flags)
    \/ \E w \in waiting : \/ Finish(w)
                          \/ \E flags \in Flags : PassOn(w, flags)
                          \/ GiveUp(w)

FetchSpec == FetchInit /\ [][FetchNext]_fetchVars

\* The promise: every raised flag has a function that will lower it.
Covered == \A f \in busy : \E w \in waiting : f \in w.flags
=============================================================================
