---------------------------- MODULE HeaderPages ----------------------------
(***************************************************************************)
(* The header of every page: the state of the selected node                *)
(* (NodeStatus.js) and the dialogs that edit the list of nodes             *)
(* (NodeSelector.js).  Each is explored like a page.                       *)
(***************************************************************************)
EXTENDS Service

\* The first digits in an address, or Undefined (the header says Unknown) when it
\* has none: the port of http://localhost:8080/api, 192 of http://192.168.1.10/api.
CONSTANT FirstDigits

ASSUME FirstDigitsAssumption == FirstDigits \in [Url -> Nat \cup {Undefined}]

-----------------------------------------------------------------------------
(* NodeStatus: data is the port shown, Null (none) before the first answer   *)

HeaderOpened == {Opened([port |-> Null], "getStatistics", {"checking"})}

CheckNodeConnection == Starts("getStatistics", {"checking"}, <<>>)

\* Mutant: the header checks only when it is clicked or told, never by itself.
CheckOnClick ==
    /\ page = "Header" /\ data.port = Null
    /\ CheckNodeConnection
    /\ UNCHANGED <<page, data, notice, clientVars>>

\* The interval, and a click.
CheckPeriodically ==
    /\ page = "Header"
    /\ CheckNodeConnection
    /\ UNCHANGED <<page, data, notice, clientVars>>

\* The statistics may be those of a node selected before, or made up; none holds
\* a port, which is taken from the address of the node selected by now.  An
\* answer with an empty body leaves the header without one.
HeaderAnswered(c) ==
    /\ page = "Header"
    /\ \E port \in {FirstDigits[BaseUrl], Null} : data' = [port |-> port]
    /\ Ends(c)
    /\ UNCHANGED <<page, notice>>

\* setActiveNode, removeNode of the selected node and resetToDefaults notify the
\* listeners, among them handleNodeChange; addNode and editNode do not.
HeaderListStep ==
    /\ page = "Header"
    /\ \/ /\ \/ \E i \in DOMAIN nodes : \/ SetActiveNode(i)
                                        \/ heap[nodes[i]].active /\ RemoveNode(i)
             \/ ResetToDefaults
          /\ CheckNodeConnection
       \/ /\ \/ \E i \in DOMAIN nodes : \/ ~heap[nodes[i]].active /\ RemoveNode(i)
                                        \/ \E url \in Typed : EditNode(i, url)
             \/ \E url \in Typed : AddNode(url)
          /\ UNCHANGED <<busy, calls>>
    /\ UNCHANGED <<page, data, notice>>

-----------------------------------------------------------------------------
(* NodeSelector: data is the dialog on top, the entry it edits (Undefined: a *)
(* new one), the address typed in (<<>>: none), and the entry under test    *)

SelectorOpened ==
    {[data |-> [dialog |-> "none", index |-> Undefined, url |-> <<>>, testing |-> Undefined],
      flags |-> {}, calls |-> {}]}

SelectorUI(dialog) == page = "Selector" /\ data.dialog = dialog

Quiet == UNCHANGED <<page, busy, calls, clientVars>>

\* The menu, the dialog that manages the list, and the way back.
TurnTo ==
    /\ page = "Selector"
    /\ \E step \in {<<"none", "menu">>, <<"menu", "none">>, <<"menu", "manage">>,
                    <<"manage", "none">>, <<"edit", "manage">>} :
         data.dialog = step[1] /\ data' = [data EXCEPT !.dialog = step[2]]
    /\ UNCHANGED notice
    /\ Quiet

SelectNode(i) ==
    /\ SelectorUI("menu")
    /\ SetActiveNode(i)
    /\ data' = [data EXCEPT !.dialog = "none"]
    /\ notice' = {"success"}
    /\ UNCHANGED <<page, busy, calls>>

OpenAddNode ==
    /\ SelectorUI("manage")
    /\ data' = [data EXCEPT !.dialog = "edit", !.index = Undefined, !.url = <<>>]
    /\ UNCHANGED notice
    /\ Quiet

\* The buttons of an entry give way to a spinner while it is tested.
OpenEditNode(i) ==
    /\ SelectorUI("manage") /\ i # data.testing
    /\ data' = [data EXCEPT !.dialog = "edit", !.index = i, !.url = <<heap[nodes[i]].url>>]
    /\ UNCHANGED notice
    /\ Quiet

TypeUrl(url) ==
    /\ SelectorUI("edit")
    /\ data' = [data EXCEPT !.url = <<url>>]
    /\ UNCHANGED notice
    /\ Quiet

\* addNode refuses an address that is in the list.
SaveNode ==
    /\ SelectorUI("edit") /\ data.url # <<>>
    /\ LET url == data.url[1]
           Listed == \E r \in Elems(nodes) : heap[r].url = url
       IN  \/ data.index = Undefined /\ ~Listed /\ AddNode(url) /\ notice' = {"success"}
           \/ data.index = Undefined /\ Listed /\ notice' = {"error"} /\ UNCHANGED clientVars
           \/ data.index # Undefined /\ EditNode(data.index, url) /\ notice' = {"success"}
    /\ data' = [data EXCEPT !.dialog = "manage"]
    /\ UNCHANGED <<page, busy, calls>>

DeleteNode(i) ==
    /\ SelectorUI("manage") /\ i # data.testing
    /\ RemoveNode(i)
    /\ notice' = {"success"}
    /\ UNCHANGED <<page, data, busy, calls>>

ResetNodes ==
    /\ SelectorUI("manage")
    /\ ResetToDefaults
    /\ notice' = {"info"}
    /\ UNCHANGED <<page, data, busy, calls>>

\* Another entry can be tested meanwhile; there is one testingIndex.
TestConnection(i) ==
    /\ SelectorUI("manage") /\ i # data.testing
    /\ Starts("testConnection", {"testing"}, <<>>)
    /\ data' = [data EXCEPT !.testing = i]
    /\ UNCHANGED <<page, notice, clientVars>>

ConnectionTested(c) ==
    /\ page = "Selector"
    /\ data' = [data EXCEPT !.testing = Undefined]
    /\ \E outcome \in {"success", "error"} : notice' = {outcome}
    /\ Ends(c)
    /\ UNCHANGED page

SelectorStep ==
    \/ TurnTo
    \/ \E i \in DOMAIN nodes : \/ SelectNode(i)
                               \/ OpenEditNode(i)
                               \/ DeleteNode(i)
                               \/ TestConnection(i)
    \/ OpenAddNode
    \/ \E url \in Typed : TypeUrl(url)
    \/ SaveNode
    \/ ResetNodes

HeaderPagesAnswered(c) == HeaderAnswered(c) \/ ConnectionTested(c)
=============================================================================
