---------------------------- MODULE MiningPages ----------------------------
(***************************************************************************)
(* The pages Mining (Mining.js) and Settings (Settings.js).                *)
(***************************************************************************)
EXTENDS Service

-----------------------------------------------------------------------------
(* Mining: data is the difficulty shown and the position of the slider *)

MiningOpened == {Opened([difficulty |-> 4, slider |-> 4], "getStatistics", {"loading"})}

\* fetchMiningStats, called by the interval whatever is under way, and by the
\* button Refresh.
FetchMiningStats ==
    /\ page = "Mining"
    /\ Starts("getStatistics", {"loading"}, <<>>)
    /\ notice' = notice \ {"error"}
    /\ UNCHANGED <<page, data>>

\* The slider follows the node, also while the user moves it.
MiningStatsAnswered(c) ==
    /\ page = "Mining" /\ c.fn = "getStatistics"
    /\ \E s \in StatisticsReplies :
         data' = [difficulty |-> Or(s.difficulty, 4), slider |-> Or(s.difficulty, 4)]
    /\ Ends(c)
    /\ UNCHANGED <<page, notice>>

MoveSlider(n) ==
    /\ page = "Mining"
    /\ data' = [data EXCEPT !.slider = n]
    /\ UNCHANGED <<page, busy, notice, calls>>

UpdateDifficulty ==
    /\ page = "Mining"
    /\ "difficulty" \notin busy /\ data.slider # data.difficulty
    /\ Starts("setDifficulty", {"difficulty"}, <<data.slider>>)
    /\ notice' = {}
    /\ UNCHANGED <<page, data>>

MineBlock ==
    /\ page = "Mining"
    /\ "mining" \notin busy
    /\ Starts("mineBlock", {"mining"}, <<>>)
    /\ notice' = {}
    /\ UNCHANGED <<page, data>>

\* directPost never rejects: success whatever the node did.
MiningPosted(c) ==
    /\ page = "Mining" /\ c.fn \in {"setDifficulty", "mineBlock"}
    /\ EndsAndStarts(c, "getStatistics", {"loading"}, <<>>)
    /\ notice' = {"success"}
    /\ UNCHANGED <<page, data>>

MiningAnswered(c) == MiningStatsAnswered(c) \/ MiningPosted(c)

MiningStep ==
    \/ FetchMiningStats
    \/ \E n \in Difficulty : MoveSlider(n)
    \/ UpdateDifficulty
    \/ MineBlock

-----------------------------------------------------------------------------
(* Settings: the difficulty, and whether the other fields have been edited; *)
(* nothing but a spinner is shown while they are loaded                     *)

SettingsOpened == {Opened([difficulty |-> 4, edited |-> FALSE], "getSettings", {"loading"})}

Editable == page = "Settings" /\ "loading" \notin busy

SettingsLoaded(c) ==
    /\ page = "Settings" /\ c.fn = "getSettings"
    /\ \E n \in SettingsReplies : data' = [difficulty |-> n, edited |-> FALSE]
    /\ Ends(c)
    /\ UNCHANGED <<page, notice>>

EditSettings ==
    /\ Editable
    /\ \/ \E n \in Difficulty : data' = [data EXCEPT !.difficulty = n]
       \/ data' = [data EXCEPT !.edited = TRUE]
    /\ UNCHANGED <<page, busy, notice, calls>>

ResetSettings ==
    /\ Editable
    /\ data' = [difficulty |-> 4, edited |-> FALSE]
    /\ notice' = {"info"}
    /\ UNCHANGED <<page, busy, calls>>

\* The settings of the moment are sent; the fields stay open meanwhile.
SaveSettings ==
    /\ Editable
    /\ "saving" \notin busy
    /\ Starts("updateSettings", {"saving"}, <<data.difficulty>>)
    /\ UNCHANGED <<page, data, notice>>

SettingsSaved(c) ==
    /\ page = "Settings" /\ c.fn = "updateSettings"
    /\ \E reply \in UpdateReplies : notice' = {reply}
    /\ Ends(c)
    /\ UNCHANGED <<page, data>>

CloseSnackbar ==
    /\ Editable
    /\ notice # {}
    /\ notice' = {}
    /\ UNCHANGED <<page, data, busy, calls>>

SettingsAnswered(c) == SettingsLoaded(c) \/ SettingsSaved(c)

SettingsStep == EditSettings \/ ResetSettings \/ SaveSettings \/ CloseSnackbar
=============================================================================
