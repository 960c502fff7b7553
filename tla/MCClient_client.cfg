\* Two default nodes, one POST, a page that polls, and every page with at most
\* two functions under way.
CONSTANTS
    u1 = u1
    u2 = u2
    Url = {u1, u2}
    Typed = {u2}
    DefaultUrls <- TwoDefaults
    Mock = Mock
    MaxNodes = 2
    MaxClicks = 1
    MaxCalls = 2
    Height = {1, 2}
    MockHeight = 3
    Difficulty = {4, 5}
    MaxListed = 2
    Rows = 2
    MaxBlocks = 2
    Blocks = 2
    MaxCount = 2
    Steps = 2
    FirstDigits <- Digits
SPECIFICATION AppFairSpec
INVARIANTS AppTypeOK OneNodePerClick AtMostThreeTimes ChipsTell SyncConsistent
PROPERTIES ReloadKeepsList PagesRefine PostsRefine ButtonsComeBack StandInsGo ShowsActiveNode
