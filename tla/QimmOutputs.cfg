CONSTANTS
    Monitors = {A, B}
    Slots = {1, 2, 3}
    Projects = {1, 2, 3}
    Names = {dashboard, assistant}
    Dashboard = dashboard
    Assistant = assistant
    MayFail = TRUE
    NULL = NULL
SPECIFICATION Spec
ACTION_CONSTRAINT BothInOrder
PROPERTIES EventuallyShown HomeKept KeepsPlacement
INVARIANTS
    TypeOK EveryOutputShows HomesSaved
    ListsAgree NothingLost CurrentIsOwn OnlyFirstGone AssertionsHold RestoreComplete
