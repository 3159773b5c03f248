CONSTANTS
    Monitors = {A, B}
    Slots = {1, 2, 3}
    Projects = {1, 2, 3}
    Names = {dashboard, assistant}
    Dashboard = dashboard
    Assistant = assistant
    MayFail = FALSE
    NULL = NULL
SPECIFICATION Spec
ACTION_CONSTRAINT BothInOrder
INVARIANT CanRestart
