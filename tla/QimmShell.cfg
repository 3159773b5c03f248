CONSTANTS
    Monitors = {A, B}
    Slots = {1, 2, 3}
    Projects = {1, 2, 3}
    Names = {dashboard, assistant}
    Dashboard = dashboard
    Assistant = assistant
    MayFail = FALSE
    LayoutCount = 1
    Clients = {1, 2}
    Other = other
    ClientsFail = TRUE
    NULL = NULL
SPECIFICATION ShellSpec
ACTION_CONSTRAINT AllInOrder
PROPERTIES StartupsRun
INVARIANTS
    ShownIsStarted SurfaceFindsLayout StartupsHaveProjects
