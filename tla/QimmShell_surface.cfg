CONSTANTS
    Monitors = {A, B}
    Slots = {1, 2, 3}
    Projects = {1, 2, 3}
    Names = {dashboard, assistant}
    Dashboard = dashboard
    Assistant = assistant
    MayFail = FALSE
    LayoutCount = 1
    Clients = {c1, c2}
    Other = other
    ClientsFail = FALSE
    NULL = NULL
SPECIFICATION ShellSpec
ACTION_CONSTRAINT BothInOrder
INVARIANT SurfacesAreSafe
