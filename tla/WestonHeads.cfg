CONSTANTS
    A = A
    B = B
    C = C
    desk = desk
    Heads = {A, B, C}
    Connectors <- MCConnectors
    Removable = {C}
    Names = {A, B, C, desk}
    Configs <- MCConfigs
    Size <- MCSize
    Crtcs = 3
    MaxClones = 2
    MaxChanges = 4
    MayFail = TRUE
    NULL = NULL
SPECIFICATION Spec
PROPERTIES StaysShown
INVARIANTS HeadsOK ConnectedShown StandsAsConfigured
CHECK_DEADLOCK FALSE
