CONSTANTS
    Width = 4
    Height = 4
    Layouts <- MCLayouts
    MaxLayouts = 4
SPECIFICATION Spec
CHECK_DEADLOCK FALSE
INVARIANTS
    FlowApart WithinWidth
