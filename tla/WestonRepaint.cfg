CONSTANTS
    Outputs = {A, B}
    MayReject = FALSE
    NULL = NULL
SPECIFICATION Spec
PROPERTIES DamageShown
INVARIANTS RepaintOK AwaitsItsFlip NeverStuck
