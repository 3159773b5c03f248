CONSTANTS
    Surfaces = {R, P, C}
    Users = {C}
    Buffers = {a, b}
    Copied = {a}
    Frames = {f}
    NULL = NULL
    Nothing = Nothing
SPECIFICATION Spec
SYMMETRY Alike
PROPERTIES KeepsPromise
INVARIANTS
    SurfacesOK LentIsUsed CacheIsHeld
