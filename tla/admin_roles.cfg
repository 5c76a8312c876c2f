\* Two commands at a time and the loop of Start, so that three writers can overlap;
\* one of the two roles is in the environment.
SPECIFICATION Spec
CONSTANTS
    Roles = {r1, r2}
    Environment = {r2}
    Handlers = {h1, h2}
    r1 = r1
    r2 = r2
    h1 = h1
    h2 = h2
SYMMETRY HandlerSymmetry
INVARIANTS
    TypeOK
    DifferenceExplained
    OnlyGranted
    RevokedStaysOut
