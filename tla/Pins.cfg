SPECIFICATION Spec
CONSTANTS
    Keys = {k1, k2}
    Names = {n1, n2}
    Requests = {r1, r2, r3}
    None = None
INVARIANTS PinnedStays PresentSurvives
