\* y^2 = x^3 + 5 over 7 elements has 7 points, one of them at infinity.
CONSTANTS
    P = 7
    B = 5
    N = 7
    Gx = 3
    Gy = 2
    Beta = 2
    Lambda = 4
SPECIFICATION GroupSpec
INVARIANTS
    GroupLaw
    PointsReadSound
CHECK_DEADLOCK FALSE
