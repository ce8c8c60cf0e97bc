SPECIFICATION Spec
CONSTANTS
    us = us
    eu = eu
    asia = asia
    user = user
    q1 = q1
    q2 = q2
    Busy = {us, eu}
    Requests = {q1, q2}
    Limits = {2}
    StaticLimit = 2
    LastWindow = 0
    MaxCount = 3
    MaxErrors = 1
SYMMETRY Symmetry
INVARIANTS TypeOK AdmissionBounded NoFalseDenial
CHECK_DEADLOCK FALSE
