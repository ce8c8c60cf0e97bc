SPECIFICATION Spec
CONSTANTS
    us = us
    eu = eu
    asia = asia
    user = user
    q1 = q1
    q2 = q2
    Busy = {us}
    Requests = {q1, q2}
    Limits = {1, 2}
    StaticLimit = 1
    LastWindow = 2
    MaxCount = 2
    MaxErrors = 0
SYMMETRY Symmetry
INVARIANTS OneRequestPerSlot
PROPERTIES DenialIsFinal
CHECK_DEADLOCK FALSE
