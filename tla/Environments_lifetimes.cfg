SPECIFICATION FairSpec
CONSTANTS
    b = b
    e = e
    g = g
    hb = hb
    he = he
    hg = hg
    f = f
    None = None
    Keys = {e}
    Envs = {e}
    Ports = {1}
    Asks <- Steady
    Operators = {operator}
    Reaper = reaper
    Budget <- Lifetimes
INVARIANTS
    SuccessIsSeeded
    ReapsOnlyExpired
PROPERTIES
    ExpiredIsReaped
CHECK_DEADLOCK FALSE
