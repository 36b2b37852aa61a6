SPECIFICATION Spec
CONSTANTS
    b = b
    e = e
    g = g
    hb = hb
    he = he
    hg = hg
    f = f
    None = None
    Keys = {b, e, g}
    Envs = {e}
    Ports = {1, 2}
    Asks <- Steady
    Operators = {operator}
    Reaper = reaper
    Budget <- Troubles
INVARIANTS
    NothingOrphaned
    RouteLeadsHome
CHECK_DEADLOCK FALSE
