SPECIFICATION Spec
CONSTANTS
    g1 = g1
    k1 = k1
    c1 = c1
    c2 = c2
    c3 = c3
    Groups = {g1}
    Keys = {k1}
    Clients = {c1, c2, c3}
    Old = Old
    Missing = Missing
    Unguarded = Unguarded
    Free = Free
    Budgets <- Troubles
SYMMETRY Symmetry
PROPERTIES
    NoLostUpdate
    NeverFallsBack
    ImplementsStore
CHECK_DEADLOCK FALSE
