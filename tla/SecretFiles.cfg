SPECIFICATION Spec
CONSTANTS
    g1 = g1
    v1 = v1
    f1 = f1
    f2 = f2
    d1 = d1
    d2 = d2
    a1 = a1
    Deploys = {d1, d2}
    Applies = {a1}
    Groups = {g1}
    Key = Key
    Vars = {v1}
    Files = {f1, f2}
    Stacks <- Lists
    Bundles <- Pushes
    None = None
    Budgets <- Troubles
SYMMETRY Symmetry
INVARIANTS
    LeavesWhatIsServed
    Told
PROPERTIES
    NeverMissing
CHECK_DEADLOCK FALSE
