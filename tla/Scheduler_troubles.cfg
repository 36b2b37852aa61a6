SPECIFICATION Spec
CONSTANTS
    d1 = d1
    d2 = d2
    d3 = d3
    p1 = p1
    None = None
    Deploys = {d1, d2, d3}
    Projects = {p1}
    ProjectOf <- OneKey
    Keep = 1
    Budgets <- Troubles
SYMMETRY Symmetry
INVARIANTS
    OneRunPerKey
    OneCustodian
    ActiveRowIsOwed
    ViewersAgree
PROPERTIES
    FinalStatusStable
    NeverStartsAgain
CHECK_DEADLOCK FALSE
