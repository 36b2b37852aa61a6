SPECIFICATION Spec
CONSTANTS
    h1 = h1
    h2 = h2
    h3 = h3
    p1 = p1
    p2 = p2
    Hosts = {h1, h2, h3}
    Ports = {p1, p2}
    Off = Off
    Torn = Torn
    Down = Down
    Unknown = Unknown
    Budgets <- Troubles
SYMMETRY Symmetry
INVARIANTS
    AnswersHold
    OthersUntouched
PROPERTIES
    ImplementsTable
