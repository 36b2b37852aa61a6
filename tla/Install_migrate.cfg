SPECIFICATION Spec
CONSTANTS
    None = None
    Versions = {1, 2}
    Hosts <- TheHosts
    Budgets <- Calm
INVARIANTS
    RecordedIsMoved
CHECK_DEADLOCK FALSE
