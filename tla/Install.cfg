SPECIFICATION Spec
CONSTANTS
    None = None
    Versions = {1, 2}
    Hosts <- TheHosts
    Budgets <- Troubles
INVARIANTS
    Settles
    ServiceHasTunnel
    RecordedIsDone
PROPERTIES
    OperatorsStays
CHECK_DEADLOCK FALSE
