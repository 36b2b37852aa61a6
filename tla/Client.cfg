SPECIFICATION Spec
CONSTANTS
    None = None
    Mine = Mine
    d1 = d1
    d2 = d2
    Handshake = 20
    Polls = 2
    Deps <- MCDeps
    Commands <- MCCommands
    Releases <- MCReleases
    Kinds <- MCKinds
    Ways <- MCWays
INVARIANTS
    ServedAsAsked
    ExitIsTrue
PROPERTIES
    CommandEnds
CHECK_DEADLOCK FALSE
