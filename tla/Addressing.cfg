SPECIFICATION AddrSpec
CONSTANTS
    Absent = Absent
    Refused = Refused
    NoHost = NoHost
    Other = Other
    NotFound = NotFound
    g1 = g1
    MaxSlug = 3
    MaxRows = 2
    MaxOpen = 2
    Top = 3
    Project <- MCProject
    Reserved <- MCReserved
    BaseDocs <- MCBaseDocs
    OverDocs <- MCOverDocs
    EnvArgs <- MCEnvArgs
    Users <- MCUsers
    Branches <- MCBranches
    Deployed <- MCDeployed
    Strangers <- MCStrangers
    Legacy <- MCLegacy
    Ranges <- MCRanges
    Guests <- MCGuests
    Docs <- MCDocs
INVARIANTS
    SentAsWritten
    PortFound
    RoutesKept
PROPERTIES
    IdentityKept
CHECK_DEADLOCK FALSE
