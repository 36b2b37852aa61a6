SPECIFICATION FairSpec
CONSTANTS
    d1 = d1
    d2 = d2
    d3 = d3
    p1 = p1
    None = None
    Deploys = {d1, d2, d3}
    Projects = {p1}
    ProjectOf <- OneKey
    Keep = 1
    Budgets <- OneCrash
PROPERTIES
    EveryDeployEnds
    ImplementsFairQueue
CHECK_DEADLOCK FALSE
