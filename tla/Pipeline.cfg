SPECIFICATION FairSpec
CONSTANTS
    k1 = k1
    k2 = k2
    d1 = d1
    d2 = d2
    d3 = d3
    r1 = r1
    Deploys = {d1, d2, d3}
    Viewers = {v}
    Stages <- StageNames
    Results <- TheResults
    Backlog = 3
    Ring = 3
    None = None
    Unset = None
    Keys = {k1, k2}
    Repos = {r1}
    KeyOf <- TheKey
    RepoOf <- TheRepo
    AskOf <- TheAsk
    Slots = 1
    Routed = {d1}
    Seeding = {d1}
    Budgets <- Troubles
INVARIANTS
    SlotsKept
    StoryTrue
    RunsWhatWasAsked
    ViewersSeeTheStory
PROPERTIES
    TimedRunsEnd
    FollowersAreTold
CHECK_DEADLOCK FALSE
