SPECIFICATION Spec
CONSTANTS
    None = None
    DefaultKey = "default"
    Moonbridge = "moonbridge"
    Deepseek = "A"
    Flash = "m1"
    Requests = {r1}
    Asks <- MCAsks
    Seeds <- MCSeeds
    Stores <- MCStores
    Changes <- MCChanges
    Edits <- MCEdits
    Env <- MCEnv
    Native <- MCNative
    RankOf <- MCRankOf
    MaxStarts = 2
    MaxChanges = 2
INVARIANTS
    RestartKeepsRoutes
    FreshAfterChange
    SlotPolicyIsKept
    ReadySlotsAreServed
