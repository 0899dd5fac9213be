\* A session from start to end, in one terminal.
CONSTANTS
    t1 = t1
    Source = Source
    None = None
    N = 5
    Depends <- MCFree
    Causes <- MCSingle
    Oracles = {"manual", "crash"}
    SaveMods = {}
    ForceSaveRisk = FALSE
    Keep = FALSE
    SaveDir = FALSE
    Shared = TRUE
    Terminals = {t1}
    Launchers = {t1}
    MaxSteps = 5
    MaxDeaths = 0
SPECIFICATION FairSpec
INVARIANTS
    StepsAreLog
    ProfilesRestored
PROPERTIES
    StaysOver
    Converges
