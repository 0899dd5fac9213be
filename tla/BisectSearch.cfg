\* The search from two terminals, with dependencies and a command that dies.
CONSTANTS
    t1 = t1
    t2 = t2
    Source = Source
    None = None
    N = 4
    Depends <- MCChain
    Causes <- MCSome
    Oracles = {"manual", "crash"}
    SaveMods = {}
    ForceSaveRisk = FALSE
    Keep = FALSE
    SaveDir = TRUE
    Shared = TRUE
    Terminals = {t1, t2}
    Launchers = {t1}
    MaxSteps = 3
    MaxDeaths = 1
SPECIFICATION Spec
INVARIANT CauseIsSuspect
PROPERTY JudgedIsCandidate
