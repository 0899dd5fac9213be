\* A batch that died half done is taken for done by a later command.
CONSTANTS
    a1 = a1
    a2 = a2
    f1 = f1
    f2 = f2
    p1 = p1
    i1 = i1
    b1 = b1
    m1 = m1
    m2 = m2
    None = None
    Archives <- MCArchives
    Kind <- MCKind
    Small = {a2}
    Files <- MCFiles
    From <- MCFrom
    Patched = {p1}
    Inline = {i1}
    Bsas = {b1}
    Inputs <- MCInputs
    Feeds <- MCFeeds
    Mod <- MCMod
    Large = {f1, i1, b1}
    Commands <- MCTwo
    MaxRuns = 3
    MaxCrashes = 1
SPECIFICATION Spec
CHECK_DEADLOCK FALSE
INVARIANT SkippedIsWhole
