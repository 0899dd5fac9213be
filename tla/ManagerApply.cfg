\* Two managers race for one root, with a foreign write and a failure.
CONSTANTS
    orig = orig
    new1 = new1
    new2 = new2
    user = user
    tree = tree
    root = root
    addons = addons
    m1 = m1
    m2 = m2
    Managers = {m1, m2}
    N = 2
    FileImages = {orig, new1, new2, user}
    TreeImages = {tree}
    Missing = Missing
    InitImages = {orig, Missing}
    UserImages = {user, tree, Missing}
    Folders = {root, addons}
    Root = root
    Folder <- MCFolder
    Wanted <- MCWanted
    Seed <- MCSeed
    None = None
    MaxWrites = 1
    MaxFaults = 1
SPECIFICATION FairSpec
CHECK_DEADLOCK FALSE
INVARIANTS
    TypeOK
    RolledBackIsWhole
    UndisturbedOutcome
    JournalNamesBackups
PROPERTIES
    NothingDestroyed
    LeaseIsReturned
