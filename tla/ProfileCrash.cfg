\* Commands that die half-way, a watcher, and a game that deletes its save.
CONSTANTS
    Profiles = {A, B}
    Files = {s1}
    Slug <- MCSlug
    Main = Main
    NoFp = NoFp
    Prints = {NoFp}
    Fingerprint <- MCUnprinted
    None = None
    MaxStamp = 1
    SaveDir = TRUE
    CrossProfile = TRUE
    Watching = TRUE
    GameMayDelete = TRUE
    MaxDepth = 1
    MaxCrashes = 2
SPECIFICATION Spec
CHECK_DEADLOCK FALSE
SYMMETRY Interchangeable
INVARIANT TypeOK
PROPERTIES
    NothingLost
    ParkedIsCommitted
