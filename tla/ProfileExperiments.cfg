\* Experiments begun, committed and rolled back while profiles are forked, deleted
\* and restored; a command dies half-way.
CONSTANTS
    Profiles = {A, B}
    Files = {s1}
    Slug <- MCSlug
    Main = Main
    NoFp = NoFp
    Prints = {NoFp}
    Fingerprint <- MCUnprinted
    None = None
    MaxStamp = 1
    SaveDir = TRUE
    CrossProfile = FALSE
    Watching = FALSE
    GameMayDelete = FALSE
    MaxDepth = 3
    MaxCrashes = 1
SPECIFICATION Spec
CHECK_DEADLOCK FALSE
SYMMETRY Interchangeable
INVARIANT LiveIsActives
 
