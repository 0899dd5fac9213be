\* A plugin that links files, whose hot deploy links top-level entries.
CONSTANTS
    A = A
    B = B
    body = body
    hair = hair
    skin = skin
    cloth = cloth
    notes = notes
    looks = looks
    extras = extras
    Profiles = {A, B}
    Mods = {body, hair}
    Rank <- MCRank
    Paths = {skin, cloth, notes}
    Roots = {looks, extras}
    RootOf <- MCRootOf
    Ships <- MCShips
    Hidden <- MCHidden
    Overrides <- MCOverrides
    Override = Override
    Cosmetic = {skin, notes}
    Theirs = Theirs
    TheirPaths = {notes, cloth}
    None = None
    Layouts = {"files"}
    HotDeployed = {"files"}
    Edited = {A}
    MaxBackups = 0
    MaxCrashes = 0
SPECIFICATION Spec
INVARIANT DeployedIsFarm
