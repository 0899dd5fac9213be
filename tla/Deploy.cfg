\* Both ways to deploy, hot deploys, a kept staging tree, a command that dies.
CONSTANTS
    A = A
    B = B
    body = body
    hair = hair
    skin = skin
    cloth = cloth
    notes = notes
    looks = looks
    extras = extras
    Profiles = {A, B}
    Mods = {body, hair}
    Rank <- MCRank
    Paths = {skin, cloth, notes}
    Roots = {looks, extras}
    RootOf <- MCRootOf
    Ships <- MCShips
    Hidden <- MCHidden
    Overrides <- MCOverrides
    Override = Override
    Cosmetic = {skin, notes}
    Theirs = Theirs
    TheirPaths = {notes, cloth}
    None = None
    Layouts = {"files", "roots"}
    HotDeployed = {"files", "roots"}
    Edited = {A}
    MaxBackups = 1
    MaxCrashes = 1
SPECIFICATION Spec
INVARIANTS
    TypeOK
    FarmUnlessLinked
PROPERTY TheirsKept
