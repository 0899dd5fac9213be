\* One session that edits, a deployment at any moment, one death.
CONSTANTS
    m1 = m1
    m2 = m2
    m3 = m3
    m4 = m4
    gui = gui
    Mods = {m1, m2, m3, m4}
    AllRules <- MCAllRules
    Editors = {gui}
    Profiles <- MCProfiles
    Rulesets <- MCRulesets
    Commands <- MCCommands
    MaxEdits = 1
    MaxDeaths = 1
SPECIFICATION Spec
CHECK_DEADLOCK FALSE
INVARIANTS
    TypeOK
    LeastOrder
    CycleIsReal
    RowsAreBeginning
PROPERTIES
    EditsAreWhole
