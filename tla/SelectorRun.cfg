\* Two labelled runs and one that starts from the latest saved report, killed anywhere.
SPECIFICATION ComparingSpec
CONSTANTS
    p1 = p1
    p2 = p2
    p3 = p3
    Run = {p1, p2, p3}
    Dir = {1, 2}
    Fresh <- Apart
    Saved = {p3}
    Explicit = {}
    Absent = Absent
    Partial = Partial
    Paths = {1, 2, 3, 4}
    Tests <- MCTests
    ModuleOf <- MCModuleOf
    Worlds <- MCWorlds
    Commands <- MCCommands
    MinTimeDelta = 1000
    MinTimeRatio = 3
    TokensOf <- MCTokensOf
INVARIANTS RunOK VerdictIsSound RunsAreTheNewest
PROPERTY ManifestFollowsReport
CHECK_DEADLOCK FALSE
