\* Three targets of two changed files, from the ranking to the preflight.
SPECIFICATION Spec
CONSTANTS
    button = button
    toast = toast
    buttonFamily = buttonFamily
    toastFamily = toastFamily
    member = member
    s1 = s1
    s2 = s2
    n1 = n1
    n2 = n2
    NumTargets = 3
    MaxGain = 3
    Source = {button, toast}
    Unit = {buttonFamily, toastFamily, member}
    Family = {buttonFamily, toastFamily}
    UnitsOf <- MCUnitsOf
    FamilyOf <- MCFamilyOf
    Component <- MCComponent
    Profiles <- MCProfiles
    Device = {s1, s2}
    Name = {n1, n2}
    NoDevice = NoDevice
    Fragment <- MCFragment
    Aliases <- MCAliases
    Options <- MCOptions
CHECK_DEADLOCK FALSE
INVARIANTS UncoveredMeansUntestable BestFirst PlanOK PassedMeansConnected
