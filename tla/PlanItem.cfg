\* With a timeout shorter than the cap of install_command, and without one.
SPECIFICATION ItemSpec
CONSTANTS
    Timeouts = {0, 6}
    InstallCap = 8
    MinBudget = 2
    TooLate = 3
    MaxHaps = 2
    MaxTicks = 3
CHECK_DEADLOCK FALSE
INVARIANTS PassedMeansTested WithinTimeout CleanAfterTest OutcomeOK
