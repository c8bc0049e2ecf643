SPECIFICATION TeamSpec
CONSTANTS
    u1 = u1
    u2 = u2
    t1 = t1
    t2 = t2
    Users = {u1, u2}
    Teams = {t1}
    Windows <- EntryWindows
    Admittable = {u1, u2}
    MinRatio = "Half"
    MaxTeamSize = 2
    FrozenTeams = FALSE
PROPERTY
    LeavingKeepsEntryConditions
