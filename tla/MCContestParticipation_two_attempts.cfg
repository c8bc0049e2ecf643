SPECIFICATION ContestSpec
CONSTANTS
    p1 = p1
    class = class
    Participants = {p1}
    Groups = {class, p1}
    DescendantsOf <- ClassMembers
    Duration = 2
    AllowsMultipleAttempts = TRUE
    Extras <- OneExtra
    NoExtra = NoExtra
    NULL = NULL
    MaxTime = 4
    MaxAttempts = 2
INVARIANT
    RunningAttemptHasItsTime
