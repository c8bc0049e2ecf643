SPECIFICATION ContestsSpec
CONSTANTS
    u1 = u1
    u2 = u2
    t1 = t1
    t2 = t2
    Users = {u1, u2}
    Teams = {t1, t2}
    Windows <- EntryWindows
    Admittable = {u1, u2, t1, t2}
    MinRatio = "All"
    MaxTeamSize = 2
    FrozenTeams = FALSE
    p1 = p1
    class = class
    Participants = {p1}
    Groups = {class, p1}
    DescendantsOf <- ClassMembers
    Duration = 2
    AllowsMultipleAttempts = TRUE
    Extras <- ExtraValues
    NoExtra = NoExtra
    NULL = NULL
    MaxTime = 5
    MaxAttempts = 3
SYMMETRY TeamsAndUsers
INVARIANTS
    AtMostOneOngoingParticipation
    OnlyOpenAttemptHasItsTime
    MembershipFollowsParticipation
    EndedStaysClosed
    
PROPERTIES
    NobodyJoinsTwoParticipations
