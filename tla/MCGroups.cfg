SPECIFICATION GroupsSpec
CONSTANTS
    u1 = u1
    u2 = u2
    t1 = t1
    lock = lock
    Group = group
    GroupType = "Class"
    Users = {u1, u2}
    TempUsers = {}
    Teams = {}
    Managers = {}
    AncestorsOfGroup = {}
    Approvals <- OneApproval
    Lock = lock
    MaxLevel <- OneLevel
    Limits = {1}
    Unlimited = Unlimited
    MayExpire = FALSE
    RequestKinds = {"leave_request", "accept_join"}
    Overlap = TRUE
    MaxInFlight = 1

    all = all
    a = a
    b = b
    c = c
    t = t
    k = k
    u = u
    Groups = {all, a, b, c, t, k, u}
    Type <- GroupTypes
    Initially = {all, k}
    AllUsers = all
    MaxTime = 2
SYMMETRY GroupsSymmetry
INVARIANTS
    TypeOK
    FrozenGroupHasNoJoinRequest
    MembersGaveRequiredApprovals
    GraphTypeOK
    AncestorsAreTheClosure
    RelationsAreAcyclic
PROPERTIES
    FrozenGroupAdmitsOnlyBadges
    UsersStayWithinLimit
    OnlyOrphansAreDeleted
