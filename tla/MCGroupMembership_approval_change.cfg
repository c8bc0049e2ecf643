SPECIFICATION Spec
CONSTANTS
    u1 = u1
    u2 = u2
    t1 = t1
    lock = lock
    Group = group
    GroupType = "Class"
    Users = {u1, u2}
    TempUsers = {}
    Teams = {}
    Managers = {}
    AncestorsOfGroup = {}
    Approvals <- OneApproval
    Lock = lock
    MaxLevel <- OneLevel
    Limits = {}
    Unlimited = Unlimited
    MayExpire = FALSE
    RequestKinds = {"leave", "leave_request", "accept_join", "accept_leave"}
    Overlap = FALSE
    MaxInFlight = 1
PROPERTY
    ApprovalChangeRemovesAllRequests
