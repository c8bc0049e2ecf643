SPECIFICATION ServicesSpec
CONSTANTS
  u1 = u1
  u2 = u2
  t1 = t1
  lock = lock
  Group = group
  GroupType = "Class"
  Users = {u1}
  TempUsers = {}
  Teams = {t1}
  Managers = {u1}
  AncestorsOfGroup = {}
  Approvals <- OneApproval
  Lock = lock
  MaxLevel <- OneLevel
  Limits = {}
  Unlimited = Unlimited
  MayExpire = TRUE
  RequestKinds = {"leave", "leave_request", "accept_join", "accept_leave", "grant"}
  Overlap = FALSE
  MaxInFlight = 1

  boss = boss
  People = {boss, tom}
  TempPeople = {}
  Codes = {c1, c2}
  TakenCodes = {c2}
  Lifetimes = {2, Null}
  LastMoment = 2
  GroupIsTeam = TRUE
  MaxMembers = 1
  Null = Null

  Prefixes = {p1, p2}
  Sizes = {1, 2}
  MaxUsers = 3
  PostfixLength = 1
  BatchRequests = {b1, b2}
  MaxBatchCalls = 3
  NoBatch = NoBatch

  Regular = {ann}
  Temporary = {tmp}
  SessionIds = {1, 2}
  TokenRequests = {r1, r2}
  MaxSessions = 1
  Lifetime = 2
  LastInstant = 2
  MaxTokens = 3
  NoRefreshToken = NoRefreshToken

  ViewLevels = {1, 2, 3, 5}
  GrantViewLevels = {1, 2, 3, 6}
  WatchLevels = {1, 4}
  EditLevels = {1, 4}
  EnterTimes = {1, 2}
  HelpGroups = {"club"}
  AncestorOrigins = {"self"}
  NoGroup = NoGroup
  Unset = Unset
  GrantingManagers <- MCManagers

  Authors = {ann}
  HintNames = {hint}
  Scores = {0, 50, 100}
  PlatformHasKey = TRUE
  MaxAnswers = 3
  LastDay = 2
  NoScore = NoScore

  Participant = pat
  Others = {hel}
  Mates = {hel}
  HelperGroups = {club}
  PublicGroups = {}
  AllUsersGroup = all
  MaxMessages = 1
  NoThread = NoThread
  NotGiven = NotGiven

  chap = chap
  prob = prob
  fresh = fresh
  ed = ed
  chief = chief
  FirstItems <- MCFirstItems
  NewItems = {fresh}
  ItemEditors = {ed, chief}
  EditorRights <- MCEditorRights
  RootManagers = {chief}
  ItemLanguages = {fr, en}
  FirstLanguage = fr
  ChildRequests <- MCChildRequests
  MaxItemCalls = 3
  NoItem = NoItem
  Absent = Absent

  FieldNames <- MCFieldNames
  NullableFields = {"grade"}
  TieBreakers = {"id", "team"}
  ListRows <- MCListRows
  SortRequests <- MCSortRequests
  LogRows <- MCLogRows
  PageLimits = {1, 3}
  MaxAllowedLimit = 2
  MaxRowChanges = 1
  SqlNull = SqlNull
  NoLastRow = NoLastRow
  NoRules = NoRules
INVARIANTS
  ServicesTypeOK
  NoContradictoryState
  LogExplainsState
  GrantsFollowMembership
  GrantedRowIsConsistent
  AnnouncedIsDone
  CodeExpiresAfterItsLifetime
  BatchesMatchUsers
  RefreshUsesAcceptedToken
  ResultFollowsGradings
  ThreadWritersSeeIt
  PropagationWasAllowed
  PagesMissNothing
CHECK_DEADLOCK FALSE
