SPECIFICATION PropagationSpec
CONSTANTS
  root = root
  chapter = chapter
  task = task
  bonus = bonus
  NoItem = NoItem
  NoResult = NoResult
  InitialStarted <- MCInitialStarted
  Items = {root, chapter, task, bonus}
  Tasks = {task}
  Explicit = {}
  RootItems = {root}
  Attempts = {0, 1}
  AttemptRoot <- MCAttemptRoot
  ParentAttempt <- MCParentAttempt
  ValidationType <- MCValidationType
  Validating = {}
  Weight <- MCWeight
  Dependencies <- MCDependencies
  InitialChildren <- MCInitialChildren
  AddedChildren <- MCAddedChildren
  InitialDeps <- MCDependencies
  InitialVisible = {root, chapter, task}
  Calls = {"start", "attempt", "path", "touch", "grade", "children", "no_score", "recompute", "visible", "dependency", "crash"}
  MaxCalls = 3
  ChunkSize = 1

  c1 = c1
  c2 = c2
  row1 = row1
  row2 = row2
  Callers = {c1, c2}
  Rows = {row1, row2}
  Order <- MCOrder
  Modes <- MCModes
  Schedules = {c1, c2}
  Connections = {n1, n2}
  RetriesLimit = 1
  NoConnection = NoConnection
  NoCaller = NoCaller

  home = home
  contest = contest
  quiz = quiz
  PathItems = {home, contest, quiz}
  PathLinks <- MCPathLinks
  PathRoots = {home, contest}
  EntryItems = {contest}
  MultipleItems = {contest, quiz}
  EntryDuration = 1
  LastAttempt = 2
  LastInstantOfPaths = 1
  MaxPathCalls = 5
  NoAttempt = NoAttempt
  NothingReturned = NothingReturned
INVARIANTS
  PropagationTypeOK
  IdleMeansSettled
  ModesAreAsked
  PathQueriesAgree
PROPERTIES
  MarksDisappear
  CallsAreAtomic
CHECK_DEADLOCK FALSE
