SPECIFICATION PathsSpec
CONSTANTS
  home = home
  contest = contest
  quiz = quiz
  PathItems = {home, contest, quiz}
  PathLinks <- MCPathLinks
  PathRoots = {home, contest}
  EntryItems = {contest}
  MultipleItems = {contest, quiz}
  EntryDuration = 1
  LastAttempt = 2
  LastInstantOfPaths = 1
  MaxPathCalls = 5
  NoAttempt = NoAttempt
  NothingReturned = NothingReturned
INVARIANT
  PathsPassOpenContests
CHECK_DEADLOCK FALSE
