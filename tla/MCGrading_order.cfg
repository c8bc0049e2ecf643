SPECIFICATION GradingSpec
CONSTANTS
  Authors = {ann}
  HintNames = {hint}
  Scores = {0, 50, 100}
  PlatformHasKey = TRUE
  MaxAnswers = 3
  LastDay = 2
  NoScore = NoScore
INVARIANT ObtainedWithBestScore
CHECK_DEADLOCK FALSE
