------------------------------- MODULE Grading -------------------------------
(***************************************************************************)
(* Answers to one task and their grades: the result of one participant (a  *)
(* user or a team) in one attempt, the rows of answers and gradings, and   *)
(* the signed tokens that carry a request from one service to the next.    *)
(*                                                                         *)
(* generateTaskToken gives a task token; submit and askHint want one;      *)
(* submit gives an answer token; a grader turns it into a score, which     *)
(* saveGrade stores.  Graders answer late, in any order and more than      *)
(* once.  A token is good on the day it was signed and the days around it. *)
(* The marks left in results_propagate are in ResultsPropagation.          *)
(***************************************************************************)
EXTENDS Integers, Sequences, FiniteSets, FiniteSetsExt

CONSTANTS
  Authors,         \* users that answer for the participant
  HintNames,       \* hints the task has
  Scores,          \* scores the grader may give
  PlatformHasKey,  \* the task's platform signs its tokens
  MaxAnswers,      \* bound on the rows of answers
  LastDay,         \* bound on the days considered
  NoScore          \* no row in gradings

ASSUME GradingAssumption ==
  /\ Scores \subseteq Int /\ NoScore \notin Scores
  /\ MaxAnswers \in Nat /\ LastDay \in Nat \ {0}

VARIABLES
  today,           \* the day
  moment,          \* NOW(), in seconds
  submissionsOpen, \* NOW() < attempts.allows_submissions_until
  taskView,        \* can_view_generated of the participant on the task
  readOnly,        \* items.read_only
  taskResult,      \* the row of results
  answers,         \* rows of answers in the order of their insertion
  gradings,        \* per answer, its score or NoScore
  taskToken,       \* day on which the newest task token was signed, 0 for none
  answerTokens     \* answer tokens: [answer, day]

gradingVars == <<today, moment, submissionsOpen, taskView, readOnly, taskResult, answers,
                 gradings, taskToken, answerTokens>>

-----------------------------------------------------------------------------
TaskViews == {"none", "info", "content", "solution"}
ViewsContent == taskView \in {"content", "solution"}

\* The date claim of a token is yesterday, today or tomorrow.
IsFresh(day) == today - day \in {-1, 0, 1}

\* Rows deleted from answers keep their index, with the type "Deleted".
AnswerTypes == {"Submission", "Saved", "Current", "Deleted"}
AnswersOf(type) == {i \in DOMAIN answers : answers[i].type = type}

\* NOW() at the next insertion: two rows may have the same second.
Moments == {moment, moment + 1}

\* score_obtained_at = 0 and validated_at = 0 are NULL.
InitialResult ==
  [started |-> FALSE, submissions |-> 0, hints |-> {}, hintsCached |-> 0, tasksWithHelp |-> 0,
   tasksTried |-> 0, score |-> 0, obtainedAt |-> 0, validatedAt |-> 0]

GradingInit ==
  /\ today = 1 /\ moment = 1
  /\ submissionsOpen = TRUE
  /\ taskView = "content"
  /\ readOnly \in BOOLEAN
  /\ taskResult = InitialResult
  /\ answers = <<>> /\ gradings = <<>>
  /\ taskToken = 0 /\ answerTokens = {}

-----------------------------------------------------------------------------
(* Around the task: the other services, the clock.                         *)

\* startResult.
StartTask ==
  /\ ViewsContent /\ submissionsOpen /\ ~taskResult.started
  /\ taskResult' = [taskResult EXCEPT !.started = TRUE]
  /\ UNCHANGED <<today, moment, submissionsOpen, taskView, readOnly, answers, gradings,
                 taskToken, answerTokens>>

\* The attempt ends or runs out.
CloseSubmissions ==
  /\ submissionsOpen /\ submissionsOpen' = FALSE
  /\ UNCHANGED <<today, moment, taskView, readOnly, taskResult, answers, gradings,
                 taskToken, answerTokens>>

\* The propagation of permissions gives the participant another can_view.
ChangeTaskView ==
  /\ taskView' \in {"info", "content"} \ {taskView}
  /\ UNCHANGED <<today, moment, submissionsOpen, readOnly, taskResult, answers, gradings,
                 taskToken, answerTokens>>

NextDay ==
  /\ today < LastDay
  /\ today' = today + 1 /\ moment' = moment + 1
  /\ UNCHANGED <<submissionsOpen, taskView, readOnly, taskResult, answers, gradings,
                 taskToken, answerTokens>>

-----------------------------------------------------------------------------
(* Answers and hints.                                                      *)

GenerateTaskToken ==
  /\ ViewsContent /\ submissionsOpen /\ taskResult.started
  /\ taskToken' = today
  /\ UNCHANGED <<today, moment, submissionsOpen, taskView, readOnly, taskResult, answers,
                 gradings, answerTokens>>

\* When any task token is fresh, the newest one is.
HasTaskToken == taskToken # 0 /\ IsFresh(taskToken)

CheckSubmissionRights == ViewsContent /\ ~readOnly

\* Inserts a row; ids are random and say nothing of the order.
CreateNewAnswer(author, type, rows) ==
  /\ Len(answers) < MaxAnswers
  /\ \E t \in Moments :
       /\ answers' = Append(rows, [author |-> author, type |-> type, createdAt |-> t])
       /\ moment' = t
  /\ gradings' = Append(gradings, NoScore)

Submit(author) ==
  /\ HasTaskToken
  /\ CheckSubmissionRights /\ submissionsOpen
  /\ CreateNewAnswer(author, "Submission", answers)
  /\ taskResult' = [taskResult EXCEPT !.submissions = @ + 1]
  /\ answerTokens' = answerTokens \union {[answer |-> Len(answers'), day |-> today]}
  /\ UNCHANGED <<today, submissionsOpen, taskView, readOnly, taskToken>>

\* The hint comes in a token of the platform, so the platform needs a key.
HintTokenAccepted == PlatformHasKey

\* hints_requested as read for update, and the hint unless it is there.
addHintToListIfNeeded(list, hint) == list \union {hint}

AskHint(hint) ==
  /\ HintTokenAccepted
  /\ HasTaskToken
  /\ CheckSubmissionRights /\ submissionsOpen
  /\ LET list == addHintToListIfNeeded(taskResult.hints, hint)
     IN taskResult' = [taskResult EXCEPT !.hints = list, !.hintsCached = Cardinality(list),
                                         !.tasksWithHelp = 1]
  /\ taskToken' = today
  /\ UNCHANGED <<today, moment, submissionsOpen, taskView, readOnly, answers, gradings,
                 answerTokens>>

\* answerCreate: neither the rights nor the attempt are checked, only that the
\* result exists.
SaveAnswer(author) ==
  /\ CreateNewAnswer(author, "Saved", answers)
  /\ UNCHANGED <<today, submissionsOpen, taskView, readOnly, taskResult, taskToken,
                 answerTokens>>

\* updateCurrentAnswer: the author's earlier 'Current' row is deleted.
SaveCurrentAnswer(author) ==
  /\ CreateNewAnswer(author, "Current",
       [i \in DOMAIN answers |->
          IF answers[i].author = author /\ answers[i].type = "Current"
          THEN [answers[i] EXCEPT !.type = "Deleted"] ELSE answers[i]])
  /\ UNCHANGED <<today, submissionsOpen, taskView, readOnly, taskResult, taskToken,
                 answerTokens>>

-----------------------------------------------------------------------------
(* Grades.                                                                 *)

LeastOfPair(x, y) == IF x < y THEN x ELSE y
GreatestOfPair(x, y) == IF x < y THEN y ELSE x

\* A score comes with a token of the platform or, for a platform without a
\* key, with the answer token itself.
MayBeGraded(a) ==
  \E t \in answerTokens : t.answer = a /\ (PlatformHasKey \/ IsFresh(t.day))

\* saveNewScoreIntoGradings: one row per answer, a replay is refused.
IsNewGrading(a) == a \in {i \in DOMAIN answers : answers[i].type # "Deleted"} /\ gradings[a] = NoScore

\* Mutant: the last score wins.
LastScore(score) == LeastOfPair(GreatestOfPair(score, 0), 100)

\* score_computed never decreases.
NewScore(score) == LeastOfPair(GreatestOfPair(GreatestOfPair(score, taskResult.score), 0), 100)

ObtainedAt(score, createdAt) ==
  LET new == NewScore(score)
  IN IF taskResult.obtainedAt = 0 \/ taskResult.score < new THEN createdAt
     ELSE IF taskResult.score = new THEN LeastOfPair(taskResult.obtainedAt, createdAt)
     ELSE taskResult.obtainedAt

ValidatedOn(score, createdAt) ==
  IF score # 100 THEN taskResult.validatedAt
  ELSE IF taskResult.validatedAt = 0 THEN createdAt
  ELSE LeastOfPair(taskResult.validatedAt, createdAt)

SaveGrade(a, score) ==
  /\ MayBeGraded(a)
  /\ IsNewGrading(a)
  /\ gradings' = [gradings EXCEPT ![a] = score]
  /\ taskResult' = [taskResult EXCEPT
       !.tasksTried = 1,
       !.score = NewScore(score),
       !.obtainedAt = ObtainedAt(score, answers[a].createdAt),
       !.validatedAt = ValidatedOn(score, answers[a].createdAt)]
  /\ UNCHANGED <<today, moment, submissionsOpen, taskView, readOnly, answers, taskToken,
                 answerTokens>>

GradingNext ==
  \/ StartTask
  \/ CloseSubmissions
  \/ ChangeTaskView
  \/ NextDay
  \/ GenerateTaskToken
  \/ \E author \in Authors : Submit(author)
  \/ \E author \in Authors : SaveAnswer(author)
  \/ \E author \in Authors : SaveCurrentAnswer(author)
  \/ \E hint \in HintNames : AskHint(hint)
  \/ \E a \in 1..MaxAnswers, score \in Scores : SaveGrade(a, score)

GradingSpec == GradingInit /\ [][GradingNext]_gradingVars

-----------------------------------------------------------------------------
(* What the read services return.                                          *)

Graded == {i \in DOMAIN answers : gradings[i] # NoScore}

\* getBestAnswer: score descending, then the latest.
BestAnswers ==
  {i \in Graded \intersect AnswersOf("Submission") :
     \A j \in Graded \intersect AnswersOf("Submission") :
       \/ gradings[j] < gradings[i]
       \/ gradings[j] = gradings[i] /\ answers[j].createdAt <= answers[i].createdAt}

\* getCurrentAnswer: the latest 'Current' row of any author.
CurrentAnswers ==
  {i \in AnswersOf("Current") :
     \A j \in AnswersOf("Current") : answers[j].createdAt <= answers[i].createdAt}

\* publishResult: the fraction sent to the login module.
PublishedScore == <<taskResult.score, 100>>

\* listAnswers with author_id: everything but the 'Current' rows.
ListedAnswers(author) ==
  {i \in DOMAIN answers : answers[i].author = author /\ answers[i].type \in {"Submission", "Saved"}}

-----------------------------------------------------------------------------
\* The tables keep their types, an author has at most one 'Current' row, and
\* hints_cached counts the hints.
GradingTypeOK ==
  /\ today \in 1..LastDay /\ taskView \in TaskViews
  /\ \A i \in DOMAIN answers : answers[i].type \in AnswerTypes
  /\ DOMAIN gradings = DOMAIN answers
  /\ taskResult.hintsCached = Cardinality(taskResult.hints)
  /\ \A i, j \in AnswersOf("Current") : answers[i].author = answers[j].author => i = j

FirstOf(ids) == Min({answers[i].createdAt : i \in ids})

\* Whatever the order in which graders answer, and however often they repeat an
\* answer: score_computed is the best score given and the one of the answer
\* that getBestAnswer shows, validated_at is the creation of the earliest
\* answer with the full score, and score_obtained_at is not after the earliest
\* answer with the best score.
ResultFollowsGradings ==
  LET best == {i \in Graded : gradings[i] = taskResult.score}
      full == {i \in Graded : gradings[i] = 100}
  IN IF Graded = {}
     THEN taskResult.score = 0 /\ taskResult.validatedAt = 0 /\ taskResult.obtainedAt = 0
     ELSE /\ best # {} /\ \A i \in Graded : gradings[i] <= taskResult.score
          /\ \A i \in BestAnswers : i \in best
          /\ taskResult.validatedAt = IF full = {} THEN 0 ELSE FirstOf(full)
          /\ taskResult.obtainedAt \in 1..FirstOf(best)

\* score_obtained_at is the creation of the earliest answer that got the best
\* score, as the comments of saveGradingResultsIntoDB describe: a lower score
\* leaves it alone.
ObtainedWithBestScore ==
  Graded = {} \/ taskResult.obtainedAt = FirstOf({i \in Graded : gradings[i] = taskResult.score})
=============================================================================
