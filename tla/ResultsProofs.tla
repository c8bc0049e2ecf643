----------------------------- MODULE ResultsProofs -----------------------------
(***************************************************************************)
(* The propagation of results, for any items, links without a cycle,       *)
(* attempts, dependencies and chunks: the types of its tables, that the    *)
(* propagation of saveGrade comes to its end, and that results and         *)
(* unlocked items are settled whenever nothing is marked and no            *)
(* propagation runs.                                                       *)
(***************************************************************************)
EXTENDS ResultsPropagation, SumTheorems, TLAPS

-------------------------------------------------------------------------------
(* Rows, and the aggregate of a chapter.                                   *)

\* The tables results and results_propagate.
ResultTables == [Keys -> ResultRow \union {NoResult}]
MarkTables == [Keys -> MarkStates]

\* The results are those of finitely many attempts and items.
LEMMA KeysAre == Keys = Attempts \X Items /\ IsFiniteSet(Keys)
<1>1. Keys = Attempts \X Items
  BY DEF Keys
<1>2. IsFiniteSet(Attempts \X Items)
  BY ResultsAssumption, FS_Product
<1> QED
  BY <1>1, <1>2

\* A row is not the absence of a row.
LEMMA RowsExist ==
  ASSUME NEW res \in ResultTables, NEW k \in Keys
  PROVE  Exists(res, k) <=> res[k] \in ResultRow
BY ResultsAssumption DEF Exists, ResultTables

\* The results of a child are finitely many rows.
LEMMA ChildRows ==
  ASSUME NEW res \in ResultTables, NEW a \in Attempts, NEW c \in Items
  PROVE  ChildResults(res, a, c) \in SUBSET ResultRow /\ IsFiniteSet(ChildResults(res, a, c))
<1> DEFINE of == [b \in Attempts |-> res[<<b, c>>]]
           counted == {b \in Attempts : /\ Exists(res, <<b, c>>)
                                        /\ b = a \/ (AttemptRoot[b] = c /\ ParentAttempt[b] = a)}
<1>1. ChildResults(res, a, c) = {of[b] : b \in counted}
  BY DEF ChildResults
<1>2. \A b \in counted : of[b] \in ResultRow
  BY KeysAre, RowsExist
<1>3. IsFiniteSet(counted) /\ counted \subseteq DOMAIN of
  BY ResultsAssumption, FS_Subset
<1> HIDE DEF of, counted
<1>4. IsFiniteSet({of[b] : b \in counted})
  BY <1>3, FiniteValues
<1> QED
  BY <1>1, <1>2, <1>4

\* The best of finitely many values, or 0.
LEMMA BestIs ==
  ASSUME NEW S \in SUBSET Nat, IsFiniteSet(S)
  PROVE  BestOf(S) \in S \union {0} /\ BestOf(S) \in Nat
<1>1. S \union {0} \in SUBSET Nat /\ S \union {0} # {} /\ IsFiniteSet(S \union {0})
  BY FS_AddElement
<1> QED
  BY <1>1, GreatestNatural DEF BestOf

\* The values of a field in finitely many rows are finitely many numbers.
LEMMA FieldValues ==
  ASSUME NEW rows \in SUBSET ResultRow, IsFiniteSet(rows)
  PROVE  /\ {r.score : r \in rows} \in SUBSET (0..100) /\ IsFiniteSet({r.score : r \in rows})
         /\ {r.tried : r \in rows} \in SUBSET Nat /\ IsFiniteSet({r.tried : r \in rows})
         /\ {r.activity : r \in rows} \in SUBSET Nat /\ IsFiniteSet({r.activity : r \in rows})
         /\ ValidatedAt(rows) \in Nat
<1> DEFINE score == [r \in rows |-> r.score]
           tried == [r \in rows |-> r.tried]
           activity == [r \in rows |-> r.activity]
<1>1. IsFiniteSet({score[r] : r \in rows}) /\ IsFiniteSet({tried[r] : r \in rows})
      /\ IsFiniteSet({activity[r] : r \in rows})
  <2>1. rows \subseteq DOMAIN score /\ rows \subseteq DOMAIN tried /\ rows \subseteq DOMAIN activity
    OBVIOUS
  <2> HIDE DEF score, tried, activity
  <2> QED
    BY <2>1, FiniteValues
<1>2. /\ {r.score : r \in rows} = {score[r] : r \in rows}
      /\ {r.tried : r \in rows} = {tried[r] : r \in rows}
      /\ {r.activity : r \in rows} = {activity[r] : r \in rows}
  OBVIOUS
<1>3. \A r \in rows : r.score \in 0..100 /\ r.tried \in Nat /\ r.activity \in Nat /\ r.validatedAt \in Nat
  BY DEF ResultRow
<1>4. ValidatedAt(rows) \in Nat
  <2> DEFINE times == {r.validatedAt : r \in rows} \ {0}
  <2>1. times \in SUBSET Nat
    BY <1>3
  <2>2. times # {} => Min(times) \in Nat
    <3> HIDE DEF times
    <3> QED
      BY <2>1, LeastNatural
  <2> QED
    BY <2>2 DEF ValidatedAt
<1> HIDE DEF score, tried, activity
<1> QED
  BY <1>1, <1>2, <1>3, <1>4

\* The latest activity below a chapter, and the latest validation, are numbers.
LEMMA LatestIs ==
  ASSUME NEW S \in SUBSET Items, NEW v, \A c \in S : v[c] \in Nat, S \subseteq DOMAIN v
  PROVE  BestOf({v[c] : c \in S}) \in Nat
<1>1. IsFiniteSet(S)
  BY ResultsAssumption, FS_Subset
<1>2. {v[c] : c \in S} \in SUBSET Nat /\ IsFiniteSet({v[c] : c \in S})
  BY <1>1, FiniteValues
<1> QED
  BY <1>2, BestIs

\* A quotient of a weighted sum of percentages is a percentage.
LEMMA QuotientIs ==
  ASSUME NEW p \in Nat, NEW w \in Nat, p <= 100 * w
  PROVE  p \div (IF w = 0 THEN 1 ELSE w) \in 0..100
<1>1. CASE w = 0
  BY <1>1
<1>2. CASE w # 0
  BY <1>2
<1> QED
  BY <1>1, <1>2

\* The aggregate of a chapter is a row: in particular its score is a percentage.
LEMMA AggregateIsRow ==
  ASSUME NEW res \in ResultTables, NEW k \in Keys, Exists(res, k)
  PROVE  Aggregate(res, k) \in ResultRow
<1> DEFINE i == k[2]
           scored == Children(i) \ noScore
           rows(c) == ChildResults(res, k[1], c)
           valid(c) == ValidatedAt(rows(c))
           missing == {c \in scored : valid(c) = 0}
           missingCategories == {c \in missing : <<i, c>> \in Validating}
           latest == BestOf({valid(c) : c \in scored})
           latestCategories == BestOf({valid(c) : c \in {d \in scored : <<i, d>> \in Validating}})
           weight == [c \in scored |-> Weight[<<i, c>>]]
           points == [c \in scored |-> weight[c] * BestOf({r.score : r \in rows(c)})]
           tried == [c \in scored |-> BestOf({r.tried : r \in rows(c)})]
           activity == BestOf({res[k].activity} \union UNION {{r.activity : r \in rows(c)} : c \in scored})
           validatedAt == CASE scored = {} -> 0
                            [] ValidationType[i] = "Categories" /\ missingCategories = {} -> latestCategories
                            [] ValidationType[i] = "All" /\ missing = {} -> latest
                            [] ValidationType[i] = "AllButOne" /\ Cardinality(missing) < 2 -> latest
                            [] ValidationType[i] = "One" /\ missing # scored -> latest
                            [] OTHER -> 0
           weights == SumOver(weight, scored)
           score == IF i \in noScore \/ scored = {} THEN 0
                    ELSE SumOver(points, scored) \div (IF weights = 0 THEN 1 ELSE weights)
<1>1. Aggregate(res, k) = [res[k] EXCEPT !.activity = activity, !.tried = SumOver(tried, scored),
                                        !.validatedAt = validatedAt, !.score = score]
  BY DEF Aggregate, SumOver
<1>2. res[k] \in ResultRow /\ k[1] \in Attempts /\ k[2] \in Items
  BY KeysAre, RowsExist
<1>3. scored \in SUBSET Items /\ IsFiniteSet(scored)
  <2>1. scored \in SUBSET Items
    BY DEF Children
  <2> QED
    BY <2>1, ResultsAssumption, FS_Subset
<1>4. ASSUME NEW c \in scored
      PROVE  /\ rows(c) \in SUBSET ResultRow
             /\ {r.score : r \in rows(c)} \in SUBSET (0..100) /\ IsFiniteSet({r.score : r \in rows(c)})
             /\ {r.tried : r \in rows(c)} \in SUBSET Nat /\ IsFiniteSet({r.tried : r \in rows(c)})
             /\ {r.activity : r \in rows(c)} \in SUBSET Nat /\ IsFiniteSet({r.activity : r \in rows(c)})
             /\ valid(c) \in Nat
  <2>1. c \in Items
    BY <1>3
  <2>2. rows(c) \in SUBSET ResultRow /\ IsFiniteSet(rows(c))
    BY <1>2, <2>1, ChildRows
  <2> HIDE DEF rows
  <2> QED
    BY <2>2, FieldValues
<1>5. ASSUME NEW c \in scored
      PROVE  /\ weight[c] \in Nat /\ points[c] \in Nat /\ points[c] <= 100 * weight[c]
             /\ tried[c] \in Nat
  <2> DEFINE best == BestOf({r.score : r \in rows(c)})
  <2>1. weight[c] \in Nat
    <3>1. c \in Items /\ <<i, c>> \in Items \X Items
      BY <1>2, <1>3
    <3>2. Weight[<<i, c>>] \in Nat
      BY <3>1, ResultsAssumption
    <3> QED
      BY <3>2
  <2>2. best \in 0..100
    <3> DEFINE scores == {r.score : r \in rows(c)}
    <3>1. scores \in SUBSET (0..100) /\ IsFiniteSet(scores)
      BY <1>4
    <3>2. best = BestOf(scores)
      OBVIOUS
    <3> HIDE DEF scores, best
    <3>3. scores \in SUBSET Nat
      BY <3>1
    <3>4. BestOf(scores) \in scores \union {0}
      BY <3>1, <3>3, BestIs
    <3>5. best \in scores \/ best = 0
      BY <3>2, <3>4, Zenon
    <3>6. 0 \in 0..100
      OBVIOUS
    <3>7. best \in scores => best \in 0..100
      BY <3>1, Zenon
    <3> QED
      BY <3>5, <3>6, <3>7, Zenon
  <2>3. tried[c] \in Nat
    <3>1. BestOf({r.tried : r \in rows(c)}) \in Nat
      BY <1>4, BestIs
    <3> QED
      BY <3>1
  <2>4. points[c] = weight[c] * best
    OBVIOUS
  <2> HIDE DEF best, weight, points, tried
  <2> QED
    BY <2>1, <2>2, <2>3, <2>4
<1>6. activity \in Nat
  <2> DEFINE below == UNION {{r.activity : r \in rows(c)} : c \in scored}
             of == [c \in scored |-> {r.activity : r \in rows(c)}]
  <2>1. below = UNION {of[c] : c \in scored} /\ scored \subseteq DOMAIN of
    OBVIOUS
  <2>2. IsFiniteSet({of[c] : c \in scored})
    <3> HIDE DEF of
    <3> QED
      BY <1>3, <2>1, FiniteValues
  <2>3. \A T \in {of[c] : c \in scored} : IsFiniteSet(T) /\ T \in SUBSET Nat
    BY <1>4
  <2> HIDE DEF of
  <2>4. IsFiniteSet(below) /\ below \in SUBSET Nat
    BY <2>1, <2>2, <2>3, FS_UNION
  <2>5. res[k].activity \in Nat
    BY <1>2 DEF ResultRow
  <2> HIDE DEF below
  <2>6. IsFiniteSet({res[k].activity} \union below) /\ {res[k].activity} \union below \in SUBSET Nat
    <3>1. IsFiniteSet(below \union {res[k].activity})
      BY <2>4, FS_AddElement
    <3>2. {res[k].activity} \union below = below \union {res[k].activity}
      OBVIOUS
    <3> QED
      BY <2>4, <2>5, <3>1, <3>2
  <2>7. BestOf({res[k].activity} \union below) \in Nat
    BY <2>6, BestIs
  <2> QED
    BY <2>7 DEF below
<1>7. latest \in Nat /\ latestCategories \in Nat
  <2> DEFINE v == [c \in scored |-> valid(c)]
             inCategories == {d \in scored : <<i, d>> \in Validating}
  <2>1. \A c \in scored : v[c] = valid(c) /\ v[c] \in Nat
    BY <1>4
  <2>2. {valid(c) : c \in scored} = {v[c] : c \in scored}
        /\ {valid(c) : c \in inCategories} = {v[c] : c \in inCategories}
    BY <2>1
  <2>3. scored \subseteq DOMAIN v /\ inCategories \subseteq DOMAIN v /\ inCategories \in SUBSET Items
        /\ \A c \in inCategories : v[c] \in Nat
    BY <1>3, <2>1
  <2> HIDE DEF v, valid, inCategories
  <2>4. BestOf({v[c] : c \in scored}) \in Nat /\ BestOf({v[c] : c \in inCategories}) \in Nat
    BY <1>3, <2>1, <2>3, LatestIs
  <2> QED
    BY <2>2, <2>4 DEF inCategories
<1>8. validatedAt \in Nat
  <2> HIDE DEF latest, latestCategories, missing, missingCategories, scored
  <2> QED
    BY <1>7
<1>9. SumOver(tried, scored) \in Nat
  <2> HIDE DEF tried, weight, points, scored
  <2>1. \A c \in scored : tried[c] \in Nat /\ tried[c] <= 100 * tried[c]
    BY <1>5
  <2> QED
    BY <1>3, <2>1, SumOfPercentages
<1>10. score \in 0..100
  <2> HIDE DEF weight, points, scored
  <2>1. SumOver(points, scored) \in Nat /\ weights \in Nat /\ SumOver(points, scored) <= 100 * weights
    BY <1>3, <1>5, SumOfPercentages
  <2>2. SumOver(points, scored) \div (IF weights = 0 THEN 1 ELSE weights) \in 0..100
    BY <2>1, QuotientIs
  <2> QED
    BY <2>2
<1> HIDE DEF activity, tried, validatedAt, score, scored
<1> QED
  BY <1>1, <1>2, <1>6, <1>8, <1>9, <1>10 DEF ResultRow

-------------------------------------------------------------------------------
(* The tables that a transaction of the propagation works on.              *)

\* What a transaction of the propagation reads and writes; rows that are there.
DbRecords == [results : ResultTables, marks : MarkTables, grants : SUBSET Items,
              visible : SUBSET Items, again : BOOLEAN, lost : SUBSET Keys]

\* The foreign key of results_propagate.
MarksOfRows(m, res) == \A k \in Keys : m[k] # "none" => Exists(res, k)
HasRows(res, K) == \A k \in K : Exists(res, k)

\* The tables whose marks are of results, the results K among them.
Dbs(K) == {db \in DbRecords : MarksOfRows(db.marks, db.results) /\ HasRows(db.results, K)}

\* A row that is started.
LEMMA StartedRow ==
  ASSUME NEW r \in ResultRow, NEW now \in Nat
  PROVE  [r EXCEPT !.activity = now, !.started = TRUE] \in ResultRow
BY DEF ResultRow

\* A new row, and no row, are what they are called.
LEMMA NewRows ==
  /\ NewResult \in ResultRow /\ NewResult # NoResult
  /\ \A now \in Nat : StartedResult(now) \in ResultRow /\ StartedResult(now) # NoResult
<1>1. NewResult \in ResultRow
  BY DEF NewResult, ResultRow
<1>2. ASSUME NEW now \in Nat PROVE StartedResult(now) \in ResultRow
  BY <1>1, StartedRow, Zenon DEF StartedResult
<1> QED
  BY <1>1, <1>2, ResultsAssumption

\* The operations on marks.
LEMMA MarksTyped ==
  ASSUME NEW m \in MarkTables, NEW keys
  PROVE  /\ InsertIgnore(m, keys) \in MarkTables
         /\ SetToBeRecomputed(m, keys) \in MarkTables
         /\ Unmark(m) \in MarkTables
         /\ NoMarks \in MarkTables
         /\ \A k \in Keys : /\ InsertIgnore(m, keys)[k] # "none" => m[k] # "none" \/ k \in keys
                            /\ SetToBeRecomputed(m, keys)[k] # "none" => m[k] # "none" \/ k \in keys
                            /\ Unmark(m)[k] # "none" => m[k] # "none"
                            /\ NoMarks[k] = "none"
<1>1. \A k \in Keys : m[k] \in MarkStates
  BY DEF MarkTables
<1>2. InsertIgnore(m, keys) \in MarkTables
  BY <1>1 DEF InsertIgnore, MarkTables, MarkStates
<1>3. SetToBeRecomputed(m, keys) \in MarkTables
  BY <1>1 DEF SetToBeRecomputed, MarkTables, MarkStates
<1>4. Unmark(m) \in MarkTables
  BY <1>1 DEF Unmark, MarkTables, MarkStates
<1>5. NoMarks \in MarkTables
  BY DEF NoMarks, MarkTables, MarkStates
<1>6. ASSUME NEW k \in Keys
      PROVE  /\ InsertIgnore(m, keys)[k] # "none" => m[k] # "none" \/ k \in keys
             /\ SetToBeRecomputed(m, keys)[k] # "none" => m[k] # "none" \/ k \in keys
             /\ Unmark(m)[k] # "none" => m[k] # "none"
             /\ NoMarks[k] = "none"
  <2>1. InsertIgnore(m, keys)[k] = IF k \in keys /\ m[k] = "none" THEN "to_be_propagated" ELSE m[k]
    BY DEF InsertIgnore
  <2>2. SetToBeRecomputed(m, keys)[k] = IF k \in keys THEN "to_be_recomputed" ELSE m[k]
    BY DEF SetToBeRecomputed
  <2>3. Unmark(m)[k] = IF m[k] = "propagating" THEN "none" ELSE m[k]
    BY DEF Unmark
  <2>4. NoMarks[k] = "none"
    BY DEF NoMarks
  <2> QED
    BY <2>1, <2>2, <2>3, <2>4
<1> QED
  BY <1>2, <1>3, <1>4, <1>5, <1>6

\* What is marked exists.
LEMMA MarkedExist ==
  ASSUME NEW K \in SUBSET Keys, NEW db \in Dbs(K), NEW state, state # "none"
  PROVE  /\ Marked(db, state) \subseteq {k \in Keys : Exists(db.results, k)}
         /\ Recomputable(db) \subseteq {k \in Keys : Exists(db.results, k)}
BY DEF Dbs, MarksOfRows, Marked, Recomputable

\* Marks replaced by others are of results.
LEMMA OverwrittenAreKeys ==
  ASSUME NEW m, NEW keys \in SUBSET Keys
  PROVE  Overwritten(m, keys) \in SUBSET Keys
BY DEF Overwritten

\* The result above a result is one of the participant's.
LEMMA AboveIsKey ==
  ASSUME NEW k \in Keys, NEW p \in Parents(k[2])
  PROVE  <<AttemptAbove(k), p>> \in Keys
<1>1. k[1] \in Attempts /\ p \in Items
  BY KeysAre DEF Parents
<1>2. AttemptAbove(k) \in Attempts
  BY <1>1, ResultsAssumption DEF AttemptAbove
<1> QED
  BY <1>1, <1>2, KeysAre

\* A chunk of rows is some of them.
LEMMA ChunkIsPart ==
  ASSUME NEW rows, NEW chunk \in Chunks(rows)
  PROVE  chunk \subseteq rows
<1>1. CASE Cardinality(rows) <= ChunkSize
  BY <1>1 DEF Chunks
<1>2. CASE ~(Cardinality(rows) <= ChunkSize)
  BY <1>2 DEF Chunks, kSubset
<1> QED
  BY <1>1, <1>2

\* A record with other results, marks and lost marks.
LEMMA WithMarks ==
  ASSUME NEW K \in SUBSET Keys, NEW db \in DbRecords, NEW res \in ResultTables, NEW m \in MarkTables,
         NEW keys \in SUBSET Keys, MarksOfRows(m, res), HasRows(res, K)
  PROVE  [db EXCEPT !.results = res, !.marks = m, !.lost = keys] \in Dbs(K)
<1> SUFFICES ASSUME NEW new, new = [db EXCEPT !.results = res, !.marks = m, !.lost = keys]
             PROVE  new \in Dbs(K)
  OBVIOUS
<1>1. new \in DbRecords /\ new.results = res /\ new.marks = m
  BY DEF DbRecords
<1> QED
  BY <1>1, Zenon DEF Dbs

\* The first transaction of the loop.
LEMMA MarkParentsTyped ==
  ASSUME NEW K \in SUBSET Keys, NEW db \in Dbs(K), NEW chunk \in SUBSET {k \in Keys : Exists(db.results, k)}
  PROVE  MarkParents(db, chunk) \in Dbs(K)
<1> DEFINE m == [k \in Keys |-> IF k \in chunk THEN "propagating" ELSE db.marks[k]]
           above == UNION {{<<AttemptAbove(k), p>> : p \in Parents(k[2])} :
                             k \in {j \in Keys : m[j] = "propagating"}}
           toMark == {q \in above : IF Exists(db.results, q) THEN m[q] # "to_be_recomputed"
                                    ELSE MayBeCreated(db, q)}
           missing == {q \in toMark : ~Exists(db.results, q)}
           res == [q \in Keys |-> IF q \in missing THEN NewResult ELSE db.results[q]]
           marked == SetToBeRecomputed(m, toMark)
           gone == (db.lost \ {k \in Keys : m[k] = "propagating"}) \union Overwritten(m, toMark)
<1>1. MarkParents(db, chunk) = [db EXCEPT !.results = res, !.marks = marked, !.lost = gone]
  BY DEF MarkParents
<1>2. db \in DbRecords /\ MarksOfRows(db.marks, db.results) /\ HasRows(db.results, K)
      /\ db.results \in ResultTables /\ db.marks \in MarkTables /\ db.lost \in SUBSET Keys
  BY DEF Dbs, DbRecords
<1>3. m \in MarkTables /\ \A k \in Keys : m[k] # "none" => Exists(db.results, k)
  <2>1. m \in MarkTables
    BY <1>2 DEF MarkTables, MarkStates
  <2>2. \A k \in Keys : m[k] = IF k \in chunk THEN "propagating" ELSE db.marks[k]
    OBVIOUS
  <2> HIDE DEF m
  <2> QED
    BY <1>2, <2>1, <2>2 DEF MarksOfRows
<1>4. toMark \in SUBSET Keys
  BY AboveIsKey
<1> HIDE DEF m
<1>5. gone \in SUBSET Keys
  <2> HIDE DEF toMark
  <2> QED
    BY <1>2, <1>4, OverwrittenAreKeys
<1>6. \A q \in toMark : q \notin missing => Exists(db.results, q)
  OBVIOUS
<1> HIDE DEF toMark, missing
<1>7. res \in ResultTables
  BY <1>2, NewRows DEF ResultTables
<1>8. ASSUME NEW q \in Keys
      PROVE  Exists(db.results, q) \/ q \in toMark => Exists(res, q)
  <2>1. res[q] = IF q \in missing THEN NewResult ELSE db.results[q]
    OBVIOUS
  <2> HIDE DEF res
  <2> QED
    BY <1>6, <2>1, NewRows DEF Exists
<1> HIDE DEF res
<1>9. HasRows(res, K)
  BY <1>2, <1>8 DEF HasRows
<1>10. marked \in MarkTables /\ MarksOfRows(marked, res)
  <2>1. marked \in MarkTables /\ \A k \in Keys : marked[k] # "none" => m[k] # "none" \/ k \in toMark
    BY <1>3, MarksTyped
  <2> QED
    BY <1>3, <1>8, <2>1 DEF MarksOfRows
<1> HIDE DEF marked, gone
<1>11. [db EXCEPT !.results = res, !.marks = marked, !.lost = gone] \in Dbs(K)
  BY <1>2, <1>5, <1>7, <1>9, <1>10, WithMarks, Zenon
<1> QED
  BY <1>1, <1>11, Zenon

\* A record with other unlocked items and marks.
LEMMA WithGrants ==
  ASSUME NEW K \in SUBSET Keys, NEW db \in DbRecords, NEW items \in SUBSET Items, NEW m \in MarkTables,
         NEW b \in BOOLEAN, MarksOfRows(m, db.results), HasRows(db.results, K)
  PROVE  [db EXCEPT !.grants = items, !.marks = m, !.again = b] \in Dbs(K)
<1> SUFFICES ASSUME NEW new, new = [db EXCEPT !.grants = items, !.marks = m, !.again = b]
             PROVE  new \in Dbs(K)
  OBVIOUS
<1>1. new \in DbRecords /\ new.results = db.results /\ new.marks = m
  BY DEF DbRecords
<1> QED
  BY <1>1, Zenon DEF Dbs

\* The second transaction.
LEMMA UnlockItemsTyped ==
  ASSUME NEW K \in SUBSET Keys, NEW db \in Dbs(K), deps \subseteq Dependencies
  PROVE  UnlockItems(db) \in Dbs(K)
<1> DEFINE new == {d.dependent : d \in {e \in deps : \E k \in Keys :
                     /\ db.marks[k] = "propagating" /\ k[2] = e.item
                     /\ e.score <= db.results[k].score}} \ db.grants
           items == db.grants \union new
           b == db.again \/ new # {}
<1>1. UnlockItems(db) = [db EXCEPT !.grants = items, !.marks = Unmark(db.marks), !.again = b]
  BY DEF UnlockItems
<1>2. db \in DbRecords /\ MarksOfRows(db.marks, db.results) /\ HasRows(db.results, K)
      /\ db.marks \in MarkTables /\ db.lost \in SUBSET Keys /\ db.grants \in SUBSET Items
  BY DEF Dbs, DbRecords
<1>3. new \in SUBSET Items
  <2>1. \A d \in Dependencies : d.dependent \in Items
    BY ResultsAssumption
  <2> QED
    BY <2>1
<1> HIDE DEF new
<1>4. items \in SUBSET Items /\ b \in BOOLEAN
  BY <1>2, <1>3
<1>5. Unmark(db.marks) \in MarkTables /\ MarksOfRows(Unmark(db.marks), db.results)
  <2>1. /\ Unmark(db.marks) \in MarkTables
        /\ \A k \in Keys : Unmark(db.marks)[k] # "none" => db.marks[k] # "none"
    BY <1>2, MarksTyped
  <2> QED
    BY <1>2, <2>1 DEF MarksOfRows
<1> HIDE DEF items, b
<1>6. [db EXCEPT !.grants = items, !.marks = Unmark(db.marks), !.again = b] \in Dbs(K)
  BY <1>2, <1>4, <1>5, WithGrants, Zenon
<1> QED
  BY <1>1, <1>6, Zenon

\* The third transaction: rows that exist are replaced by their aggregates.
LEMMA RecomputeTyped ==
  ASSUME NEW K \in SUBSET Keys, NEW db \in Dbs(K), NEW chunk \in SUBSET {k \in Keys : Exists(db.results, k)}
  PROVE  Recompute(db, chunk) \in Dbs(K)
<1> DEFINE res == [k \in Keys |-> IF k \in chunk THEN Aggregate(db.results, k) ELSE db.results[k]]
           m == [k \in Keys |-> IF k \notin chunk THEN db.marks[k]
                                ELSE IF Modified(db.results[k], res[k])
                                THEN "to_be_propagated" ELSE "none"]
<1>1. Recompute(db, chunk) = [db EXCEPT !.results = res, !.marks = m]
  BY DEF Recompute
<1>2. db \in DbRecords /\ MarksOfRows(db.marks, db.results) /\ HasRows(db.results, K)
      /\ db.marks \in MarkTables /\ db.results \in ResultTables
  BY DEF Dbs, DbRecords
<1>3. \A k \in chunk : res[k] \in ResultRow
  <2>1. \A k \in chunk : k \in Keys /\ Aggregate(db.results, k) \in ResultRow
    BY <1>2, AggregateIsRow
  <2> QED
    BY <2>1
<1>4. \A k \in Keys : k \notin chunk => res[k] = db.results[k]
  OBVIOUS
<1>5. res \in ResultTables /\ m \in MarkTables
  <2>1. res = [k \in Keys |-> res[k]]
    OBVIOUS
  <2> HIDE DEF res
  <2> QED
    BY <1>2, <1>3, <1>4, <2>1 DEF ResultTables, MarkTables, MarkStates
<1>6. ASSUME NEW k \in Keys PROVE /\ Exists(db.results, k) => Exists(res, k)
                                  /\ m[k] # "none" => Exists(res, k)
  <2>1. k \in chunk \/ m[k] = db.marks[k]
    OBVIOUS
  <2> HIDE DEF res, m
  <2>2. k \in chunk => Exists(res, k)
    BY <1>3, <1>5, RowsExist
  <2>3. k \notin chunk => (Exists(res, k) <=> Exists(db.results, k))
    BY <1>4 DEF Exists
  <2> QED
    BY <1>2, <2>1, <2>2, <2>3 DEF MarksOfRows
<1> HIDE DEF res, m
<1>7. HasRows(res, K) /\ MarksOfRows(m, res)
  BY <1>2, <1>6 DEF HasRows, MarksOfRows
<1> SUFFICES ASSUME NEW d, d = [db EXCEPT !.results = res, !.marks = m] PROVE d \in Dbs(K)
  BY <1>1, Zenon
<1>8. d \in DbRecords /\ d.results = res /\ d.marks = m
  BY <1>2, <1>5 DEF DbRecords
<1> QED
  BY <1>7, <1>8, Zenon DEF Dbs

\* Rows that may be recomputed exist.
LEMMA RecomputeAllTyped ==
  ASSUME NEW K \in SUBSET Keys, NEW db \in Dbs(K)
  PROVE  RecomputeAll(db) \in Dbs(K)
<1>1. Recomputable(db) \subseteq {k \in Keys : Exists(db.results, k)}
  BY MarkedExist
<1>2. Recompute(db, Recomputable(db)) \in Dbs(K)
  BY <1>1, RecomputeTyped
<1> QED
  BY <1>2, Zenon DEF RecomputeAll

\* Visible items are items, and what becomes visible marks results that exist.
LEMMA AccessTyped ==
  ASSUME NEW K \in SUBSET Keys, NEW db \in Dbs(K)
  PROVE  Access(db) \in Dbs(K)
<1> DEFINE gained == (db.grants \ Explicit) \ db.visible
           seen == db.visible \union gained
           below == {k \in Keys : Exists(db.results, k) /\ Ancestors(k[2]) \intersect gained # {}}
           m == InsertIgnore(db.marks, below)
           gone == db.lost \union Ignored(db.marks, TopsOf(db.results, below))
<1>1. Access(db) = [db EXCEPT !.visible = seen, !.marks = m, !.again = FALSE, !.lost = gone]
  BY DEF Access
<1>2. db \in DbRecords /\ MarksOfRows(db.marks, db.results) /\ HasRows(db.results, K)
      /\ db.marks \in MarkTables /\ db.grants \in SUBSET Items /\ db.visible \in SUBSET Items
  BY DEF Dbs, DbRecords
<1>3. seen \in SUBSET Items /\ gone \in SUBSET Keys
  <2>1. db.lost \in SUBSET Keys
    BY DEF Dbs, DbRecords
  <2> QED
    BY <1>2, <2>1 DEF Ignored, TopsOf
<1>4. \A k \in below : Exists(db.results, k)
  OBVIOUS
<1> HIDE DEF gained, seen, below, gone
<1>5. m \in MarkTables /\ MarksOfRows(m, db.results)
  <2>1. m \in MarkTables /\ \A k \in Keys : m[k] # "none" => db.marks[k] # "none" \/ k \in below
    BY <1>2, MarksTyped
  <2> QED
    BY <1>2, <1>4, <2>1 DEF MarksOfRows
<1> HIDE DEF m
<1> SUFFICES ASSUME NEW d, d = [db EXCEPT !.visible = seen, !.marks = m, !.again = FALSE, !.lost = gone]
             PROVE  d \in Dbs(K)
  BY <1>1, Zenon
<1>6. d \in DbRecords /\ d.results = db.results /\ d.marks = m
  BY <1>2, <1>3, <1>5 DEF DbRecords
<1> QED
  BY <1>2, <1>5, <1>6, Zenon DEF Dbs

\* The folds of Turn and Settled, as functions of the sets that they have gone through.
IsRecomputations(f, db, S) ==
  f = [s \in SUBSET S |-> IF s = {} THEN db ELSE RecomputeAll(f[s \ {Pick(s)}])]
IsTurns(f, db, S) ==
  f = [s \in SUBSET S |-> IF s = {} THEN db ELSE Turn(f[s \ {Pick(s)}])]

\* The recomputations of a turn, as such a function.
LEMMA RecomputationsUnfold ==
  ASSUME NEW db, NEW S
  PROVE  FoldSet(LAMBDA n, d : RecomputeAll(d), db, S) = (CHOOSE f : IsRecomputations(f, db, S))[S]
BY DEF FoldSet, MapThenFoldSet, IsRecomputations, Pick

\* The turns of a propagation, as such a function.
LEMMA TurnsUnfold ==
  ASSUME NEW db, NEW S
  PROVE  FoldSet(LAMBDA n, d : Turn(d), db, S) = (CHOOSE f : IsTurns(f, db, S))[S]
BY DEF FoldSet, MapThenFoldSet, IsTurns, Pick

\* What every recomputation makes of tables in the next of a series of sets, all of them do.
LEMMA RecomputationsReach ==
  ASSUME NEW D, \A n \in Nat : \A d \in D[n] : RecomputeAll(d) \in D[n + 1], NEW db \in D[0],
         NEW S, IsFiniteSet(S)
  PROVE  FoldSet(LAMBDA n, d : RecomputeAll(d), db, S) \in D[Cardinality(S)]
<1> DEFINE U == UNION {D[n] : n \in Nat}
           step == [d \in U |-> RecomputeAll(d)]
           g == CHOOSE g : IsRecomputations(g, db, S)
           Good == {s \in SUBSET S : g[s] \in D[Cardinality(s)]}
<1>1. step \in [U -> U] /\ (\A d \in U : step[d] = RecomputeAll(d)) /\ db \in U
  <2>1. ASSUME NEW d \in U PROVE RecomputeAll(d) \in U
    <3>1. PICK n \in Nat : d \in D[n]
      OBVIOUS
    <3>2. RecomputeAll(d) \in D[n + 1] /\ n + 1 \in Nat
      BY <3>1
    <3> QED
      BY <3>2
  <2> QED
    BY <2>1
<1>2. \E f : IsRecomputations(f, db, S)
  <2> HIDE DEF step, U
  <2>1. PICK f \in [SUBSET S -> U] : \A s \in SUBSET S : FoldAt(f, db, step, s)
    BY <1>1, FoldExists
  <2>2. ASSUME NEW s \in SUBSET S
        PROVE  f[s] = IF s = {} THEN db ELSE RecomputeAll(f[s \ {Pick(s)}])
    <3>1. s \ {Pick(s)} \in SUBSET S
      OBVIOUS
    <3>2. f[s \ {Pick(s)}] \in U
      BY <2>1, <3>1
    <3> QED
      BY <1>1, <2>1, <3>2, Zenon DEF FoldAt
  <2>3. f = [s \in SUBSET S |-> IF s = {} THEN db ELSE RecomputeAll(f[s \ {Pick(s)}])]
    BY <2>2
  <2> QED
    BY <2>3 DEF IsRecomputations
<1>3. IsRecomputations(g, db, S)
  BY <1>2
<1> HIDE DEF step, g
<1>4. \A s \in SUBSET S : g[s] = IF s = {} THEN db ELSE RecomputeAll(g[s \ {Pick(s)}])
  BY <1>3 DEF IsRecomputations
<1>5. {} \in Good
  BY <1>4, FS_EmptySet
<1>6. ASSUME NEW s \in SUBSET S, s # {}, s \ {Pick(s)} \in Good PROVE s \in Good
  <2>1. Pick(s) \in s
    BY <1>6 DEF Pick
  <2>2. IsFiniteSet(s)
    BY FS_Subset
  <2>3. Cardinality(s \ {Pick(s)}) = Cardinality(s) - 1 /\ Cardinality(s) \in Nat /\ Cardinality(s) # 0
    BY <1>6, <2>1, <2>2, FS_RemoveElement, FS_CardinalityType, FS_EmptySet
  <2> DEFINE n == Cardinality(s) - 1
  <2>4. n \in Nat /\ n + 1 = Cardinality(s) /\ n = Cardinality(s \ {Pick(s)})
    BY <2>3
  <2>5. g[s \ {Pick(s)}] \in D[n]
    BY <1>6, <2>4
  <2>6. RecomputeAll(g[s \ {Pick(s)}]) \in D[n + 1]
    BY <2>4, <2>5
  <2> QED
    BY <1>4, <1>6, <2>4, <2>6
<1>7. S \in Good
  <2> HIDE DEF Good
  <2> QED
    BY <1>5, <1>6, PickInduction
<1>8. g[S] \in D[Cardinality(S)]
  BY <1>7
<1> QED
  BY <1>8, RecomputationsUnfold, Zenon DEF g

\* And so do the turns.
LEMMA TurnsReach ==
  ASSUME NEW D, \A n \in Nat : \A d \in D[n] : Turn(d) \in D[n + 1], NEW db \in D[0],
         NEW S, IsFiniteSet(S)
  PROVE  FoldSet(LAMBDA n, d : Turn(d), db, S) \in D[Cardinality(S)]
<1> DEFINE U == UNION {D[n] : n \in Nat}
           step == [d \in U |-> Turn(d)]
           g == CHOOSE g : IsTurns(g, db, S)
           Good == {s \in SUBSET S : g[s] \in D[Cardinality(s)]}
<1>1. step \in [U -> U] /\ (\A d \in U : step[d] = Turn(d)) /\ db \in U
  <2>1. ASSUME NEW d \in U PROVE Turn(d) \in U
    <3>1. PICK n \in Nat : d \in D[n]
      OBVIOUS
    <3>2. Turn(d) \in D[n + 1] /\ n + 1 \in Nat
      BY <3>1
    <3> QED
      BY <3>2
  <2> QED
    BY <2>1
<1>2. \E f : IsTurns(f, db, S)
  <2> HIDE DEF step, U
  <2>1. PICK f \in [SUBSET S -> U] : \A s \in SUBSET S : FoldAt(f, db, step, s)
    BY <1>1, FoldExists
  <2>2. ASSUME NEW s \in SUBSET S
        PROVE  f[s] = IF s = {} THEN db ELSE Turn(f[s \ {Pick(s)}])
    <3>1. s \ {Pick(s)} \in SUBSET S
      OBVIOUS
    <3>2. f[s \ {Pick(s)}] \in U
      BY <2>1, <3>1
    <3> QED
      BY <1>1, <2>1, <3>2, Zenon DEF FoldAt
  <2>3. f = [s \in SUBSET S |-> IF s = {} THEN db ELSE Turn(f[s \ {Pick(s)}])]
    BY <2>2
  <2> QED
    BY <2>3 DEF IsTurns
<1>3. IsTurns(g, db, S)
  BY <1>2
<1> HIDE DEF step, g
<1>4. \A s \in SUBSET S : g[s] = IF s = {} THEN db ELSE Turn(g[s \ {Pick(s)}])
  BY <1>3 DEF IsTurns
<1>5. {} \in Good
  BY <1>4, FS_EmptySet
<1>6. ASSUME NEW s \in SUBSET S, s # {}, s \ {Pick(s)} \in Good PROVE s \in Good
  <2>1. Pick(s) \in s
    BY <1>6 DEF Pick
  <2>2. IsFiniteSet(s)
    BY FS_Subset
  <2>3. Cardinality(s \ {Pick(s)}) = Cardinality(s) - 1 /\ Cardinality(s) \in Nat /\ Cardinality(s) # 0
    BY <1>6, <2>1, <2>2, FS_RemoveElement, FS_CardinalityType, FS_EmptySet
  <2> DEFINE n == Cardinality(s) - 1
  <2>4. n \in Nat /\ n + 1 = Cardinality(s) /\ n = Cardinality(s \ {Pick(s)})
    BY <2>3
  <2>5. g[s \ {Pick(s)}] \in D[n]
    BY <1>6, <2>4
  <2>6. Turn(g[s \ {Pick(s)}]) \in D[n + 1]
    BY <2>4, <2>5
  <2> QED
    BY <1>4, <1>6, <2>4, <2>6
<1>7. S \in Good
  <2> HIDE DEF Good
  <2> QED
    BY <1>5, <1>6, PickInduction
<1>8. g[S] \in D[Cardinality(S)]
  BY <1>7
<1> QED
  BY <1>8, TurnsUnfold, Zenon DEF g

\* In particular what every recomputation, or every turn, keeps.
LEMMA RecomputationsKeep ==
  ASSUME NEW D, \A d \in D : RecomputeAll(d) \in D, NEW db \in D, NEW S, IsFiniteSet(S)
  PROVE  FoldSet(LAMBDA n, d : RecomputeAll(d), db, S) \in D
<1> DEFINE same == [n \in Nat |-> D]
<1>1. \A n \in Nat : same[n] = D /\ same[n + 1] = D
  OBVIOUS
<1>2. db \in same[0]
  OBVIOUS
<1>4. Cardinality(S) \in Nat
  BY FS_CardinalityType
<1> HIDE DEF same
<1>5. \A n \in Nat : \A d \in same[n] : RecomputeAll(d) \in same[n + 1]
  <2>1. ASSUME NEW n \in Nat, NEW d \in same[n] PROVE RecomputeAll(d) \in same[n + 1]
    <3>1. same[n] = D /\ same[n + 1] = D
      BY <1>1, Zenon
    <3> QED
      BY <3>1, Zenon
  <2> QED
    BY <2>1
<1>3. FoldSet(LAMBDA n, d : RecomputeAll(d), db, S) \in same[Cardinality(S)]
  BY <1>2, <1>5, RecomputationsReach, Zenon
<1> QED
  BY <1>1, <1>3, <1>4, Zenon

\* Turns keep what one turn keeps.
LEMMA TurnsKeep ==
  ASSUME NEW D, \A d \in D : Turn(d) \in D, NEW db \in D, NEW S, IsFiniteSet(S)
  PROVE  FoldSet(LAMBDA n, d : Turn(d), db, S) \in D
<1> DEFINE same == [n \in Nat |-> D]
<1>1. \A n \in Nat : same[n] = D /\ same[n + 1] = D
  OBVIOUS
<1>2. db \in same[0]
  OBVIOUS
<1>4. Cardinality(S) \in Nat
  BY FS_CardinalityType
<1> HIDE DEF same
<1>5. \A n \in Nat : \A d \in same[n] : Turn(d) \in same[n + 1]
  <2>1. ASSUME NEW n \in Nat, NEW d \in same[n] PROVE Turn(d) \in same[n + 1]
    <3>1. same[n] = D /\ same[n + 1] = D
      BY <1>1, Zenon
    <3> QED
      BY <3>1, Zenon
  <2> QED
    BY <2>1
<1>3. FoldSet(LAMBDA n, d : Turn(d), db, S) \in same[Cardinality(S)]
  BY <1>2, <1>5, TurnsReach, Zenon
<1> QED
  BY <1>1, <1>3, <1>4, Zenon

\* Recomputing again and again keeps the types.
LEMMA RecomputationsTyped ==
  ASSUME NEW K \in SUBSET Keys, NEW db \in Dbs(K), NEW S, IsFiniteSet(S)
  PROVE  FoldSet(LAMBDA n, d : RecomputeAll(d), db, S) \in Dbs(K)
<1>1. \A d \in Dbs(K) : RecomputeAll(d) \in Dbs(K)
  BY RecomputeAllTyped
<1> QED
  BY <1>1, RecomputationsKeep, Zenon

\* One turn of the loop keeps the types.
LEMMA TurnTyped ==
  ASSUME NEW K \in SUBSET Keys, NEW db \in Dbs(K), deps \subseteq Dependencies
  PROVE  Turn(db) \in Dbs(K)
<1> DEFINE propagated == UnlockItems(MarkParents(db, Marked(db, "to_be_propagated")))
<1>1. Marked(db, "to_be_propagated") \subseteq {k \in Keys : Exists(db.results, k)}
  BY MarkedExist
<1>2. propagated \in Dbs(K)
  BY <1>1, MarkParentsTyped, UnlockItemsTyped
<1>3. Access(propagated) \in Dbs(K)
  <2> HIDE DEF propagated
  <2> QED
    BY <1>2, AccessTyped
<1>4. FoldSet(LAMBDA n, d : RecomputeAll(d), propagated, Items) \in Dbs(K)
  <2> HIDE DEF propagated
  <2> QED
    <3>1. IsFiniteSet(Items)
      BY ResultsAssumption
    <3> QED
      BY <1>2, <3>1, RecomputationsTyped, Zenon
<1> QED
  BY <1>2, <1>3, <1>4, Zenon DEF Turn

\* The turns of Settled.
LEMMA TurnsFinite ==
  LET turns == (Cardinality(Items) + 1) * (Cardinality(Items) + 1 + 1)
  IN turns \in Nat /\ IsFiniteSet(1..turns) /\ Cardinality(1..turns) = turns
<1> DEFINE N == Cardinality(Items)
           turns == (N + 1) * (N + 1 + 1)
<1>1. N \in Nat
  BY ResultsAssumption, FS_CardinalityType
<1> HIDE DEF N
<1>2. turns \in Nat
  BY <1>1
<1> HIDE DEF turns
<1>3. IsFiniteSet(1..turns) /\ Cardinality(1..turns) = turns
  BY <1>2, FS_Interval
<1> QED
  BY <1>2, <1>3 DEF turns, N

\* The whole propagation of saveGrade keeps the types, and the results.
LEMMA SettledTyped ==
  ASSUME NEW K \in SUBSET Keys, NEW db \in Dbs(K), deps \subseteq Dependencies
  PROVE  Settled(db) \in Dbs(K)
<1> DEFINE S == 1..((Cardinality(Items) + 1) * (Cardinality(Items) + 1 + 1))
<1>1. IsFiniteSet(S)
  BY TurnsFinite
<1>2. Settled(db) = FoldSet(LAMBDA n, d : Turn(d), db, S)
  BY DEF Settled
<1>3. \A d \in Dbs(K) : Turn(d) \in Dbs(K)
  BY TurnTyped
<1> HIDE DEF S
<1> QED
  BY <1>1, <1>2, <1>3, TurnsKeep, Zenon

-------------------------------------------------------------------------------
(* The services and the propagation keep the types.                        *)

\* The types of the variables, the dependencies among them.
ResultsTypes ==
  /\ results \in ResultTables /\ marks \in MarkTables /\ MarksOfRows(marks, results)
  /\ recompute \in [Items -> {"none", "todo", "processing"}]
  /\ grants \in SUBSET Items /\ visible \in SUBSET Items
  /\ deps \subseteq Dependencies /\ lost \in SUBSET Keys
  /\ unlocked \in BOOLEAN /\ clock \in Nat

\* The initial tables.
LEMMA ResultsStart == ResultsInit => ResultsTypes
<1> SUFFICES ASSUME ResultsInit PROVE ResultsTypes
  OBVIOUS
<1>1. results \in ResultTables
  <2>1. 1 \in Nat /\ StartedResult(1) \in ResultRow
    BY NewRows
  <2>2. results = [k \in Keys |-> IF k \in InitialStarted THEN StartedResult(1) ELSE NoResult]
    BY DEF ResultsInit
  <2> QED
    BY <2>1, <2>2 DEF ResultTables
<1>2. marks \in MarkTables /\ MarksOfRows(marks, results)
  <2>1. marks = [k \in Keys |-> "none"]
    BY DEF ResultsInit, NoMarks
  <2> QED
    BY <2>1 DEF MarkTables, MarkStates, MarksOfRows
<1>3. visible \in SUBSET Items /\ deps \subseteq Dependencies
  BY ResultsAssumption DEF ResultsInit
<1>4. recompute \in [Items -> {"none", "todo", "processing"}] /\ grants \in SUBSET Items
      /\ lost \in SUBSET Keys /\ unlocked \in BOOLEAN /\ clock \in Nat
  BY DEF ResultsInit
<1> QED
  BY <1>1, <1>2, <1>3, <1>4 DEF ResultsTypes

\* What is kept when the marks grow by marks of results, and no result goes.
LEMMA MarksGrow ==
  ASSUME ResultsTypes, results' \in ResultTables, marks' \in MarkTables,
         \A k \in Keys : Exists(results, k) => Exists(results', k),
         \A k \in Keys : marks'[k] # "none" => marks[k] # "none" \/ Exists(results', k)
  PROVE  MarksOfRows(marks', results')
BY DEF ResultsTypes, MarksOfRows

\* A service that writes rows to existing or new results and marks those.
LEMMA RowsWritten ==
  ASSUME ResultsTypes, NEW new \in SUBSET Keys, results' \in ResultTables,
         \A k \in Keys : k \notin new => results'[k] = results[k],
         \A k \in new : results'[k] \in ResultRow,
         marks' = InsertIgnore(marks, new)
  PROVE  marks' \in MarkTables /\ MarksOfRows(marks', results')
<1>1. marks' \in MarkTables /\ \A k \in Keys : marks'[k] # "none" => marks[k] # "none" \/ k \in new
  BY MarksTyped DEF ResultsTypes
<1>2. \A k \in new : Exists(results', k)
  BY ResultsAssumption DEF Exists
<1>3. \A k \in Keys : Exists(results, k) => Exists(results', k)
  BY <1>2 DEF Exists
<1> QED
  BY <1>1, <1>2, <1>3, MarksGrow

\* A service that writes one row and marks it.
LEMMA RowWritten ==
  ASSUME ResultsTypes, NEW k \in Keys, NEW row \in ResultRow,
         results' = [results EXCEPT ![k] = row], marks' = InsertIgnore(marks, {k})
  PROVE  results' \in ResultTables /\ marks' \in MarkTables /\ MarksOfRows(marks', results')
<1>1. /\ results' \in ResultTables
      /\ \A j \in Keys : results'[j] = IF j = k THEN row ELSE results[j]
  BY DEF ResultsTypes, ResultTables
<1> DEFINE new == {k}
<1>2. /\ new \in SUBSET Keys /\ marks' = InsertIgnore(marks, new)
      /\ \A j \in Keys : j \notin new => results'[j] = results[j]
      /\ \A j \in new : results'[j] \in ResultRow
  BY <1>1
<1> HIDE DEF new
<1> QED
  BY <1>1, <1>2, RowsWritten

\* A service that calls changes neither pc nor unlocked, and moves the time.
LEMMA CallTyped ==
  ASSUME ResultsTypes, NEW kind, Call(kind)
  PROVE  clock' = clock + 1 /\ clock' \in Nat /\ unlocked' \in BOOLEAN
BY DEF ResultsTypes, Call

\* startResult: a row, and the mark of its parents.
LEMMA StartResultTyped ==
  ASSUME ResultsTypes, NEW k \in Keys, StartResult(k)
  PROVE  ResultsTypes'
<1>1. clock' \in Nat /\ unlocked' \in BOOLEAN
  BY CallTyped, Zenon DEF StartResult
<1> DEFINE row == IF Exists(results, k) THEN [results[k] EXCEPT !.activity = clock', !.started = TRUE]
                  ELSE StartedResult(clock')
<1>2. results' = [results EXCEPT ![k] = row] /\ marks' = InsertIgnore(marks, {k})
      /\ UNCHANGED <<recompute, deps, grants, visible>> /\ lost' \in SUBSET Keys
  BY DEF StartResult, ResultsTypes
<1>3. row \in ResultRow
  <2>1. Exists(results, k) => results[k] \in ResultRow
    BY RowsExist DEF ResultsTypes
  <2>2. Exists(results, k) => [results[k] EXCEPT !.activity = clock', !.started = TRUE] \in ResultRow
    BY <1>1, <2>1, StartedRow, Zenon
  <2>3. StartedResult(clock') \in ResultRow
    BY <1>1, NewRows
  <2> QED
    BY <2>2, <2>3, Zenon
<1> HIDE DEF row
<1>4. results' \in ResultTables /\ marks' \in MarkTables /\ MarksOfRows(marks', results')
  BY <1>2, <1>3, RowWritten
<1> QED
  BY <1>1, <1>2, <1>4 DEF ResultsTypes

\* createAttempt: the row of the root item of the attempt, and its mark.
LEMMA CreateAttemptTyped ==
  ASSUME ResultsTypes, NEW a \in Attempts, CreateAttempt(a)
  PROVE  ResultsTypes'
<1> DEFINE k == <<a, AttemptRoot[a]>>
<1>1. clock' \in Nat /\ unlocked' \in BOOLEAN
  BY CallTyped, Zenon DEF CreateAttempt
<1>2. k \in Keys
  <2>1. AttemptRoot[a] \in Items
    BY ResultsAssumption DEF CreateAttempt
  <2> QED
    BY <2>1, KeysAre
<1>3. results' = [results EXCEPT ![k] = StartedResult(clock')] /\ marks' = InsertIgnore(marks, {k})
      /\ UNCHANGED <<recompute, deps, grants, visible, lost>>
  BY DEF CreateAttempt
<1>4. StartedResult(clock') \in ResultRow
  BY <1>1, NewRows
<1> HIDE DEF k
<1>5. results' \in ResultTables /\ marks' \in MarkTables /\ MarksOfRows(marks', results')
  BY <1>2, <1>3, <1>4, RowWritten
<1> QED
  BY <1>1, <1>3, <1>5 DEF ResultsTypes

\* startResultPath: the rows of a path of two items, and their marks.
LEMMA StartResultPathTyped ==
  ASSUME ResultsTypes, NEW r \in RootItems, NEW i \in Items, StartResultPath(r, i)
  PROVE  ResultsTypes'
<1> DEFINE path == <<r, i>>
           best == {s \in AttemptPaths(path) : \A t \in AttemptPaths(path) : ~Before(path, t, s)}
           Written(s) == {<<s[n], path[n]>> : n \in Unstarted(path, s)}
<1>1. clock' \in Nat /\ unlocked' \in BOOLEAN
  BY CallTyped, Zenon DEF StartResultPath
<1>2. PICK s \in best :
        /\ results' = [k \in Keys |->
             IF k \notin Written(s) THEN results[k]
             ELSE IF Exists(results, k) THEN [results[k] EXCEPT !.activity = clock', !.started = TRUE]
             ELSE StartedResult(clock')]
        /\ marks' = InsertIgnore(marks, Written(s))
        /\ lost' = lost \union {j \in Written(s) : marks[j] = "to_be_recomputed"}
  BY Zenon DEF StartResultPath
<1>3. UNCHANGED <<recompute, deps, grants, visible>>
  BY Zenon DEF StartResultPath
<1>9. Written(s) \in SUBSET Keys
  <2>1. s \in [DOMAIN path -> Attempts] /\ \A n \in DOMAIN path : path[n] \in {r, i}
    BY DEF AttemptPaths
  <2>2. r \in Items /\ i \in Items
    BY DEF StartResultPath, ResultsTypes
  <2> HIDE DEF path
  <2>3. \A n \in DOMAIN path : <<s[n], path[n]>> \in Keys
    BY <2>1, <2>2, KeysAre
  <2> QED
    BY <2>3 DEF Unstarted
<1> DEFINE new == Written(s) \intersect Keys
<1>4. marks' = InsertIgnore(marks, new)
  BY <1>2 DEF InsertIgnore
<1> HIDE DEF best
<1>5. ASSUME NEW k \in Keys
      PROVE  results'[k] = IF k \notin new THEN results[k]
                           ELSE IF Exists(results, k) THEN [results[k] EXCEPT !.activity = clock', !.started = TRUE]
                           ELSE StartedResult(clock')
  <2> HIDE DEF Written
  <2> QED
    BY <1>2, Zenon
<1>6. ASSUME NEW k \in new PROVE results'[k] \in ResultRow
  <2>1. k \in Keys
    OBVIOUS
  <2>2. Exists(results, k) => results[k] \in ResultRow
    BY <2>1, RowsExist DEF ResultsTypes
  <2>3. Exists(results, k) => [results[k] EXCEPT !.activity = clock', !.started = TRUE] \in ResultRow
    BY <1>1, <2>2, StartedRow, Zenon
  <2>4. StartedResult(clock') \in ResultRow
    BY <1>1, NewRows
  <2> HIDE DEF new
  <2> QED
    BY <1>5, <2>1, <2>3, <2>4, Zenon
<1>7. results' \in ResultTables
  <2>1. \A k \in Keys : results'[k] \in ResultRow \union {NoResult}
    <3> HIDE DEF new
    <3> QED
      BY <1>5, <1>6 DEF ResultsTypes, ResultTables
  <2>2. results' = [k \in Keys |-> results'[k]]
    <3> HIDE DEF Written
    <3> QED
      BY <1>2, Zenon
  <2> QED
    BY <2>1, <2>2 DEF ResultTables
<1>8. marks' \in MarkTables /\ MarksOfRows(marks', results')
  <2>1. new \in SUBSET Keys
    OBVIOUS
  <2> HIDE DEF new
  <2>2. \A k \in Keys : k \notin new => results'[k] = results[k]
    BY <1>5
  <2> QED
    BY <1>4, <1>6, <1>7, <2>1, <2>2, RowsWritten
<1>10. lost' \in SUBSET Keys
  <2> HIDE DEF Written
  <2> QED
    BY <1>2, <1>9 DEF ResultsTypes
<1> QED
  BY <1>1, <1>3, <1>7, <1>8, <1>10 DEF ResultsTypes

\* A hint or an answer: the row of the task, and its mark.
LEMMA TouchTaskTyped ==
  ASSUME ResultsTypes, NEW k \in Keys, TouchTask(k)
  PROVE  ResultsTypes'
<1>1. clock' \in Nat /\ unlocked' \in BOOLEAN
  BY CallTyped, Zenon DEF TouchTask
<1> DEFINE row == [results[k] EXCEPT !.activity = clock']
<1>2. results' = [results EXCEPT ![k] = row] /\ marks' = InsertIgnore(marks, {k})
      /\ UNCHANGED <<recompute, deps, grants, visible, lost>> /\ Exists(results, k)
  BY DEF TouchTask, Started
<1>3. results[k] \in ResultRow
  BY <1>2, RowsExist DEF ResultsTypes
<1>4. row \in ResultRow
  BY <1>1, <1>3 DEF ResultRow
<1> HIDE DEF row
<1>5. results' \in ResultTables /\ marks' \in MarkTables /\ MarksOfRows(marks', results')
  BY <1>2, <1>4, RowWritten
<1> QED
  BY <1>1, <1>2, <1>5 DEF ResultsTypes

\* The results after saveGrade wrote the row of a task, and the tables that it then settles.
Graded(k, score, now) ==
  [results EXCEPT ![k].tried = 1, ![k].score = BestOf({@, score}),
                  ![k].validatedAt = IF score = 100 /\ @ = 0 THEN now ELSE @]
GradedDb(k, score, now) ==
  [results |-> Graded(k, score, now), marks |-> InsertIgnore(NoMarks, {k}), grants |-> grants,
   visible |-> visible, again |-> FALSE, lost |-> lost]

\* saveGrade: the row of the task stays where it was, with its activity.
LEMMA GradedTyped ==
  ASSUME ResultsTypes, NEW k \in Keys, NEW score \in {0, 100}, NEW now \in Nat, Exists(results, k),
         NEW db0, db0 = GradedDb(k, score, now)
  PROVE  /\ db0 \in Dbs({j \in Keys : Exists(results, j)})
         /\ \E row : /\ row # NoResult /\ row.activity = results[k].activity /\ row.started = results[k].started
                     /\ \A j \in Keys : db0.results[j] = IF j = k THEN row ELSE results[j]
         /\ db0.marks = InsertIgnore(NoMarks, {k}) /\ db0.grants = grants /\ db0.visible = visible
         /\ db0.again = FALSE /\ db0.lost = lost
<1> DEFINE best == BestOf({results[k].score, score})
           at == IF score = 100 /\ results[k].validatedAt = 0 THEN now ELSE results[k].validatedAt
           graded == Graded(k, score, now)
           K == {j \in Keys : Exists(results, j)}
<1>1. results[k] \in ResultRow /\ results \in ResultTables
  BY RowsExist DEF ResultsTypes
<1>2. best \in 0..100
  <2>1. results[k].score \in 0..100 /\ score \in 0..100
    BY <1>1 DEF ResultRow
  <2> DEFINE both == {results[k].score, score}
  <2>2. both \in SUBSET Nat /\ IsFiniteSet(both)
    <3>1. results[k].score \in Nat /\ score \in Nat
      BY <2>1
    <3> DEFINE one == {results[k].score}
    <3>2. IsFiniteSet(one)
      BY FS_Singleton
    <3>3. both = one \union {score}
      OBVIOUS
    <3> HIDE DEF one
    <3>4. IsFiniteSet(one \union {score})
      BY <3>2, FS_AddElement
    <3> QED
      BY <3>1, <3>3, <3>4
  <2>3. BestOf(both) \in both \union {0}
    <3> HIDE DEF both
    <3> QED
      BY <2>2, BestIs
  <2>4. best = BestOf(both)
    OBVIOUS
  <2> HIDE DEF best
  <2>5. best = results[k].score \/ best = score \/ best = 0
    BY <2>3, <2>4
  <2>6. 0 \in 0..100
    OBVIOUS
  <2> QED
    BY <2>1, <2>5, <2>6, Zenon
<1>3. at \in Nat
  BY <1>1 DEF ResultRow
<1> DEFINE row == [results[k] EXCEPT !.tried = 1, !.score = best, !.validatedAt = at]
<1>4. row \in ResultRow
  <2> HIDE DEF best, at
  <2> QED
    BY <1>1, <1>2, <1>3 DEF ResultRow
<1>5. graded = [results EXCEPT ![k] = row]
  BY <1>1, ZenonT(60) DEF ResultTables, ResultRow, Graded
<1>6. row.activity = results[k].activity /\ row.started = results[k].started
  <2> HIDE DEF best, at
  <2> QED
    BY <1>1 DEF ResultRow
<1> HIDE DEF row, graded
<1>7. /\ graded \in ResultTables /\ \A j \in Keys : Exists(results, j) => Exists(graded, j)
      /\ row # NoResult /\ \A j \in Keys : graded[j] = IF j = k THEN row ELSE results[j]
  <2>1. graded \in ResultTables /\ \A j \in Keys : graded[j] = IF j = k THEN row ELSE results[j]
    BY <1>1, <1>4, <1>5 DEF ResultTables
  <2>2. row # NoResult
    BY <1>4, ResultsAssumption
  <2> QED
    BY <2>1, <2>2 DEF Exists
<1> DEFINE m == InsertIgnore(NoMarks, {k})
<1>8. db0 = [results |-> graded, marks |-> m, grants |-> grants, visible |-> visible,
              again |-> FALSE, lost |-> lost]
  BY Zenon DEF GradedDb, graded
<1>9. m \in MarkTables /\ \A j \in Keys : m[j] # "none" => NoMarks[j] # "none" \/ j \in {k}
  <2>1. NoMarks \in MarkTables
    BY MarksTyped DEF ResultsTypes
  <2> QED
    BY <2>1, MarksTyped
<1>10. \A j \in Keys : NoMarks[j] = "none"
  BY DEF NoMarks
<1> HIDE DEF m
<1>11. MarksOfRows(m, graded)
  BY <1>7, <1>9, <1>10 DEF MarksOfRows
<1>12. HasRows(graded, K)
  BY <1>7 DEF HasRows
<1>13. /\ db0 \in DbRecords /\ db0.results = graded /\ db0.marks = m /\ db0.grants = grants
       /\ db0.visible = visible /\ db0.again = FALSE /\ db0.lost = lost
  BY <1>7, <1>8, <1>9 DEF DbRecords, ResultsTypes
<1>14. db0 \in Dbs(K)
  BY <1>11, <1>12, <1>13 DEF Dbs
<1>15. \E s : /\ s # NoResult /\ s.activity = results[k].activity /\ s.started = results[k].started
              /\ \A j \in Keys : db0.results[j] = IF j = k THEN s ELSE results[j]
  BY <1>7, <1>6, <1>13, Zenon
<1> QED
  BY <1>13, <1>14, <1>15 DEF m

\* saveGrade: what is settled above the graded task.
LEMMA SaveTaskGradeTyped ==
  ASSUME ResultsTypes, NEW k \in Keys, NEW score \in {0, 100}, SaveTaskGrade(k, score)
  PROVE  ResultsTypes'
<1> DEFINE db0 == GradedDb(k, score, clock')
           K == {j \in Keys : Exists(results, j)}
           db == Settled(db0)
<1>1. clock' \in Nat /\ unlocked' \in BOOLEAN
  BY CallTyped, Zenon DEF SaveTaskGrade
<1>2. Exists(results, k) /\ results' = db.results /\ grants' = db.grants /\ visible' = db.visible
      /\ lost' = db.lost /\ UNCHANGED <<marks, recompute, deps>>
  BY DEF SaveTaskGrade, Started, GradedDb, Graded
<1>3. db0 \in Dbs(K)
  BY <1>1, <1>2, GradedTyped
<1> HIDE DEF db0
<1>4. db \in Dbs(K)
  BY <1>3, SettledTyped DEF ResultsTypes
<1> HIDE DEF db
<1>5. db.results \in ResultTables /\ db.grants \in SUBSET Items /\ db.visible \in SUBSET Items
      /\ db.lost \in SUBSET Keys /\ HasRows(db.results, K)
  BY <1>4 DEF Dbs, DbRecords
<1>6. MarksOfRows(marks, db.results)
  BY <1>5 DEF MarksOfRows, HasRows, ResultsTypes
<1> QED
  BY <1>1, <1>2, <1>5, <1>6 DEF ResultsTypes

\* A call that marks existing results to be recomputed.
LEMMA RecomputeAsked ==
  ASSUME ResultsTypes, NEW keys \in SUBSET {k \in Keys : Exists(results, k)},
         results' = results, NEW m \in MarkTables, MarksOfRows(m, results),
         marks' = SetToBeRecomputed(m, keys)
  PROVE  results' \in ResultTables /\ marks' \in MarkTables /\ MarksOfRows(marks', results')
<1>1. marks' \in MarkTables /\ \A k \in Keys : marks'[k] # "none" => m[k] # "none" \/ k \in keys
  BY MarksTyped
<1> QED
  BY <1>1 DEF ResultsTypes, MarksOfRows

\* updateItem, a child more: only marks of existing rows.
LEMMA AddItemChildTyped ==
  ASSUME ResultsTypes, NEW edge \in AddedChildren, AddItemChild(edge)
  PROVE  ResultsTypes'
<1> DEFINE of(i) == {k \in Keys : k[2] = i /\ Exists(results, k)}
           above == of(edge[1])
           m == InsertIgnore(marks, of(edge[2]))
           tops == {k \in of(edge[2]) : ~Exists(results, <<AttemptAbove(k), edge[1]>>)}
<1>1. clock' \in Nat /\ unlocked' \in BOOLEAN
  BY CallTyped, Zenon DEF AddItemChild
<1>2. /\ marks' = SetToBeRecomputed(m, above)
      /\ lost' = lost \union Overwritten(marks, above) \union Ignored(marks, tops)
      /\ UNCHANGED <<results, recompute, deps, grants, visible>>
  BY Zenon DEF AddItemChild
<1>7. Ignored(marks, tops) \in SUBSET Keys
  BY DEF Ignored
<1>3. m \in MarkTables /\ MarksOfRows(m, results)
  <2>1. m \in MarkTables /\ \A k \in Keys : m[k] # "none" => marks[k] # "none" \/ k \in of(edge[2])
    BY MarksTyped DEF ResultsTypes
  <2> HIDE DEF m
  <2> QED
    BY <2>1 DEF ResultsTypes, MarksOfRows
<1>4. above \in SUBSET {k \in Keys : Exists(results, k)} /\ above \in SUBSET Keys
  OBVIOUS
<1> HIDE DEF m, above, tops
<1>5. results' \in ResultTables /\ marks' \in MarkTables /\ MarksOfRows(marks', results')
  BY <1>2, <1>3, <1>4, RecomputeAsked
<1>6. lost' \in SUBSET Keys
  BY <1>2, <1>4, <1>7, OverwrittenAreKeys DEF ResultsTypes
<1> QED
  BY <1>1, <1>2, <1>5, <1>6 DEF ResultsTypes

\* updateItem, another no_score: only marks of existing rows.
LEMMA ChangeNoScoreTyped ==
  ASSUME ResultsTypes, NEW i \in Items, ChangeNoScore(i)
  PROVE  ResultsTypes'
<1> DEFINE own == {k \in Keys : k[2] = i /\ Exists(results, k)}
<1>1. clock' \in Nat /\ unlocked' \in BOOLEAN
  BY CallTyped, Zenon DEF ChangeNoScore
<1>2. /\ marks' = SetToBeRecomputed(marks, own) /\ lost' = lost \union Overwritten(marks, own)
      /\ UNCHANGED <<results, recompute, deps, grants, visible>>
  BY DEF ChangeNoScore
<1>3. own \in SUBSET {k \in Keys : Exists(results, k)} /\ own \in SUBSET Keys
  OBVIOUS
<1> HIDE DEF own
<1>4. results' \in ResultTables /\ marks' \in MarkTables /\ MarksOfRows(marks', results')
  <2>1. marks \in MarkTables /\ MarksOfRows(marks, results)
    BY DEF ResultsTypes
  <2> QED
    BY <1>2, <1>3, <2>1, RecomputeAsked
<1>5. lost' \in SUBSET Keys
  BY <1>2, <1>3, OverwrittenAreKeys DEF ResultsTypes
<1> QED
  BY <1>1, <1>2, <1>4, <1>5 DEF ResultsTypes

\* Permissions that make an item visible: only marks of existing rows.
LEMMA BecomesVisibleTyped ==
  ASSUME ResultsTypes, NEW i \in Items, BecomesVisible(i)
  PROVE  ResultsTypes'
<1> DEFINE below == {k \in Keys : Exists(results, k) /\ i \in Ancestors(k[2])}
<1>1. clock' \in Nat /\ unlocked' \in BOOLEAN
  BY CallTyped, Zenon DEF BecomesVisible
<1>2. /\ marks' = InsertIgnore(marks, below) /\ visible' = visible \union {i}
      /\ UNCHANGED <<results, recompute, deps, grants>>
  BY DEF BecomesVisible
<1>5. lost' \in SUBSET Keys
  BY DEF BecomesVisible, Ignored, TopsOf, ResultsTypes
<1>3. \A k \in below : Exists(results, k)
  OBVIOUS
<1> HIDE DEF below
<1>4. marks' \in MarkTables /\ \A k \in Keys : marks'[k] # "none" => marks[k] # "none" \/ k \in below
  BY <1>2, MarksTyped DEF ResultsTypes
<1> QED
  BY <1>1, <1>2, <1>3, <1>4, <1>5 DEF ResultsTypes, MarksOfRows

\* The calls that write neither results nor marks.
LEMMA OtherCallsTyped ==
  ASSUME ResultsTypes,
         \/ \E edge \in AddedChildren : RemoveItemChild(edge)
         \/ \E i \in Items : RecomputeCommand(i)
         \/ \E d \in Dependencies : CreateDependency(d) \/ DeleteDependency(d) \/ ApplyDependency(d)
  PROVE  ResultsTypes'
<1>1. ASSUME NEW edge \in AddedChildren, RemoveItemChild(edge) PROVE ResultsTypes'
  <2>1. clock' \in Nat /\ unlocked' \in BOOLEAN
    BY <1>1, CallTyped, Zenon DEF RemoveItemChild
  <2>2. recompute' \in [Items -> {"none", "todo", "processing"}]
        /\ UNCHANGED <<results, marks, deps, grants, visible, lost>>
    BY <1>1 DEF RemoveItemChild, ResultsTypes
  <2> QED
    BY <2>1, <2>2 DEF ResultsTypes
<1>2. ASSUME NEW i \in Items, RecomputeCommand(i) PROVE ResultsTypes'
  <2>1. clock' \in Nat /\ unlocked' \in BOOLEAN
    BY <1>2, CallTyped, Zenon DEF RecomputeCommand
  <2>2. recompute' \in [Items -> {"none", "todo", "processing"}]
        /\ UNCHANGED <<results, marks, deps, grants, visible, lost>>
    BY <1>2 DEF RecomputeCommand, ResultsTypes
  <2> QED
    BY <2>1, <2>2 DEF ResultsTypes
<1>3. ASSUME NEW d \in Dependencies, CreateDependency(d) PROVE ResultsTypes'
  <2>1. clock' \in Nat /\ unlocked' \in BOOLEAN
    BY <1>3, CallTyped, Zenon DEF CreateDependency
  <2>2. deps' = deps \union {d} /\ UNCHANGED <<results, marks, recompute, grants, visible, lost>>
    BY <1>3 DEF CreateDependency
  <2> QED
    BY <2>1, <2>2 DEF ResultsTypes
<1>4. ASSUME NEW d \in Dependencies, DeleteDependency(d) PROVE ResultsTypes'
  <2>1. clock' \in Nat /\ unlocked' \in BOOLEAN
    BY <1>4, CallTyped, Zenon DEF DeleteDependency
  <2>2. deps' = deps \ {d} /\ UNCHANGED <<results, marks, recompute, grants, visible, lost>>
    BY <1>4 DEF DeleteDependency
  <2> QED
    BY <2>1, <2>2 DEF ResultsTypes
<1>5. ASSUME NEW d \in Dependencies, ApplyDependency(d) PROVE ResultsTypes'
  <2>1. clock' \in Nat /\ unlocked' \in BOOLEAN
    BY <1>5, CallTyped, Zenon DEF ApplyDependency
  <2>2. grants' \subseteq grants \union {d.dependent}
        /\ UNCHANGED <<results, marks, recompute, deps, visible, lost>>
    BY <1>5 DEF ApplyDependency
  <2>3. d.dependent \in Items
    BY ResultsAssumption
  <2> QED
    BY <2>1, <2>2, <2>3 DEF ResultsTypes
<1> QED
  BY <1>1, <1>2, <1>3, <1>4, <1>5

\* The asynchronous propagation works on tables of the right types, in which every
\* result has its row.
LEMMA DbTyped ==
  ASSUME ResultsTypes
  PROVE  Db \in Dbs({}) /\ Db.results = results /\ Db.marks = marks
<1>1. Db \in DbRecords /\ Db.results = results /\ Db.marks = marks
  BY DEF Db, DbRecords, ResultsTypes
<1> QED
  BY <1>1 DEF Dbs, HasRows, ResultsTypes

\* A transaction of the propagation writes typed tables.
LEMMA BecomeTyped ==
  ASSUME ResultsTypes, NEW db \in Dbs({}), Become(db), UNCHANGED <<recompute, deps, clock>>
  PROVE  ResultsTypes'
<1>1. /\ db.results \in ResultTables /\ db.marks \in MarkTables /\ MarksOfRows(db.marks, db.results)
      /\ db.grants \in SUBSET Items /\ db.visible \in SUBSET Items
      /\ db.again \in BOOLEAN /\ db.lost \in SUBSET Keys
  BY DEF Dbs, DbRecords
<1>2. /\ results' = db.results /\ marks' = db.marks /\ grants' = db.grants
      /\ visible' = db.visible /\ unlocked' = db.again /\ lost' = db.lost
  BY DEF Become
<1> QED
  BY <1>1, <1>2 DEF ResultsTypes

\* The steps of the propagation keep the types.
LEMMA PropagateTyped ==
  ASSUME ResultsTypes, Propagate
  PROVE  ResultsTypes'
<1>0. Db \in Dbs({}) /\ Db.results = results /\ Db.marks = marks
  BY DbTyped
<1>1. ASSUME StartPropagation PROVE ResultsTypes'
  <2>1. recompute' \in [Items -> {"none", "todo", "processing"}]
        /\ UNCHANGED <<results, marks, deps, grants, visible, lost, unlocked, clock>>
    BY <1>1 DEF StartPropagation, Propagation
  <2> QED
    BY <2>1 DEF ResultsTypes
<1>2. ASSUME FillStep PROVE ResultsTypes'
  <2> DEFINE missing == {k \in Keys : /\ Exists(results, k) /\ recompute[k[2]] = "processing"
                                      /\ marks[k] # "to_be_recomputed"}
  <2>0. UNCHANGED <<results, deps, grants, visible, unlocked, clock>>
    BY <1>2 DEF FillStep, Propagation
  <2>1. ASSUME NEW chunk \in Chunks(missing), marks' = SetToBeRecomputed(marks, chunk),
               lost' = lost \union Overwritten(marks, chunk), UNCHANGED <<pc, recompute>>
        PROVE  ResultsTypes'
    <3>1. chunk \in SUBSET {k \in Keys : Exists(results, k)} /\ chunk \in SUBSET Keys
      BY ChunkIsPart
    <3> HIDE DEF missing
    <3>2. results' \in ResultTables /\ marks' \in MarkTables /\ MarksOfRows(marks', results')
      <4>1. marks \in MarkTables /\ MarksOfRows(marks, results)
        BY DEF ResultsTypes
      <4> QED
        BY <2>0, <2>1, <3>1, <4>1, RecomputeAsked
    <3>3. lost' \in SUBSET Keys
      BY <2>1, <3>1, OverwrittenAreKeys DEF ResultsTypes
    <3> QED
      BY <2>0, <2>1, <3>2, <3>3 DEF ResultsTypes
  <2>2. ASSUME recompute' = [i \in Items |-> IF recompute[i] = "processing" THEN "none" ELSE recompute[i]],
               UNCHANGED <<marks, lost>>
        PROVE  ResultsTypes'
    <3>1. recompute' \in [Items -> {"none", "todo", "processing"}]
      BY <2>2 DEF ResultsTypes
    <3> QED
      BY <2>0, <2>2, <3>1 DEF ResultsTypes
  <2>3. \/ \E chunk \in Chunks(missing) : /\ marks' = SetToBeRecomputed(marks, chunk)
                                          /\ lost' = lost \union Overwritten(marks, chunk)
                                          /\ UNCHANGED <<pc, recompute>>
        \/ /\ recompute' = [i \in Items |-> IF recompute[i] = "processing" THEN "none" ELSE recompute[i]]
           /\ UNCHANGED <<marks, lost>>
    BY <1>2, Zenon DEF FillStep
  <2> HIDE DEF missing
  <2> QED
    BY <2>1, <2>2, <2>3, Zenon
<1>3. ASSUME MarkStep PROVE ResultsTypes'
  <2>1. PICK chunk \in Chunks(Marked(Db, "to_be_propagated")) : Become(MarkParents(Db, chunk))
    BY <1>3, Zenon DEF MarkStep
  <2>2. UNCHANGED <<recompute, deps, clock>>
    BY <1>3, Zenon DEF MarkStep, Propagation
  <2>3. chunk \in SUBSET {k \in Keys : Exists(Db.results, k)}
    BY <1>0, ChunkIsPart, MarkedExist
  <2>4. MarkParents(Db, chunk) \in Dbs({})
    BY <1>0, <2>3, MarkParentsTyped
  <2> QED
    BY <2>1, <2>2, <2>4, BecomeTyped
<1>4. ASSUME UnlockStep PROVE ResultsTypes'
  <2>1. Become(UnlockItems(Db)) /\ UNCHANGED <<recompute, deps, clock>>
    BY <1>4, Zenon DEF UnlockStep, Propagation
  <2>2. UnlockItems(Db) \in Dbs({})
    BY <1>0, UnlockItemsTyped DEF ResultsTypes
  <2> QED
    BY <2>1, <2>2, BecomeTyped
<1>5. ASSUME CheckStep PROVE ResultsTypes'
  <2>1. UNCHANGED <<results, marks, recompute, deps, grants, visible, lost, unlocked, clock>>
    BY <1>5 DEF CheckStep, Propagation
  <2> QED
    BY <2>1 DEF ResultsTypes
<1>6. ASSUME RecomputeStep PROVE ResultsTypes'
  <2>0. UNCHANGED <<recompute, deps, clock>>
    BY <1>6, Zenon DEF RecomputeStep, Propagation
  <2>1. ASSUME NEW chunk \in Chunks(Recomputable(Db)), Become(Recompute(Db, chunk)) PROVE ResultsTypes'
    <3>1. chunk \in SUBSET {k \in Keys : Exists(Db.results, k)}
      BY <1>0, ChunkIsPart, MarkedExist
    <3>2. Recompute(Db, chunk) \in Dbs({})
      BY <1>0, <3>1, RecomputeTyped
    <3> QED
      BY <2>0, <2>1, <3>2, BecomeTyped
  <2>2. ASSUME UNCHANGED <<results, marks, grants, visible, unlocked, lost>> PROVE ResultsTypes'
    BY <2>0, <2>2 DEF ResultsTypes
  <2> QED
    BY <1>6, <2>1, <2>2, Zenon DEF RecomputeStep
<1>7. ASSUME AccessStep PROVE ResultsTypes'
  <2>1. Become(Access(Db)) /\ UNCHANGED <<recompute, deps, clock>>
    BY <1>7, Zenon DEF AccessStep, Propagation
  <2>2. Access(Db) \in Dbs({})
    BY <1>0, AccessTyped
  <2> QED
    BY <2>1, <2>2, BecomeTyped
<1> QED
  BY <1>1, <1>2, <1>3, <1>4, <1>5, <1>6, <1>7 DEF Propagate

\* The access that another call computes, and a crash, keep the types.
LEMMA AccessAndCrashTyped ==
  ASSUME ResultsTypes, ComputeAccess \/ PropagationCrash
  PROVE  ResultsTypes'
<1>1. ASSUME ComputeAccess PROVE ResultsTypes'
  <2>1. visible' = Access(Db).visible /\ marks' = Access(Db).marks /\ lost' = Access(Db).lost
        /\ UNCHANGED <<results, recompute, deps, grants, unlocked, clock>>
    BY <1>1, Zenon DEF ComputeAccess, Propagation
  <2>2. Access(Db) \in Dbs({})
    BY DbTyped, AccessTyped
  <2>3. Access(Db).results = results
    <3>1. Db \in DbRecords /\ Db.results = results
      BY DbTyped DEF Dbs
    <3> DEFINE gained == (Db.grants \ Explicit) \ Db.visible
    <3>2. \E seen, m, gone :
            Access(Db) = [Db EXCEPT !.visible = seen, !.marks = m, !.again = FALSE, !.lost = gone]
      BY DEF Access
    <3> QED
      BY <3>1, <3>2 DEF DbRecords
  <2> HIDE DEF Db
  <2>4. visible' \in SUBSET Items /\ marks' \in MarkTables /\ MarksOfRows(marks', results')
        /\ lost' \in SUBSET Keys
    BY <2>1, <2>2, <2>3 DEF Dbs, DbRecords
  <2> QED
    BY <2>1, <2>4 DEF ResultsTypes
<1>2. ASSUME PropagationCrash PROVE ResultsTypes'
  <2>1. unlocked' = FALSE /\ UNCHANGED <<results, marks, recompute, deps, grants, visible, lost, clock>>
    BY <1>2 DEF PropagationCrash
  <2> QED
    BY <2>1 DEF ResultsTypes
<1> QED
  BY <1>1, <1>2

\* Every step keeps the types.
LEMMA ResultsTypesKept == ResultsTypes /\ [ResultsNext]_resultsVars => ResultsTypes'
<1> SUFFICES ASSUME ResultsTypes, [ResultsNext]_resultsVars PROVE ResultsTypes'
  OBVIOUS
<1>1. ASSUME Service PROVE ResultsTypes'
  BY <1>1, StartResultTyped, CreateAttemptTyped, StartResultPathTyped, TouchTaskTyped, SaveTaskGradeTyped,
     AddItemChildTyped, ChangeNoScoreTyped, BecomesVisibleTyped, OtherCallsTyped, Zenon DEF Service
<1>2. ASSUME UNCHANGED resultsVars PROVE ResultsTypes'
  <2>1. UNCHANGED <<results, marks, recompute, deps, grants, visible, lost, unlocked, clock>>
    BY <1>2 DEF resultsVars
  <2> QED
    BY <2>1 DEF ResultsTypes
<1> QED
  BY <1>1, <1>2, PropagateTyped, AccessAndCrashTyped, Zenon DEF ResultsNext

\* The types are those that the runs check.
LEMMA ResultsTypesAre == ResultsTypes => ResultsTypeOK
BY DEF ResultsTypes, ResultsTypeOK, ResultTables, MarkTables, MarksOfRows

-------------------------------------------------------------------------------
(* Iteration, and the ancestors of an item.                                *)

\* What a number of applications of a function makes of a first value.
Iterates(f, first, step, n) == f[0] = first /\ \A m \in 1..n : f[m] = step[f[m - 1]]

\* A function can be applied any number of times.
LEMMA IterationExists ==
  ASSUME NEW S, NEW first \in S, NEW step \in [S -> S], NEW n \in Nat
  PROVE  \E f \in [0..n -> S] : Iterates(f, first, step, n)
<1> DEFINE Known == {m \in Nat : \E f \in [0..m -> S] : Iterates(f, first, step, m)}
<1>1. 0 \in Known
  <2> DEFINE f == [m \in 0..0 |-> first]
  <2>1. f \in [0..0 -> S] /\ Iterates(f, first, step, 0)
    BY DEF Iterates
  <2> QED
    BY <2>1
<1>2. ASSUME NEW m \in Nat, m \in Known PROVE m + 1 \in Known
  <2>1. PICK f \in [0..m -> S] : Iterates(f, first, step, m)
    BY <1>2
  <2> DEFINE g == [j \in 0..(m + 1) |-> IF j = m + 1 THEN step[f[m]] ELSE f[j]]
  <2>2. f[m] \in S /\ step[f[m]] \in S
    OBVIOUS
  <2>3. g \in [0..(m + 1) -> S]
    BY <2>2
  <2>4. \A j \in 0..(m + 1) : g[j] = IF j = m + 1 THEN step[f[m]] ELSE f[j]
    OBVIOUS
  <2> HIDE DEF g
  <2>5. g[0] = first
    BY <2>1, <2>4 DEF Iterates
  <2>6. ASSUME NEW j \in 1..(m + 1) PROVE g[j] = step[g[j - 1]]
    <3>1. j - 1 \in 0..m /\ g[j - 1] = f[j - 1]
      BY <2>4
    <3>2. CASE j = m + 1
      BY <2>4, <3>1, <3>2
    <3>3. CASE j # m + 1
      <4>1. j \in 1..m /\ g[j] = f[j]
        BY <2>4, <3>3
      <4> QED
        BY <2>1, <3>1, <4>1 DEF Iterates
    <3> QED
      BY <3>2, <3>3
  <2>7. Iterates(g, first, step, m + 1)
    BY <2>5, <2>6 DEF Iterates
  <2> QED
    BY <2>3, <2>7
<1> HIDE DEF Known
<1>3. n \in Known
  BY <1>1, <1>2, Induction
<1> QED
  BY <1>3 DEF Known

\* Ancestors(i), as a function of the links.
ParentsBy(E, i) == {p \in Items : <<p, i>> \in E}
Above(E, T) == UNION {ParentsBy(E, j) : j \in T}
UpStep(E, T) == T \union Above(E, T)
IsUp(f, E, i) ==
  f = [n \in 0..Cardinality(Items) |->
         IF n = 0 THEN ParentsBy(E, i) ELSE f[n - 1] \union Above(E, f[n - 1])]
AncestorsBy(E, i) == (CHOOSE f : IsUp(f, E, i))[Cardinality(Items)]
UpClosed(E, T) == \A j \in T : ParentsBy(E, j) \subseteq T

\* Ancestors are found along the links of items.
LEMMA AncestorsAreBy ==
  \A i : Ancestors(i) = AncestorsBy(children, i) /\ Parents(i) = ParentsBy(children, i)
BY DEF Ancestors, AncestorsBy, IsUp, Above, Parents, ParentsBy

\* The same, after a step.
LEMMA AncestorsAreByNext ==
  \A i : Ancestors(i)' = AncestorsBy(children', i) /\ Parents(i)' = ParentsBy(children', i)
BY DEF Ancestors, AncestorsBy, IsUp, Above, Parents, ParentsBy


\* The ancestors of an item: its parents, their parents and so on.  The links are followed as
\* often as there are items, which is often enough: as long as there are more to find, each
\* time finds one.
LEMMA AncestorFacts ==
  ASSUME NEW E, NEW i \in Items
  PROVE  /\ ParentsBy(E, i) \subseteq AncestorsBy(E, i)
         /\ AncestorsBy(E, i) \subseteq Items
         /\ UpClosed(E, AncestorsBy(E, i))
         /\ \A T : ParentsBy(E, i) \subseteq T /\ UpClosed(E, T) => AncestorsBy(E, i) \subseteq T
<1> DEFINE N == Cardinality(Items)
           first == ParentsBy(E, i)
           step == [T \in SUBSET Items |-> UpStep(E, T)]
<1>1. N \in Nat /\ IsFiniteSet(Items) /\ first \in SUBSET Items
  BY ResultsAssumption, FS_CardinalityType DEF ParentsBy
<1>2. step \in [SUBSET Items -> SUBSET Items] /\ \A T \in SUBSET Items : step[T] = UpStep(E, T)
  BY DEF UpStep, Above, ParentsBy
<1> HIDE DEF N, first, step
<1>3. PICK f \in [0..N -> SUBSET Items] : Iterates(f, first, step, N)
  BY <1>1, <1>2, IterationExists
<1>4. f[0] = first /\ \A n \in 1..N : f[n - 1] \in SUBSET Items /\ f[n] = UpStep(E, f[n - 1])
  BY <1>1, <1>2, <1>3 DEF Iterates
<1>5. IsUp(f, E, i)
  <2>1. f = [n \in 0..N |-> f[n]]
    BY <1>3
  <2>2. \A n \in 0..N : f[n] = IF n = 0 THEN first ELSE f[n - 1] \union Above(E, f[n - 1])
    BY <1>4 DEF UpStep
  <2> QED
    BY <2>1, <2>2 DEF IsUp, N, first
<1> DEFINE u == CHOOSE g : IsUp(g, E, i)
<1>6. IsUp(u, E, i)
  BY <1>5
<1> HIDE DEF u
<1>7. u[0] = first /\ \A n \in 1..N : u[n] = UpStep(E, u[n - 1])
  <2>1. u = [n \in 0..N |-> IF n = 0 THEN first ELSE u[n - 1] \union Above(E, u[n - 1])]
    BY <1>6 DEF IsUp, N, first
  <2>2. \A n \in 0..N : u[n] = IF n = 0 THEN first ELSE u[n - 1] \union Above(E, u[n - 1])
    BY <2>1
  <2>3. 0 \in 0..N /\ \A n \in 1..N : n \in 0..N /\ n # 0
    BY <1>1
  <2> QED
    BY <2>2, <2>3 DEF UpStep
<1>8. AncestorsBy(E, i) = u[N]
  BY DEF AncestorsBy, u, N
<1> DEFINE Good == {n \in Nat : n <= N =>
                      /\ u[n] \in SUBSET Items /\ first \subseteq u[n]
                      /\ UpClosed(E, u[n]) \/ Cardinality(u[n]) > n
                      /\ \A T : first \subseteq T /\ UpClosed(E, T) => u[n] \subseteq T}
<1>9. 0 \in Good
  <2>1. CASE first = {}
    BY <1>1, <1>7, <2>1 DEF UpClosed
  <2>2. CASE first # {}
    <3>1. Cardinality(first) > 0
      BY <1>1, <2>2, FS_Subset, FS_EmptySet, FS_CardinalityType
    <3> QED
      BY <1>1, <1>7, <3>1
  <2> QED
    BY <2>1, <2>2
<1>10. ASSUME NEW n \in Nat, n \in Good PROVE n + 1 \in Good
  <2> SUFFICES ASSUME n + 1 <= N
               PROVE  /\ u[n + 1] \in SUBSET Items /\ first \subseteq u[n + 1]
                      /\ UpClosed(E, u[n + 1]) \/ Cardinality(u[n + 1]) > n + 1
                      /\ \A T : first \subseteq T /\ UpClosed(E, T) => u[n + 1] \subseteq T
    OBVIOUS
  <2>1. /\ u[n] \in SUBSET Items /\ first \subseteq u[n]
        /\ UpClosed(E, u[n]) \/ Cardinality(u[n]) > n
        /\ \A T : first \subseteq T /\ UpClosed(E, T) => u[n] \subseteq T
    BY <1>1, <1>10
  <2>2. u[n + 1] = u[n] \union Above(E, u[n])
    <3>1. n + 1 \in 1..N /\ (n + 1) - 1 = n
      BY <1>1
    <3> QED
      BY <1>7, <3>1 DEF UpStep
  <2>3. u[n + 1] \in SUBSET Items /\ u[n] \subseteq u[n + 1]
    BY <2>1, <2>2 DEF Above, ParentsBy
  <2>4. \A T : first \subseteq T /\ UpClosed(E, T) => u[n + 1] \subseteq T
    BY <2>1, <2>2 DEF Above, UpClosed
  <2>5. CASE u[n + 1] = u[n]
    <3>1. UpClosed(E, u[n])
      BY <2>2, <2>5 DEF UpClosed, Above
    <3> QED
      BY <2>1, <2>3, <2>4, <2>5, <3>1
  <2>6. CASE u[n + 1] # u[n]
    <3>1. ~UpClosed(E, u[n])
      BY <2>2, <2>6 DEF UpClosed, Above
    <3>2. IsFiniteSet(u[n]) /\ IsFiniteSet(u[n + 1])
      BY <1>1, <2>1, <2>3, FS_Subset
    <3>4. Cardinality(u[n]) \in Nat /\ Cardinality(u[n + 1]) \in Nat
      BY <3>2, FS_CardinalityType
    <3> DEFINE T == u[n]
               S == u[n + 1]
    <3>5. T \in SUBSET S /\ IsFiniteSet(S) /\ S # T
      BY <2>3, <2>6, <3>2
    <3> HIDE DEF T, S
    <3>6. Cardinality(T) <= Cardinality(S) /\ Cardinality(S) # Cardinality(T)
      BY <3>5, FS_Subset
    <3>3. Cardinality(u[n]) < Cardinality(u[n + 1])
      BY <3>4, <3>6 DEF T, S
    <3> QED
      BY <2>1, <2>3, <2>4, <3>1, <3>3, <3>4
  <2> QED
    BY <2>5, <2>6
<1> HIDE DEF Good
<1>11. N \in Good
  BY <1>1, <1>9, <1>10, Induction
<1>12. /\ u[N] \in SUBSET Items /\ first \subseteq u[N]
       /\ UpClosed(E, u[N]) \/ Cardinality(u[N]) > N
       /\ \A T : first \subseteq T /\ UpClosed(E, T) => u[N] \subseteq T
  BY <1>1, <1>11 DEF Good
<1>13. Cardinality(u[N]) <= N
  BY <1>1, <1>12, FS_Subset, FS_CardinalityType DEF N
<1>14. Cardinality(u[N]) \in Nat
  BY <1>1, <1>12, FS_Subset, FS_CardinalityType
<1> QED
  BY <1>1, <1>8, <1>12, <1>13, <1>14 DEF first

\* No set of items has a child of each of its items in it.
AcyclicBy(E) ==
  \A T \in SUBSET Items : T # {} => \E i \in T : \A j \in T : <<i, j>> \notin E

\* Then no item is its own ancestor.
LEMMA NoOwnAncestor ==
  ASSUME NEW E, AcyclicBy(E), NEW r \in Items
  PROVE  r \notin AncestorsBy(E, r)
<1> SUFFICES ASSUME r \in AncestorsBy(E, r) PROVE FALSE
  OBVIOUS
<1> DEFINE A == AncestorsBy(E, r)
           T == {x \in A : r \in AncestorsBy(E, x)}
<1>1. ParentsBy(E, r) \subseteq A /\ A \subseteq Items /\ UpClosed(E, A)
      /\ \A U : ParentsBy(E, r) \subseteq U /\ UpClosed(E, U) => A \subseteq U
  BY AncestorFacts
<1>2. \A x \in A : \E y \in A : x \in ParentsBy(E, y)
  <2> DEFINE U == ParentsBy(E, r) \union Above(E, A)
  <2>1. U \subseteq A
    BY <1>1 DEF UpClosed, Above
  <2>2. UpClosed(E, U)
    BY <2>1 DEF UpClosed, Above
  <2>3. A \subseteq U
    BY <1>1, <2>2
  <2>4. r \in A
    OBVIOUS
  <2> HIDE DEF A
  <2> QED
    BY <2>3, <2>4 DEF Above
<1>3. T \in SUBSET Items /\ r \in T
  BY <1>1
<1>4. PICK x \in T : \A y \in T : <<x, y>> \notin E
  BY <1>3, Zenon DEF AcyclicBy
<1> HIDE DEF A
<1>5. x \in A /\ x \in Items /\ r \in AncestorsBy(E, x)
  BY <1>1
<1>6. PICK y \in A : x \in ParentsBy(E, y)
  BY <1>2, <1>5
<1>7. y \in Items /\ UpClosed(E, AncestorsBy(E, y)) /\ ParentsBy(E, y) \subseteq AncestorsBy(E, y)
  BY <1>1, <1>6, AncestorFacts
<1>8. AncestorsBy(E, x) \subseteq AncestorsBy(E, y)
  <2>1. ParentsBy(E, x) \subseteq AncestorsBy(E, y)
    BY <1>6, <1>7 DEF UpClosed
  <2> QED
    BY <1>5, <1>7, <2>1, AncestorFacts
<1>9. y \in T
  BY <1>5, <1>8
<1> QED
  BY <1>4, <1>6, <1>9 DEF ParentsBy

\* What an item inherits from its parents.
LEMMA AncestorsOfParent ==
  ASSUME NEW E, NEW i \in Items, NEW p \in ParentsBy(E, i)
  PROVE  p \in Items /\ p \in AncestorsBy(E, i) /\ AncestorsBy(E, p) \subseteq AncestorsBy(E, i)
<1>1. p \in Items
  BY DEF ParentsBy
<1>2. UpClosed(E, AncestorsBy(E, i)) /\ ParentsBy(E, i) \subseteq AncestorsBy(E, i)
  BY AncestorFacts
<1>3. ParentsBy(E, p) \subseteq AncestorsBy(E, i)
  BY <1>2 DEF UpClosed
<1> QED
  BY <1>1, <1>2, <1>3, AncestorFacts

\* The links F are those of E and one from p to c.
OneMore(F, E, p, c) == F = E \union {<<p, c>>}

\* A link from an item that is not below the other closes no cycle, and gives ancestors only
\* to items that then have its parent or an ancestor of its parent.
LEMMA LinkAdded ==
  ASSUME NEW E, NEW p \in Items, NEW c \in Items, NEW F, OneMore(F, E, p, c)
  PROVE  /\ AcyclicBy(E) /\ c \notin {p} \union AncestorsBy(E, p) => AcyclicBy(F)
         /\ \A i \in Items : AncestorsBy(E, i) \subseteq AncestorsBy(F, i)
         /\ \A i \in Items : AncestorsBy(F, i) \subseteq AncestorsBy(E, i) \union {p} \union AncestorsBy(E, p)
<1> DEFINE A == {p} \union AncestorsBy(E, p)
<1> USE DEF OneMore
<1>1. UpClosed(E, A) /\ A \subseteq Items
  <2>1. ParentsBy(E, p) \subseteq AncestorsBy(E, p) /\ AncestorsBy(E, p) \subseteq Items
        /\ UpClosed(E, AncestorsBy(E, p))
    BY AncestorFacts
  <2> QED
    BY <2>1 DEF UpClosed
<1> HIDE DEF A
<1>2. ASSUME AcyclicBy(E), c \notin A, NEW T \in SUBSET Items, T # {}
      PROVE  \E i \in T : \A j \in T : <<i, j>> \notin F
  <2>1. CASE T \ A # {}
    <3>1. PICK i \in T \ A : \A j \in T \ A : <<i, j>> \notin E
      <4>1. T \ A \in SUBSET Items
        OBVIOUS
      <4> QED
        BY <1>2, <2>1, <4>1, Zenon DEF AcyclicBy
    <3>2. \A j \in T \intersect A : <<i, j>> \notin E
      BY <1>1, <1>2, <3>1 DEF UpClosed, ParentsBy
    <3>3. i # p
      BY <3>1 DEF A
    <3> QED
      BY <3>1, <3>2, <3>3
  <2>2. CASE T \ A = {}
    <3>1. c \notin T
      BY <1>2, <2>2
    <3>2. PICK i \in T : \A j \in T : <<i, j>> \notin E
      BY <1>2 DEF AcyclicBy
    <3> QED
      BY <3>1, <3>2
  <2> QED
    BY <2>1, <2>2
<1>3. ASSUME NEW i \in Items PROVE AncestorsBy(E, i) \subseteq AncestorsBy(F, i)
  <2>1. ParentsBy(F, i) \subseteq AncestorsBy(F, i) /\ UpClosed(F, AncestorsBy(F, i))
    BY AncestorFacts
  <2>2. \A j : ParentsBy(E, j) \subseteq ParentsBy(F, j)
    BY DEF ParentsBy
  <2>3. ParentsBy(E, i) \subseteq AncestorsBy(F, i) /\ UpClosed(E, AncestorsBy(F, i))
    BY <2>1, <2>2 DEF UpClosed
  <2> QED
    BY <2>3, AncestorFacts
<1>4. ASSUME NEW i \in Items PROVE AncestorsBy(F, i) \subseteq AncestorsBy(E, i) \union A
  <2>1. ParentsBy(E, i) \subseteq AncestorsBy(E, i) /\ UpClosed(E, AncestorsBy(E, i))
    BY AncestorFacts
  <2>2. \A j : ParentsBy(F, j) \subseteq ParentsBy(E, j) \union {p}
    BY DEF ParentsBy
  <2>3. p \in A
    BY DEF A
  <2> DEFINE U == AncestorsBy(E, i) \union A
  <2>4. ParentsBy(F, i) \subseteq U
    BY <2>1, <2>2, <2>3
  <2>5. UpClosed(F, U)
    BY <1>1, <2>1, <2>2, <2>3 DEF UpClosed
  <2> HIDE DEF U
  <2>6. AncestorsBy(F, i) \subseteq U
    BY <2>4, <2>5, AncestorFacts
  <2> QED
    BY <2>6 DEF U
<1> QED
  BY <1>2, <1>3, <1>4 DEF A, AcyclicBy

\* Removing a link closes no cycle either.
LEMMA LinkRemoved ==
  ASSUME NEW E, NEW F, F \subseteq E
  PROVE  /\ AcyclicBy(E) => AcyclicBy(F)
         /\ \A i \in Items : AncestorsBy(F, i) \subseteq AncestorsBy(E, i)
<1>1. AcyclicBy(E) => AcyclicBy(F)
  BY DEF AcyclicBy
<1>2. ASSUME NEW i \in Items PROVE AncestorsBy(F, i) \subseteq AncestorsBy(E, i)
  <2>1. ParentsBy(E, i) \subseteq AncestorsBy(E, i) /\ UpClosed(E, AncestorsBy(E, i))
    BY AncestorFacts
  <2>2. \A j : ParentsBy(F, j) \subseteq ParentsBy(E, j)
    BY DEF ParentsBy
  <2>3. ParentsBy(F, i) \subseteq AncestorsBy(E, i) /\ UpClosed(F, AncestorsBy(E, i))
    BY <2>1, <2>2 DEF UpClosed
  <2> QED
    BY <2>3, AncestorFacts
<1> QED
  BY <1>1, <1>2

-------------------------------------------------------------------------------
(* The inductive invariant: what the marks, and the records of what was    *)
(* lost, say of the results.  It is stated for tables w that a propagation *)
(* does not write, the tables db that it writes and the marks o of the     *)
(* other table of marks, which it does not see.                            *)

\* The tables that only services write.
World == [children |-> children, noScore |-> noScore, deps |-> deps, late |-> late,
          rescored |-> rescored, reshaped |-> reshaped, recompute |-> recompute]

\* The result j is one of those that the aggregate of k is made of.
CountedAttempts(a, c) == {b \in Attempts : b = a \/ (AttemptRoot[b] = c /\ ParentAttempt[b] = a)}
Counts(E, j, k) == <<k[2], j[2]>> \in E /\ j[1] \in CountedAttempts(k[1], j[2])
ScopeBy(E, k) == AttemptRoot[k[1]] \in {NoItem, k[2]} \union AncestorsBy(E, k[2])

\* What a result shows to the chapters above it: a missing row shows what a new one does.
Blank == <<0, 0, 0>>
Shown(res, k) == IF Exists(res, k) THEN <<res[k].score, res[k].tried, res[k].validatedAt>> ELSE Blank

\* What the chapter i is to show, of what the results of its children S show.
Earliest(times) == IF times \ {0} = {} THEN 0 ELSE Min(times \ {0})
DueOf(S, unscored, i, shown) ==
  LET valid == [c \in S |-> Earliest({v[3] : v \in shown[c]})]
      missing == {c \in S : valid[c] = 0}
      missingCategories == {c \in missing : <<i, c>> \in Validating}
      latest == BestOf({valid[c] : c \in S})
      latestCategories == BestOf({valid[c] : c \in {d \in S : <<i, d>> \in Validating}})
      weight == [c \in S |-> Weight[<<i, c>>]]
      points == [c \in S |-> weight[c] * BestOf({v[1] : v \in shown[c]})]
      tried == [c \in S |-> BestOf({v[2] : v \in shown[c]})]
      weights == SumOver(weight, S)
  IN <<IF unscored \/ S = {} THEN 0
       ELSE SumOver(points, S) \div (IF weights = 0 THEN 1 ELSE weights),
       SumOver(tried, S),
       CASE S = {} -> 0
         [] ValidationType[i] = "Categories" /\ missingCategories = {} -> latestCategories
         [] ValidationType[i] = "All" /\ missing = {} -> latest
         [] ValidationType[i] = "AllButOne" /\ Cardinality(missing) < 2 -> latest
         [] ValidationType[i] = "One" /\ missing # S -> latest
         [] OTHER -> 0>>
Scored(E, ns, i) == {c \in Items : <<i, c>> \in E} \ ns
ShownBelow(S, res, a) == [c \in S |-> {Shown(res, <<b, c>>) : b \in CountedAttempts(a, c)}]
Due(E, ns, res, k) ==
  DueOf(Scored(E, ns, k[2]), k[2] \in ns, k[2], ShownBelow(Scored(E, ns, k[2]), res, k[1]))

\* The parents of j will be recomputed because of it, or that was lost.
Announced(db, o, j) == db.marks[j] = "to_be_propagated" \/ o[j] = "to_be_propagated" \/ j \in db.lost
\* k will be recomputed.
Awaits(w, db, o, k) == \/ db.marks[k] = "to_be_recomputed" \/ o[k] = "to_be_recomputed"
                       \/ w.recompute[k[2]] # "none"
Overdue(w, db, o, k) == \E j \in Keys : Counts(w.children, j, k) /\ Announced(db, o, j)

\* A chapter's result is its aggregate or something makes it so.
Aggregated(w, db, o) ==
  \A k \in Keys : Exists(db.results, k) /\ k[2] \notin Tasks /\ k[1] \notin w.reshaped =>
    \/ \E c \in Items : c \in w.rescored /\ <<k[2], c>> \in w.children
    \/ Awaits(w, db, o, k) \/ Overdue(w, db, o, k)
    \/ Shown(db.results, k) = Due(w.children, w.noScore, db.results, k)

\* A chapter without a result, which a propagation would create, has below it
\* nothing to show but what leads to that propagation.
MissingIsNothing(w, db, o) ==
  \A k, j \in Keys :
    /\ ~Exists(db.results, k) /\ k[1] \notin w.reshaped /\ ScopeBy(w.children, k)
    /\ k[2] \in db.visible /\ k[2] \notin Explicit
    /\ Counts(w.children, j, k)
    => Shown(db.results, j) = Blank \/ Announced(db, o, j)

\* An earned item is unlocked or something makes it so.
Earned(w, db, o) ==
  \A d \in w.deps \ w.late, k \in Keys :
    k[2] = d.item /\ Exists(db.results, k) /\ d.score <= db.results[k].score =>
      \/ d.dependent \in db.grants \/ k \in db.lost
      \/ db.marks[k] \in {"to_be_propagated", "propagating"}
      \/ o[k] \in {"to_be_propagated", "propagating"}
      \/ db.results[k].activity = 0 /\ "to_be_recomputed" \in {db.marks[k], o[k]}

\* Results are in the scope of their attempts, which exist, as do the parents
\* of these; a started result has an activity.
AttemptIn(res, a) == a = 0 \/ Exists(res, <<a, AttemptRoot[a]>>)
InPlace(w, res) ==
  \A k \in Keys : Exists(res, k) =>
    /\ k[1] \in w.reshaped \/ ScopeBy(w.children, k)
    /\ AttemptIn(res, k[1]) /\ (k[1] # 0 => AttemptIn(res, ParentAttempt[k[1]]))
    /\ res[k].started => res[k].activity # 0

\* The invariant, before or within a transaction.
Sound(w, db, o) ==
  /\ Aggregated(w, db, o) /\ MissingIsNothing(w, db, o) /\ Earned(w, db, o)
  /\ InPlace(w, db.results)

-------------------------------------------------------------------------------
(* What an aggregate depends on.                                           *)

\* A sum of zeros.
LEMMA SumOfZeros ==
  ASSUME NEW S, IsFiniteSet(S), NEW x, \A c \in S : x[c] = 0
  PROVE  SumOver(x, S) = 0
<1> DEFINE D == {s \in SUBSET S : SumOver(x, s) = 0}
<1>1. {} \in D
  <2>1. PICK f : IsSum(f, x, {})
    BY FS_EmptySet, SumExists
  <2>2. SumOver(x, {}) = f[{}]
    BY <2>1, FS_EmptySet, SumOfPart
  <2>3. f[{}] = 0
    BY <2>1 DEF IsSum
  <2> QED
    BY <2>2, <2>3
<1>2. ASSUME NEW s \in SUBSET S, s # {}, s \ {Pick(s)} \in D PROVE s \in D
  <2>1. Pick(s) \in s /\ IsFiniteSet(s)
    <3>1. Pick(s) \in s
      BY <1>2 DEF Pick
    <3>2. IsFiniteSet(s)
      BY FS_Subset
    <3> QED
      BY <3>1, <3>2
  <2>2. \A c \in s : x[c] = 0 /\ x[c] \in Int
    OBVIOUS
  <2>3. SumOver(x, s) = x[Pick(s)] + SumOver(x, s \ {Pick(s)})
    BY <2>1, <2>2, SumWithout
  <2>4. SumOver(x, s \ {Pick(s)}) = 0
    BY <1>2
  <2>5. x[Pick(s)] = 0
    BY <2>1, <2>2
  <2> QED
    BY <2>3, <2>4, <2>5
<1> HIDE DEF D
<1>3. S \in D
  BY <1>1, <1>2, PickInduction
<1> QED
  BY <1>3 DEF D

\* What the results of a child show, in the attempts that count.
ShownOf(res, a, c) == {Shown(res, <<b, c>>) : b \in CountedAttempts(a, c)}

\* The values that an aggregate takes from rows are those that it takes from what
\* they show.
SameValues(rows, shown) ==
  /\ BestOf({r.score : r \in rows}) = BestOf({v[1] : v \in shown})
  /\ BestOf({r.tried : r \in rows}) = BestOf({v[2] : v \in shown})
  /\ ValidatedAt(rows) = Earliest({v[3] : v \in shown})

\* The missing rows of a child add a value that an aggregate ignores.
LEMMA ValuesShown ==
  ASSUME NEW res \in ResultTables, NEW a \in Attempts, NEW c \in Items
  PROVE  SameValues(ChildResults(res, a, c), ShownOf(res, a, c))
<1> DEFINE B == CountedAttempts(a, c)
           E == {b \in B : Exists(res, <<b, c>>)}
           rows == ChildResults(res, a, c)
           shown == ShownOf(res, a, c)
<1>2. rows = {res[<<b, c>>] : b \in E}
  BY DEF ChildResults, CountedAttempts
<1>3. shown = {Shown(res, <<b, c>>) : b \in B}
  BY DEF ShownOf
<1>4. \A b \in B : Shown(res, <<b, c>>) =
        IF b \in E THEN <<res[<<b, c>>].score, res[<<b, c>>].tried, res[<<b, c>>].validatedAt>> ELSE <<0, 0, 0>>
  BY DEF Shown, Blank
<1>5. E \in SUBSET B
  OBVIOUS
<1> HIDE DEF B, E
<1>6. \A r \in rows : \E v \in shown : v = <<r.score, r.tried, r.validatedAt>>
  BY <1>2, <1>3, <1>4, <1>5, Zenon
<1>7. \A v \in shown : v = <<0, 0, 0>> \/ \E r \in rows : v = <<r.score, r.tried, r.validatedAt>>
  BY <1>2, <1>3, <1>4, <1>5, Zenon
<1> HIDE DEF rows, shown
<1>8. /\ {r.score : r \in rows} \union {0} = {v[1] : v \in shown} \union {0}
      /\ {r.tried : r \in rows} \union {0} = {v[2] : v \in shown} \union {0}
      /\ {r.validatedAt : r \in rows} \ {0} = {v[3] : v \in shown} \ {0}
  <2>1. \A r \in rows :
          /\ \E v \in shown : v[1] = r.score
          /\ \E v \in shown : v[2] = r.tried
          /\ \E v \in shown : v[3] = r.validatedAt
    BY <1>6
  <2>2. \A v \in shown :
          /\ v[1] = 0 \/ \E r \in rows : v[1] = r.score
          /\ v[2] = 0 \/ \E r \in rows : v[2] = r.tried
          /\ v[3] = 0 \/ \E r \in rows : v[3] = r.validatedAt
    BY <1>7
  <2> QED
    BY <2>1, <2>2
<1>9. SameValues(rows, shown)
  BY <1>8, Zenon DEF BestOf, ValidatedAt, Earliest, SameValues
<1> QED
  BY <1>9 DEF rows, shown

\* The aggregate of a chapter is what it is due to show.
LEMMA AggregateIsDue ==
  ASSUME NEW res \in ResultTables, NEW k \in Keys, Exists(res, k)
  PROVE  LET due == Aggregate(res, k)
         IN <<due.score, due.tried, due.validatedAt>> = Due(children, noScore, res, k)
<1> DEFINE i == k[2]
           scored == Children(i) \ noScore
           shown == ShownBelow(scored, res, k[1])
           rows(c) == ChildResults(res, k[1], c)
           valid(c) == ValidatedAt(rows(c))
           missing == {c \in scored : valid(c) = 0}
           missingCategories == {c \in missing : <<i, c>> \in Validating}
           latest == BestOf({valid(c) : c \in scored})
           latestCategories == BestOf({valid(c) : c \in {d \in scored : <<i, d>> \in Validating}})
           weight == [c \in scored |-> Weight[<<i, c>>]]
           points == [c \in scored |-> weight[c] * BestOf({r.score : r \in rows(c)})]
           tried == [c \in scored |-> BestOf({r.tried : r \in rows(c)})]
           activity == BestOf({res[k].activity} \union UNION {{r.activity : r \in rows(c)} : c \in scored})
           validatedAt == CASE scored = {} -> 0
                            [] ValidationType[i] = "Categories" /\ missingCategories = {} -> latestCategories
                            [] ValidationType[i] = "All" /\ missing = {} -> latest
                            [] ValidationType[i] = "AllButOne" /\ Cardinality(missing) < 2 -> latest
                            [] ValidationType[i] = "One" /\ missing # scored -> latest
                            [] OTHER -> 0
           weights == SumOver(weight, scored)
           score == IF i \in noScore \/ scored = {} THEN 0
                    ELSE SumOver(points, scored) \div (IF weights = 0 THEN 1 ELSE weights)
           valid2 == [c \in scored |-> Earliest({v[3] : v \in shown[c]})]
           missing2 == {c \in scored : valid2[c] = 0}
           missingCategories2 == {c \in missing2 : <<i, c>> \in Validating}
           latest2 == BestOf({valid2[c] : c \in scored})
           latestCategories2 == BestOf({valid2[c] : c \in {d \in scored : <<i, d>> \in Validating}})
           points2 == [c \in scored |-> weight[c] * BestOf({v[1] : v \in shown[c]})]
           tried2 == [c \in scored |-> BestOf({v[2] : v \in shown[c]})]
           validatedAt2 == CASE scored = {} -> 0
                             [] ValidationType[i] = "Categories" /\ missingCategories2 = {} -> latestCategories2
                             [] ValidationType[i] = "All" /\ missing2 = {} -> latest2
                             [] ValidationType[i] = "AllButOne" /\ Cardinality(missing2) < 2 -> latest2
                             [] ValidationType[i] = "One" /\ missing2 # scored -> latest2
                             [] OTHER -> 0
           score2 == IF i \in noScore \/ scored = {} THEN 0
                     ELSE SumOver(points2, scored) \div (IF weights = 0 THEN 1 ELSE weights)
<1>1. Aggregate(res, k) = [res[k] EXCEPT !.activity = activity, !.tried = SumOver(tried, scored),
                                        !.validatedAt = validatedAt, !.score = score]
  BY DEF Aggregate, SumOver
<1>2. Due(children, noScore, res, k) = <<score2, SumOver(tried2, scored), validatedAt2>>
  BY DEF Due, DueOf, Scored, Children
<1>3. res[k] \in ResultRow /\ k[1] \in Attempts
  BY KeysAre, RowsExist
<1>4. ASSUME NEW c \in scored
      PROVE  /\ BestOf({r.score : r \in rows(c)}) = BestOf({v[1] : v \in shown[c]})
             /\ BestOf({r.tried : r \in rows(c)}) = BestOf({v[2] : v \in shown[c]})
             /\ valid(c) = valid2[c]
  <2>1. c \in Items
    BY DEF Children
  <2>2. shown[c] = ShownOf(res, k[1], c)
    BY DEF ShownBelow, ShownOf
  <2>3. valid2[c] = Earliest({v[3] : v \in shown[c]})
    OBVIOUS
  <2>4. SameValues(rows(c), shown[c])
    BY <1>3, <2>1, <2>2, ValuesShown
  <2>5. valid(c) = ValidatedAt(rows(c)) /\ valid2[c] = Earliest({v[3] : v \in shown[c]})
    BY <2>3
  <2> HIDE DEF valid, valid2, rows, shown
  <2> QED
    BY <2>4, <2>5 DEF SameValues
<1>5. points = points2 /\ tried = tried2
  BY <1>4
<1>6. missing = missing2 /\ latest = latest2 /\ latestCategories = latestCategories2
  <2>1. \A c \in scored : valid(c) = valid2[c]
    BY <1>4
  <2> HIDE DEF valid, valid2, scored
  <2>2. {valid(c) : c \in scored} = {valid2[c] : c \in scored}
    BY <2>1
  <2>3. {valid(c) : c \in {d \in scored : <<i, d>> \in Validating}}
          = {valid2[c] : c \in {d \in scored : <<i, d>> \in Validating}}
    BY <2>1
  <2>4. missing = missing2
    BY <2>1
  <2> QED
    BY <2>2, <2>3, <2>4
<1> HIDE DEF missing, missing2, latest, latest2, latestCategories, latestCategories2, points, points2,
            tried, tried2, scored, activity, weight
<1>7. validatedAt = validatedAt2 /\ score = score2
  BY <1>5, <1>6, Zenon
<1> DEFINE total == SumOver(tried, scored)
           total2 == SumOver(tried2, scored)
<1>8. total = total2
  BY <1>5
<1> HIDE DEF validatedAt, validatedAt2, score, score2, total, total2
<1>9. Aggregate(res, k) = [res[k] EXCEPT !.activity = activity, !.tried = total,
                                        !.validatedAt = validatedAt, !.score = score]
  BY <1>1 DEF total
<1>10. /\ Aggregate(res, k).score = score /\ Aggregate(res, k).tried = total
       /\ Aggregate(res, k).validatedAt = validatedAt
  BY <1>3, <1>9 DEF ResultRow
<1>11. Due(children, noScore, res, k) = <<score2, total2, validatedAt2>>
  BY <1>2 DEF total2
<1> QED
  BY <1>7, <1>8, <1>10, <1>11

\* Two tables in which the results that count show the same make the same due.
LEMMA DueAgrees ==
  ASSUME NEW E, NEW ns, NEW k \in Keys, NEW res, NEW new,
         \A j \in Keys : Counts(E, j, k) => Shown(new, j) = Shown(res, j)
  PROVE  Due(E, ns, new, k) = Due(E, ns, res, k)
<1> DEFINE S == Scored(E, ns, k[2])
<1>1. ASSUME NEW c \in S
      PROVE  {Shown(new, <<b, c>>) : b \in CountedAttempts(k[1], c)}
               = {Shown(res, <<b, c>>) : b \in CountedAttempts(k[1], c)}
  <2>1. c \in Items /\ <<k[2], c>> \in E
    BY DEF Scored
  <2>2. ASSUME NEW b \in CountedAttempts(k[1], c) PROVE Shown(new, <<b, c>>) = Shown(res, <<b, c>>)
    <3>1. <<b, c>> \in Keys
      BY <2>1, KeysAre DEF CountedAttempts
    <3>2. Counts(E, <<b, c>>, k)
      BY <2>1 DEF Counts
    <3> QED
      BY <3>1, <3>2
  <2> QED
    BY <2>2
<1> HIDE DEF S
<1>2. ShownBelow(S, new, k[1]) = ShownBelow(S, res, k[1])
  BY <1>1 DEF ShownBelow
<1> QED
  BY <1>2 DEF Due, S

\* Results that show nothing make nothing due.
LEMMA DueOfNothing ==
  ASSUME NEW E, NEW ns, NEW k \in Keys, NEW res,
         \A j \in Keys : Counts(E, j, k) => Shown(res, j) = Blank
  PROVE  Due(E, ns, res, k) = Blank
<1> DEFINE i == k[2]
           S == Scored(E, ns, i)
           shown == ShownBelow(S, res, k[1])
           valid == [c \in S |-> Earliest({v[3] : v \in shown[c]})]
           missing == {c \in S : valid[c] = 0}
           missingCategories == {c \in missing : <<i, c>> \in Validating}
           latest == BestOf({valid[c] : c \in S})
           latestCategories == BestOf({valid[c] : c \in {d \in S : <<i, d>> \in Validating}})
           weight == [c \in S |-> Weight[<<i, c>>]]
           points == [c \in S |-> weight[c] * BestOf({v[1] : v \in shown[c]})]
           tried == [c \in S |-> BestOf({v[2] : v \in shown[c]})]
           weights == SumOver(weight, S)
           validatedAt == CASE S = {} -> 0
                            [] ValidationType[i] = "Categories" /\ missingCategories = {} -> latestCategories
                            [] ValidationType[i] = "All" /\ missing = {} -> latest
                            [] ValidationType[i] = "AllButOne" /\ Cardinality(missing) < 2 -> latest
                            [] ValidationType[i] = "One" /\ missing # S -> latest
                            [] OTHER -> 0
           score == IF i \in ns \/ S = {} THEN 0
                    ELSE SumOver(points, S) \div (IF weights = 0 THEN 1 ELSE weights)
<1>1. Due(E, ns, res, k) = <<score, SumOver(tried, S), validatedAt>>
  BY DEF Due, DueOf
<1>2. IsFiniteSet(S) /\ S \in SUBSET Items
  <2>1. S \in SUBSET Items
    BY DEF Scored
  <2> QED
    BY <2>1, ResultsAssumption, FS_Subset
<1>3. ASSUME NEW T \in SUBSET {0} PROVE BestOf(T) = 0 /\ Earliest(T) = 0
  <2>1. T \union {0} = {0} /\ T \ {0} = {}
    OBVIOUS
  <2>2. 0 \in {0} /\ \A x \in {0} : x = 0
    OBVIOUS
  <2>3. Max({0}) = 0
    <3> DEFINE Z == {0}
    <3>1. Z \in SUBSET Nat /\ IsFiniteSet(Z) /\ Z # {}
      BY FS_Singleton
    <3> HIDE DEF Z
    <3>2. Max(Z) \in Z
      BY <3>1, GreatestNatural
    <3> QED
      BY <3>2 DEF Z
  <2> QED
    BY <2>1, <2>3, Zenon DEF BestOf, Earliest
<1>4. ASSUME NEW c \in S
      PROVE  /\ {v[1] : v \in shown[c]} \in SUBSET {0} /\ {v[2] : v \in shown[c]} \in SUBSET {0}
             /\ {v[3] : v \in shown[c]} \in SUBSET {0}
  <2>1. c \in Items /\ <<k[2], c>> \in E
    BY DEF Scored
  <2>2. ASSUME NEW b \in CountedAttempts(k[1], c) PROVE Shown(res, <<b, c>>) = <<0, 0, 0>>
    <3>1. <<b, c>> \in Keys
      BY <2>1, KeysAre DEF CountedAttempts
    <3>2. Counts(E, <<b, c>>, k)
      BY <2>1 DEF Counts
    <3> QED
      BY <3>1, <3>2 DEF Blank
  <2>3. shown[c] = {Shown(res, <<b, c>>) : b \in CountedAttempts(k[1], c)}
    BY DEF ShownBelow
  <2>4. \A v \in shown[c] : v = <<0, 0, 0>>
    BY <2>2, <2>3
  <2> HIDE DEF shown
  <2> QED
    BY <2>4
<1>5. ASSUME NEW c \in S PROVE points[c] = 0 /\ tried[c] = 0 /\ valid[c] = 0
  <2>1. BestOf({v[1] : v \in shown[c]}) = 0 /\ BestOf({v[2] : v \in shown[c]}) = 0
        /\ Earliest({v[3] : v \in shown[c]}) = 0
    BY <1>3, <1>4
  <2>2. weight[c] \in Nat
    <3>1. <<i, c>> \in Items \X Items
      BY <1>2, KeysAre
    <3>2. Weight[<<i, c>>] \in Nat
      BY <3>1, ResultsAssumption
    <3> QED
      BY <3>2
  <2>3. points[c] = weight[c] * BestOf({v[1] : v \in shown[c]}) /\ tried[c] = BestOf({v[2] : v \in shown[c]})
        /\ valid[c] = Earliest({v[3] : v \in shown[c]})
    OBVIOUS
  <2> HIDE DEF points, tried, valid, weight, shown
  <2> QED
    BY <2>1, <2>2, <2>3
<1> HIDE DEF points, tried, valid, shown, S
<1>6. SumOver(points, S) = 0 /\ SumOver(tried, S) = 0
  BY <1>2, <1>5, SumOfZeros
<1>7. score = 0
  <2>1. ASSUME NEW c \in S PROVE weight[c] \in Nat /\ weight[c] <= 100 * weight[c]
    <3>1. <<i, c>> \in Items \X Items
      BY <1>2, KeysAre
    <3>2. Weight[<<i, c>>] \in Nat
      BY <3>1, ResultsAssumption
    <3> QED
      BY <3>2
  <2>2. weights \in Nat
    <3> HIDE DEF weight
    <3> QED
      BY <1>2, <2>1, SumOfPercentages
  <2> HIDE DEF weights
  <2> QED
    BY <1>6, <2>2
<1>8. latest = 0 /\ latestCategories = 0
  <2> DEFINE T == {valid[c] : c \in S}
             U == {valid[c] : c \in {d \in S : <<i, d>> \in Validating}}
  <2>1. T \in SUBSET {0} /\ U \in SUBSET {0}
    BY <1>5
  <2> HIDE DEF T, U
  <2>2. BestOf(T) = 0 /\ BestOf(U) = 0
    BY <1>3, <2>1
  <2> QED
    BY <2>2 DEF T, U
<1> HIDE DEF latest, latestCategories, missing, missingCategories
<1>9. validatedAt = 0
  BY <1>8
<1> QED
  BY <1>1, <1>6, <1>7, <1>9 DEF Blank

-------------------------------------------------------------------------------
(* The transactions of the propagation keep the invariant.                 *)

\* The fields of the tables that only services write.
LEMMA WorldFields ==
  /\ World.children = children /\ World.noScore = noScore /\ World.deps = deps /\ World.late = late
  /\ World.rescored = rescored /\ World.reshaped = reshaped /\ World.recompute = recompute
BY DEF World

\* The scope of an attempt, and the parents of an item, by the links of items.
LEMMA LinksAreBy ==
  /\ \A k : InScope(k) <=> ScopeBy(children, k)
  /\ \A i : Parents(i) = ParentsBy(children, i)
  /\ \A i : Ancestors(i) = AncestorsBy(children, i)
BY AncestorsAreBy DEF InScope, ScopeBy

\* A result in the scope of its attempt is the one above those that count for it: an item
\* below the root of an attempt is not its root.
LEMMA OneAbove ==
  ASSUME NEW E, AcyclicBy(E), NEW k \in Keys, NEW j \in Keys, ScopeBy(E, k), Counts(E, j, k)
  PROVE  k = <<AttemptAbove(j), k[2]>> /\ k[2] \in ParentsBy(E, j[2]) /\ k[2] \in AncestorsBy(E, j[2])
<1>1. k = <<k[1], k[2]>> /\ k[1] \in Attempts /\ k[2] \in Items /\ j[1] \in Attempts /\ j[2] \in Items
  BY KeysAre
<1>2. k[2] \in ParentsBy(E, j[2])
  BY <1>1 DEF Counts, ParentsBy
<1>3. k[2] \in AncestorsBy(E, j[2]) /\ AncestorsBy(E, k[2]) \subseteq AncestorsBy(E, j[2])
  BY <1>1, <1>2, AncestorsOfParent
<1>4. j[2] \notin AncestorsBy(E, j[2])
  BY <1>1, NoOwnAncestor
<1>5. j[1] = k[1] \/ (AttemptRoot[j[1]] = j[2] /\ ParentAttempt[j[1]] = k[1])
  BY DEF Counts, CountedAttempts
<1>6. AttemptAbove(j) = k[1]
  <2>1. CASE j[1] = k[1]
    <3>1. AttemptRoot[k[1]] # j[2]
      BY <1>1, <1>3, <1>4, ResultsAssumption DEF ScopeBy
    <3> QED
      BY <2>1, <3>1 DEF AttemptAbove
  <2>2. CASE AttemptRoot[j[1]] = j[2] /\ ParentAttempt[j[1]] = k[1]
    BY <2>2 DEF AttemptAbove
  <2> QED
    BY <1>5, <2>1, <2>2
<1> QED
  BY <1>1, <1>2, <1>3, <1>6

\* What a table of rows with new ones shows.
LEMMA NewRowsShowNothing ==
  /\ NewResult.score = 0 /\ NewResult.tried = 0 /\ NewResult.validatedAt = 0 /\ NewResult.activity = 0
  /\ NewResult.started = FALSE
  /\ \A now : LET r == StartedResult(now)
              IN r.score = 0 /\ r.tried = 0 /\ r.validatedAt = 0 /\ r.activity = now /\ r.started
BY DEF NewResult, StartedResult

\* The first transaction of the loop.
LEMMA MarkParentsSound ==
  ASSUME NEW db \in Dbs({}), NEW o, NEW chunk \in SUBSET Marked(db, "to_be_propagated"),
         AcyclicBy(children), Sound(World, db, o)
  PROVE  Sound(World, MarkParents(db, chunk), o)
<1> DEFINE m == [k \in Keys |-> IF k \in chunk THEN "propagating" ELSE db.marks[k]]
           P == {j \in Keys : m[j] = "propagating"}
           above == UNION {{<<AttemptAbove(k), p>> : p \in Parents(k[2])} : k \in P}
           toMark == {q \in above : IF Exists(db.results, q) THEN m[q] # "to_be_recomputed"
                                    ELSE MayBeCreated(db, q)}
           missing == {q \in toMark : ~Exists(db.results, q)}
           res == [q \in Keys |-> IF q \in missing THEN NewResult ELSE db.results[q]]
           marked == SetToBeRecomputed(m, toMark)
           gone == (db.lost \ P) \union Overwritten(m, toMark)
           E == children
<1> SUFFICES ASSUME NEW new, new = [db EXCEPT !.results = res, !.marks = marked, !.lost = gone]
             PROVE  Sound(World, new, o)
  BY Zenon DEF MarkParents
<1>1. db \in DbRecords /\ MarksOfRows(db.marks, db.results)
      /\ db.results \in ResultTables /\ db.marks \in MarkTables /\ db.lost \in SUBSET Keys
  BY DEF Dbs, DbRecords
<1>2. new.results = res /\ new.marks = marked /\ new.lost = gone /\ new.grants = db.grants
      /\ new.visible = db.visible
  BY <1>1 DEF DbRecords
<1>3. \A k \in Keys : /\ k \in chunk => db.marks[k] = "to_be_propagated"
                      /\ m[k] = IF k \in chunk THEN "propagating" ELSE db.marks[k]
                      /\ k \in P <=> m[k] = "propagating"
                      /\ marked[k] = IF k \in toMark THEN "to_be_recomputed" ELSE m[k]
                      /\ k \in gone <=> (k \in db.lost /\ k \notin P)
                                        \/ (k \in toMark /\ m[k] \in {"to_be_propagated", "propagating"})
  BY DEF SetToBeRecomputed, Overwritten, Marked
<1>4. toMark \in SUBSET Keys
  BY AboveIsKey
<1>5. \A k \in Keys : res[k] = IF k \in missing THEN NewResult ELSE db.results[k]
  OBVIOUS
<1>6. ASSUME NEW j \in P, NEW k \in Keys, ScopeBy(E, k), Counts(E, j, k)
      PROVE  k \in above
  <2>1. k = <<AttemptAbove(j), k[2]>> /\ k[2] \in Parents(j[2])
    BY <1>6, OneAbove, LinksAreBy
  <2> QED
    BY <2>1
<1>7. \A k \in above : /\ Exists(db.results, k) /\ m[k] # "to_be_recomputed" => k \in toMark
                       /\ ~Exists(db.results, k) /\ MayBeCreated(db, k) => k \in missing
  OBVIOUS
<1>8. \A k \in missing : k \in toMark /\ ~Exists(db.results, k) /\ ScopeBy(E, k)
  BY LinksAreBy DEF MayBeCreated
<1>9. \A k \in toMark : \E j \in P : k = <<AttemptAbove(j), k[2]>>
  <2>1. ASSUME NEW k \in above PROVE \E j \in P : k = <<AttemptAbove(j), k[2]>>
    <3>1. PICK j \in P : \E p \in Parents(j[2]) : k = <<AttemptAbove(j), p>>
      OBVIOUS
    <3> QED
      BY <3>1
  <2> QED
    BY <2>1
<1> HIDE DEF m, P, above, toMark, missing, res, marked, gone
<1>10. \A k \in Keys : Shown(res, k) = Shown(db.results, k)
  BY <1>5, <1>8, NewRows, NewRowsShowNothing DEF Shown, Exists, Blank
<1>11. \A k \in Keys : Exists(res, k) <=> Exists(db.results, k) \/ k \in missing
  BY <1>5, NewRows DEF Exists
<1>12. ASSUME NEW j \in Keys, Announced(db, o, j) PROVE Announced(new, o, j) \/ j \in P
  BY <1>2, <1>3, <1>12 DEF Announced
<1>13. Aggregated(World, new, o)
  <2> SUFFICES ASSUME NEW k \in Keys, Exists(res, k), k[2] \notin Tasks, k[1] \notin reshaped
               PROVE  \/ \E c \in Items : c \in rescored /\ <<k[2], c>> \in children
                      \/ Awaits(World, new, o, k) \/ Overdue(World, new, o, k)
                      \/ Shown(res, k) = Due(children, noScore, res, k)
    BY <1>2, WorldFields DEF Aggregated
  <2>1. CASE k \in missing
    <3>1. marked[k] = "to_be_recomputed"
      BY <1>3, <1>8, <2>1
    <3> QED
      BY <1>2, <3>1 DEF Awaits
  <2>2. CASE k \notin missing
    <3>1. Exists(db.results, k) /\ ScopeBy(E, k)
      <4>1. Exists(db.results, k)
        BY <1>11, <2>2
      <4> QED
        BY <4>1, WorldFields DEF Sound, InPlace
    <3>2. \/ \E c \in Items : c \in rescored /\ <<k[2], c>> \in children
          \/ Awaits(World, db, o, k) \/ Overdue(World, db, o, k)
          \/ Shown(db.results, k) = Due(children, noScore, db.results, k)
      BY <3>1, WorldFields DEF Sound, Aggregated
    <3>3. ASSUME Awaits(World, db, o, k) PROVE Awaits(World, new, o, k)
      BY <1>2, <1>3, <3>3 DEF Awaits
    <3>4. ASSUME Overdue(World, db, o, k) PROVE Awaits(World, new, o, k) \/ Overdue(World, new, o, k)
      <4>1. PICK j \in Keys : Counts(E, j, k) /\ Announced(db, o, j)
        BY <3>4, WorldFields DEF Overdue
      <4>2. CASE j \in P
        <5>1. k \in above
          BY <1>6, <3>1, <4>1, <4>2
        <5>2. marked[k] = "to_be_recomputed"
          BY <1>3, <1>7, <3>1, <5>1
        <5> QED
          BY <1>2, <5>2 DEF Awaits
      <4>3. CASE j \notin P
        BY <1>12, <4>1, <4>3, WorldFields DEF Overdue
      <4> QED
        BY <4>2, <4>3
    <3>5. Due(children, noScore, res, k) = Due(children, noScore, db.results, k)
      BY <1>10, DueAgrees
    <3> QED
      BY <1>10, <3>2, <3>3, <3>4, <3>5
  <2> QED
    BY <2>1, <2>2
<1>14. MissingIsNothing(World, new, o)
  <2> SUFFICES ASSUME NEW k \in Keys, NEW j \in Keys, ~Exists(res, k), k[1] \notin reshaped, ScopeBy(E, k),
                      k[2] \in db.visible, k[2] \notin Explicit, Counts(E, j, k)
               PROVE  Shown(res, j) = Blank \/ Announced(new, o, j)
    BY <1>2, WorldFields DEF MissingIsNothing
  <2>1. ~Exists(db.results, k) /\ k \notin missing
    BY <1>11
  <2>2. Shown(db.results, j) = Blank \/ Announced(db, o, j)
    BY <2>1, WorldFields, Zenon DEF Sound, MissingIsNothing
  <2>3. j \notin P
    <3>1. MayBeCreated(db, k)
      BY LinksAreBy DEF MayBeCreated
    <3> QED
      BY <1>6, <1>7, <2>1, <3>1
  <2> QED
    BY <1>10, <1>12, <2>2, <2>3
<1>15. Earned(World, new, o)
  <2> SUFFICES ASSUME NEW d \in deps \ late, NEW k \in Keys, k[2] = d.item, Exists(res, k),
                      d.score <= res[k].score
               PROVE  \/ d.dependent \in db.grants \/ k \in gone
                      \/ marked[k] \in {"to_be_propagated", "propagating"}
                      \/ o[k] \in {"to_be_propagated", "propagating"}
                      \/ res[k].activity = 0 /\ "to_be_recomputed" \in {marked[k], o[k]}
    BY <1>2, WorldFields, Zenon DEF Earned
  <2>1. CASE k \in missing
    BY <1>3, <1>5, <1>8, <2>1, NewRowsShowNothing
  <2>2. CASE k \notin missing
    <3>1. Exists(db.results, k) /\ res[k] = db.results[k]
      BY <1>5, <1>11, <2>2
    <3>2. \/ d.dependent \in db.grants \/ k \in db.lost
          \/ db.marks[k] \in {"to_be_propagated", "propagating"}
          \/ o[k] \in {"to_be_propagated", "propagating"}
          \/ db.results[k].activity = 0 /\ "to_be_recomputed" \in {db.marks[k], o[k]}
      BY <3>1, WorldFields, Zenon DEF Sound, Earned
    <3> QED
      BY <1>3, <3>1, <3>2
  <2> QED
    BY <2>1, <2>2
<1>16. InPlace(World, new.results)
  <2>0. InPlace(World, db.results)
    BY DEF Sound
  <2>1. \A a : AttemptIn(db.results, a) /\ a \in Attempts => AttemptIn(res, a)
    <3>1. ASSUME NEW a \in Attempts, a # 0 PROVE <<a, AttemptRoot[a]>> \in Keys
      BY <3>1, ResultsAssumption, KeysAre
    <3> QED
      BY <1>11, <3>1 DEF AttemptIn
  <2>2. ASSUME NEW k \in Keys, Exists(db.results, k)
        PROVE  AttemptIn(db.results, k[1]) /\ (k[1] # 0 => AttemptIn(db.results, ParentAttempt[k[1]]))
    BY <2>0, <2>2, Zenon DEF InPlace
  <2>3. ASSUME NEW a \in Attempts, AttemptIn(db.results, a), a # 0
        PROVE  AttemptIn(db.results, ParentAttempt[a])
    <3>1. <<a, AttemptRoot[a]>> \in Keys /\ Exists(db.results, <<a, AttemptRoot[a]>>)
      BY <2>3, ResultsAssumption, KeysAre DEF AttemptIn
    <3> DEFINE q == <<a, AttemptRoot[a]>>
    <3>2. q[1] = a /\ q \in Keys /\ Exists(db.results, q)
      BY <3>1
    <3> HIDE DEF q
    <3> QED
      BY <2>2, <2>3, <3>2
  <2>4. ASSUME NEW k \in missing
        PROVE  AttemptIn(db.results, k[1]) /\ k[1] \in Attempts
    <3>1. PICK j \in P : k = <<AttemptAbove(j), k[2]>>
      BY <1>8, <1>9
    <3>2. j \in Keys /\ Exists(db.results, j)
      <4>1. j \in Keys
        BY DEF P
      <4>2. db.marks[j] # "none"
        BY <1>3, <4>1
      <4> QED
        BY <1>1, <4>1, <4>2 DEF MarksOfRows
    <3>3. k[1] = AttemptAbove(j)
      BY <3>1
    <3>4. j[1] \in Attempts /\ j[2] \in Items
      BY <3>2, KeysAre
    <3>5. CASE AttemptRoot[j[1]] = j[2]
      <4>1. j[1] # 0 /\ ParentAttempt[j[1]] \in Attempts
        BY <3>4, <3>5, ResultsAssumption
      <4> QED
        BY <2>2, <3>2, <3>3, <3>5, <4>1 DEF AttemptAbove
    <3>6. CASE AttemptRoot[j[1]] # j[2]
      BY <2>2, <3>2, <3>3, <3>4, <3>6 DEF AttemptAbove
    <3> QED
      BY <3>5, <3>6
  <2>5. ASSUME NEW k \in Keys, Exists(res, k)
        PROVE  /\ k[1] \in reshaped \/ ScopeBy(children, k)
               /\ AttemptIn(res, k[1]) /\ (k[1] # 0 => AttemptIn(res, ParentAttempt[k[1]]))
               /\ res[k].started => res[k].activity # 0
    <3>0. k[1] \in Attempts /\ ParentAttempt[k[1]] \in Attempts
      BY KeysAre, ResultsAssumption
    <3>1. CASE k \in missing
      <4>1. AttemptIn(db.results, k[1])
        BY <2>4, <3>1
      <4>2. k[1] # 0 => AttemptIn(db.results, ParentAttempt[k[1]])
        BY <2>3, <3>0, <4>1
      <4>3. res[k].started = FALSE
        BY <1>5, <3>1, NewRowsShowNothing
      <4> QED
        BY <1>8, <2>1, <3>0, <3>1, <4>1, <4>2, <4>3
    <3>2. CASE k \notin missing
      <4>1. Exists(db.results, k) /\ res[k] = db.results[k]
        BY <1>5, <1>11, <2>5, <3>2
      <4>2. k[1] \in reshaped \/ ScopeBy(children, k)
        BY <2>0, <4>1, WorldFields, Zenon DEF InPlace
      <4>3. res[k].started => res[k].activity # 0
        BY <2>0, <4>1, Zenon DEF InPlace
      <4> QED
        BY <2>1, <2>2, <3>0, <4>1, <4>2, <4>3
    <3> QED
      BY <3>1, <3>2
  <2> QED
    BY <1>2, <2>5, WorldFields, Zenon DEF InPlace
<1> QED
  BY <1>13, <1>14, <1>15, <1>16 DEF Sound


\* The second transaction: what is unmarked has unlocked what it earned.
LEMMA UnlockItemsSound ==
  ASSUME NEW db \in Dbs({}), NEW o, Sound(World, db, o)
  PROVE  Sound(World, UnlockItems(db), o)
<1> DEFINE earned == {d.dependent : d \in {e \in deps : \E k \in Keys :
                        /\ db.marks[k] = "propagating" /\ k[2] = e.item
                        /\ e.score <= db.results[k].score}} \ db.grants
           items == db.grants \union earned
           b == db.again \/ earned # {}
           m == Unmark(db.marks)
<1> SUFFICES ASSUME NEW new, new = [db EXCEPT !.grants = items, !.marks = m, !.again = b]
             PROVE  Sound(World, new, o)
  BY Zenon DEF UnlockItems
<1>1. db \in DbRecords
  BY DEF Dbs
<1>2. new.results = db.results /\ new.marks = m /\ new.lost = db.lost /\ new.grants = items
      /\ new.visible = db.visible
  BY <1>1 DEF DbRecords
<1>3. \A k \in Keys : m[k] = IF db.marks[k] = "propagating" THEN "none" ELSE db.marks[k]
  BY DEF Unmark
<1>4. \A d \in deps, k \in Keys :
        db.marks[k] = "propagating" /\ k[2] = d.item /\ d.score <= db.results[k].score
        => d.dependent \in items
  OBVIOUS
<1>5. db.grants \subseteq items
  OBVIOUS
<1> HIDE DEF earned, items, b, m
<1>6. \A j \in Keys : Announced(db, o, j) => Announced(new, o, j)
  BY <1>2, <1>3 DEF Announced
<1>7. Aggregated(World, new, o)
  <2> SUFFICES ASSUME NEW k \in Keys, Exists(db.results, k), k[2] \notin Tasks, k[1] \notin reshaped
               PROVE  \/ \E c \in Items : c \in rescored /\ <<k[2], c>> \in children
                      \/ Awaits(World, new, o, k) \/ Overdue(World, new, o, k)
                      \/ Shown(db.results, k) = Due(children, noScore, db.results, k)
    BY <1>2, WorldFields DEF Aggregated
  <2>1. \/ \E c \in Items : c \in rescored /\ <<k[2], c>> \in children
        \/ Awaits(World, db, o, k) \/ Overdue(World, db, o, k)
        \/ Shown(db.results, k) = Due(children, noScore, db.results, k)
    BY WorldFields DEF Sound, Aggregated
  <2>2. Awaits(World, db, o, k) => Awaits(World, new, o, k)
    BY <1>2, <1>3 DEF Awaits
  <2>3. Overdue(World, db, o, k) => Overdue(World, new, o, k)
    BY <1>6, Zenon DEF Overdue
  <2> QED
    BY <2>1, <2>2, <2>3
<1>8. MissingIsNothing(World, new, o)
  <2> SUFFICES ASSUME NEW k \in Keys, NEW j \in Keys, ~Exists(db.results, k), k[1] \notin reshaped,
                      ScopeBy(children, k), k[2] \in db.visible, k[2] \notin Explicit, Counts(children, j, k)
               PROVE  Shown(db.results, j) = Blank \/ Announced(new, o, j)
    BY <1>2, WorldFields DEF MissingIsNothing
  <2>1. Shown(db.results, j) = Blank \/ Announced(db, o, j)
    BY WorldFields, Zenon DEF Sound, MissingIsNothing
  <2> QED
    BY <1>6, <2>1
<1>9. Earned(World, new, o)
  <2> SUFFICES ASSUME NEW d \in deps \ late, NEW k \in Keys, k[2] = d.item, Exists(db.results, k),
                      d.score <= db.results[k].score
               PROVE  \/ d.dependent \in items \/ k \in db.lost
                      \/ m[k] \in {"to_be_propagated", "propagating"}
                      \/ o[k] \in {"to_be_propagated", "propagating"}
                      \/ db.results[k].activity = 0 /\ "to_be_recomputed" \in {m[k], o[k]}
    BY <1>2, WorldFields, Zenon DEF Earned
  <2>1. \/ d.dependent \in db.grants \/ k \in db.lost
        \/ db.marks[k] \in {"to_be_propagated", "propagating"}
        \/ o[k] \in {"to_be_propagated", "propagating"}
        \/ db.results[k].activity = 0 /\ "to_be_recomputed" \in {db.marks[k], o[k]}
    BY WorldFields, Zenon DEF Sound, Earned
  <2> QED
    BY <1>3, <1>4, <1>5, <2>1
<1>10. InPlace(World, new.results)
  BY <1>2 DEF Sound
<1> QED
  BY <1>7, <1>8, <1>9, <1>10 DEF Sound

\* The best of some numbers is at least each of them.
LEMMA BestIsLeast ==
  ASSUME NEW S \in SUBSET Nat, IsFiniteSet(S), NEW x \in S
  PROVE  x <= BestOf(S)
<1>1. S \union {0} \in SUBSET Nat /\ S \union {0} # {} /\ IsFiniteSet(S \union {0})
  BY FS_AddElement
<1> QED
  BY <1>1, GreatestNatural DEF BestOf

\* A recomputed result stays started, and its activity only grows.
LEMMA AggregateKeeps ==
  ASSUME NEW res \in ResultTables, NEW k \in Keys, Exists(res, k)
  PROVE  /\ Aggregate(res, k).started = res[k].started
         /\ res[k].activity # 0 => Aggregate(res, k).activity # 0
<1> DEFINE scored == Children(k[2]) \ noScore
           rows(c) == ChildResults(res, k[1], c)
           of == [c \in scored |-> {r.activity : r \in rows(c)}]
           below == UNION {of[c] : c \in scored}
           activity == BestOf({res[k].activity} \union UNION {{r.activity : r \in rows(c)} : c \in scored})
<1>1. \E t, v, s : Aggregate(res, k) = [res[k] EXCEPT !.activity = activity, !.tried = t,
                                                     !.validatedAt = v, !.score = s]
  BY Zenon DEF Aggregate
<1>2. res[k] \in ResultRow /\ k[1] \in Attempts
  BY KeysAre, RowsExist
<1>3. IsFiniteSet(scored) /\ scored \in SUBSET Items
  <2>1. scored \in SUBSET Items
    BY DEF Children
  <2> QED
    BY <2>1, ResultsAssumption, FS_Subset
<1>4. \A c \in scored : IsFiniteSet(of[c]) /\ of[c] \in SUBSET Nat
  <2> SUFFICES ASSUME NEW c \in scored PROVE IsFiniteSet(of[c]) /\ of[c] \in SUBSET Nat
    OBVIOUS
  <2>1. rows(c) \in SUBSET ResultRow /\ IsFiniteSet(rows(c))
    BY <1>2, <1>3, ChildRows
  <2>2. of[c] = {r.activity : r \in rows(c)}
    OBVIOUS
  <2> HIDE DEF rows, of
  <2> QED
    BY <2>1, <2>2, FieldValues
<1>5. IsFiniteSet({of[c] : c \in scored})
  <2>1. scored \subseteq DOMAIN of
    OBVIOUS
  <2> HIDE DEF of, scored
  <2> QED
    BY <1>3, <2>1, FiniteValues
<1>13. below = UNION {{r.activity : r \in rows(c)} : c \in scored}
  OBVIOUS
<1> HIDE DEF of, scored
<1>6. IsFiniteSet(below) /\ below \in SUBSET Nat
  BY <1>4, <1>5, FS_UNION
<1>7. res[k].activity \in Nat
  BY <1>2 DEF ResultRow
<1> DEFINE all == {res[k].activity} \union below
<1>8. IsFiniteSet(all) /\ all \in SUBSET Nat /\ res[k].activity \in all
  <2> HIDE DEF below
  <2>1. IsFiniteSet(below \union {res[k].activity})
    BY <1>6, FS_AddElement
  <2>2. all = below \union {res[k].activity}
    OBVIOUS
  <2> QED
    BY <1>6, <1>7, <2>1, <2>2
<1>9. activity = BestOf(all)
  BY <1>13, Zenon
<1> HIDE DEF all, below, activity
<1>10. res[k].activity <= activity /\ activity \in Nat
  BY <1>8, <1>9, BestIs, BestIsLeast
<1>11. PICK t, v, s : Aggregate(res, k) = [res[k] EXCEPT !.activity = activity, !.tried = t,
                                                       !.validatedAt = v, !.score = s]
  BY <1>1
<1>12. Aggregate(res, k).started = res[k].started /\ Aggregate(res, k).activity = activity
  BY <1>2, <1>11 DEF ResultRow
<1> QED
  BY <1>7, <1>10, <1>12

\* The third transaction: no result that the recomputed ones are made of is recomputed with
\* them, and those that change are propagated.
LEMMA RecomputeSound ==
  ASSUME NEW db \in Dbs({}), NEW o, NEW chunk \in SUBSET Recomputable(db), Sound(World, db, o)
  PROVE  Sound(World, Recompute(db, chunk), o)
<1> DEFINE res == [k \in Keys |-> IF k \in chunk THEN Aggregate(db.results, k) ELSE db.results[k]]
           m == [k \in Keys |-> IF k \notin chunk THEN db.marks[k]
                                ELSE IF Modified(db.results[k], res[k])
                                THEN "to_be_propagated" ELSE "none"]
<1> SUFFICES ASSUME NEW new, new = [db EXCEPT !.results = res, !.marks = m]
             PROVE  Sound(World, new, o)
  BY Zenon DEF Recompute
<1>1. db \in DbRecords /\ MarksOfRows(db.marks, db.results)
      /\ db.results \in ResultTables /\ db.marks \in MarkTables
  BY DEF Dbs, DbRecords
<1>2. new.results = res /\ new.marks = m /\ new.lost = db.lost /\ new.grants = db.grants
      /\ new.visible = db.visible
  BY <1>1 DEF DbRecords
<1>3. \A k \in chunk : k \in Keys /\ db.marks[k] = "to_be_recomputed" /\ Exists(db.results, k)
  BY <1>1 DEF Recomputable, Marked, MarksOfRows
<1>4. ASSUME NEW k \in chunk, NEW j \in chunk PROVE ~Counts(children, j, k)
  <2>1. \A i \in Marked(db, "to_be_recomputed") :
           ~(i[2] \in Children(k[2]) /\
             (i[1] = k[1] \/ (AttemptRoot[i[1]] = i[2] /\ ParentAttempt[i[1]] = k[1])))
    BY Zenon DEF Recomputable
  <2>2. j \in Marked(db, "to_be_recomputed") /\ j[2] \in Items
    BY <1>3, KeysAre DEF Marked
  <2> QED
    BY <2>1, <2>2 DEF Counts, CountedAttempts, Children
<1>5. \A k \in chunk : res[k] = Aggregate(db.results, k)
  BY <1>3
<1>6. \A k \in Keys : k \notin chunk => res[k] = db.results[k] /\ m[k] = db.marks[k]
  OBVIOUS
<1>7. \A k \in chunk : m[k] = "to_be_propagated" \/ (res[k] = db.results[k] /\ res[k].activity # 0)
  BY <1>3 DEF Modified
<1> HIDE DEF res, m
<1>8. \A k \in chunk : res[k] \in ResultRow
  BY <1>1, <1>3, <1>5, AggregateIsRow
<1>9. \A k \in Keys : Exists(res, k) <=> Exists(db.results, k)
  BY <1>3, <1>6, <1>8, ResultsAssumption DEF Exists
<1>10. \A k \in Keys : k \notin chunk => Shown(res, k) = Shown(db.results, k)
  BY <1>6 DEF Shown, Exists
<1>11. \A k \in chunk : Shown(res, k) = Due(children, noScore, db.results, k)
  <2> SUFFICES ASSUME NEW k \in chunk PROVE Shown(res, k) = Due(children, noScore, db.results, k)
    OBVIOUS
  <2>1. LET due == Aggregate(db.results, k)
        IN <<due.score, due.tried, due.validatedAt>> = Due(children, noScore, db.results, k)
    BY <1>1, <1>3, AggregateIsDue
  <2>2. Exists(res, k)
    BY <1>3, <1>9
  <2> QED
    BY <1>5, <2>1, <2>2 DEF Shown
<1>12. \A j \in Keys : Announced(db, o, j) => Announced(new, o, j)
  BY <1>2, <1>3, <1>6 DEF Announced
<1>13. \A j \in Keys : Shown(res, j) = Shown(db.results, j) \/ Announced(new, o, j)
  BY <1>2, <1>3, <1>7, <1>10 DEF Announced, Shown, Exists
<1>14. Aggregated(World, new, o)
  <2> SUFFICES ASSUME NEW k \in Keys, Exists(res, k), k[2] \notin Tasks, k[1] \notin reshaped
               PROVE  \/ \E c \in Items : c \in rescored /\ <<k[2], c>> \in children
                      \/ Awaits(World, new, o, k) \/ Overdue(World, new, o, k)
                      \/ Shown(res, k) = Due(children, noScore, res, k)
    BY <1>2, WorldFields DEF Aggregated
  <2>1. CASE \E j \in Keys : Counts(children, j, k) /\ Shown(res, j) # Shown(db.results, j)
    BY <1>13, <2>1, WorldFields DEF Overdue
  <2>2. CASE \A j \in Keys : Counts(children, j, k) => Shown(res, j) = Shown(db.results, j)
    <3>1. Due(children, noScore, res, k) = Due(children, noScore, db.results, k)
      BY <2>2, DueAgrees
    <3>2. CASE k \in chunk
      BY <1>11, <3>1, <3>2
    <3>3. CASE k \notin chunk
      <4>1. \/ \E c \in Items : c \in rescored /\ <<k[2], c>> \in children
            \/ Awaits(World, db, o, k) \/ Overdue(World, db, o, k)
            \/ Shown(db.results, k) = Due(children, noScore, db.results, k)
        BY <1>9, WorldFields DEF Sound, Aggregated
      <4>2. Awaits(World, db, o, k) => Awaits(World, new, o, k)
        BY <1>2, <1>6, <3>3 DEF Awaits
      <4>3. Overdue(World, db, o, k) => Overdue(World, new, o, k)
        BY <1>12, Zenon DEF Overdue
      <4> QED
        BY <1>10, <3>1, <3>3, <4>1, <4>2, <4>3
    <3> QED
      BY <3>2, <3>3
  <2> QED
    BY <2>1, <2>2
<1>15. MissingIsNothing(World, new, o)
  <2> SUFFICES ASSUME NEW k \in Keys, NEW j \in Keys, ~Exists(res, k), k[1] \notin reshaped,
                      ScopeBy(children, k), k[2] \in db.visible, k[2] \notin Explicit, Counts(children, j, k)
               PROVE  Shown(res, j) = Blank \/ Announced(new, o, j)
    BY <1>2, WorldFields DEF MissingIsNothing
  <2>1. Shown(db.results, j) = Blank \/ Announced(db, o, j)
    BY <1>9, WorldFields, Zenon DEF Sound, MissingIsNothing
  <2> QED
    BY <1>12, <1>13, <2>1
<1>16. Earned(World, new, o)
  <2> SUFFICES ASSUME NEW d \in deps \ late, NEW k \in Keys, k[2] = d.item, Exists(res, k),
                      d.score <= res[k].score
               PROVE  \/ d.dependent \in db.grants \/ k \in db.lost
                      \/ m[k] \in {"to_be_propagated", "propagating"}
                      \/ o[k] \in {"to_be_propagated", "propagating"}
                      \/ res[k].activity = 0 /\ "to_be_recomputed" \in {m[k], o[k]}
    BY <1>2, WorldFields DEF Earned
  <2>1. CASE m[k] = "to_be_propagated"
    BY <2>1
  <2>2. CASE m[k] # "to_be_propagated"
    <3>1. res[k] = db.results[k] /\ (k \in chunk => res[k].activity # 0 /\ db.marks[k] = "to_be_recomputed")
      BY <1>3, <1>6, <1>7, <2>2
    <3>2. \/ d.dependent \in db.grants \/ k \in db.lost
          \/ db.marks[k] \in {"to_be_propagated", "propagating"}
          \/ o[k] \in {"to_be_propagated", "propagating"}
          \/ db.results[k].activity = 0 /\ "to_be_recomputed" \in {db.marks[k], o[k]}
      BY <1>9, <3>1, WorldFields, Zenon DEF Sound, Earned
    <3> QED
      BY <1>6, <3>1, <3>2
  <2> QED
    BY <2>1, <2>2
<1>17. InPlace(World, new.results)
  <2>0. InPlace(World, db.results)
    BY DEF Sound
  <2>1. \A a \in Attempts : AttemptIn(db.results, a) => AttemptIn(res, a)
    <3>1. ASSUME NEW a \in Attempts, a # 0 PROVE <<a, AttemptRoot[a]>> \in Keys
      BY <3>1, ResultsAssumption, KeysAre
    <3> QED
      BY <1>9, <3>1 DEF AttemptIn
  <2>2. ASSUME NEW k \in Keys, Exists(res, k)
        PROVE  /\ k[1] \in reshaped \/ ScopeBy(children, k)
               /\ AttemptIn(res, k[1]) /\ (k[1] # 0 => AttemptIn(res, ParentAttempt[k[1]]))
               /\ res[k].started => res[k].activity # 0
    <3>0. k[1] \in Attempts /\ ParentAttempt[k[1]] \in Attempts
      BY KeysAre, ResultsAssumption
    <3>1. Exists(db.results, k)
      BY <1>9, <2>2
    <3>2. /\ k[1] \in reshaped \/ ScopeBy(children, k)
          /\ AttemptIn(db.results, k[1]) /\ (k[1] # 0 => AttemptIn(db.results, ParentAttempt[k[1]]))
          /\ db.results[k].started => db.results[k].activity # 0
      BY <2>0, <3>1, WorldFields, Zenon DEF InPlace
    <3>3. res[k].started => res[k].activity # 0
      <4>1. k \in chunk => (/\ res[k].started = db.results[k].started
                            /\ db.results[k].activity # 0 => res[k].activity # 0)
        BY <1>1, <1>5, <3>1, AggregateKeeps
      <4> QED
        BY <1>6, <3>2, <4>1
    <3> QED
      BY <2>1, <3>0, <3>2, <3>3
  <2> QED
    BY <1>2, <2>2, WorldFields, Zenon DEF InPlace
<1> QED
  BY <1>14, <1>15, <1>16, <1>17 DEF Sound

\* The results below some items.
ResultsBelow(res, items) == {k \in Keys : Exists(res, k) /\ Ancestors(k[2]) \intersect items # {}}

\* The tables are those of db, after some items became visible.
Sees(new, db, gained) ==
  LET below == ResultsBelow(db.results, gained)
  IN /\ new.results = db.results /\ new.grants = db.grants
     /\ new.visible = db.visible \union gained
     /\ new.marks = InsertIgnore(db.marks, below)
     /\ new.lost = db.lost \union Ignored(db.marks, TopsOf(db.results, below))

\* Items that become visible: the results below them are marked, or that was lost for those
\* above which there is no result.
LEMMA SeenSound ==
  ASSUME NEW db \in Dbs({}), NEW o, NEW gained, NEW new, Sees(new, db, gained),
         AcyclicBy(children), Sound(World, db, o)
  PROVE  Sound(World, new, o)
<1> DEFINE below == ResultsBelow(db.results, gained)
           m == InsertIgnore(db.marks, below)
           gone == Ignored(db.marks, TopsOf(db.results, below))
<1>0. /\ new.results = db.results /\ new.grants = db.grants /\ new.visible = db.visible \union gained
      /\ new.marks = m /\ new.lost = db.lost \union gone
  BY Zenon DEF Sees
<1>1. db.marks \in MarkTables /\ MarksOfRows(db.marks, db.results)
  BY DEF Dbs, DbRecords
<1>2. new.marks = m /\ new.lost = db.lost \union gone
  BY <1>0
<1>3. \A k \in Keys : m[k] = IF k \in below /\ db.marks[k] = "none" THEN "to_be_propagated" ELSE db.marks[k]
  BY DEF InsertIgnore
<1>4. ASSUME NEW j \in below, NEW k \in Keys, ScopeBy(children, k), Counts(children, j, k), ~Exists(db.results, k)
      PROVE  Announced(new, o, j)
  <2>0. j \in Keys
    BY DEF ResultsBelow
  <2>1. j \in Keys /\ k = <<AttemptAbove(j), k[2]>> /\ k[2] \in Parents(j[2])
    BY <1>4, <2>0, OneAbove, LinksAreBy
  <2>2. j \in TopsOf(db.results, below)
    BY <1>4, <2>1 DEF TopsOf
  <2>3. db.marks[j] \in MarkStates
    BY <1>1, <2>1 DEF MarkTables
  <2>4. j \in gone \/ m[j] = "to_be_propagated"
    BY <1>3, <2>1, <2>2, <2>3 DEF Ignored, MarkStates
  <2> QED
    BY <1>2, <2>4 DEF Announced
<1>10. \A k \in Keys : Exists(db.results, k) /\ Ancestors(k[2]) \intersect gained # {} => k \in below
  BY DEF ResultsBelow
<1> HIDE DEF below, m, gone
<1>5. \A j \in Keys : Announced(db, o, j) => Announced(new, o, j)
  BY <1>2, <1>3 DEF Announced
<1>6. Aggregated(World, new, o)
  <2> SUFFICES ASSUME NEW k \in Keys, Exists(db.results, k), k[2] \notin Tasks, k[1] \notin reshaped
               PROVE  \/ \E c \in Items : c \in rescored /\ <<k[2], c>> \in children
                      \/ Awaits(World, new, o, k) \/ Overdue(World, new, o, k)
                      \/ Shown(db.results, k) = Due(children, noScore, db.results, k)
    BY <1>0, WorldFields DEF Aggregated
  <2>1. \/ \E c \in Items : c \in rescored /\ <<k[2], c>> \in children
        \/ Awaits(World, db, o, k) \/ Overdue(World, db, o, k)
        \/ Shown(db.results, k) = Due(children, noScore, db.results, k)
    BY WorldFields DEF Sound, Aggregated
  <2>2. Awaits(World, db, o, k) => Awaits(World, new, o, k)
    BY <1>2, <1>3 DEF Awaits
  <2>3. Overdue(World, db, o, k) => Overdue(World, new, o, k)
    BY <1>5, Zenon DEF Overdue
  <2> QED
    BY <2>1, <2>2, <2>3
<1>7. MissingIsNothing(World, new, o)
  <2> SUFFICES ASSUME NEW k \in Keys, NEW j \in Keys, ~Exists(db.results, k), k[1] \notin reshaped,
                      ScopeBy(children, k), k[2] \in db.visible \union gained, k[2] \notin Explicit,
                      Counts(children, j, k)
               PROVE  Shown(db.results, j) = Blank \/ Announced(new, o, j)
    BY <1>0, WorldFields DEF MissingIsNothing
  <2>1. CASE k[2] \in db.visible
    <3>1. Shown(db.results, j) = Blank \/ Announced(db, o, j)
      BY <2>1, WorldFields, Zenon DEF Sound, MissingIsNothing
    <3> QED
      BY <1>5, <3>1
  <2>2. CASE k[2] \in gained /\ Exists(db.results, j)
    <3>1. k[2] \in Ancestors(j[2])
      BY OneAbove, LinksAreBy
    <3>2. j \in below
      BY <1>10, <2>2, <3>1
    <3> QED
      BY <1>4, <3>2
  <2>3. CASE ~Exists(db.results, j)
    BY <2>3 DEF Shown
  <2> QED
    BY <2>1, <2>2, <2>3
<1>8. Earned(World, new, o)
  <2> SUFFICES ASSUME NEW d \in deps \ late, NEW k \in Keys, k[2] = d.item, Exists(db.results, k),
                      d.score <= db.results[k].score
               PROVE  \/ d.dependent \in db.grants \/ k \in new.lost
                      \/ m[k] \in {"to_be_propagated", "propagating"}
                      \/ o[k] \in {"to_be_propagated", "propagating"}
                      \/ db.results[k].activity = 0 /\ "to_be_recomputed" \in {m[k], o[k]}
    BY <1>0, WorldFields, Zenon DEF Earned
  <2>1. \/ d.dependent \in db.grants \/ k \in db.lost
        \/ db.marks[k] \in {"to_be_propagated", "propagating"}
        \/ o[k] \in {"to_be_propagated", "propagating"}
        \/ db.results[k].activity = 0 /\ "to_be_recomputed" \in {db.marks[k], o[k]}
    BY WorldFields, Zenon DEF Sound, Earned
  <2> QED
    BY <1>2, <1>3, <2>1
<1>9. InPlace(World, new.results)
  BY <1>0 DEF Sound
<1> QED
  BY <1>6, <1>7, <1>8, <1>9 DEF Sound

\* Computing the access to unlocked items.
LEMMA AccessSound ==
  ASSUME NEW db \in Dbs({}), NEW o, AcyclicBy(children), Sound(World, db, o)
  PROVE  Sound(World, Access(db), o)
<1> DEFINE gained == (db.grants \ Explicit) \ db.visible
           below == {k \in Keys : Exists(db.results, k) /\ Ancestors(k[2]) \intersect gained # {}}
           seen == db.visible \union gained
           m == InsertIgnore(db.marks, below)
           gone == db.lost \union Ignored(db.marks, TopsOf(db.results, below))
<1> SUFFICES ASSUME NEW new, new = [db EXCEPT !.visible = seen, !.marks = m, !.again = FALSE, !.lost = gone]
             PROVE  Sound(World, new, o)
  BY Zenon DEF Access
<1>1. db \in DbRecords
  BY DEF Dbs
<1>2. below = ResultsBelow(db.results, gained) /\ seen = db.visible \union gained
      /\ m = InsertIgnore(db.marks, below)
      /\ gone = db.lost \union Ignored(db.marks, TopsOf(db.results, below))
  BY Zenon DEF ResultsBelow
<1> HIDE DEF gained, below, seen, m, gone
<1>3. new.results = db.results /\ new.marks = m /\ new.grants = db.grants /\ new.visible = seen
      /\ new.lost = gone
  BY <1>1 DEF DbRecords
<1>4. Sees(new, db, gained)
  BY <1>2, <1>3, Zenon DEF Sees
<1> QED
  BY <1>4, SeenSound

-------------------------------------------------------------------------------
(* A propagation that nothing interrupts keeps the invariant.              *)

\* Tables with the rows K that keep the invariant.
SoundDbs(K, o) == {db \in Dbs(K) : Sound(World, db, o)}

\* Tables that have the rows K have tables' types.
LEMMA DbsAre ==
  ASSUME NEW K \in SUBSET Keys
  PROVE  Dbs(K) \subseteq Dbs({})
BY DEF Dbs, HasRows

\* The recomputation of all that can be, in a turn of saveGrade.
LEMMA RecomputeAllSound ==
  ASSUME NEW K \in SUBSET Keys, NEW o, NEW db \in SoundDbs(K, o)
  PROVE  RecomputeAll(db) \in SoundDbs(K, o)
<1>1. db \in Dbs(K) /\ db \in Dbs({}) /\ Sound(World, db, o)
  BY DbsAre DEF SoundDbs
<1>2. RecomputeAll(db) \in Dbs(K)
  BY <1>1, RecomputeAllTyped
<1>3. Sound(World, Recompute(db, Recomputable(db)), o)
  BY <1>1, RecomputeSound
<1>4. Sound(World, RecomputeAll(db), o)
  BY <1>1, <1>3, Zenon DEF RecomputeAll
<1> QED
  BY <1>2, <1>4 DEF SoundDbs

\* One turn of the propagation of saveGrade.
LEMMA TurnSound ==
  ASSUME NEW K \in SUBSET Keys, NEW o, NEW db \in SoundDbs(K, o), AcyclicBy(children),
         deps \subseteq Dependencies
  PROVE  Turn(db) \in SoundDbs(K, o)
<1> DEFINE marked == MarkParents(db, Marked(db, "to_be_propagated"))
           propagated == UnlockItems(marked)
           D == SoundDbs(K, o)
<1>1. db \in Dbs(K) /\ db \in Dbs({}) /\ Sound(World, db, o)
  BY DbsAre DEF SoundDbs
<1>2. Turn(db) \in Dbs(K)
  BY <1>1, TurnTyped
<1>3. marked \in Dbs(K) /\ Sound(World, marked, o)
  <2>1. Marked(db, "to_be_propagated") \subseteq {k \in Keys : Exists(db.results, k)}
    BY <1>1, MarkedExist
  <2> QED
    BY <1>1, <2>1, MarkParentsTyped, MarkParentsSound
<1> HIDE DEF marked
<1>4. propagated \in Dbs(K) /\ Sound(World, propagated, o)
  BY <1>3, DbsAre, UnlockItemsTyped, UnlockItemsSound
<1> HIDE DEF propagated
<1>5. propagated \in D /\ propagated \in Dbs({})
  BY <1>4, DbsAre DEF SoundDbs
<1>6. Sound(World, Access(propagated), o)
  BY <1>4, <1>5, AccessSound
<1>7. FoldSet(LAMBDA n, d : RecomputeAll(d), propagated, Items) \in D
  <2>1. IsFiniteSet(Items)
    BY ResultsAssumption
  <2>2. \A d \in D : RecomputeAll(d) \in D
    BY RecomputeAllSound
  <2> HIDE DEF D
  <2> QED
    BY <1>5, <2>1, <2>2, RecomputationsKeep, Zenon
<1>8. Sound(World, Turn(db), o)
  <2>1. Sound(World, FoldSet(LAMBDA n, d : RecomputeAll(d), propagated, Items), o)
    BY <1>7, Zenon DEF SoundDbs
  <2> QED
    BY <1>1, <1>4, <1>6, <2>1, Zenon DEF Turn, propagated, marked
<1> QED
  BY <1>2, <1>8 DEF SoundDbs

\* The whole propagation of saveGrade.
LEMMA SettledSound ==
  ASSUME NEW K \in SUBSET Keys, NEW o, NEW db \in SoundDbs(K, o), AcyclicBy(children),
         deps \subseteq Dependencies
  PROVE  Settled(db) \in SoundDbs(K, o)
<1> DEFINE S == 1..((Cardinality(Items) + 1) * (Cardinality(Items) + 1 + 1))
           D == SoundDbs(K, o)
<1>1. IsFiniteSet(S)
  BY TurnsFinite
<1>2. Settled(db) = FoldSet(LAMBDA n, d : Turn(d), db, S)
  BY DEF Settled
<1>3. \A d \in D : Turn(d) \in D
  BY TurnSound
<1> HIDE DEF S, D
<1>4. db \in D
  BY DEF D
<1>5. FoldSet(LAMBDA n, d : Turn(d), db, S) \in D
  BY <1>1, <1>3, <1>4, TurnsKeep, Zenon
<1> QED
  BY <1>2, <1>5 DEF D

-------------------------------------------------------------------------------
(* A propagation that nothing interrupts ends.                             *)

\* Levels of items: all of them, their parents, the parents of these and so on.
Levels(E, L) ==
  /\ L[0] = Items /\ \A n \in 1..Cardinality(Items) : L[n] = Above(E, L[n - 1])
  /\ L[Cardinality(Items)] = {}

\* Where items have no cycle, every level loses an item, and there are at most as many levels
\* as items.
LEMMA LevelsExist ==
  ASSUME NEW E, AcyclicBy(E)
  PROVE  \E L \in [0..Cardinality(Items) -> SUBSET Items] : Levels(E, L)
<1> DEFINE N == Cardinality(Items)
           step == [T \in SUBSET Items |-> Above(E, T)]
<1>1. N \in Nat /\ IsFiniteSet(Items) /\ Items \in SUBSET Items
  BY ResultsAssumption, FS_CardinalityType
<1>2. step \in [SUBSET Items -> SUBSET Items] /\ \A T \in SUBSET Items : step[T] = Above(E, T)
  BY DEF Above, ParentsBy
<1> HIDE DEF N, step
<1>3. PICK L \in [0..N -> SUBSET Items] : Iterates(L, Items, step, N)
  BY <1>1, <1>2, IterationExists
<1>4. L[0] = Items /\ \A n \in 1..N : L[n - 1] \in SUBSET Items /\ L[n] = Above(E, L[n - 1])
  BY <1>1, <1>2, <1>3 DEF Iterates
<1> DEFINE Good == {n \in Nat : n <= N => Cardinality(L[n]) <= N - n /\ (n # 0 => L[n] \subseteq L[n - 1])}
<1>5. 0 \in Good
  BY <1>1, <1>4 DEF N
<1>6. ASSUME NEW n \in Nat, n \in Good PROVE n + 1 \in Good
  <2> SUFFICES ASSUME n + 1 <= N
               PROVE  Cardinality(L[n + 1]) <= N - (n + 1) /\ L[n + 1] \subseteq L[n]
    OBVIOUS
  <2>1. Cardinality(L[n]) <= N - n /\ (n # 0 => L[n] \subseteq L[n - 1])
    BY <1>1, <1>6
  <2>2. L[n] \in SUBSET Items /\ L[n + 1] = Above(E, L[n])
    <3>1. n + 1 \in 1..N /\ (n + 1) - 1 = n
      BY <1>1
    <3> QED
      BY <1>4, <3>1
  <2>3. L[n + 1] \subseteq L[n]
    <3>1. CASE n = 0
      <4>1. L[n] = Items
        BY <1>4, <3>1
      <4>2. Above(E, L[n]) \subseteq Items
        BY DEF Above, ParentsBy
      <4> QED
        BY <2>2, <4>1, <4>2
    <3>2. CASE n # 0
      <4>1. L[n] = Above(E, L[n - 1])
        <5>1. n \in 1..N
          BY <1>1, <3>2
        <5> QED
          BY <1>4, <5>1
      <4> QED
        BY <2>1, <2>2, <3>2, <4>1 DEF Above
    <3> QED
      BY <3>1, <3>2
  <2>4. IsFiniteSet(L[n]) /\ Cardinality(L[n]) \in Nat
    BY <1>1, <2>2, FS_Subset, FS_CardinalityType
  <2>5. CASE L[n] = {}
    <3>1. L[n + 1] = {}
      BY <2>3, <2>5
    <3>2. Cardinality(L[n + 1]) = 0
      BY <3>1, FS_EmptySet
    <3> QED
      BY <1>1, <2>3, <3>2
  <2>6. CASE L[n] # {}
    <3>1. PICK i \in L[n] : \A j \in L[n] : <<i, j>> \notin E
      BY <2>2, <2>6, Zenon DEF AcyclicBy
    <3>2. i \notin L[n + 1]
      BY <2>2, <3>1 DEF Above, ParentsBy
    <3> DEFINE S == L[n]
               T == L[n + 1]
    <3>3. T \in SUBSET S /\ IsFiniteSet(S) /\ T # S
      BY <2>3, <2>4, <3>1, <3>2
    <3> HIDE DEF S, T
    <3>4. Cardinality(T) <= Cardinality(S) /\ Cardinality(T) # Cardinality(S) /\ Cardinality(T) \in Nat
      BY <3>3, FS_Subset, FS_CardinalityType
    <3> QED
      BY <1>1, <2>1, <2>3, <2>4, <3>4 DEF S, T
  <2> QED
    BY <2>5, <2>6
<1> HIDE DEF Good
<1>7. N \in Good
  BY <1>1, <1>5, <1>6, Induction
<1>8. L[N] \in SUBSET Items /\ Cardinality(L[N]) <= 0
  <2>1. N <= N => Cardinality(L[N]) <= N - N
    BY <1>7 DEF Good
  <2>2. L[N] \in SUBSET Items
    BY <1>1, <1>3
  <2> QED
    BY <1>1, <2>1, <2>2
<1>9. L[N] = {}
  BY <1>1, <1>8, FS_Subset, FS_CardinalityType, FS_EmptySet
<1> QED
  BY <1>3, <1>4, <1>9 DEF Levels, N

\* The items whose results are marked, and the marks that there are.
MarkedIn(m, state, T) == \A k \in Keys : m[k] = state => k[2] \in T
MarksAmong(m, states) == \A k \in Keys : m[k] \in states

\* A round of recomputations leaves marks to be recomputed one level up only, and marks no
\* item more.
LEMMA RecomputeAllClears ==
  ASSUME NEW K \in SUBSET Keys, NEW db \in Dbs(K), NEW T, NEW X,
         MarksAmong(db.marks, {"none", "to_be_propagated", "to_be_recomputed"}),
         MarkedIn(db.marks, "to_be_propagated", X), MarkedIn(db.marks, "to_be_recomputed", X \intersect T),
         NEW new, new = RecomputeAll(db)
  PROVE  /\ MarksAmong(new.marks, {"none", "to_be_propagated", "to_be_recomputed"})
         /\ MarkedIn(new.marks, "to_be_propagated", X)
         /\ MarkedIn(new.marks, "to_be_recomputed", X \intersect Above(children, T))
         /\ new.grants = db.grants /\ new.again = db.again
<1> DEFINE rows == Recomputable(db)
<1>1. rows \in SUBSET Keys /\ \A k \in rows : db.marks[k] = "to_be_recomputed"
  BY DEF Recomputable, Marked
<1>2. \A k \in Keys : db.marks[k] = "to_be_recomputed" /\ k \notin rows => k[2] \in Above(children, T)
  <2> SUFFICES ASSUME NEW k \in Keys, db.marks[k] = "to_be_recomputed", k \notin rows
               PROVE  k[2] \in Above(children, T)
    OBVIOUS
  <2>1. PICK j \in Marked(db, "to_be_recomputed") : j[2] \in Children(k[2])
    BY DEF Recomputable, Marked
  <2>2. j[2] \in T
    BY <2>1 DEF Marked, MarkedIn
  <2>3. k[2] \in Items
    BY KeysAre
  <2> QED
    BY <2>1, <2>2, <2>3 DEF Above, ParentsBy, Children
<1>3. CASE rows = {}
  <2>1. new = db
    BY <1>3, Zenon DEF RecomputeAll
  <2> QED
    BY <1>2, <1>3, <2>1 DEF MarkedIn
<1>4. CASE rows # {}
  <2>1. new = Recompute(db, rows)
    BY <1>4, Zenon DEF RecomputeAll
  <2> DEFINE res == [k \in Keys |-> IF k \in rows THEN Aggregate(db.results, k) ELSE db.results[k]]
             m == [k \in Keys |-> IF k \notin rows THEN db.marks[k]
                                  ELSE IF Modified(db.results[k], res[k])
                                  THEN "to_be_propagated" ELSE "none"]
  <2>2. new = [db EXCEPT !.results = res, !.marks = m]
    BY <2>1, Zenon DEF Recompute
  <2>3. \A k \in Keys : IF k \in rows THEN m[k] \in {"to_be_propagated", "none"} ELSE m[k] = db.marks[k]
    OBVIOUS
  <2> HIDE DEF res, m, rows
  <2>4. new.marks = m /\ new.grants = db.grants /\ new.again = db.again
    BY <2>2 DEF Dbs, DbRecords
  <2> QED
    BY <1>1, <1>2, <2>3, <2>4 DEF MarkedIn, MarksAmong
<1> QED
  BY <1>3, <1>4

\* Tables that a number of rounds of recomputations may make of db, whose marks to be recomputed
\* are at items of X: there are such marks at items of T only.
ClearedFor(K, db, X, T) ==
  {d \in Dbs(K) : /\ MarksAmong(d.marks, {"none", "to_be_propagated", "to_be_recomputed"})
                  /\ MarkedIn(d.marks, "to_be_propagated", X)
                  /\ MarkedIn(d.marks, "to_be_recomputed", X \intersect T)
                  /\ d.grants = db.grants /\ d.again = db.again}

\* As many rounds as there are items clear the marks to be recomputed.
LEMMA RecomputationsClear ==
  ASSUME NEW K \in SUBSET Keys, NEW X, NEW db, db \in ClearedFor(K, db, X, Items), AcyclicBy(children)
  PROVE  FoldSet(LAMBDA n, d : RecomputeAll(d), db, Items) \in ClearedFor(K, db, X, {})
<1> DEFINE N == Cardinality(Items)
<1>1. N \in Nat /\ IsFiniteSet(Items)
  BY ResultsAssumption, FS_CardinalityType
<1>2. PICK L \in [0..N -> SUBSET Items] : Levels(children, L)
  BY LevelsExist
<1> DEFINE T == [n \in Nat |-> IF n <= N THEN L[n] ELSE Items]
           D == [n \in Nat |-> ClearedFor(K, db, X, T[n])]
<1>3. T[0] = Items /\ T[N] = {}
  BY <1>1, <1>2 DEF Levels
<1>4. \A n \in Nat : T[n] \subseteq Items /\ (Above(children, T[n]) \subseteq T[n + 1] \/ T[n + 1] = Items)
  <2> SUFFICES ASSUME NEW n \in Nat
               PROVE  T[n] \subseteq Items /\ (Above(children, T[n]) \subseteq T[n + 1] \/ T[n + 1] = Items)
    OBVIOUS
  <2>1. CASE n + 1 <= N
    <3>1. n + 1 \in 1..N /\ (n + 1) - 1 = n /\ n \in 0..N
      BY <1>1, <2>1
    <3>2. L[n + 1] = Above(children, L[n])
      BY <1>2, <3>1 DEF Levels
    <3> QED
      BY <1>1, <1>2, <2>1, <3>1, <3>2
  <2>2. CASE ~(n + 1 <= N)
    BY <1>1, <1>2, <2>2
  <2> QED
    BY <2>1, <2>2
<1> HIDE DEF T, N
<1>5. \A n \in Nat : D[n] = ClearedFor(K, db, X, T[n])
  OBVIOUS
<1> HIDE DEF D
<1>6. ASSUME NEW n \in Nat, NEW d \in D[n] PROVE RecomputeAll(d) \in D[n + 1]
  <2>1. d \in ClearedFor(K, db, X, T[n])
    BY <1>5, <1>6
  <2>2. d \in Dbs(K) /\ RecomputeAll(d) \in Dbs(K) /\ d.grants = db.grants /\ d.again = db.again
    BY <2>1, RecomputeAllTyped DEF ClearedFor
  <2> DEFINE e == RecomputeAll(d)
  <2>3. /\ MarksAmong(e.marks, {"none", "to_be_propagated", "to_be_recomputed"})
        /\ MarkedIn(e.marks, "to_be_propagated", X)
        /\ MarkedIn(e.marks, "to_be_recomputed", X \intersect Above(children, T[n]))
        /\ e.grants = db.grants /\ e.again = db.again
    <3>1. /\ MarksAmong(d.marks, {"none", "to_be_propagated", "to_be_recomputed"})
          /\ MarkedIn(d.marks, "to_be_propagated", X)
          /\ MarkedIn(d.marks, "to_be_recomputed", X \intersect T[n])
      BY <2>1 DEF ClearedFor
    <3> QED
      BY <2>2, <3>1, RecomputeAllClears
  <2> HIDE DEF e
  <2>4. Above(children, T[n]) \subseteq Items
    BY DEF Above, ParentsBy
  <2>5. Above(children, T[n]) \subseteq T[n + 1]
    BY <1>4, <2>4
  <2>6. MarkedIn(e.marks, "to_be_recomputed", X \intersect T[n + 1])
    BY <2>3, <2>5 DEF MarkedIn
  <2>7. e \in ClearedFor(K, db, X, T[n + 1])
    BY <2>2, <2>3, <2>6 DEF ClearedFor, e
  <2>8. n + 1 \in Nat
    OBVIOUS
  <2>9. e \in D[n + 1]
    BY <1>5, <2>7, <2>8
  <2> QED
    BY <2>9 DEF e
<1>7. db \in D[0]
  BY <1>3, <1>5
<1>8. FoldSet(LAMBDA n, d : RecomputeAll(d), db, Items) \in D[N]
  <2>1. N = Cardinality(Items)
    BY DEF N
  <2> QED
    BY <1>1, <1>6, <1>7, <2>1, RecomputationsReach, Zenon
<1>9. D[N] = ClearedFor(K, db, X, {})
  BY <1>1, <1>3, <1>5
<1> QED
  BY <1>8, <1>9, Zenon

\* The propagation of db has ended.
Ended(d) == d.marks = NoMarks /\ ~d.again
\* It has not after n turns, and they were few: the last of g unlockings, of an item each at
\* least, was h turns ago, and each turn goes up a level.
Underway(L, d, n) ==
  \E h \in 0..Cardinality(Items), g \in 0..Cardinality(d.grants) :
    /\ MarksAmong(d.marks, {"none", "to_be_propagated"}) /\ MarkedIn(d.marks, "to_be_propagated", L[h])
    /\ d.again => g < Cardinality(d.grants)
    /\ n <= (Cardinality(Items) + 1) * g + h

\* A turn propagates its marks to the items above, and unlocks items or not.
LEMMA TurnPropagates ==
  ASSUME NEW K \in SUBSET Keys, NEW db \in Dbs(K), deps \subseteq Dependencies, NEW T,
         MarksAmong(db.marks, {"none", "to_be_propagated"}), MarkedIn(db.marks, "to_be_propagated", T),
         NEW new, new = UnlockItems(MarkParents(db, Marked(db, "to_be_propagated")))
  PROVE  /\ new \in Dbs(K)
         /\ MarksAmong(new.marks, {"none", "to_be_recomputed"})
         /\ MarkedIn(new.marks, "to_be_recomputed", Above(children, T))
         /\ db.grants \subseteq new.grants
         /\ new.again => db.again \/ new.grants # db.grants
<1> DEFINE chunk == Marked(db, "to_be_propagated")
           marked == MarkParents(db, chunk)
<1>1. marked \in Dbs(K)
  BY MarkedExist, MarkParentsTyped
<1>2. new \in Dbs(K)
  BY <1>1, UnlockItemsTyped
<1>3. /\ marked.grants = db.grants /\ marked.again = db.again
      /\ MarksAmong(marked.marks, {"none", "propagating", "to_be_recomputed"})
      /\ MarkedIn(marked.marks, "to_be_recomputed", Above(children, T))
  <2> DEFINE m == [k \in Keys |-> IF k \in chunk THEN "propagating" ELSE db.marks[k]]
             P == {j \in Keys : m[j] = "propagating"}
             above == UNION {{<<AttemptAbove(k), p>> : p \in Parents(k[2])} : k \in P}
             toMark == {q \in above : IF Exists(db.results, q) THEN m[q] # "to_be_recomputed"
                                      ELSE MayBeCreated(db, q)}
             missing == {q \in toMark : ~Exists(db.results, q)}
             res == [q \in Keys |-> IF q \in missing THEN NewResult ELSE db.results[q]]
             after == SetToBeRecomputed(m, toMark)
             gone == (db.lost \ P) \union Overwritten(m, toMark)
  <2> HIDE DEF marked
  <2>1. marked = [db EXCEPT !.results = res, !.marks = after, !.lost = gone]
    BY Zenon DEF MarkParents, marked
  <2>2. \A k \in Keys : /\ m[k] = IF db.marks[k] = "to_be_propagated" THEN "propagating" ELSE db.marks[k]
                        /\ k \in P <=> m[k] = "propagating"
                        /\ after[k] = IF k \in toMark THEN "to_be_recomputed" ELSE m[k]
    BY DEF SetToBeRecomputed, Marked
  <2>3. \A q \in toMark : \E k \in P : q[2] \in Parents(k[2])
    OBVIOUS
  <2> HIDE DEF res, m, P, toMark, missing, gone, after
  <2>4. marked.marks = after /\ marked.grants = db.grants /\ marked.again = db.again
    BY <2>1 DEF Dbs, DbRecords
  <2>5. \A k \in Keys : db.marks[k] \in {"none", "to_be_propagated"} /\ m[k] \in {"none", "propagating"}
    BY <2>2 DEF MarksAmong
  <2>6. \A k \in Keys : k \in P => k[2] \in T
    BY <2>2, <2>5 DEF MarkedIn
  <2>7. \A q \in toMark : q[2] \in Above(children, T)
    <3> SUFFICES ASSUME NEW q \in toMark
                 PROVE  q[2] \in Above(children, T)
      OBVIOUS
    <3>1. PICK k \in P : q[2] \in Parents(k[2])
      BY <2>3
    <3>2. k[2] \in T
      BY <2>6, <3>1 DEF P
    <3> QED
      BY <3>1, <3>2, LinksAreBy DEF Above
  <2>8. MarksAmong(after, {"none", "propagating", "to_be_recomputed"})
    BY <2>2, <2>5 DEF MarksAmong
  <2>9. MarkedIn(after, "to_be_recomputed", Above(children, T))
    BY <2>2, <2>5, <2>7 DEF MarkedIn
  <2> QED
    BY <2>4, <2>8, <2>9
<1>4. new = UnlockItems(marked)
  OBVIOUS
<1> HIDE DEF marked
<1> DEFINE earned == {d.dependent : d \in {e \in deps : \E k \in Keys :
                        /\ marked.marks[k] = "propagating" /\ k[2] = e.item
                        /\ e.score <= marked.results[k].score}} \ marked.grants
           items == marked.grants \union earned
           b == marked.again \/ earned # {}
           m == Unmark(marked.marks)
<1>5. new = [marked EXCEPT !.grants = items, !.marks = m, !.again = b]
  BY <1>4, Zenon DEF UnlockItems
<1>6. \A k \in Keys : m[k] = IF marked.marks[k] = "propagating" THEN "none" ELSE marked.marks[k]
  BY DEF Unmark
<1>7. marked.grants \subseteq items /\ (b => marked.again \/ items # marked.grants)
  OBVIOUS
<1> HIDE DEF earned, items, b, m
<1>8. new.grants = items /\ new.marks = m /\ new.again = b
  BY <1>1, <1>5 DEF Dbs, DbRecords
<1>9. MarksAmong(m, {"none", "to_be_recomputed"}) /\ MarkedIn(m, "to_be_recomputed", Above(children, T))
  BY <1>3, <1>6 DEF MarksAmong, MarkedIn
<1> QED
  BY <1>2, <1>3, <1>7, <1>8, <1>9

\* What a turn makes of a propagation that has not ended.
LEMMA TurnGoesOn ==
  ASSUME NEW K \in SUBSET Keys, NEW db \in Dbs(K), deps \subseteq Dependencies, AcyclicBy(children),
         NEW L \in [0..Cardinality(Items) -> SUBSET Items], Levels(children, L),
         NEW n \in Nat, Underway(L, db, n)
  PROVE  Ended(Turn(db)) \/ Underway(L, Turn(db), n + 1)
<1> DEFINE N == Cardinality(Items)
           after == UnlockItems(MarkParents(db, Marked(db, "to_be_propagated")))
           G == Cardinality(db.grants)
           H == Cardinality(after.grants)
<1>1. N \in Nat /\ IsFiniteSet(Items)
  BY ResultsAssumption, FS_CardinalityType
<1>2. PICK h \in 0..N, g \in 0..G :
        /\ MarksAmong(db.marks, {"none", "to_be_propagated"}) /\ MarkedIn(db.marks, "to_be_propagated", L[h])
        /\ db.again => g < G
        /\ n <= (N + 1) * g + h
  BY DEF Underway
<1>3. /\ after \in Dbs(K)
      /\ MarksAmong(after.marks, {"none", "to_be_recomputed"})
      /\ MarkedIn(after.marks, "to_be_recomputed", Above(children, L[h]))
      /\ db.grants \subseteq after.grants
      /\ after.again => db.again \/ after.grants # db.grants
  BY <1>2, TurnPropagates
<1>4. after.grants \in SUBSET Items /\ after.again \in BOOLEAN /\ after.marks \in MarkTables
  <2> HIDE DEF after
  <2> QED
    BY <1>3 DEF Dbs, DbRecords
<1>5. G \in Nat /\ H \in Nat /\ G <= H /\ g \in 0..H /\ (after.again => g < H)
  <2> DEFINE S == after.grants
             R == db.grants
  <2>1. S \in SUBSET Items /\ R \in SUBSET S /\ (after.again => db.again \/ S # R)
    BY <1>3, <1>4
  <2> HIDE DEF S, R
  <2>2. IsFiniteSet(S) /\ IsFiniteSet(R) /\ Cardinality(S) \in Nat /\ Cardinality(R) \in Nat
        /\ Cardinality(R) <= Cardinality(S) /\ (S # R => Cardinality(R) < Cardinality(S))
    <3>1. IsFiniteSet(S)
      BY <1>1, <2>1, FS_Subset
    <3>2. IsFiniteSet(R) /\ Cardinality(R) <= Cardinality(S)
          /\ (Cardinality(R) = Cardinality(S) => R = S)
      BY <2>1, <3>1, FS_Subset
    <3> QED
      BY <3>1, <3>2, FS_CardinalityType
  <2> QED
    BY <1>2, <2>1, <2>2 DEF S, R
<1> HIDE DEF G, H
<1>6. CASE after.marks # NoMarks
  <2> DEFINE fold == FoldSet(LAMBDA k, d : RecomputeAll(d), after, Items)
  <2>1. PICK k \in Keys : after.marks[k] # "none"
    BY <1>4, <1>6 DEF NoMarks, MarkTables
  <2>2. k[2] \in Above(children, L[h])
    BY <1>3, <2>1 DEF MarksAmong, MarkedIn
  <2>3. h + 1 \in 1..N /\ (h + 1) - 1 = h
    <3>1. h # N
      BY <2>2 DEF Levels, Above
    <3> QED
      BY <1>1, <3>1
  <2>4. L[h + 1] = Above(children, L[h])
    BY <2>3 DEF Levels
  <2>5. after \in ClearedFor(K, after, L[h + 1], Items)
    <3>1. \A j \in Keys : j[2] \in Items
      BY KeysAre
    <3> HIDE DEF after
    <3> QED
      BY <1>3, <2>4, <3>1 DEF ClearedFor, MarksAmong, MarkedIn
  <2>6. fold \in ClearedFor(K, after, L[h + 1], {})
    <3> HIDE DEF after
    <3> QED
      BY <2>5, RecomputationsClear, Zenon
  <2>7. Turn(db) = fold
    <3>1. ~(db.marks = NoMarks /\ ~db.again)
      <4> SUFFICES ASSUME db.marks = NoMarks
                   PROVE  FALSE
        OBVIOUS
      <4>1. MarkedIn(db.marks, "to_be_propagated", {})
        BY DEF MarkedIn, NoMarks
      <4>2. MarkedIn(after.marks, "to_be_recomputed", Above(children, {}))
        BY <1>2, <4>1, TurnPropagates
      <4> QED
        BY <1>3, <2>1, <4>2 DEF MarksAmong, MarkedIn, Above
    <3> QED
      BY <1>6, <3>1, Zenon DEF Turn
  <2> HIDE DEF fold
  <2>8. fold.grants = after.grants /\ fold.again = after.again
        /\ MarksAmong(fold.marks, {"none", "to_be_propagated"})
        /\ MarkedIn(fold.marks, "to_be_propagated", L[h + 1])
    BY <2>6 DEF ClearedFor, MarksAmong, MarkedIn
  <2>9. n + 1 <= (N + 1) * g + (h + 1)
    <3> DEFINE x == (N + 1) * g
    <3>1. x \in Nat /\ n <= x + h
      BY <1>1, <1>2
    <3> HIDE DEF x, N
    <3> QED
      BY <3>1 DEF x
  <2>10. Underway(L, fold, n + 1)
    <3>1. h + 1 \in 0..N
      BY <2>3
    <3>2. g \in 0..Cardinality(fold.grants) /\ (fold.again => g < Cardinality(fold.grants))
      BY <1>5, <2>8 DEF H
    <3> QED
      BY <2>8, <2>9, <3>1, <3>2 DEF Underway
  <2> QED
    BY <2>7, <2>10
<1>7. CASE after.marks = NoMarks /\ after.again
  <2> DEFINE seen == Access(after)
  <2>1. Turn(db) = seen \/ (Turn(db) = db /\ db.marks = NoMarks /\ ~db.again)
    BY <1>7, Zenon DEF Turn
  <2>2. seen.grants = after.grants /\ seen.again = FALSE /\ MarksAmong(seen.marks, {"none", "to_be_propagated"})
    <3> DEFINE gained == (after.grants \ Explicit) \ after.visible
               below == {k \in Keys : Exists(after.results, k) /\ Ancestors(k[2]) \intersect gained # {}}
               vis == after.visible \union gained
               m == InsertIgnore(after.marks, below)
               gone == after.lost \union Ignored(after.marks, TopsOf(after.results, below))
    <3> HIDE DEF after, seen
    <3>1. seen = [after EXCEPT !.visible = vis, !.marks = m, !.again = FALSE, !.lost = gone]
      BY Zenon DEF Access, seen
    <3>2. \A k \in Keys : m[k] \in {"none", "to_be_propagated"}
      BY <1>7 DEF InsertIgnore, NoMarks
    <3> HIDE DEF m, vis, gone
    <3> QED
      BY <1>3, <3>1, <3>2 DEF Dbs, DbRecords, MarksAmong
  <2> HIDE DEF seen
  <2>3. 0 \in 0..N /\ g + 1 \in 0..H /\ g \in Nat
    BY <1>1, <1>5, <1>7
  <2>4. n + 1 <= (N + 1) * (g + 1) + 0
    <3> DEFINE x == (N + 1) * g
    <3>1. n <= x + h
      BY <1>2
    <3>2. h \in 0..N
      OBVIOUS
    <3> HIDE DEF x, N
    <3>3. x \in Nat /\ (N + 1) * (g + 1) = x + (N + 1)
      BY <1>1, <2>3 DEF x
    <3> QED
      BY <1>1, <3>1, <3>2, <3>3
  <2>5. MarkedIn(seen.marks, "to_be_propagated", L[0])
    BY KeysAre DEF Levels, MarkedIn
  <2>6. Underway(L, seen, n + 1)
    <3>1. g + 1 \in 0..Cardinality(seen.grants)
      BY <2>2, <2>3 DEF H
    <3> HIDE DEF N
    <3> QED
      BY <2>2, <2>3, <2>4, <2>5, <3>1 DEF Underway, N
  <2> QED
    BY <2>1, <2>6 DEF Ended
<1>8. CASE after.marks = NoMarks /\ ~after.again
  <2>1. Turn(db) = after \/ (Turn(db) = db /\ db.marks = NoMarks /\ ~db.again)
    BY <1>8, Zenon DEF Turn
  <2> HIDE DEF after
  <2> QED
    BY <1>8, <2>1 DEF Ended
<1> QED
  BY <1>6, <1>7, <1>8

\* The propagation of saveGrade: whatever is marked to be propagated, at most
\* (N + 1) * (N + 2) turns, N the number of items, leave nothing marked, when no item is its
\* own ancestor.
THEOREM SettledEnds ==
  ASSUME NEW K \in SUBSET Keys, NEW db \in Dbs(K), deps \subseteq Dependencies, AcyclicBy(children),
         MarksAmong(db.marks, {"none", "to_be_propagated"}), ~db.again
  PROVE  Settled(db).marks = NoMarks
<1> DEFINE N == Cardinality(Items)
           turns == (N + 1) * (N + 1 + 1)
           S == 1..turns
<1>1. N \in Nat /\ IsFiniteSet(Items)
  BY ResultsAssumption, FS_CardinalityType
<1>2. PICK L \in [0..N -> SUBSET Items] : Levels(children, L)
  BY LevelsExist
<1> DEFINE D == [n \in Nat |-> {d \in Dbs(K) : Ended(d) \/ Underway(L, d, n)}]
<1>3. \A n \in Nat : \A d : d \in D[n] <=> d \in Dbs(K) /\ (Ended(d) \/ Underway(L, d, n))
  OBVIOUS
<1> HIDE DEF D
<1>4. db \in D[0]
  <2>1. MarkedIn(db.marks, "to_be_propagated", L[0])
    BY <1>2, KeysAre DEF Levels, MarkedIn
  <2>2. IsFiniteSet(db.grants)
    BY <1>1, FS_Subset DEF Dbs, DbRecords
  <2>3. 0 \in 0..N /\ 0 \in 0..Cardinality(db.grants)
    BY <1>1, <2>2, FS_CardinalityType
  <2>4. 0 <= (N + 1) * 0 + 0
    BY <1>1
  <2>5. Underway(L, db, 0)
    BY <2>1, <2>3, <2>4 DEF Underway
  <2> QED
    BY <1>3, <2>5
<1>5. ASSUME NEW n \in Nat, NEW d \in D[n] PROVE Turn(d) \in D[n + 1]
  <2>1. d \in Dbs(K) /\ (Ended(d) \/ Underway(L, d, n))
    BY <1>3, <1>5
  <2>2. Turn(d) \in Dbs(K)
    BY <2>1, TurnTyped
  <2>3. Ended(Turn(d)) \/ Underway(L, Turn(d), n + 1)
    <3>1. CASE Ended(d)
      <4>1. Turn(d) = d
        BY <3>1, Zenon DEF Turn, Ended
      <4> QED
        BY <3>1, <4>1
    <3>2. CASE Underway(L, d, n)
      BY <1>2, <2>1, <3>2, TurnGoesOn
    <3> QED
      BY <2>1, <3>1, <3>2
  <2> DEFINE e == Turn(d)
  <2> HIDE DEF e
  <2>4. n + 1 \in Nat
    OBVIOUS
  <2>5. e \in D[n + 1]
    BY <1>3, <2>2, <2>3, <2>4 DEF e
  <2> QED
    BY <2>5 DEF e
<1>6. turns \in Nat /\ IsFiniteSet(S) /\ Cardinality(S) = turns
  BY TurnsFinite
<1>7. Settled(db) = FoldSet(LAMBDA n, d : Turn(d), db, S)
  BY Zenon DEF Settled
<1> HIDE DEF S
<1>8. Settled(db) \in D[turns]
  BY <1>4, <1>5, <1>6, <1>7, TurnsReach, Zenon
<1>9. ASSUME NEW d \in D[turns] PROVE Ended(d)
  <2>1. d \in Dbs(K) /\ (Ended(d) \/ Underway(L, d, turns))
    BY <1>3, <1>6, <1>9
  <2> SUFFICES ASSUME Underway(L, d, turns)
               PROVE  FALSE
    BY <2>1
  <2>2. PICK h \in 0..N, g \in 0..Cardinality(d.grants) : turns <= (N + 1) * g + h
    BY DEF Underway
  <2>3. Cardinality(d.grants) \in Nat /\ Cardinality(d.grants) <= N
    BY <1>1, <2>1, FS_Subset, FS_CardinalityType DEF Dbs, DbRecords
  <2>4. g \in Nat /\ g <= N /\ h \in Nat /\ h <= N
    BY <1>1, <2>3
  <2> HIDE DEF N
  <2>5. (N + 1) * g <= (N + 1) * N
    BY <1>1, <2>4
  <2>6. (N + 1) * (N + 1 + 1) = (N + 1) * N + (N + 1) + (N + 1)
    BY <1>1
  <2> DEFINE x == (N + 1) * N
             y == (N + 1) * g
  <2>7. x \in Nat /\ y \in Nat /\ y <= x /\ x + (N + 1) + (N + 1) <= y + h
    BY <1>1, <2>2, <2>4, <2>5, <2>6
  <2> HIDE DEF x, y
  <2> QED
    BY <1>1, <2>4, <2>7
<1> QED
  BY <1>8, <1>9, Zenon DEF Ended

-------------------------------------------------------------------------------
(* What the services write keeps the invariant.                            *)

\* Tables whose results, marks and visible items are the same.
SameRows(new, db) ==
  /\ new.results = db.results /\ new.marks = db.marks /\ new.visible = db.visible /\ new.lost = db.lost
  /\ db.grants \subseteq new.grants
\* Tables of services that ask for no less to be recomputed, and have no dependency more
\* but those that were applied to db.
NoLessAsked(v, w, db) ==
  /\ v.children = w.children /\ v.noScore = w.noScore /\ v.rescored = w.rescored
  /\ v.reshaped = w.reshaped
  /\ \A k \in Keys : Exists(db.results, k) /\ w.recompute[k[2]] # "none"
                     => v.recompute[k[2]] # "none" \/ db.marks[k] = "to_be_recomputed"
  /\ \A d \in v.deps \ v.late :
       \/ d \in w.deps \ w.late
       \/ \A k \in Keys : k[2] = d.item /\ Exists(db.results, k) /\ d.score <= db.results[k].score
                          => d.dependent \in db.grants

\* Steps that leave the results and their marks keep the invariant.
LEMMA SameRowsSound ==
  ASSUME NEW w, NEW v, NEW db, NEW new, NEW o, SameRows(new, db), NoLessAsked(v, w, new), Sound(w, db, o)
  PROVE  Sound(v, new, o)
<1>1. /\ new.results = db.results /\ new.marks = db.marks /\ new.visible = db.visible
      /\ new.lost = db.lost /\ db.grants \subseteq new.grants
  BY DEF SameRows
<1>2. /\ v.children = w.children /\ v.noScore = w.noScore /\ v.rescored = w.rescored
      /\ v.reshaped = w.reshaped
  BY DEF NoLessAsked
<1>3. \A j : Announced(db, o, j) <=> Announced(new, o, j)
  BY <1>1 DEF Announced
<1>4. Aggregated(v, new, o)
  <2> SUFFICES ASSUME NEW k \in Keys, Exists(db.results, k), k[2] \notin Tasks, k[1] \notin w.reshaped
               PROVE  \/ \E c \in Items : c \in w.rescored /\ <<k[2], c>> \in w.children
                      \/ Awaits(v, new, o, k) \/ Overdue(v, new, o, k)
                      \/ Shown(db.results, k) = Due(w.children, w.noScore, db.results, k)
    BY <1>1, <1>2, Zenon DEF Aggregated
  <2>1. \/ \E c \in Items : c \in w.rescored /\ <<k[2], c>> \in w.children
        \/ Awaits(w, db, o, k) \/ Overdue(w, db, o, k)
        \/ Shown(db.results, k) = Due(w.children, w.noScore, db.results, k)
    BY Zenon DEF Sound, Aggregated
  <2>2. Awaits(w, db, o, k) => Awaits(v, new, o, k)
    BY <1>1 DEF Awaits, NoLessAsked
  <2>3. Overdue(w, db, o, k) => Overdue(v, new, o, k)
    BY <1>2, <1>3, Zenon DEF Overdue
  <2> QED
    BY <2>1, <2>2, <2>3
<1>5. MissingIsNothing(v, new, o)
  BY <1>1, <1>2, <1>3, Zenon DEF Sound, MissingIsNothing
<1>6. Earned(v, new, o)
  <2> SUFFICES ASSUME NEW d \in v.deps \ v.late, NEW k \in Keys, k[2] = d.item, Exists(db.results, k),
                      d.score <= db.results[k].score, d.dependent \notin new.grants
               PROVE  \/ k \in db.lost
                      \/ db.marks[k] \in {"to_be_propagated", "propagating"}
                      \/ o[k] \in {"to_be_propagated", "propagating"}
                      \/ db.results[k].activity = 0 /\ "to_be_recomputed" \in {db.marks[k], o[k]}
    BY <1>1, Zenon DEF Earned
  <2>1. d \in w.deps \ w.late
    BY <1>1, Zenon DEF NoLessAsked
  <2> QED
    BY <1>1, <2>1, Zenon DEF Sound, Earned
<1>7. InPlace(v, new.results)
  BY <1>1, <1>2, Zenon DEF Sound, InPlace
<1> QED
  BY <1>4, <1>5, <1>6, <1>7 DEF Sound

\* The two tables of marks play the same part.
LEMMA MarksSwapped ==
  ASSUME NEW w, NEW db, NEW new, NEW o, NEW p,
         new.results = db.results, new.visible = db.visible, new.lost = db.lost, new.grants = db.grants,
         new.marks = o, p = db.marks, Sound(w, db, o)
  PROVE  Sound(w, new, p)
<1>1. \A j : Announced(db, o, j) <=> Announced(new, p, j)
  BY DEF Announced
<1>2. \A k : Awaits(w, db, o, k) <=> Awaits(w, new, p, k)
  BY DEF Awaits
<1>3. \A k : Overdue(w, db, o, k) <=> Overdue(w, new, p, k)
  BY <1>1, Zenon DEF Overdue
<1>4. Aggregated(w, new, p)
  BY <1>2, <1>3, Zenon DEF Sound, Aggregated
<1>5. MissingIsNothing(w, new, p)
  BY <1>1, Zenon DEF Sound, MissingIsNothing
<1>6. Earned(w, new, p)
  <2> SUFFICES ASSUME NEW d \in w.deps \ w.late, NEW k \in Keys, k[2] = d.item, Exists(db.results, k),
                      d.score <= db.results[k].score
               PROVE  \/ d.dependent \in db.grants \/ k \in db.lost
                      \/ new.marks[k] \in {"to_be_propagated", "propagating"}
                      \/ p[k] \in {"to_be_propagated", "propagating"}
                      \/ db.results[k].activity = 0 /\ "to_be_recomputed" \in {new.marks[k], p[k]}
    BY Zenon DEF Earned
  <2>1. \/ d.dependent \in db.grants \/ k \in db.lost
        \/ db.marks[k] \in {"to_be_propagated", "propagating"}
        \/ o[k] \in {"to_be_propagated", "propagating"}
        \/ db.results[k].activity = 0 /\ "to_be_recomputed" \in {db.marks[k], o[k]}
    BY Zenon DEF Sound, Earned
  <2> QED
    BY <2>1
<1>7. InPlace(w, new.results)
  BY Zenon DEF Sound
<1> QED
  BY <1>4, <1>5, <1>6, <1>7 DEF Sound

\* The tables are those of db, after the rows of K were added or their activity moved, and
\* they were marked.
Touches(new, db, K) ==
  /\ new.grants = db.grants /\ new.visible = db.visible /\ db.lost \subseteq new.lost
  /\ new.marks = InsertIgnore(db.marks, K)
  /\ \A k \in Keys : IF k \notin K THEN new.results[k] = db.results[k]
                     ELSE /\ Exists(new.results, k) /\ new.results[k].activity # 0
                          /\ Shown(new.results, k) = Shown(db.results, k)
\* A mark to be recomputed of a row that shows what was not counted yet is not in the way.
NothingHidden(new, db, K) ==
  \A k \in K : db.marks[k] = "to_be_recomputed" => k \in new.lost \/ db.results[k].activity # 0
\* New rows are in place, and there is nothing below them, or they are of visible items.
NewInPlace(new, db, K) ==
  \A k \in K : ~Exists(db.results, k) =>
    /\ k[1] \in reshaped \/ ScopeBy(children, k)
    /\ AttemptIn(new.results, k[1]) /\ (k[1] # 0 => AttemptIn(new.results, ParentAttempt[k[1]]))
    /\ \/ k[2] \in db.visible \ Explicit
       \/ \A j \in Keys : Counts(children, j, k) => ~Exists(db.results, j)

\* Started results, and tasks whose activity moves, keep the invariant.
LEMMA TouchedSound ==
  ASSUME NEW db \in Dbs({}), NEW new, NEW o, NEW K \in SUBSET Keys,
         Touches(new, db, K), NothingHidden(new, db, K), NewInPlace(new, db, K), Sound(World, db, o)
  PROVE  Sound(World, new, o)
<1>1. /\ new.grants = db.grants /\ new.visible = db.visible /\ db.lost \subseteq new.lost
      /\ new.marks = InsertIgnore(db.marks, K)
  BY Zenon DEF Touches
<1>2. \A k \in Keys : new.marks[k] = IF k \in K /\ db.marks[k] = "none" THEN "to_be_propagated" ELSE db.marks[k]
  BY <1>1 DEF InsertIgnore
<1>3. \A k \in Keys : IF k \notin K THEN new.results[k] = db.results[k]
                      ELSE /\ Exists(new.results, k) /\ new.results[k].activity # 0
                           /\ Shown(new.results, k) = Shown(db.results, k)
  BY Zenon DEF Touches
<1>4. \A k \in Keys : Shown(new.results, k) = Shown(db.results, k)
                      /\ (Exists(db.results, k) => Exists(new.results, k))
                      /\ (Exists(new.results, k) => Exists(db.results, k) \/ k \in K)
  BY <1>3 DEF Shown, Exists
<1>5. \A j : Announced(db, o, j) /\ j \in Keys => Announced(new, o, j)
  BY <1>1, <1>2 DEF Announced
<1>6. \A k \in Keys : Due(children, noScore, new.results, k) = Due(children, noScore, db.results, k)
  BY <1>4, DueAgrees
<1>7. MarksOfRows(db.marks, db.results)
  BY DEF Dbs
<1>8. Aggregated(World, new, o)
  <2> SUFFICES ASSUME NEW k \in Keys, Exists(new.results, k), k[2] \notin Tasks, k[1] \notin reshaped
               PROVE  \/ \E c \in Items : c \in rescored /\ <<k[2], c>> \in children
                      \/ Awaits(World, new, o, k) \/ Overdue(World, new, o, k)
                      \/ Shown(new.results, k) = Due(children, noScore, new.results, k)
    BY WorldFields, Zenon DEF Aggregated
  <2>1. CASE Exists(db.results, k)
    <3>1. \/ \E c \in Items : c \in rescored /\ <<k[2], c>> \in children
          \/ Awaits(World, db, o, k) \/ Overdue(World, db, o, k)
          \/ Shown(db.results, k) = Due(children, noScore, db.results, k)
      BY <2>1, WorldFields, Zenon DEF Sound, Aggregated
    <3>2. Awaits(World, db, o, k) => Awaits(World, new, o, k)
      BY <1>2 DEF Awaits
    <3>3. Overdue(World, db, o, k) => Overdue(World, new, o, k)
      BY <1>5, Zenon DEF Overdue
    <3> QED
      BY <1>4, <1>6, <3>1, <3>2, <3>3
  <2>2. CASE ~Exists(db.results, k)
    <3>1. k \in K
      BY <1>4, <2>2
    <3>2. Shown(new.results, k) = Blank
      BY <1>4, <2>2 DEF Shown
    <3>3. ScopeBy(children, k)
      BY <2>2, <3>1 DEF NewInPlace
    <3>4. \A j \in Keys : Counts(children, j, k) => Shown(db.results, j) = Blank \/ Announced(db, o, j)
      <4>1. CASE k[2] \in db.visible \ Explicit
        BY <2>2, <3>3, <4>1, WorldFields, Zenon DEF Sound, MissingIsNothing
      <4>2. CASE \A j \in Keys : Counts(children, j, k) => ~Exists(db.results, j)
        BY <4>2 DEF Shown
      <4> QED
        BY <2>2, <3>1, <4>1, <4>2 DEF NewInPlace
    <3>5. CASE \E j \in Keys : Counts(children, j, k) /\ Announced(db, o, j)
      BY <1>5, <3>5, WorldFields, Zenon DEF Overdue
    <3>6. CASE \A j \in Keys : Counts(children, j, k) => Shown(db.results, j) = Blank
      BY <1>6, <3>2, <3>6, DueOfNothing
    <3> QED
      BY <3>4, <3>5, <3>6
  <2> QED
    BY <2>1, <2>2
<1>9. MissingIsNothing(World, new, o)
  <2> SUFFICES ASSUME NEW k \in Keys, NEW j \in Keys, ~Exists(new.results, k), k[1] \notin reshaped,
                      ScopeBy(children, k), k[2] \in db.visible, k[2] \notin Explicit,
                      Counts(children, j, k)
               PROVE  Shown(new.results, j) = Blank \/ Announced(new, o, j)
    BY <1>1, WorldFields, Zenon DEF MissingIsNothing
  <2>1. ~Exists(db.results, k)
    BY <1>4
  <2>2. Shown(db.results, j) = Blank \/ Announced(db, o, j)
    BY <2>1, WorldFields, Zenon DEF Sound, MissingIsNothing
  <2> QED
    BY <1>4, <1>5, <2>2
<1>10. Earned(World, new, o)
  <2> SUFFICES ASSUME NEW d \in deps \ late, NEW k \in Keys, k[2] = d.item, Exists(new.results, k),
                      d.score <= new.results[k].score
               PROVE  \/ d.dependent \in db.grants \/ k \in new.lost
                      \/ new.marks[k] \in {"to_be_propagated", "propagating"}
                      \/ o[k] \in {"to_be_propagated", "propagating"}
                      \/ new.results[k].activity = 0 /\ "to_be_recomputed" \in {new.marks[k], o[k]}
    BY <1>1, WorldFields, Zenon DEF Earned
  <2>1. CASE ~Exists(db.results, k)
    BY <1>2, <1>4, <1>7, <2>1 DEF MarksOfRows
  <2>2. CASE Exists(db.results, k)
    <3>1. d.score <= db.results[k].score
      BY <1>4, <2>2 DEF Shown
    <3>2. \/ d.dependent \in db.grants \/ k \in db.lost
          \/ db.marks[k] \in {"to_be_propagated", "propagating"}
          \/ o[k] \in {"to_be_propagated", "propagating"}
          \/ db.results[k].activity = 0 /\ "to_be_recomputed" \in {db.marks[k], o[k]}
      BY <2>2, <3>1, WorldFields, Zenon DEF Sound, Earned
    <3>3. CASE k \notin K
      BY <1>1, <1>2, <1>3, <3>2, <3>3
    <3>4. CASE k \in K
      <4>1. db.marks[k] \in {"none", "to_be_propagated", "propagating", "to_be_recomputed"}
        BY DEF Dbs, DbRecords, MarkTables, MarkStates
      <4>2. CASE db.marks[k] = "to_be_recomputed"
        <5>1. k \in new.lost \/ db.results[k].activity # 0
          BY <3>4, <4>2 DEF NothingHidden
        <5>2. new.marks[k] = "to_be_recomputed"
          BY <1>2, <4>2
        <5> QED
          BY <1>1, <3>2, <4>2, <5>1, <5>2
      <4>3. CASE db.marks[k] # "to_be_recomputed"
        <5>1. new.marks[k] \in {"to_be_propagated", "propagating"}
          BY <1>2, <3>4, <4>1, <4>3
        <5> QED
          BY <5>1
      <4> QED
        BY <4>2, <4>3
    <3> QED
      BY <3>3, <3>4
  <2> QED
    BY <2>1, <2>2
<1>11. InPlace(World, new.results)
  <2> SUFFICES ASSUME NEW k \in Keys, Exists(new.results, k)
               PROVE  /\ k[1] \in reshaped \/ ScopeBy(children, k)
                      /\ AttemptIn(new.results, k[1]) /\ (k[1] # 0 => AttemptIn(new.results, ParentAttempt[k[1]]))
                      /\ new.results[k].started => new.results[k].activity # 0
    BY WorldFields, Zenon DEF InPlace
  <2>1. CASE Exists(db.results, k)
    <3>1. /\ k[1] \in reshaped \/ ScopeBy(children, k)
          /\ AttemptIn(db.results, k[1]) /\ (k[1] # 0 => AttemptIn(db.results, ParentAttempt[k[1]]))
          /\ db.results[k].started => db.results[k].activity # 0
      BY <2>1, WorldFields, Zenon DEF Sound, InPlace
    <3>2. \A a \in Attempts : AttemptIn(db.results, a) => AttemptIn(new.results, a)
      <4>1. \A a \in Attempts : a # 0 => <<a, AttemptRoot[a]>> \in Keys
        BY KeysAre, ResultsAssumption
      <4> QED
        BY <1>4, <4>1 DEF AttemptIn
    <3>3. k[1] \in Attempts /\ ParentAttempt[k[1]] \in Attempts
      BY KeysAre, ResultsAssumption
    <3> QED
      BY <1>3, <3>1, <3>2, <3>3
  <2>2. CASE ~Exists(db.results, k)
    BY <1>3, <1>4, <2>2 DEF NewInPlace
  <2> QED
    BY <2>1, <2>2
<1> QED
  BY <1>8, <1>9, <1>10, <1>11 DEF Sound


\* The tables are those of db, after the results keys were asked to be recomputed.
Remarks(new, db, keys) ==
  /\ new.results = db.results /\ new.grants = db.grants /\ new.visible = db.visible
  /\ new.marks = SetToBeRecomputed(db.marks, keys)
  /\ new.lost = db.lost \union Overwritten(db.marks, keys)

\* What is announced, awaited or overdue, and what is earned, when results are asked to be
\* recomputed.
LEMMA RemarkedAnnounces ==
  ASSUME NEW db, NEW new, NEW o, NEW keys \in SUBSET Keys, Remarks(new, db, keys)
  PROVE  /\ \A j \in Keys : Announced(db, o, j) => Announced(new, o, j)
         /\ \A w, k : k \in Keys /\ Awaits(w, db, o, k) => Awaits(w, new, o, k)
         /\ \A w, k : Overdue(w, db, o, k) => Overdue(w, new, o, k)
         /\ \A w, k : k \in keys => Awaits(w, new, o, k)
         /\ \A w : Earned(w, db, o) => Earned(w, new, o)
<1>1. /\ new.results = db.results /\ new.grants = db.grants
      /\ new.marks = SetToBeRecomputed(db.marks, keys)
      /\ new.lost = db.lost \union Overwritten(db.marks, keys)
  BY DEF Remarks
<1>2. \A k \in Keys : /\ new.marks[k] = IF k \in keys THEN "to_be_recomputed" ELSE db.marks[k]
                      /\ k \in keys /\ db.marks[k] \in {"to_be_propagated", "propagating"} => k \in new.lost
                      /\ k \in db.lost => k \in new.lost
  BY <1>1 DEF SetToBeRecomputed, Overwritten
<1>3. \A j \in Keys : Announced(db, o, j) => Announced(new, o, j)
  BY <1>2 DEF Announced
<1>4. \A w, k : k \in Keys /\ Awaits(w, db, o, k) => Awaits(w, new, o, k)
  BY <1>2 DEF Awaits
<1>5. \A w, k : Overdue(w, db, o, k) => Overdue(w, new, o, k)
  BY <1>3, Zenon DEF Overdue
<1>6. \A w, k : k \in keys => Awaits(w, new, o, k)
  BY <1>2 DEF Awaits
<1>7. ASSUME NEW w, Earned(w, db, o) PROVE Earned(w, new, o)
  <2> SUFFICES ASSUME NEW d \in w.deps \ w.late, NEW k \in Keys, k[2] = d.item, Exists(db.results, k),
                      d.score <= db.results[k].score
               PROVE  \/ d.dependent \in db.grants \/ k \in new.lost
                      \/ new.marks[k] \in {"to_be_propagated", "propagating"}
                      \/ o[k] \in {"to_be_propagated", "propagating"}
                      \/ db.results[k].activity = 0 /\ "to_be_recomputed" \in {new.marks[k], o[k]}
    BY <1>1, Zenon DEF Earned
  <2>1. \/ d.dependent \in db.grants \/ k \in db.lost
        \/ db.marks[k] \in {"to_be_propagated", "propagating"}
        \/ o[k] \in {"to_be_propagated", "propagating"}
        \/ db.results[k].activity = 0 /\ "to_be_recomputed" \in {db.marks[k], o[k]}
    BY <1>7, Zenon DEF Earned
  <2> QED
    BY <1>2, <2>1
<1> QED
  BY <1>3, <1>4, <1>5, <1>6, <1>7

\* Results whose aggregates may be due are asked to be recomputed.
LEMMA RemarkedSound ==
  ASSUME NEW w, NEW v, NEW db, NEW new, NEW o, NEW keys \in SUBSET Keys, Remarks(new, db, keys), Sound(w, db, o),
         v.children = w.children, v.deps = w.deps, v.late = w.late, v.reshaped = w.reshaped,
         v.recompute = w.recompute, w.rescored \subseteq v.rescored,
         \A k \in Keys : \/ ~Exists(db.results, k) \/ k \in keys
                         \/ \E c \in Items : c \in v.rescored /\ <<k[2], c>> \in w.children
                         \/ Due(w.children, v.noScore, db.results, k) = Due(w.children, w.noScore, db.results, k)
  PROVE  Sound(v, new, o)
<1>1. new.results = db.results /\ new.visible = db.visible
  BY DEF Remarks
<1>2. /\ \A j \in Keys : Announced(db, o, j) => Announced(new, o, j)
      /\ \A k \in Keys : Awaits(w, db, o, k) => Awaits(v, new, o, k)
      /\ \A k \in Keys : Overdue(w, db, o, k) => Overdue(v, new, o, k)
      /\ \A k \in keys : Awaits(v, new, o, k)
      /\ Earned(w, new, o)
  <2>1. /\ \A j \in Keys : Announced(db, o, j) => Announced(new, o, j)
        /\ \A k \in Keys : Awaits(w, db, o, k) => Awaits(w, new, o, k)
        /\ \A k \in Keys : Overdue(w, db, o, k) => Overdue(w, new, o, k)
        /\ \A k \in keys : Awaits(v, new, o, k)
        /\ Earned(w, new, o)
    BY RemarkedAnnounces DEF Sound
  <2>2. \A k \in Keys : Awaits(w, new, o, k) => Awaits(v, new, o, k)
    BY DEF Awaits
  <2>3. \A k \in Keys : Overdue(w, new, o, k) => Overdue(v, new, o, k)
    BY Zenon DEF Overdue
  <2> QED
    BY <2>1, <2>2, <2>3
<1>3. Aggregated(v, new, o)
  <2> SUFFICES ASSUME NEW k \in Keys, Exists(db.results, k), k[2] \notin Tasks, k[1] \notin w.reshaped
               PROVE  \/ \E c \in Items : c \in v.rescored /\ <<k[2], c>> \in w.children
                      \/ Awaits(v, new, o, k) \/ Overdue(v, new, o, k)
                      \/ Shown(db.results, k) = Due(w.children, v.noScore, db.results, k)
    BY <1>1, Zenon DEF Aggregated
  <2>1. \/ \E c \in Items : c \in w.rescored /\ <<k[2], c>> \in w.children
        \/ Awaits(w, db, o, k) \/ Overdue(w, db, o, k)
        \/ Shown(db.results, k) = Due(w.children, w.noScore, db.results, k)
    BY Zenon DEF Sound, Aggregated
  <2> QED
    BY <1>2, <2>1
<1>4. MissingIsNothing(v, new, o)
  BY <1>1, <1>2, Zenon DEF Sound, MissingIsNothing
<1>5. Earned(v, new, o)
  BY <1>2, Zenon DEF Earned
<1>6. InPlace(v, new.results)
  BY <1>1, Zenon DEF Sound, InPlace
<1> QED
  BY <1>3, <1>4, <1>5, <1>6 DEF Sound

\* Tables of services that have a link more, or less, below p: the attempts at p or at an
\* ancestor of p are among the reshaped.
Reshapes(v, w, p) ==
  /\ v.deps = w.deps /\ v.late = w.late /\ v.noScore = w.noScore /\ v.rescored = w.rescored
  /\ v.reshaped = w.reshaped \union {a \in Attempts : AttemptRoot[a] \in {p} \union AncestorsBy(w.children, p)}

\* The tables are those of db, after the results of p were asked to be recomputed and those
\* of its new child c were marked.
LinkMarked(new, db, p, c) ==
  LET own == {k \in Keys : k[2] = p /\ Exists(db.results, k)}
      below == {k \in Keys : k[2] = c /\ Exists(db.results, k)}
  IN /\ new.results = db.results /\ new.grants = db.grants /\ new.visible = db.visible
     /\ new.marks = SetToBeRecomputed(InsertIgnore(db.marks, below), own)
     /\ new.lost = db.lost \union Overwritten(db.marks, own)
                   \union Ignored(db.marks, {k \in below : ~Exists(db.results, <<AttemptAbove(k), p>>)})

\* A link more.
LEMMA LinkAddedSound ==
  ASSUME NEW w, NEW v, NEW db \in Dbs({}), NEW new, NEW p \in Items, NEW c \in Items,
         v.children = w.children \union {<<p, c>>}, v.recompute = w.recompute, Reshapes(v, w, p),
         AcyclicBy(w.children), c \notin {p} \union AncestorsBy(w.children, p),
         LinkMarked(new, db, p, c), Sound(w, db, NoMarks)
  PROVE  Sound(v, new, NoMarks)
<1> DEFINE E == w.children
           F == v.children
           of == [i \in Items |-> {k \in Keys : k[2] = i /\ Exists(db.results, k)}]
           m == InsertIgnore(db.marks, of[c])
<1>1. \A k \in Keys, i \in Items : k \in of[i] <=> k[2] = i /\ Exists(db.results, k)
  OBVIOUS
<1>0. /\ new.results = db.results /\ new.grants = db.grants /\ new.visible = db.visible
      /\ new.marks = SetToBeRecomputed(m, of[p])
      /\ new.lost = db.lost \union Overwritten(db.marks, of[p])
                    \union Ignored(db.marks, {k \in of[c] : ~Exists(db.results, <<AttemptAbove(k), p>>)})
  <2>1. /\ of[p] = {k \in Keys : k[2] = p /\ Exists(db.results, k)}
        /\ of[c] = {k \in Keys : k[2] = c /\ Exists(db.results, k)}
    OBVIOUS
  <2> QED
    BY <2>1, Zenon DEF LinkMarked
<1> HIDE DEF of
<1>2. AcyclicBy(F) /\ \A i \in Items : /\ AncestorsBy(E, i) \subseteq AncestorsBy(F, i)
                                       /\ AncestorsBy(F, i) \subseteq AncestorsBy(E, i) \union {p} \union AncestorsBy(E, p)
  <2>1. OneMore(F, E, p, c) /\ AcyclicBy(E) /\ c \notin {p} \union AncestorsBy(E, p)
    BY DEF OneMore
  <2> HIDE DEF E, F
  <2>2. AcyclicBy(E) /\ c \notin {p} \union AncestorsBy(E, p) => AcyclicBy(F)
    BY <2>1, LinkAdded, Zenon
  <2>3. \A i \in Items : AncestorsBy(E, i) \subseteq AncestorsBy(F, i)
    BY <2>1, LinkAdded, Zenon
  <2>4. \A i \in Items : AncestorsBy(F, i) \subseteq AncestorsBy(E, i) \union {p} \union AncestorsBy(E, p)
    BY <2>1, LinkAdded, Zenon
  <2> QED
    BY <2>1, <2>2, <2>3, <2>4, Zenon
<1>3. /\ v.deps = w.deps /\ v.late = w.late /\ v.noScore = w.noScore /\ v.rescored = w.rescored
      /\ v.reshaped = w.reshaped \union {a \in Attempts : AttemptRoot[a] \in {p} \union AncestorsBy(E, p)}
  BY DEF Reshapes
<1>4. \A k \in Keys : /\ m[k] = IF k \in of[c] /\ db.marks[k] = "none" THEN "to_be_propagated" ELSE db.marks[k]
                      /\ new.marks[k] = IF k \in of[p] THEN "to_be_recomputed" ELSE m[k]
  BY <1>0 DEF InsertIgnore, SetToBeRecomputed
<1>5. \A k \in Keys : /\ k \in db.lost => k \in new.lost
                      /\ k \in of[p] /\ db.marks[k] \in {"to_be_propagated", "propagating"} => k \in new.lost
                      /\ k \in of[c] /\ ~Exists(db.results, <<AttemptAbove(k), p>>)
                         /\ db.marks[k] \in {"propagating", "to_be_recomputed"} => k \in new.lost
  BY <1>0 DEF Overwritten, Ignored
<1>6. \A k \in Keys : db.marks[k] \in {"none", "to_be_propagated", "propagating", "to_be_recomputed"}
                      /\ (db.marks[k] # "none" => Exists(db.results, k))
  BY DEF Dbs, DbRecords, MarkTables, MarkStates, MarksOfRows
<1>7. \A i, d : <<i, d>> \in F <=> <<i, d>> \in E \/ (i = p /\ d = c)
  OBVIOUS
<1>20. \A k \in Keys : k[1] \in Attempts /\ k[2] \in Items
  BY KeysAre
<1> HIDE DEF E, F, m
<1>8. \A j \in Keys : Announced(db, NoMarks, j) => Announced(new, NoMarks, j)
  BY <1>4, <1>5 DEF Announced
<1>9. \A k \in Keys : k \in of[p] \/ Awaits(w, db, NoMarks, k) => Awaits(v, new, NoMarks, k)
  BY <1>4 DEF Awaits
<1>10. \A j, k : Counts(E, j, k) => Counts(F, j, k)
  BY <1>7 DEF Counts
<1>11. \A k : Overdue(w, db, NoMarks, k) => Overdue(v, new, NoMarks, k)
  BY <1>8, <1>10, Zenon DEF Overdue, E, F
<1>12. Aggregated(v, new, NoMarks)
  <2> SUFFICES ASSUME NEW k \in Keys, Exists(db.results, k), k[2] \notin Tasks, k[1] \notin v.reshaped
               PROVE  \/ \E d \in Items : d \in w.rescored /\ <<k[2], d>> \in F
                      \/ Awaits(v, new, NoMarks, k) \/ Overdue(v, new, NoMarks, k)
                      \/ Shown(db.results, k) = Due(F, w.noScore, db.results, k)
    BY <1>0, <1>3, Zenon DEF Aggregated, F
  <2>1. \/ \E d \in Items : d \in w.rescored /\ <<k[2], d>> \in E
        \/ Awaits(w, db, NoMarks, k) \/ Overdue(w, db, NoMarks, k)
        \/ Shown(db.results, k) = Due(E, w.noScore, db.results, k)
    <3>1. k[1] \notin w.reshaped
      BY <1>3
    <3> QED
      BY <3>1, Zenon DEF Sound, Aggregated, E
  <2>2. CASE k[2] = p
    BY <1>1, <1>9, <2>2
  <2>3. CASE k[2] # p
    <3>1. Due(F, w.noScore, db.results, k) = Due(E, w.noScore, db.results, k)
      <4>1. Scored(F, w.noScore, k[2]) = Scored(E, w.noScore, k[2])
        BY <1>7, <2>3 DEF Scored
      <4> QED
        BY <4>1, Zenon DEF Due
    <3> QED
      BY <1>7, <1>9, <1>11, <2>1, <3>1
  <2> QED
    BY <2>2, <2>3
<1>13. MissingIsNothing(v, new, NoMarks)
  <2> SUFFICES ASSUME NEW k \in Keys, NEW j \in Keys, ~Exists(db.results, k), k[1] \notin v.reshaped,
                      ScopeBy(F, k), k[2] \in db.visible, k[2] \notin Explicit, Counts(F, j, k)
               PROVE  Shown(db.results, j) = Blank \/ Announced(new, NoMarks, j)
    BY <1>0, Zenon DEF MissingIsNothing, F
  <2>1. ScopeBy(E, k) /\ k[1] \notin w.reshaped
    BY <1>2, <1>3, <1>20 DEF ScopeBy
  <2>2. CASE Counts(E, j, k)
    <3>1. Shown(db.results, j) = Blank \/ Announced(db, NoMarks, j)
      BY <2>1, <2>2, Zenon DEF Sound, MissingIsNothing, E
    <3> QED
      BY <1>8, <3>1
  <2>3. CASE ~Counts(E, j, k) /\ Exists(db.results, j)
    <3>1. k[2] = p /\ j[2] = c
      BY <1>7, <2>3 DEF Counts
    <3>2. k = <<AttemptAbove(j), p>>
      BY <1>2, <3>1, OneAbove
    <3>3. j \in of[c] /\ j \notin of[p]
      BY <1>1, <2>3, <3>1
    <3> QED
      BY <1>4, <1>5, <1>6, <3>2, <3>3 DEF Announced
  <2>4. CASE ~Exists(db.results, j)
    BY <2>4 DEF Shown
  <2> QED
    BY <2>2, <2>3, <2>4
<1>14. Earned(v, new, NoMarks)
  <2> SUFFICES ASSUME NEW d \in w.deps \ w.late, NEW k \in Keys, k[2] = d.item, Exists(db.results, k),
                      d.score <= db.results[k].score
               PROVE  \/ d.dependent \in db.grants \/ k \in new.lost
                      \/ new.marks[k] \in {"to_be_propagated", "propagating"}
                      \/ NoMarks[k] \in {"to_be_propagated", "propagating"}
                      \/ db.results[k].activity = 0 /\ "to_be_recomputed" \in {new.marks[k], NoMarks[k]}
    <3>1. v.deps \ v.late = w.deps \ w.late
      BY <1>3
    <3> QED
      BY <1>0, <3>1, Zenon DEF Earned
  <2>1. \/ d.dependent \in db.grants \/ k \in db.lost
        \/ db.marks[k] \in {"to_be_propagated", "propagating"}
        \/ NoMarks[k] \in {"to_be_propagated", "propagating"}
        \/ db.results[k].activity = 0 /\ "to_be_recomputed" \in {db.marks[k], NoMarks[k]}
    BY Zenon DEF Sound, Earned
  <2> QED
    BY <1>4, <1>5, <2>1
<1>15. InPlace(v, new.results)
  <2>1. \A k \in Keys : ScopeBy(E, k) => ScopeBy(F, k)
    BY <1>2, <1>20 DEF ScopeBy
  <2>2. \A a : a \in w.reshaped => a \in v.reshaped
    BY <1>3
  <2>3. InPlace(w, db.results)
    BY DEF Sound
  <2> QED
    BY <1>0, <2>1, <2>2, <2>3, Zenon DEF InPlace, E, F
<1> QED
  BY <1>12, <1>13, <1>14, <1>15 DEF Sound

\* A link less.
LEMMA LinkRemovedSound ==
  ASSUME NEW w, NEW v, NEW db, NEW new, NEW p \in Items, NEW c \in Items,
         v.children = w.children \ {<<p, c>>}, <<p, c>> \in w.children, Reshapes(v, w, p),
         v.recompute[p] # "none", \A i \in Items : w.recompute[i] # "none" => v.recompute[i] # "none",
         SameRows(new, db), Sound(w, db, NoMarks)
  PROVE  Sound(v, new, NoMarks)
<1> DEFINE E == w.children
           F == v.children
<1>1. OneMore(E, F, p, c) /\ F \subseteq E
  BY DEF OneMore
<1>2. \A i \in Items : /\ AncestorsBy(F, i) \subseteq AncestorsBy(E, i)
                       /\ AncestorsBy(E, i) \subseteq AncestorsBy(F, i) \union {p} \union AncestorsBy(F, p)
  BY <1>1, LinkAdded, LinkRemoved
<1>3. /\ v.deps = w.deps /\ v.late = w.late /\ v.noScore = w.noScore /\ v.rescored = w.rescored
      /\ v.reshaped = w.reshaped \union {a \in Attempts : AttemptRoot[a] \in {p} \union AncestorsBy(E, p)}
  BY DEF Reshapes
<1>4. /\ new.results = db.results /\ new.marks = db.marks /\ new.visible = db.visible
      /\ new.lost = db.lost /\ db.grants \subseteq new.grants
  BY DEF SameRows
<1>5. \A i, d : <<i, d>> \in E <=> <<i, d>> \in F \/ (i = p /\ d = c)
  BY <1>1 DEF OneMore
<1>6. \A k \in Keys : k[1] \in Attempts /\ k[2] \in Items
  BY KeysAre
<1> HIDE DEF E, F
<1>7. \A j \in Keys : Announced(db, NoMarks, j) => Announced(new, NoMarks, j)
  BY <1>4 DEF Announced
<1>8. \A k \in Keys : k[2] = p \/ Awaits(w, db, NoMarks, k) => Awaits(v, new, NoMarks, k)
  BY <1>4, <1>6 DEF Awaits
<1>9. \A j, k : Counts(F, j, k) => Counts(E, j, k)
  BY <1>5 DEF Counts
<1>10. \A j, k : k[2] # p /\ Counts(E, j, k) => Counts(F, j, k)
  BY <1>5 DEF Counts
<1>11. Aggregated(v, new, NoMarks)
  <2> SUFFICES ASSUME NEW k \in Keys, Exists(db.results, k), k[2] \notin Tasks, k[1] \notin v.reshaped
               PROVE  \/ \E d \in Items : d \in w.rescored /\ <<k[2], d>> \in F
                      \/ Awaits(v, new, NoMarks, k) \/ Overdue(v, new, NoMarks, k)
                      \/ Shown(db.results, k) = Due(F, w.noScore, db.results, k)
    BY <1>3, <1>4, Zenon DEF Aggregated, F
  <2>1. \/ \E d \in Items : d \in w.rescored /\ <<k[2], d>> \in E
        \/ Awaits(w, db, NoMarks, k) \/ Overdue(w, db, NoMarks, k)
        \/ Shown(db.results, k) = Due(E, w.noScore, db.results, k)
    <3>1. k[1] \notin w.reshaped
      BY <1>3
    <3> QED
      BY <3>1, Zenon DEF Sound, Aggregated, E
  <2>2. CASE k[2] = p
    BY <1>8, <2>2
  <2>3. CASE k[2] # p
    <3>1. Due(F, w.noScore, db.results, k) = Due(E, w.noScore, db.results, k)
      <4>1. Scored(F, w.noScore, k[2]) = Scored(E, w.noScore, k[2])
        BY <1>5, <2>3 DEF Scored
      <4> QED
        BY <4>1, Zenon DEF Due
    <3>2. Overdue(w, db, NoMarks, k) => Overdue(v, new, NoMarks, k)
      BY <1>7, <1>10, <2>3, Zenon DEF Overdue, E, F
    <3> QED
      BY <1>5, <1>8, <2>1, <2>3, <3>1, <3>2
  <2> QED
    BY <2>2, <2>3
<1>12. MissingIsNothing(v, new, NoMarks)
  <2> SUFFICES ASSUME NEW k \in Keys, NEW j \in Keys, ~Exists(db.results, k), k[1] \notin v.reshaped,
                      ScopeBy(F, k), k[2] \in db.visible, k[2] \notin Explicit, Counts(F, j, k)
               PROVE  Shown(db.results, j) = Blank \/ Announced(new, NoMarks, j)
    BY <1>4, Zenon DEF MissingIsNothing, F
  <2>1. ScopeBy(E, k) /\ k[1] \notin w.reshaped
    BY <1>2, <1>3, <1>6 DEF ScopeBy
  <2>2. Shown(db.results, j) = Blank \/ Announced(db, NoMarks, j)
    BY <1>9, <2>1, Zenon DEF Sound, MissingIsNothing, E
  <2> QED
    BY <1>7, <2>2
<1>13. Earned(v, new, NoMarks)
  <2>1. \A S : db.grants \subseteq S => \A d : d \in db.grants => d \in S
    OBVIOUS
  <2>2. \A d : d \in db.grants => d \in new.grants
    BY <1>4
  <2> QED
    BY <1>3, <1>4, <2>2, Zenon DEF Sound, Earned
<1>14. InPlace(v, new.results)
  <2>1. \A k \in Keys : ScopeBy(E, k) => ScopeBy(F, k) \/ k[1] \in v.reshaped
    BY <1>2, <1>3, <1>6 DEF ScopeBy
  <2>2. \A a : a \in w.reshaped => a \in v.reshaped
    BY <1>3
  <2>3. InPlace(w, db.results)
    BY DEF Sound
  <2> QED
    BY <1>4, <2>1, <2>2, <2>3, Zenon DEF InPlace, E, F
<1> QED
  BY <1>11, <1>12, <1>13, <1>14 DEF Sound

-------------------------------------------------------------------------------
(* The calls of services, one by one.                                      *)

\* What the marks and the records of what was lost say of the results, between any two steps.
ResultsSound == AcyclicBy(children) /\ Sound(World, Db, NoMarks)

\* The tables after a step.
LEMMA NextTables ==
  /\ World'.children = children' /\ World'.noScore = noScore' /\ World'.deps = deps' /\ World'.late = late'
  /\ World'.rescored = rescored' /\ World'.reshaped = reshaped' /\ World'.recompute = recompute'
  /\ Db'.results = results' /\ Db'.marks = marks' /\ Db'.grants = grants' /\ Db'.visible = visible'
  /\ Db'.again = unlocked' /\ Db'.lost = lost'
BY DEF World, Db

\* The tables that a propagation writes.
LEMMA DbFields ==
  /\ Db.results = results /\ Db.marks = marks /\ Db.grants = grants /\ Db.visible = visible
  /\ Db.again = unlocked /\ Db.lost = lost
BY DEF Db

\* The invariant, in the next state.
LEMMA SoundNext ==
  ASSUME AcyclicBy(children'), Sound(World', Db', NoMarks)
  PROVE  ResultsSound'
BY DEF ResultsSound

\* Steps that leave the tables of services alone.
LEMMA SameWorld ==
  ASSUME ResultsSound, UNCHANGED <<children, noScore, deps, late, rescored, reshaped, recompute>>,
         Sound(World, Db', NoMarks)
  PROVE  ResultsSound'
<1>1. World' = World
  BY DEF World
<1> QED
  BY <1>1, SoundNext DEF ResultsSound

\* Results that are started lie in attempts that exist, as do the parents of these.
LEMMA AttemptsInPlace ==
  ASSUME ResultsSound
  PROVE  /\ \A a \in Attempts : AttemptExists(a) =>
              AttemptIn(results, a) /\ (a # 0 => AttemptIn(results, ParentAttempt[a]))
         /\ \A k \in Keys : Exists(results, k) =>
              /\ k[1] \in reshaped \/ ScopeBy(children, k)
              /\ AttemptIn(results, k[1]) /\ (k[1] # 0 => AttemptIn(results, ParentAttempt[k[1]]))
              /\ results[k].started => results[k].activity # 0
<1>1. \A k \in Keys : Exists(results, k) =>
        /\ k[1] \in reshaped \/ ScopeBy(children, k)
        /\ AttemptIn(results, k[1]) /\ (k[1] # 0 => AttemptIn(results, ParentAttempt[k[1]]))
        /\ results[k].started => results[k].activity # 0
  BY DbFields, WorldFields, Zenon DEF ResultsSound, Sound, InPlace
<1>2. ASSUME NEW a \in Attempts, AttemptExists(a)
      PROVE  AttemptIn(results, a) /\ (a # 0 => AttemptIn(results, ParentAttempt[a]))
  <2>1. CASE a = 0
    BY <2>1 DEF AttemptIn
  <2>2. CASE a # 0
    <3> DEFINE k == <<a, AttemptRoot[a]>>
    <3>1. k \in Keys /\ k[1] = a
      BY <2>2, ResultsAssumption, KeysAre
    <3>2. Exists(results, k)
      BY <1>2, <2>2 DEF AttemptExists
    <3> HIDE DEF k
    <3> QED
      BY <1>1, <3>1, <3>2
  <2> QED
    BY <2>1, <2>2
<1> QED
  BY <1>1, <1>2

\* The results that a hierarchy goes through: one level more of them.
HierarchyTop == {k \in Keys : k[1] = 0 /\ k[2] \in RootItems \intersect visible /\ Started(k)}
HierarchyStep(T) ==
  T \union {k \in Keys : /\ k[2] \in visible /\ Started(k)
                         /\ \E p \in Parents(k[2]) : <<AttemptAbove(k), p>> \in T}
IsHierarchy(f) ==
  f = [n \in 0..Cardinality(Items) |->
         IF n = 0 THEN {k \in Keys : k[1] = 0 /\ k[2] \in RootItems \intersect visible /\ Started(k)}
         ELSE f[n - 1] \union {k \in Keys : /\ k[2] \in visible /\ Started(k)
                /\ \E p \in Parents(k[2]) : <<AttemptAbove(k), p>> \in f[n - 1]}]

\* A participation hierarchy goes through results that exist.
LEMMA HierarchyExists == \A k \in Hierarchy : k \in Keys /\ Exists(results, k)
<1> DEFINE N == Cardinality(Items)
           step == [T \in SUBSET Keys |-> HierarchyStep(T)]
           u == CHOOSE g : IsHierarchy(g)
<1>1. N \in Nat /\ HierarchyTop \in SUBSET Keys
  BY ResultsAssumption, FS_CardinalityType DEF HierarchyTop
<1>2. step \in [SUBSET Keys -> SUBSET Keys] /\ \A T \in SUBSET Keys : step[T] = HierarchyStep(T)
  BY DEF HierarchyStep
<1>3. Hierarchy = u[N]
  BY DEF Hierarchy, IsHierarchy
<1> HIDE DEF N, step, u
<1>4. PICK f \in [0..N -> SUBSET Keys] : Iterates(f, HierarchyTop, step, N)
  BY <1>1, <1>2, IterationExists
<1>5. IsHierarchy(f)
  <2>1. f = [n \in 0..N |-> f[n]]
    BY <1>4
  <2>2. f[0] = HierarchyTop /\ \A n \in 1..N : f[n - 1] \in SUBSET Keys /\ f[n] = HierarchyStep(f[n - 1])
    BY <1>1, <1>2, <1>4 DEF Iterates
  <2>3. \A n \in 0..N : f[n] = IF n = 0 THEN HierarchyTop ELSE HierarchyStep(f[n - 1])
    BY <1>1, <2>2
  <2> QED
    BY <2>1, <2>3, Zenon DEF IsHierarchy, N, HierarchyTop, HierarchyStep
<1>6. IsHierarchy(u)
  BY <1>5, Zenon DEF u
<1>7. u[0] = HierarchyTop /\ \A n \in 1..N : u[n] = HierarchyStep(u[n - 1])
  <2>1. u = [n \in 0..N |-> IF n = 0 THEN HierarchyTop ELSE HierarchyStep(u[n - 1])]
    BY <1>6, Zenon DEF IsHierarchy, N, HierarchyTop, HierarchyStep
  <2>2. \A n \in 0..N : u[n] = IF n = 0 THEN HierarchyTop ELSE HierarchyStep(u[n - 1])
    BY <2>1
  <2>3. 0 \in 0..N /\ \A n \in 1..N : n \in 0..N /\ n # 0
    BY <1>1
  <2> QED
    BY <2>2, <2>3
<1> DEFINE Good == {n \in Nat : n <= N => \A k \in u[n] : k \in Keys /\ Exists(results, k)}
<1>8. 0 \in Good
  BY <1>7 DEF HierarchyTop, Started
<1>9. ASSUME NEW n \in Nat, n \in Good PROVE n + 1 \in Good
  <2> SUFFICES ASSUME n + 1 <= N, NEW k \in u[n + 1]
               PROVE  k \in Keys /\ Exists(results, k)
    OBVIOUS
  <2>1. \A j \in u[n] : j \in Keys /\ Exists(results, j)
    BY <1>1, <1>9
  <2>2. u[n + 1] = HierarchyStep(u[n])
    <3>1. n + 1 \in 1..N /\ (n + 1) - 1 = n
      BY <1>1
    <3> QED
      BY <1>7, <3>1
  <2> QED
    BY <2>1, <2>2 DEF HierarchyStep, Started
<1> HIDE DEF Good
<1>10. N \in Good
  BY <1>1, <1>8, <1>9, Induction
<1> QED
  BY <1>1, <1>3, <1>10 DEF Good

\* Where a service may start a result or an attempt, what it starts is in the scope of its
\* attempt, and the attempt above it exists.
LEMMA ValidIsInPlace ==
  ASSUME ResultsTypes, ResultsSound, NEW k \in Keys, ValidHierarchy(k)
  PROVE  /\ k[1] \in reshaped \/ ScopeBy(children, k)
         /\ AttemptRoot[k[1]] = k[2] => AttemptIn(results, ParentAttempt[k[1]])
<1>1. k[1] \in Attempts /\ k[2] \in Items
  BY KeysAre
<1>2. CASE k[2] \in RootItems /\ AttemptAbove(k) = 0
  BY <1>1, <1>2, ResultsAssumption DEF AttemptAbove, ScopeBy, AttemptIn
<1>3. CASE \E p \in Parents(k[2]) : <<AttemptAbove(k), p>> \in Hierarchy
  <2>1. PICK p \in Parents(k[2]) : <<AttemptAbove(k), p>> \in Hierarchy
    BY <1>3
  <2> DEFINE j == <<AttemptAbove(k), p>>
  <2>2. j \in Keys /\ Exists(results, j) /\ j[1] = AttemptAbove(k) /\ j[2] = p
    BY <2>1, HierarchyExists
  <2> HIDE DEF j
  <2>3. (j[1] \in reshaped \/ ScopeBy(children, j)) /\ AttemptIn(results, j[1])
    BY <2>2, AttemptsInPlace
  <2>4. p \in Items /\ p \in AncestorsBy(children, k[2])
        /\ AncestorsBy(children, p) \subseteq AncestorsBy(children, k[2])
    BY <1>1, <2>1, AncestorsOfParent, LinksAreBy
  <2>5. CASE AttemptRoot[k[1]] = k[2]
    BY <2>2, <2>3, <2>5 DEF ScopeBy, AttemptAbove
  <2>6. CASE AttemptRoot[k[1]] # k[2]
    <3>1. j[1] = k[1]
      BY <2>2, <2>6 DEF AttemptAbove
    <3> QED
      BY <2>2, <2>3, <2>4, <2>6, <3>1 DEF ScopeBy
  <2> QED
    BY <2>5, <2>6
<1> QED
  BY <1>2, <1>3 DEF ValidHierarchy


\* A row that is started shows what it did.
LEMMA StartedShows ==
  ASSUME NEW r \in ResultRow, NEW now \in Nat
  PROVE  LET row == [r EXCEPT !.activity = now, !.started = TRUE]
         IN /\ row.activity = now /\ row.score = r.score /\ row.tried = r.tried
            /\ row.validatedAt = r.validatedAt /\ row # NoResult
<1> DEFINE row == [r EXCEPT !.activity = now, !.started = TRUE]
<1>1. row \in ResultRow
  BY StartedRow, Zenon
<1>2. row # NoResult
  <2> HIDE DEF row
  <2> QED
    BY <1>1, ResultsAssumption
<1>3. row.activity = now /\ row.score = r.score /\ row.tried = r.tried /\ row.validatedAt = r.validatedAt
  BY DEF ResultRow
<1> QED
  BY <1>2, <1>3, Zenon

\* startResult.
LEMMA StartResultSound ==
  ASSUME ResultsTypes, ResultsSound, NEW k \in Keys, StartResult(k)
  PROVE  ResultsSound'
<1> DEFINE row == IF Exists(results, k) THEN [results[k] EXCEPT !.activity = clock', !.started = TRUE]
                  ELSE StartedResult(clock')
<1>1. results' = [results EXCEPT ![k] = row] /\ marks' = InsertIgnore(marks, {k})
      /\ lost' = lost \union {j \in {k} : marks[j] = "to_be_recomputed"}
      /\ UNCHANGED <<recompute, children, noScore, deps, grants, visible, late, rescored, reshaped>>
      /\ k[2] \in visible \ Explicit
      /\ AttemptExists(k[1]) /\ AttemptRoot[k[1]] # k[2] /\ ValidHierarchy(k)
  BY Zenon DEF StartResult
<1>2. clock' = clock + 1 /\ clock' \in Nat /\ clock \in Nat
  BY CallTyped, Zenon DEF StartResult, ResultsTypes
<1>3. Exists(results, k) => results[k] \in ResultRow
  BY RowsExist DEF ResultsTypes
<1>4. /\ row # NoResult /\ row.activity # 0
      /\ Exists(results, k) => row.score = results[k].score /\ row.tried = results[k].tried
                               /\ row.validatedAt = results[k].validatedAt
      /\ ~Exists(results, k) => row.score = 0 /\ row.tried = 0 /\ row.validatedAt = 0
  <2>1. CASE Exists(results, k)
    <3> DEFINE s == [results[k] EXCEPT !.activity = clock', !.started = TRUE]
    <3>1. row = s
      BY <2>1, Zenon
    <3>2. /\ s.activity = clock' /\ s.score = results[k].score /\ s.tried = results[k].tried
          /\ s.validatedAt = results[k].validatedAt /\ s # NoResult
      BY <1>2, <1>3, <2>1, StartedShows, Zenon
    <3> HIDE DEF row, s
    <3>3. s.activity # 0
      BY <1>2, <3>2
    <3> QED
      BY <2>1, <3>1, <3>2, <3>3
  <2>2. CASE ~Exists(results, k)
    <3>1. row = StartedResult(clock')
      BY <2>2
    <3> HIDE DEF row
    <3> QED
      BY <1>2, <2>2, <3>1, NewRows, NewRowsShowNothing
  <2> QED
    BY <2>1, <2>2
<1> HIDE DEF row
<1>5. \A j \in Keys : results'[j] = IF j = k THEN row ELSE results[j]
  BY <1>1 DEF ResultsTypes, ResultTables
<1>6. Touches(Db', Db, {k})
  <2> SUFFICES ASSUME NEW j \in Keys
               PROVE  IF j \notin {k} THEN results'[j] = results[j]
                      ELSE /\ Exists(results', j) /\ results'[j].activity # 0
                           /\ Shown(results', j) = Shown(results, j)
    <3>1. lost \subseteq lost'
      BY <1>1
    <3> QED
      BY <1>1, <3>1, NextTables, DbFields, Zenon DEF Touches
  <2>1. CASE j = k
    BY <1>4, <1>5, <2>1, Zenon DEF Exists, Shown, Blank
  <2>2. CASE j # k
    BY <1>5, <2>2
  <2> QED
    BY <2>1, <2>2
<1>7. NothingHidden(Db', Db, {k})
  BY <1>1, NextTables, DbFields DEF NothingHidden
<1>8. NewInPlace(Db', Db, {k})
  <2>1. k[1] \in reshaped \/ ScopeBy(children, k)
    BY <1>1, ValidIsInPlace
  <2>2. AttemptIn(results, k[1]) /\ (k[1] # 0 => AttemptIn(results, ParentAttempt[k[1]]))
    BY <1>1, AttemptsInPlace, KeysAre
  <2>3. \A a : AttemptIn(results, a) /\ a \in Attempts => AttemptIn(results', a)
    <3>1. \A a \in Attempts : a # 0 => <<a, AttemptRoot[a]>> \in Keys
      BY KeysAre, ResultsAssumption
    <3> QED
      BY <1>4, <1>5, <3>1 DEF AttemptIn, Exists
  <2>4. k[1] \in Attempts /\ ParentAttempt[k[1]] \in Attempts
    BY KeysAre, ResultsAssumption
  <2> QED
    BY <1>1, <2>1, <2>2, <2>3, <2>4, NextTables, DbFields, Zenon DEF NewInPlace
<1>9. Sound(World, Db', NoMarks)
  BY <1>6, <1>7, <1>8, DbTyped, TouchedSound DEF ResultsSound
<1> QED
  BY <1>1, <1>9, SameWorld

\* createAttempt and enter.
LEMMA CreateAttemptSound ==
  ASSUME ResultsTypes, ResultsSound, NEW a \in Attempts, CreateAttempt(a)
  PROVE  ResultsSound'
<1> DEFINE k == <<a, AttemptRoot[a]>>
           row == StartedResult(clock')
<1>1. results' = [results EXCEPT ![k] = row] /\ marks' = InsertIgnore(marks, {k})
      /\ UNCHANGED <<recompute, children, noScore, deps, grants, visible, late, rescored, reshaped, lost>>
      /\ a # 0 /\ ~AttemptExists(a) /\ ValidHierarchy(k)
  BY Zenon DEF CreateAttempt
<1>2. clock' = clock + 1 /\ clock' \in Nat /\ clock \in Nat
  BY CallTyped, Zenon DEF CreateAttempt, ResultsTypes
<1>3. k \in Keys /\ k[1] = a /\ k[2] = AttemptRoot[a] /\ AttemptRoot[a] \in Items
  BY <1>1, ResultsAssumption, KeysAre
<1>4. ~Exists(results, k)
  BY <1>1 DEF AttemptExists
<1>5. row # NoResult /\ row.activity # 0 /\ row.score = 0 /\ row.tried = 0 /\ row.validatedAt = 0
  BY <1>2, NewRows, NewRowsShowNothing
<1> HIDE DEF row
<1>6. ~AttemptIn(results, a)
  BY <1>1, <1>4 DEF AttemptIn
<1> HIDE DEF k
<1>7. \A j \in Keys : results'[j] = IF j = k THEN row ELSE results[j]
  BY <1>1 DEF ResultsTypes, ResultTables
<1>8. Touches(Db', Db, {k})
  <2> SUFFICES ASSUME NEW j \in Keys
               PROVE  IF j \notin {k} THEN results'[j] = results[j]
                      ELSE /\ Exists(results', j) /\ results'[j].activity # 0
                           /\ Shown(results', j) = Shown(results, j)
    <3>1. lost \subseteq lost'
      BY <1>1
    <3> QED
      BY <1>1, <3>1, NextTables, DbFields, Zenon DEF Touches
  <2>1. CASE j = k
    BY <1>4, <1>5, <1>7, <2>1, Zenon DEF Exists, Shown, Blank
  <2>2. CASE j # k
    BY <1>7, <2>2
  <2> QED
    BY <2>1, <2>2
<1>9. NothingHidden(Db', Db, {k})
  <2>1. marks[k] = "none"
    BY <1>3, <1>4 DEF ResultsTypes, MarksOfRows
  <2> QED
    BY <2>1, DbFields DEF NothingHidden
<1>10. NewInPlace(Db', Db, {k})
  <2>1. k[1] \in reshaped \/ ScopeBy(children, k)
    BY <1>3 DEF ScopeBy
  <2>2. AttemptIn(results, ParentAttempt[a])
    BY <1>1, <1>3, ValidIsInPlace
  <2>3. \A b : AttemptIn(results, b) /\ b \in Attempts => AttemptIn(results', b)
    <3>1. \A b \in Attempts : b # 0 => <<b, AttemptRoot[b]>> \in Keys
      BY KeysAre, ResultsAssumption
    <3> QED
      BY <1>5, <1>7, <3>1 DEF AttemptIn, Exists
  <2>4. AttemptIn(results', a)
    <3>1. k = <<a, AttemptRoot[a]>>
      BY DEF k
    <3>2. Exists(results', k)
      BY <1>3, <1>5, <1>7 DEF Exists
    <3> QED
      BY <3>1, <3>2 DEF AttemptIn
  <2>5. ASSUME NEW j \in Keys, Counts(children, j, k) PROVE ~Exists(results, j)
    <3> SUFFICES ASSUME Exists(results, j)
                 PROVE  FALSE
      OBVIOUS
    <3>1. AttemptIn(results, j[1]) /\ (j[1] # 0 => AttemptIn(results, ParentAttempt[j[1]]))
      BY AttemptsInPlace
    <3>2. j[1] \in Attempts /\ j[2] \in Items
      BY KeysAre
    <3>3. j[1] = a \/ (AttemptRoot[j[1]] = j[2] /\ ParentAttempt[j[1]] = a)
      BY <1>3, <2>5 DEF Counts, CountedAttempts
    <3>4. AttemptRoot[j[1]] = j[2] => j[1] # 0
      BY <3>2, ResultsAssumption
    <3> QED
      BY <1>6, <3>1, <3>3, <3>4
  <2>6. ParentAttempt[a] \in Attempts
    BY ResultsAssumption
  <2> QED
    BY <1>3, <2>1, <2>2, <2>3, <2>4, <2>5, <2>6, NextTables, DbFields, Zenon DEF NewInPlace
<1>11. Sound(World, Db', NoMarks)
  <2>1. {k} \in SUBSET Keys
    BY <1>3
  <2> QED
    BY <1>8, <1>9, <1>10, <2>1, DbTyped, TouchedSound DEF ResultsSound
<1> QED
  BY <1>1, <1>11, SameWorld

\* submit, askHint and generateTaskToken.
LEMMA TouchTaskSound ==
  ASSUME ResultsTypes, ResultsSound, NEW k \in Keys, TouchTask(k)
  PROVE  ResultsSound'
<1> DEFINE row == [results[k] EXCEPT !.activity = clock']
<1>1. results' = [results EXCEPT ![k] = row] /\ marks' = InsertIgnore(marks, {k})
      /\ UNCHANGED <<recompute, children, noScore, deps, grants, visible, late, rescored, reshaped, lost>>
      /\ Exists(results, k) /\ results[k].started
  BY DEF TouchTask, Started
<1>2. clock' = clock + 1 /\ clock' \in Nat /\ clock \in Nat
  BY CallTyped, Zenon DEF TouchTask, ResultsTypes
<1>3. results[k] \in ResultRow
  BY <1>1, RowsExist DEF ResultsTypes
<1>4. /\ row \in ResultRow /\ row # NoResult /\ row.activity # 0
      /\ row.score = results[k].score /\ row.tried = results[k].tried
      /\ row.validatedAt = results[k].validatedAt
  BY <1>2, <1>3, ResultsAssumption DEF ResultRow
<1> HIDE DEF row
<1>5. \A j \in Keys : results'[j] = IF j = k THEN row ELSE results[j]
  BY <1>1 DEF ResultsTypes, ResultTables
<1>6. Touches(Db', Db, {k})
  <2> SUFFICES ASSUME NEW j \in Keys
               PROVE  IF j \notin {k} THEN results'[j] = results[j]
                      ELSE /\ Exists(results', j) /\ results'[j].activity # 0
                           /\ Shown(results', j) = Shown(results, j)
    <3>1. lost \subseteq lost'
      BY <1>1
    <3> QED
      BY <1>1, <3>1, NextTables, DbFields, Zenon DEF Touches
  <2>1. CASE j = k
    <3>1. results'[j] = row /\ Exists(results', j) /\ Exists(results, j)
      BY <1>1, <1>4, <1>5, <2>1 DEF Exists
    <3>2. Shown(results', j) = <<row.score, row.tried, row.validatedAt>>
      BY <3>1, Zenon DEF Shown
    <3>3. Shown(results, j) = <<results[k].score, results[k].tried, results[k].validatedAt>>
      BY <2>1, <3>1, Zenon DEF Shown
    <3> QED
      BY <1>4, <2>1, <3>1, <3>2, <3>3
  <2>2. CASE j # k
    BY <1>5, <2>2
  <2> QED
    BY <2>1, <2>2
<1>7. NothingHidden(Db', Db, {k})
  <2>1. results[k].activity # 0
    BY <1>1, AttemptsInPlace
  <2> QED
    BY <2>1, DbFields DEF NothingHidden
<1>8. NewInPlace(Db', Db, {k})
  BY <1>1, DbFields DEF NewInPlace
<1>9. Sound(World, Db', NoMarks)
  BY <1>6, <1>7, <1>8, DbTyped, TouchedSound DEF ResultsSound
<1> QED
  BY <1>1, <1>9, SameWorld

\* startResultPath.
LEMMA StartResultPathSound ==
  ASSUME ResultsTypes, ResultsSound, NEW r \in RootItems, NEW i \in Items, StartResultPath(r, i)
  PROVE  ResultsSound'
<1> DEFINE path == <<r, i>>
           best == {s \in AttemptPaths(path) : \A t \in AttemptPaths(path) : ~Before(path, t, s)}
           Written(s) == {<<s[n], path[n]>> : n \in Unstarted(path, s)}
<1>1. PICK s \in best :
        /\ results' = [k \in Keys |->
             IF k \notin Written(s) THEN results[k]
             ELSE IF Exists(results, k) THEN [results[k] EXCEPT !.activity = clock', !.started = TRUE]
             ELSE StartedResult(clock')]
        /\ marks' = InsertIgnore(marks, Written(s))
        /\ lost' = lost \union {j \in Written(s) : marks[j] = "to_be_recomputed"}
  BY Zenon DEF StartResultPath
<1>2. /\ UNCHANGED <<recompute, children, noScore, deps, grants, visible, late, rescored, reshaped>>
      /\ <<r, i>> \in children /\ {r, i} \subseteq visible
  BY Zenon DEF StartResultPath
<1>3. clock' = clock + 1 /\ clock' \in Nat /\ clock \in Nat
  BY CallTyped, Zenon DEF StartResultPath, ResultsTypes
<1>4. r \in Items /\ r \in visible /\ i \in visible
  BY <1>2 DEF ResultsTypes
<1> DEFINE K == Written(s)
<1>5. s \in AttemptPaths(path)
  OBVIOUS
<1> HIDE DEF best
<1>6. /\ s[1] \in Attempts /\ s[2] \in Attempts /\ AttemptExists(s[1]) /\ AttemptExists(s[2])
      /\ r \in Explicit => Exists(results, <<s[1], r>>)
      /\ i \in Explicit => Exists(results, <<s[2], i>>)
      /\ s[1] = 0 \/ Exists(results, <<s[1], r>>)
      /\ AttemptAbove(<<s[2], i>>) = s[1]
  <2>1. DOMAIN path = {1, 2} /\ path[1] = r /\ path[2] = i
    OBVIOUS
  <2> HIDE DEF path
  <2>2. 1 \in DOMAIN path /\ 2 \in DOMAIN path
    BY <2>1
  <2> QED
    BY <1>5, <2>1, <2>2 DEF AttemptPaths
<1>7. K \subseteq {<<s[1], r>>, <<s[2], i>>}
  <2>1. DOMAIN path = {1, 2} /\ path[1] = r /\ path[2] = i
    OBVIOUS
  <2> HIDE DEF path
  <2> QED
    BY <2>1 DEF Unstarted
<1>8. /\ marks' = InsertIgnore(marks, K)
      /\ lost' = lost \union {j \in K : marks[j] = "to_be_recomputed"}
      /\ \A k \in Keys : results'[k] = IF k \notin K THEN results[k]
           ELSE IF Exists(results, k) THEN [results[k] EXCEPT !.activity = clock', !.started = TRUE]
           ELSE StartedResult(clock')
  <2>1. \A k \in Keys : results'[k] = IF k \notin K THEN results[k]
           ELSE IF Exists(results, k) THEN [results[k] EXCEPT !.activity = clock', !.started = TRUE]
           ELSE StartedResult(clock')
    <3> HIDE DEF Written
    <3> QED
      BY <1>1, Zenon
  <2> QED
    BY <1>1, <2>1
<1> HIDE DEF K, path, Written
<1>9. K \in SUBSET Keys
  BY <1>4, <1>6, <1>7, KeysAre
<1>10. ASSUME NEW k \in K
       PROVE  /\ Exists(results', k) /\ results'[k].activity # 0
              /\ Shown(results', k) = Shown(results, k)
  <2>1. k \in Keys
    BY <1>9
  <2>2. CASE Exists(results, k)
    <3> DEFINE row == [results[k] EXCEPT !.activity = clock', !.started = TRUE]
    <3>1. results[k] \in ResultRow
      BY <2>1, <2>2, RowsExist DEF ResultsTypes
    <3>2. results'[k] = row
      BY <1>8, <2>1, <2>2, Zenon
    <3>3. /\ row.activity = clock' /\ row.score = results[k].score /\ row.tried = results[k].tried
          /\ row.validatedAt = results[k].validatedAt /\ row # NoResult
      BY <1>3, <3>1, StartedShows, Zenon
    <3> HIDE DEF row
    <3>4. row.activity # 0
      BY <1>3, <3>3
    <3> QED
      BY <2>2, <3>2, <3>3, <3>4, Zenon DEF Exists, Shown
  <2>3. CASE ~Exists(results, k)
    <3>1. results'[k] = StartedResult(clock')
      BY <1>8, <2>1, <2>3, Zenon
    <3>2. StartedResult(clock') # NoResult /\ StartedResult(clock').activity # 0
          /\ StartedResult(clock').score = 0 /\ StartedResult(clock').tried = 0
          /\ StartedResult(clock').validatedAt = 0
      BY <1>3, NewRows, NewRowsShowNothing
    <3> QED
      BY <2>3, <3>1, <3>2, Zenon DEF Exists, Shown, Blank
  <2> QED
    BY <2>2, <2>3
<1>11. \A k \in Keys : k \notin K => results'[k] = results[k]
  BY <1>8, Zenon
<1>12. Touches(Db', Db, K)
  <2>1. lost \subseteq lost'
    BY <1>8
  <2> QED
    BY <1>2, <1>8, <1>10, <1>11, <2>1, NextTables, DbFields, Zenon DEF Touches
<1>13. NothingHidden(Db', Db, K)
  BY <1>8, NextTables, DbFields DEF NothingHidden
<1>14. NewInPlace(Db', Db, K)
  <2>1. \A a : AttemptIn(results, a) /\ a \in Attempts => AttemptIn(results', a)
    <3>1. \A a \in Attempts : a # 0 => <<a, AttemptRoot[a]>> \in Keys
      BY KeysAre, ResultsAssumption
    <3>2. \A k \in Keys : Exists(results, k) => Exists(results', k)
      BY <1>10, <1>11 DEF Exists
    <3> QED
      BY <3>1, <3>2 DEF AttemptIn
  <2>2. ASSUME NEW k \in K, ~Exists(results, k)
        PROVE  /\ k[1] \in reshaped \/ ScopeBy(children, k)
               /\ AttemptIn(results, k[1]) /\ (k[1] # 0 => AttemptIn(results, ParentAttempt[k[1]]))
               /\ k[2] \in visible \ Explicit /\ k[1] \in Attempts
    <3>1. CASE k = <<s[1], r>>
      <4>1. k[1] = s[1] /\ k[2] = r /\ s[1] = 0
        BY <1>6, <2>2, <3>1
      <4>2. ScopeBy(children, k)
        BY <1>6, <4>1, ResultsAssumption DEF ScopeBy
      <4> QED
        BY <1>4, <1>6, <2>2, <3>1, <4>1, <4>2, AttemptsInPlace
    <3>2. CASE k = <<s[2], i>>
      <4>1. k[1] = s[2] /\ k[2] = i
        BY <3>2
      <4>2. k[1] \in reshaped \/ ScopeBy(children, k)
        <5>1. CASE AttemptRoot[s[2]] = i
          BY <4>1, <5>1 DEF ScopeBy
        <5>2. CASE AttemptRoot[s[2]] # i /\ s[1] = 0
          BY <1>6, <4>1, <5>2, ResultsAssumption DEF ScopeBy, AttemptAbove
        <5>3. CASE AttemptRoot[s[2]] # i /\ Exists(results, <<s[1], r>>)
          <6>1. s[2] = s[1]
            BY <1>6, <5>3 DEF AttemptAbove
          <6>2. <<s[1], r>> \in Keys
            BY <1>4, <1>6, KeysAre
          <6>3. s[1] \in reshaped \/ ScopeBy(children, <<s[1], r>>)
            BY <5>3, <6>2, AttemptsInPlace
          <6>4. r \in ParentsBy(children, i)
            BY <1>2, <1>4 DEF ParentsBy
          <6>5. r \in AncestorsBy(children, i) /\ AncestorsBy(children, r) \subseteq AncestorsBy(children, i)
            BY <6>4, AncestorsOfParent
          <6> QED
            BY <4>1, <6>1, <6>3, <6>5 DEF ScopeBy
        <5> QED
          BY <1>6, <5>1, <5>2, <5>3
      <4> QED
        BY <1>4, <1>6, <2>2, <3>2, <4>1, <4>2, AttemptsInPlace
    <3> QED
      BY <1>7, <3>1, <3>2
  <2>3. \A a \in Attempts : ParentAttempt[a] \in Attempts
    BY ResultsAssumption
  <2> QED
    BY <2>1, <2>2, <2>3, NextTables, DbFields DEF NewInPlace
<1>15. Sound(World, Db', NoMarks)
  BY <1>9, <1>12, <1>13, <1>14, DbTyped, TouchedSound DEF ResultsSound
<1> QED
  BY <1>2, <1>15, SameWorld


\* saveGrade: the score of the task, and all that it changes above.
LEMMA SaveTaskGradeSound ==
  ASSUME ResultsTypes, ResultsSound, NEW k \in Keys, NEW score \in {0, 100}, SaveTaskGrade(k, score)
  PROVE  ResultsSound'
<1> DEFINE db0 == GradedDb(k, score, clock')
           K == {j \in Keys : Exists(results, j)}
           db == Settled(db0)
<1>1. clock' \in Nat
  BY CallTyped, Zenon DEF SaveTaskGrade
<1>2. /\ Exists(results, k) /\ results[k].started /\ k[2] \in Tasks
      /\ results' = db.results /\ grants' = db.grants /\ visible' = db.visible /\ lost' = db.lost
      /\ UNCHANGED <<marks, recompute, children, noScore, deps, late, rescored, reshaped>>
  BY DEF SaveTaskGrade, Started, GradedDb, Graded
<1>3. /\ db0 \in Dbs(K)
      /\ \E row : /\ row # NoResult /\ row.activity = results[k].activity /\ row.started = results[k].started
                  /\ \A j \in Keys : db0.results[j] = IF j = k THEN row ELSE results[j]
      /\ db0.marks = InsertIgnore(NoMarks, {k}) /\ db0.grants = grants /\ db0.visible = visible
      /\ db0.again = FALSE /\ db0.lost = lost
  BY <1>1, <1>2, GradedTyped
<1> HIDE DEF db0
<1>4. PICK row : /\ row # NoResult /\ row.activity = results[k].activity /\ row.started = results[k].started
                 /\ \A j \in Keys : db0.results[j] = IF j = k THEN row ELSE results[j]
  BY <1>3
<1>5. \A j \in Keys : db0.marks[j] = IF j = k THEN "to_be_propagated" ELSE "none"
  BY <1>3 DEF InsertIgnore, NoMarks
<1>6. \A j \in Keys : /\ Exists(db0.results, j) <=> Exists(results, j)
                      /\ j # k => Shown(db0.results, j) = Shown(results, j)
  BY <1>2, <1>4 DEF Exists, Shown
<1>7. Sound(World, db0, marks)
  <2>1. \A j \in Keys : Announced(Db, NoMarks, j) => Announced(db0, marks, j)
    BY <1>3, DbFields DEF Announced, NoMarks
  <2>2. Announced(db0, marks, k)
    BY <1>5 DEF Announced
  <2>3. \A q \in Keys : Awaits(World, Db, NoMarks, q) => Awaits(World, db0, marks, q)
    BY DbFields DEF Awaits, NoMarks
  <2>4. \A q \in Keys : Overdue(World, Db, NoMarks, q) => Overdue(World, db0, marks, q)
    BY <2>1, Zenon DEF Overdue
  <2>5. Aggregated(World, db0, marks)
    <3> SUFFICES ASSUME NEW q \in Keys, Exists(results, q), q[2] \notin Tasks, q[1] \notin reshaped
                 PROVE  \/ \E c \in Items : c \in rescored /\ <<q[2], c>> \in children
                        \/ Awaits(World, db0, marks, q) \/ Overdue(World, db0, marks, q)
                        \/ Shown(db0.results, q) = Due(children, noScore, db0.results, q)
      BY <1>6, WorldFields, Zenon DEF Aggregated
    <3>1. \/ \E c \in Items : c \in rescored /\ <<q[2], c>> \in children
          \/ Awaits(World, Db, NoMarks, q) \/ Overdue(World, Db, NoMarks, q)
          \/ Shown(results, q) = Due(children, noScore, results, q)
      BY WorldFields, DbFields, Zenon DEF ResultsSound, Sound, Aggregated
    <3>2. CASE Counts(children, k, q)
      BY <2>2, <3>2, WorldFields, Zenon DEF Overdue
    <3>3. CASE ~Counts(children, k, q)
      <4>1. q # k
        BY <1>2
      <4>2. \A j \in Keys : Counts(children, j, q) => Shown(db0.results, j) = Shown(results, j)
        BY <1>6, <3>3
      <4>3. Due(children, noScore, db0.results, q) = Due(children, noScore, results, q)
        BY <4>2, DueAgrees
      <4> QED
        BY <1>6, <2>3, <2>4, <3>1, <4>1, <4>3
    <3> QED
      BY <3>2, <3>3
  <2>6. MissingIsNothing(World, db0, marks)
    <3> SUFFICES ASSUME NEW q \in Keys, NEW j \in Keys, ~Exists(results, q), q[1] \notin reshaped,
                        ScopeBy(children, q), q[2] \in visible, q[2] \notin Explicit, Counts(children, j, q)
                 PROVE  Shown(db0.results, j) = Blank \/ Announced(db0, marks, j)
      BY <1>3, <1>6, WorldFields, Zenon DEF MissingIsNothing
    <3>1. Shown(results, j) = Blank \/ Announced(Db, NoMarks, j)
      <4>1. MissingIsNothing(World, Db, NoMarks)
        BY DEF ResultsSound, Sound
      <4>2. /\ ~Exists(Db.results, q) /\ q[1] \notin World.reshaped /\ ScopeBy(World.children, q)
            /\ q[2] \in Db.visible /\ Counts(World.children, j, q)
        BY WorldFields, DbFields
      <4>3. Shown(Db.results, j) = Blank \/ Announced(Db, NoMarks, j)
        BY <4>1, <4>2, q[2] \notin Explicit DEF MissingIsNothing
      <4> QED
        BY <4>3, DbFields
    <3> QED
      BY <1>6, <2>1, <2>2, <3>1
  <2>7. Earned(World, db0, marks)
    <3> SUFFICES ASSUME NEW d \in deps \ late, NEW q \in Keys, q[2] = d.item, Exists(results, q),
                        d.score <= db0.results[q].score
                 PROVE  \/ d.dependent \in grants \/ q \in lost
                        \/ db0.marks[q] \in {"to_be_propagated", "propagating"}
                        \/ marks[q] \in {"to_be_propagated", "propagating"}
                        \/ db0.results[q].activity = 0 /\ "to_be_recomputed" \in {db0.marks[q], marks[q]}
      BY <1>3, <1>6, WorldFields, Zenon DEF Earned
    <3>1. CASE q = k
      BY <1>5, <3>1
    <3>2. CASE q # k
      <4>1. db0.results[q] = results[q]
        BY <1>4, <3>2
      <4>2. d.score <= results[q].score
        BY <4>1
      <4>3. \/ d.dependent \in grants \/ q \in lost
            \/ marks[q] \in {"to_be_propagated", "propagating"}
            \/ NoMarks[q] \in {"to_be_propagated", "propagating"}
            \/ results[q].activity = 0 /\ "to_be_recomputed" \in {marks[q], NoMarks[q]}
        BY <4>2, WorldFields, DbFields, Zenon DEF ResultsSound, Sound, Earned
      <4>4. NoMarks[q] = "none"
        BY DEF NoMarks
      <4> QED
        BY <4>1, <4>3, <4>4
    <3> QED
      BY <3>1, <3>2
  <2>8. InPlace(World, db0.results)
    <3>1. \A a \in Attempts : AttemptIn(results, a) => AttemptIn(db0.results, a)
      <4>1. \A a \in Attempts : a # 0 => <<a, AttemptRoot[a]>> \in Keys
        BY KeysAre, ResultsAssumption
      <4> QED
        BY <1>6, <4>1 DEF AttemptIn
    <3> SUFFICES ASSUME NEW q \in Keys, Exists(db0.results, q)
                 PROVE  /\ q[1] \in reshaped \/ ScopeBy(children, q)
                        /\ AttemptIn(db0.results, q[1])
                        /\ q[1] # 0 => AttemptIn(db0.results, ParentAttempt[q[1]])
                        /\ db0.results[q].started => db0.results[q].activity # 0
      BY WorldFields, Zenon DEF InPlace
    <3>2. q[1] \in Attempts /\ ParentAttempt[q[1]] \in Attempts
      BY KeysAre, ResultsAssumption
    <3>3. /\ db0.results[q].started => results[q].started
          /\ results[q].activity # 0 => db0.results[q].activity # 0
      BY <1>4
    <3>4. Exists(results, q)
      BY <1>6
    <3>5. /\ q[1] \in reshaped \/ ScopeBy(children, q)
          /\ AttemptIn(results, q[1]) /\ (q[1] # 0 => AttemptIn(results, ParentAttempt[q[1]]))
          /\ results[q].started => results[q].activity # 0
      BY <3>4, AttemptsInPlace
    <3> QED
      BY <3>1, <3>2, <3>3, <3>5
  <2> QED
    BY <2>5, <2>6, <2>7, <2>8 DEF Sound
<1>8. db \in SoundDbs(K, marks)
  <2>1. db0 \in SoundDbs(K, marks)
    BY <1>3, <1>7 DEF SoundDbs
  <2> QED
    BY <2>1, SettledSound DEF ResultsSound, ResultsTypes
<1>9. db.marks = NoMarks
  <2>1. MarksAmong(db0.marks, {"none", "to_be_propagated"})
    BY <1>5 DEF MarksAmong
  <2> QED
    BY <1>3, <2>1, SettledEnds DEF ResultsSound, ResultsTypes
<1> HIDE DEF db
<1>10. Sound(World, Db', NoMarks)
  <2>1. Sound(World, db, marks)
    BY <1>8 DEF SoundDbs
  <2>2. /\ Db'.results = db.results /\ Db'.visible = db.visible /\ Db'.lost = db.lost
        /\ Db'.grants = db.grants /\ Db'.marks = marks
    BY <1>2, NextTables
  <2> QED
    BY <1>9, <2>1, <2>2, MarksSwapped
<1> QED
  BY <1>2, <1>10, SameWorld

\* updateItem with a child more.
LEMMA AddItemChildSound ==
  ASSUME ResultsTypes, ResultsSound, NEW edge \in AddedChildren, AddItemChild(edge)
  PROVE  ResultsSound'
<1> DEFINE p == edge[1]
           c == edge[2]
           of == [i \in Items |-> {k \in Keys : k[2] = i /\ Exists(results, k)}]
           m == InsertIgnore(marks, of[c])
<1>1. p \in Items /\ c \in Items /\ edge = <<p, c>>
  BY ResultsAssumption
<1>2. of[p] = {k \in Keys : k[2] = p /\ Exists(results, k)} /\ of[c] = {k \in Keys : k[2] = c /\ Exists(results, k)}
  BY <1>1
<1>3. /\ children' = children \union {edge}
      /\ p \notin {c} \union Descendants(c)
      /\ reshaped' = reshaped \union AttemptsOver(p)
      /\ UNCHANGED <<results, recompute, noScore, deps, grants, visible, late, rescored>>
  BY Zenon DEF AddItemChild
<1>4. marks' = SetToBeRecomputed(m, of[p])
  BY <1>2, Zenon DEF AddItemChild
<1>5. lost' = lost \union Overwritten(marks, of[p])
              \union Ignored(marks, {k \in of[c] : ~Exists(results, <<AttemptAbove(k), p>>)})
  BY <1>2, Zenon DEF AddItemChild
<1> HIDE DEF of, p, c
<1>6. c \notin {p} \union AncestorsBy(children, p)
  BY <1>1, <1>3, LinksAreBy DEF Descendants
<1>7. Reshapes(World', World, p)
  <2>1. AttemptsOver(p) = {a \in Attempts : AttemptRoot[a] \in {p} \union AncestorsBy(children, p)}
    BY LinksAreBy DEF AttemptsOver
  <2> QED
    BY <1>3, <2>1, NextTables, WorldFields, Zenon DEF Reshapes
<1>8. World'.children = World.children \union {<<p, c>>} /\ World'.recompute = World.recompute
  BY <1>1, <1>3, NextTables, WorldFields
<1>9. AcyclicBy(children')
  <2>1. OneMore(children', children, p, c)
    BY <1>1, <1>3 DEF OneMore
  <2> QED
    BY <1>1, <1>6, <2>1, LinkAdded DEF ResultsSound
<1>10. Sound(World', Db', NoMarks)
  <2>1. LinkMarked(Db', Db, p, c)
    <3>1. /\ of[p] = {k \in Keys : k[2] = p /\ Exists(Db.results, k)}
          /\ of[c] = {k \in Keys : k[2] = c /\ Exists(Db.results, k)}
      BY <1>2, DbFields
    <3>2. /\ Db'.results = Db.results /\ Db'.grants = Db.grants /\ Db'.visible = Db.visible
          /\ Db'.marks = SetToBeRecomputed(InsertIgnore(Db.marks, of[c]), of[p])
      BY <1>3, <1>4, NextTables, DbFields
    <3>3. Db'.lost = Db.lost \union Overwritten(Db.marks, of[p])
                     \union Ignored(Db.marks, {k \in of[c] : ~Exists(Db.results, <<AttemptAbove(k), p>>)})
      BY <1>5, NextTables, DbFields, Zenon
    <3> QED
      BY <3>1, <3>2, <3>3, Zenon DEF LinkMarked
  <2>2. AcyclicBy(World.children) /\ c \notin {p} \union AncestorsBy(World.children, p)
        /\ Db \in Dbs({}) /\ Sound(World, Db, NoMarks)
    BY <1>6, WorldFields, DbTyped DEF ResultsSound
  <2> QED
    BY <1>1, <1>7, <1>8, <2>1, <2>2, LinkAddedSound
<1> QED
  BY <1>9, <1>10, SoundNext

\* updateItem with a child less.
LEMMA RemoveItemChildSound ==
  ASSUME ResultsTypes, ResultsSound, NEW edge \in AddedChildren, RemoveItemChild(edge)
  PROVE  ResultsSound'
<1> DEFINE p == edge[1]
           c == edge[2]
<1>1. p \in Items /\ c \in Items /\ edge = <<p, c>>
  BY ResultsAssumption
<1>2. /\ children' = children \ {edge} /\ edge \in children
      /\ recompute' = [recompute EXCEPT ![p] = IF @ = "none" THEN "todo" ELSE @]
      /\ reshaped' = reshaped \union AttemptsOver(p)
      /\ UNCHANGED <<results, marks, noScore, deps, grants, visible, late, rescored, lost>>
  BY Zenon DEF RemoveItemChild
<1> HIDE DEF p, c
<1>3. recompute'[p] # "none" /\ \A i \in Items : recompute[i] # "none" => recompute'[i] # "none"
  BY <1>1, <1>2 DEF ResultsTypes
<1>4. Reshapes(World', World, p)
  <2>1. AttemptsOver(p) = {a \in Attempts : AttemptRoot[a] \in {p} \union AncestorsBy(children, p)}
    BY LinksAreBy DEF AttemptsOver
  <2> QED
    BY <1>2, <2>1, NextTables, WorldFields, Zenon DEF Reshapes
<1>5. SameRows(Db', Db)
  BY <1>2, NextTables, DbFields DEF SameRows
<1>6. World'.children = World.children \ {<<p, c>>} /\ <<p, c>> \in World.children
      /\ World'.recompute[p] # "none" /\ \A i \in Items : World.recompute[i] # "none" => World'.recompute[i] # "none"
  BY <1>1, <1>2, <1>3, NextTables, WorldFields
<1>7. Sound(World', Db', NoMarks)
  BY <1>1, <1>4, <1>5, <1>6, LinkRemovedSound DEF ResultsSound
<1>8. AcyclicBy(children')
  <2>1. children' \subseteq children
    BY <1>2
  <2> QED
    BY <2>1, LinkRemoved DEF ResultsSound
<1> QED
  BY <1>7, <1>8, SoundNext

\* updateItem with another no_score.
LEMMA ChangeNoScoreSound ==
  ASSUME ResultsTypes, ResultsSound, NEW i \in Items, ChangeNoScore(i)
  PROVE  ResultsSound'
<1> DEFINE own == {k \in Keys : k[2] = i /\ Exists(results, k)}
<1>1. /\ noScore' = IF i \in noScore THEN noScore \ {i} ELSE noScore \union {i}
      /\ marks' = SetToBeRecomputed(marks, own) /\ lost' = lost \union Overwritten(marks, own)
      /\ rescored' = rescored \union {i}
      /\ UNCHANGED <<results, recompute, children, deps, grants, visible, late, reshaped>>
  BY Zenon DEF ChangeNoScore
<1>2. own \in SUBSET Keys /\ \A k \in Keys : k[2] = i /\ Exists(results, k) => k \in own
  OBVIOUS
<1> HIDE DEF own
<1>3. \A j : j # i => (j \in noScore' <=> j \in noScore)
  BY <1>1
<1>4. Remarks(Db', Db, own)
  BY <1>1, NextTables, DbFields, Zenon DEF Remarks
<1>5. ASSUME NEW k \in Keys
      PROVE  \/ ~Exists(results, k) \/ k \in own
             \/ \E c \in Items : c \in rescored' /\ <<k[2], c>> \in children
             \/ Due(children, noScore', results, k) = Due(children, noScore, results, k)
  <2> SUFFICES ASSUME k[2] # i, <<k[2], i>> \notin children
               PROVE  Due(children, noScore', results, k) = Due(children, noScore, results, k)
    BY <1>1, <1>2
  <2>1. Scored(children, noScore', k[2]) = Scored(children, noScore, k[2])
    BY <1>3 DEF Scored
  <2>2. (k[2] \in noScore') = (k[2] \in noScore)
    BY <1>3
  <2> QED
    BY <2>1, <2>2, Zenon DEF Due
<1>6. /\ World'.children = World.children /\ World'.deps = World.deps /\ World'.late = World.late
      /\ World'.reshaped = World.reshaped /\ World'.recompute = World.recompute
      /\ World.rescored \subseteq World'.rescored
  BY <1>1, NextTables, WorldFields
<1>7. \A k \in Keys : \/ ~Exists(Db.results, k) \/ k \in own
                      \/ \E c \in Items : c \in World'.rescored /\ <<k[2], c>> \in World.children
                      \/ Due(World.children, World'.noScore, Db.results, k)
                         = Due(World.children, World.noScore, Db.results, k)
  BY <1>5, NextTables, WorldFields, DbFields
<1>8. Sound(World', Db', NoMarks)
  BY <1>2, <1>4, <1>6, <1>7, RemarkedSound DEF ResultsSound
<1> QED
  BY <1>1, <1>8, SoundNext DEF ResultsSound

\* Permissions make an item visible.
LEMMA BecomesVisibleSound ==
  ASSUME ResultsTypes, ResultsSound, NEW i \in Items, BecomesVisible(i)
  PROVE  ResultsSound'
<1> DEFINE below == {k \in Keys : Exists(results, k) /\ i \in Ancestors(k[2])}
<1>1. /\ visible' = visible \union {i}
      /\ marks' = InsertIgnore(marks, below)
      /\ lost' = lost \union Ignored(marks, TopsOf(results, below))
      /\ UNCHANGED <<results, recompute, children, noScore, deps, grants, late, rescored, reshaped>>
  BY Zenon DEF BecomesVisible
<1>2. below = ResultsBelow(results, {i})
  BY DEF ResultsBelow
<1> HIDE DEF below
<1>3. Sees(Db', Db, {i})
  BY <1>1, <1>2, NextTables, DbFields, Zenon DEF Sees
<1>4. Sound(World, Db', NoMarks)
  BY <1>3, DbTyped, SeenSound DEF ResultsSound
<1> QED
  BY <1>1, <1>4, SameWorld

\* The command recompute-results, and changes of dependencies.
LEMMA OtherCallsSound ==
  ASSUME ResultsTypes, ResultsSound,
         \/ \E i \in Items : RecomputeCommand(i)
         \/ \E d \in Dependencies : CreateDependency(d) \/ DeleteDependency(d) \/ ApplyDependency(d)
  PROVE  ResultsSound'
<1>1. UNCHANGED <<results, marks, children, noScore, visible, rescored, reshaped, lost>>
  BY Zenon DEF RecomputeCommand, CreateDependency, DeleteDependency, ApplyDependency
<1>2. SameRows(Db', Db) /\ NoLessAsked(World', World, Db')
  <2> SUFFICES /\ grants \subseteq grants'
               /\ \A i \in Items : recompute[i] # "none" => recompute'[i] # "none"
               /\ \A d \in deps' \ late' :
                    \/ d \in deps \ late
                    \/ \A k \in Keys : k[2] = d.item /\ Exists(results, k) /\ d.score <= results[k].score
                                       => d.dependent \in grants'
    <3>1. \A k \in Keys : k[2] \in Items
      BY KeysAre
    <3>2. SameRows(Db', Db) <=> grants \subseteq grants'
      BY <1>1, NextTables, DbFields, Zenon DEF SameRows
    <3> QED
      BY <1>1, <3>1, <3>2, NextTables, DbFields, WorldFields, Zenon DEF NoLessAsked
  <2>1. CASE \E i \in Items : RecomputeCommand(i)
    <3>1. PICK i \in Items : RecomputeCommand(i)
      BY <2>1
    <3>2. recompute' = [recompute EXCEPT ![i] = "todo"] /\ UNCHANGED <<deps, late, grants>>
      BY <3>1 DEF RecomputeCommand
    <3> QED
      BY <3>2 DEF ResultsTypes
  <2>2. CASE \E d \in Dependencies : CreateDependency(d)
    BY <2>2 DEF CreateDependency
  <2>3. CASE \E d \in Dependencies : DeleteDependency(d)
    BY <2>3 DEF DeleteDependency
  <2>4. CASE \E d \in Dependencies : ApplyDependency(d)
    <3>1. PICK d \in Dependencies : ApplyDependency(d)
      BY <2>4
    <3>2. /\ UNCHANGED <<deps, recompute>> /\ late' = late \ {d}
          /\ grants' = grants \union {e \in {d.dependent} : \E k \in Keys :
                         k[2] = d.item /\ Exists(results, k) /\ d.score <= results[k].score}
      BY <3>1, Zenon DEF ApplyDependency
    <3> QED
      BY <3>2
  <2> QED
    BY <2>1, <2>2, <2>3, <2>4
<1>3. Sound(World', Db', NoMarks)
  BY <1>2, SameRowsSound DEF ResultsSound
<1> QED
  BY <1>1, <1>3, SoundNext DEF ResultsSound

-------------------------------------------------------------------------------
(* The steps of the propagation, one by one.                               *)

\* A transaction of the propagation writes tables that keep the invariant.
LEMMA BecomeSound ==
  ASSUME ResultsSound, Propagation, recompute' = recompute, NEW db,
         results' = db.results, marks' = db.marks, grants' = db.grants, visible' = db.visible, lost' = db.lost,
         Sound(World, db, NoMarks)
  PROVE  ResultsSound'
<1>1. SameRows(Db', db)
  BY NextTables DEF SameRows
<1>2. NoLessAsked(World, World, Db')
  BY Zenon DEF NoLessAsked
<1>3. Sound(World, Db', NoMarks)
  BY <1>1, <1>2, SameRowsSound
<1> QED
  BY <1>3, SameWorld DEF Propagation

\* One chunk of the filling of the table of marks, or its end.
LEMMA FillStepSound ==
  ASSUME ResultsTypes, ResultsSound, FillStep
  PROVE  ResultsSound'
<1> DEFINE missing == {k \in Keys : /\ Exists(results, k) /\ recompute[k[2]] = "processing"
                                    /\ marks[k] # "to_be_recomputed"}
<1>1. UNCHANGED <<children, noScore, deps, late, rescored, reshaped, results, grants, visible>>
  BY Zenon DEF FillStep, Propagation
<1>2. CASE \E chunk \in Chunks(missing) :
              /\ marks' = SetToBeRecomputed(marks, chunk) /\ lost' = lost \union Overwritten(marks, chunk)
              /\ recompute' = recompute
  <2>1. PICK chunk \in Chunks(missing) :
              /\ marks' = SetToBeRecomputed(marks, chunk) /\ lost' = lost \union Overwritten(marks, chunk)
              /\ recompute' = recompute
    BY <1>2
  <2>2. chunk \in SUBSET Keys
    <3>1. missing \subseteq Keys
      OBVIOUS
    <3> HIDE DEF missing
    <3>2. chunk \subseteq missing
      BY <2>1, <3>1, ChunkIsPart
    <3> QED
      BY <3>1, <3>2
  <2>3. Remarks(Db', Db, chunk)
    BY <1>1, <2>1, NextTables, DbFields, Zenon DEF Remarks
  <2>4. Sound(World, Db', NoMarks)
    BY <2>2, <2>3, RemarkedSound DEF ResultsSound
  <2> QED
    BY <1>1, <2>1, <2>4, SameWorld
<1>3. CASE /\ missing = {} /\ UNCHANGED <<marks, lost>>
           /\ recompute' = [i \in Items |-> IF recompute[i] = "processing" THEN "none" ELSE recompute[i]]
  <2>1. SameRows(Db', Db)
    BY <1>1, <1>3, NextTables, DbFields DEF SameRows
  <2>2. \A k \in Keys : Exists(results, k) /\ recompute[k[2]] # "none"
                        => recompute'[k[2]] # "none" \/ marks'[k] = "to_be_recomputed"
    BY <1>3, KeysAre
  <2>3. NoLessAsked(World', World, Db')
    <3>1. \A k \in Keys : Exists(Db'.results, k) /\ World.recompute[k[2]] # "none"
                          => World'.recompute[k[2]] # "none" \/ Db'.marks[k] = "to_be_recomputed"
      BY <1>1, <2>2, NextTables, WorldFields
    <3>2. /\ World'.children = World.children /\ World'.noScore = World.noScore
          /\ World'.rescored = World.rescored /\ World'.reshaped = World.reshaped
          /\ World'.deps \ World'.late = World.deps \ World.late
      BY <1>1, NextTables, WorldFields
    <3> QED
      BY <3>1, <3>2, Zenon DEF NoLessAsked
  <2>4. Sound(World', Db', NoMarks)
    BY <2>1, <2>3, SameRowsSound DEF ResultsSound
  <2> QED
    BY <1>1, <2>4, SoundNext DEF ResultsSound
<1> QED
  BY <1>2, <1>3, Zenon DEF FillStep

\* The propagation keeps the invariant.
LEMMA PropagateSound ==
  ASSUME ResultsTypes, ResultsSound, Propagate
  PROVE  ResultsSound'
<1>0. Db \in Dbs({}) /\ Sound(World, Db, NoMarks) /\ AcyclicBy(children)
  BY DbTyped DEF ResultsSound
<1>1. ASSUME StartPropagation PROVE ResultsSound'
  <2>1. /\ recompute' = [i \in Items |-> IF recompute[i] = "none" THEN "none" ELSE "processing"]
        /\ UNCHANGED <<children, noScore, deps, late, rescored, reshaped, results, marks, grants, visible, lost>>
    BY <1>1, Zenon DEF StartPropagation, Propagation
  <2>2. SameRows(Db', Db)
    BY <2>1, NextTables, DbFields DEF SameRows
  <2>3. \A k \in Keys : recompute[k[2]] # "none" => recompute'[k[2]] # "none"
    BY <2>1, KeysAre
  <2>4. NoLessAsked(World', World, Db')
    BY <2>1, <2>3, NextTables, WorldFields, Zenon DEF NoLessAsked
  <2>5. Sound(World', Db', NoMarks)
    BY <1>0, <2>2, <2>4, SameRowsSound
  <2> QED
    BY <1>0, <2>1, <2>5, SoundNext
<1>2. ASSUME MarkStep PROVE ResultsSound'
  <2>1. PICK chunk \in Chunks(Marked(Db, "to_be_propagated")) : Become(MarkParents(Db, chunk))
    BY <1>2, Zenon DEF MarkStep
  <2>2. chunk \in SUBSET Marked(Db, "to_be_propagated")
    <3>1. Marked(Db, "to_be_propagated") \subseteq Keys
      BY DEF Marked
    <3> QED
      BY <2>1, <3>1, ChunkIsPart
  <2> DEFINE db == MarkParents(Db, chunk)
  <2>3. Sound(World, db, NoMarks)
    BY <1>0, <2>2, MarkParentsSound
  <2>4. Become(db) /\ Propagation /\ recompute' = recompute
    BY <1>2, <2>1, Zenon DEF MarkStep
  <2> HIDE DEF db
  <2> QED
    BY <2>3, <2>4, BecomeSound DEF Become
<1>3. ASSUME UnlockStep PROVE ResultsSound'
  <2> DEFINE db == UnlockItems(Db)
  <2>1. Sound(World, db, NoMarks)
    BY <1>0, UnlockItemsSound
  <2>2. Become(db) /\ Propagation /\ recompute' = recompute
    BY <1>3, Zenon DEF UnlockStep
  <2> HIDE DEF db
  <2> QED
    BY <2>1, <2>2, BecomeSound DEF Become
<1>4. ASSUME RecomputeStep PROVE ResultsSound'
  <2>1. CASE \E chunk \in Chunks(Recomputable(Db)) : Become(Recompute(Db, chunk))
    <3>1. PICK chunk \in Chunks(Recomputable(Db)) : Become(Recompute(Db, chunk))
      BY <2>1
    <3>2. chunk \in SUBSET Recomputable(Db)
      <4>1. Recomputable(Db) \subseteq Keys
        BY DEF Recomputable, Marked
      <4> QED
        BY <3>1, <4>1, ChunkIsPart
    <3> DEFINE db == Recompute(Db, chunk)
    <3>3. Sound(World, db, NoMarks)
      BY <1>0, <3>2, RecomputeSound
    <3>4. Become(db) /\ Propagation /\ recompute' = recompute
      BY <1>4, <3>1, Zenon DEF RecomputeStep
    <3> HIDE DEF db
    <3> QED
      BY <3>3, <3>4, BecomeSound DEF Become
  <2>2. CASE UNCHANGED <<results, marks, grants, visible, unlocked, lost>>
    <3>1. Propagation /\ recompute' = recompute
      BY <1>4, Zenon DEF RecomputeStep
    <3> QED
      BY <1>0, <2>2, <3>1, DbFields, BecomeSound
  <2> QED
    BY <1>4, <2>1, <2>2, Zenon DEF RecomputeStep
<1>5. ASSUME CheckStep PROVE ResultsSound'
  <2>1. Propagation /\ UNCHANGED <<results, marks, recompute, grants, visible, lost>>
    BY <1>5, Zenon DEF CheckStep
  <2> QED
    BY <1>0, <2>1, DbFields, BecomeSound
<1>6. ASSUME AccessStep PROVE ResultsSound'
  <2> DEFINE db == Access(Db)
  <2>1. Sound(World, db, NoMarks)
    BY <1>0, AccessSound
  <2>2. Become(db) /\ Propagation /\ recompute' = recompute
    BY <1>6, Zenon DEF AccessStep
  <2> HIDE DEF db
  <2> QED
    BY <2>1, <2>2, BecomeSound DEF Become
<1> QED
  BY <1>1, <1>2, <1>3, <1>4, <1>5, <1>6, FillStepSound, Zenon DEF Propagate

\* So do the access that another call computes, and a crash.
LEMMA AccessAndCrashSound ==
  ASSUME ResultsTypes, ResultsSound, ComputeAccess \/ PropagationCrash
  PROVE  ResultsSound'
<1>0. Db \in Dbs({}) /\ Sound(World, Db, NoMarks) /\ AcyclicBy(children)
  BY DbTyped DEF ResultsSound
<1>1. ASSUME ComputeAccess PROVE ResultsSound'
  <2> DEFINE db == Access(Db)
  <2>1. /\ visible' = db.visible /\ marks' = db.marks /\ lost' = db.lost
        /\ Propagation /\ UNCHANGED <<results, recompute, grants>>
    BY <1>1, Zenon DEF ComputeAccess
  <2>2. db.results = Db.results /\ db.grants = Db.grants
    <3> DEFINE gained == (Db.grants \ Explicit) \ Db.visible
    <3>1. \E seen, m, gone : db = [Db EXCEPT !.visible = seen, !.marks = m, !.again = FALSE, !.lost = gone]
      BY DEF Access
    <3> QED
      BY <1>0, <3>1 DEF Dbs, DbRecords
  <2>3. Sound(World, db, NoMarks)
    BY <1>0, AccessSound
  <2> HIDE DEF db
  <2> QED
    BY <2>1, <2>2, <2>3, DbFields, BecomeSound
<1>2. ASSUME PropagationCrash PROVE ResultsSound'
  <2>1. UNCHANGED <<results, marks, recompute, children, noScore, deps, grants, visible, late, rescored,
                    reshaped, lost>>
    BY <1>2, Zenon DEF PropagationCrash
  <2>2. SameRows(Db', Db) /\ NoLessAsked(World, World, Db')
    BY <2>1, NextTables, DbFields, Zenon DEF SameRows, NoLessAsked
  <2>3. Sound(World, Db', NoMarks)
    BY <1>0, <2>2, SameRowsSound
  <2> QED
    BY <2>1, <2>3, SameWorld
<1> QED
  BY <1>1, <1>2

\* Every step keeps the invariant.
LEMMA ResultsSoundKept == ResultsTypes /\ ResultsSound /\ [ResultsNext]_resultsVars => ResultsSound'
<1> SUFFICES ASSUME ResultsTypes, ResultsSound, [ResultsNext]_resultsVars PROVE ResultsSound'
  OBVIOUS
<1>1. ASSUME Service PROVE ResultsSound'
  BY <1>1, StartResultSound, CreateAttemptSound, StartResultPathSound, TouchTaskSound, SaveTaskGradeSound,
     AddItemChildSound, RemoveItemChildSound, ChangeNoScoreSound, BecomesVisibleSound, OtherCallsSound,
     Zenon DEF Service
<1>2. ASSUME UNCHANGED resultsVars PROVE ResultsSound'
  <2>1. UNCHANGED <<results, marks, recompute, children, noScore, deps, grants, visible, unlocked, late,
                    rescored, reshaped, lost>>
    BY <1>2 DEF resultsVars
  <2>2. World' = World /\ Db' = Db
    BY <2>1 DEF World, Db
  <2> QED
    BY <2>1, <2>2, SoundNext DEF ResultsSound
<1> QED
  BY <1>1, <1>2, PropagateSound, AccessAndCrashSound, Zenon DEF ResultsNext

-------------------------------------------------------------------------------
(* The invariant holds at the start, and makes the results settled.        *)

\* The initial tables, of started results that show nothing.
LEMMA ResultsSoundStart == ResultsInit => ResultsSound
<1> SUFFICES ASSUME ResultsInit PROVE ResultsSound
  OBVIOUS
<1>0. /\ results = [k \in Keys |-> IF k \in InitialStarted THEN StartedResult(1) ELSE NoResult]
      /\ children = InitialChildren /\ deps = InitialDeps
  BY DEF ResultsInit
<1>1. \A k \in Keys : Exists(results, k) <=> k \in InitialStarted
  BY <1>0, NewRows DEF Exists
<1>2. \A k \in InitialStarted : results[k].score = 0 /\ results[k].activity = 1
                                /\ Shown(results, k) = Blank
  <2>1. \A k \in InitialStarted : k \in Keys /\ results[k] = StartedResult(1)
    BY <1>0, ResultsAssumption
  <2> QED
    BY <2>1, NewRowsShowNothing DEF Shown, Blank
<1>3. \A k \in Keys : Shown(results, k) = Blank
  BY <1>1, <1>2 DEF Shown
<1>4. AcyclicBy(children)
  <2>1. \A i, j : <<i, j>>[1] = i /\ <<i, j>>[2] = j
    OBVIOUS
  <2> QED
    BY <1>0, <2>1, InitialChildrenAcyclic, Zenon DEF AcyclicBy
<1>5. Aggregated(World, Db, NoMarks)
  <2>1. \A k \in Keys : Due(children, noScore, results, k) = Blank
    <3> TAKE k \in Keys
    <3>1. \A j \in Keys : Counts(children, j, k) => Shown(results, j) = Blank
      BY <1>3
    <3> QED
      BY <3>1, DueOfNothing
  <2> QED
    BY <1>3, <2>1, WorldFields, DbFields, Zenon DEF Aggregated
<1>6. MissingIsNothing(World, Db, NoMarks)
  BY <1>3, DbFields, Zenon DEF MissingIsNothing
<1>7. Earned(World, Db, NoMarks)
  <2> SUFFICES ASSUME NEW d \in deps, NEW k \in Keys, k[2] = d.item, Exists(results, k),
                      d.score <= results[k].score
               PROVE  FALSE
    BY WorldFields, DbFields, Zenon DEF Earned
  <2>1. d.score > 0 /\ d.score \in Nat
    BY <1>0, <1>1, InitialStartedInPlace, ResultsAssumption
  <2> QED
    BY <1>1, <1>2, <2>1
<1>8. InPlace(World, Db.results)
  <2> SUFFICES ASSUME NEW k \in Keys, Exists(results, k)
               PROVE  /\ ScopeBy(children, k)
                      /\ AttemptIn(results, k[1]) /\ (k[1] # 0 => AttemptIn(results, ParentAttempt[k[1]]))
                      /\ results[k].activity # 0
    BY WorldFields, DbFields, Zenon DEF InPlace
  <2>1. k \in InitialStarted /\ k[1] \in Attempts /\ k[2] \in Items
    BY <1>1, KeysAre
  <2>2. ScopeBy(children, k)
    <3> DEFINE T == {k[2]} \union AncestorsBy(children, k[2])
    <3>1. T \in SUBSET Items /\ k[2] \in T
      BY <2>1, AncestorFacts
    <3>2. \A edge \in children : edge[2] \in T => edge[1] \in T
      <4>1. /\ ParentsBy(children, k[2]) \subseteq AncestorsBy(children, k[2])
            /\ UpClosed(children, AncestorsBy(children, k[2]))
        BY <2>1, AncestorFacts
      <4> TAKE edge \in children
      <4>2. edge[1] \in Items /\ edge[2] \in Items /\ <<edge[1], edge[2]>> \in children
        BY <1>0, ResultsAssumption
      <4> QED
        BY <4>1, <4>2 DEF UpClosed, Above, ParentsBy
    <3>3. AttemptRoot[k[1]] \in T \union {NoItem}
      <4> HIDE DEF T
      <4> QED
        BY <1>0, <2>1, <3>1, <3>2, InitialStartedInPlace, Zenon
    <3> QED
      BY <3>3 DEF ScopeBy
  <2>3. AttemptIn(results, k[1]) /\ (k[1] # 0 => AttemptIn(results, ParentAttempt[k[1]]))
    <3>1. \A a : <<a, AttemptRoot[a]>> \in InitialStarted => AttemptIn(results, a)
      BY <1>1, ResultsAssumption DEF AttemptIn
    <3>2. AttemptIn(results, 0)
      BY DEF AttemptIn
    <3> QED
      BY <2>1, <3>1, <3>2, InitialStartedInPlace
  <2> QED
    BY <1>2, <2>1, <2>2, <2>3
<1> QED
  BY <1>4, <1>5, <1>6, <1>7, <1>8 DEF ResultsSound, Sound

\* At rest, what is announced, awaited or overdue was lost.
LEMMA SettledWhenIdle == ResultsTypes /\ ResultsSound => IdleMeansSettled
<1> SUFFICES ASSUME ResultsTypes, ResultsSound, Quiet PROVE IdleMeansSettled
  BY DEF IdleMeansSettled, IdleMeansAggregated, IdleMeansUnlocked
<1>0. \A k \in Keys : marks[k] = "none" /\ recompute[k[2]] = "none" /\ NoMarks[k] = "none"
  BY DEF Quiet, NoMarks
<1>1. ASSUME NEW k \in Keys, Exists(results, k), k[2] \notin Tasks, k[1] \notin reshaped,
             Children(k[2]) \intersect rescored = {}, ~LostBelow(k)
      PROVE  LET due == Aggregate(results, k)
             IN /\ results[k].score = due.score /\ results[k].tried = due.tried
                /\ results[k].validatedAt = due.validatedAt
  <2>1. \/ \E c \in Items : c \in rescored /\ <<k[2], c>> \in children
        \/ Awaits(World, Db, NoMarks, k) \/ Overdue(World, Db, NoMarks, k)
        \/ Shown(results, k) = Due(children, noScore, results, k)
    BY <1>1, WorldFields, DbFields, Zenon DEF ResultsSound, Sound, Aggregated
  <2>2. ~\E c \in Items : c \in rescored /\ <<k[2], c>> \in children
    BY <1>1 DEF Children
  <2>3. ~Awaits(World, Db, NoMarks, k)
    BY <1>0, DbFields, WorldFields DEF Awaits
  <2>4. ~Overdue(World, Db, NoMarks, k)
    <3> SUFFICES ASSUME NEW j \in Keys, Counts(children, j, k), Announced(Db, NoMarks, j)
                 PROVE  FALSE
      BY WorldFields, Zenon DEF Overdue
    <3>1. j \in lost
      BY <1>0, DbFields DEF Announced
    <3>2. j[2] \in Children(k[2])
      BY KeysAre DEF Counts, Children
    <3>3. k[1] \in {j[1], AttemptAbove(j)}
      BY DEF Counts, CountedAttempts, AttemptAbove
    <3> QED
      BY <1>1, <3>1, <3>2, <3>3 DEF LostBelow
  <2> DEFINE due == Aggregate(results, k)
  <2>5. <<due.score, due.tried, due.validatedAt>> = Due(children, noScore, results, k)
    BY <1>1, AggregateIsDue, Zenon DEF ResultsTypes
  <2>6. Shown(results, k) = <<results[k].score, results[k].tried, results[k].validatedAt>>
    BY <1>1 DEF Shown
  <2> HIDE DEF due
  <2>7. results[k].score = due.score /\ results[k].tried = due.tried /\ results[k].validatedAt = due.validatedAt
    BY <2>1, <2>2, <2>3, <2>4, <2>5, <2>6
  <2> QED
    BY <2>7 DEF due
<1>2. ASSUME NEW d \in deps \ late, NEW k \in Keys, Reached(d, k)
      PROVE  d.dependent \in grants \/ k \in lost
  <2>1. \/ d.dependent \in grants \/ k \in lost
        \/ marks[k] \in {"to_be_propagated", "propagating"}
        \/ NoMarks[k] \in {"to_be_propagated", "propagating"}
        \/ results[k].activity = 0 /\ "to_be_recomputed" \in {marks[k], NoMarks[k]}
    BY <1>2, WorldFields, DbFields, Zenon DEF ResultsSound, Sound, Earned, Reached
  <2> QED
    BY <1>0, <2>1
<1>3. IdleMeansAggregated
  <2> SUFFICES ASSUME NEW k \in Keys
               PROVE  \/ ~Exists(results, k) \/ k[2] \in Tasks
                      \/ k[1] \in reshaped \/ Children(k[2]) \intersect rescored # {} \/ LostBelow(k)
                      \/ LET due == Aggregate(results, k)
                         IN /\ results[k].score = due.score /\ results[k].tried = due.tried
                            /\ results[k].validatedAt = due.validatedAt
    BY Zenon DEF IdleMeansAggregated
  <2> QED
    BY <1>1, Zenon
<1>4. IdleMeansUnlocked
  BY <1>2, Zenon DEF IdleMeansUnlocked
<1> QED
  BY <1>3, <1>4 DEF IdleMeansSettled

\* Whatever services commit between two transactions of the propagation, however it dies, and
\* for any items, attempts, dependencies and size of the chunks: when nothing is marked and no
\* propagation runs, the score, tasks_tried and validated_at of a chapter are the aggregate of
\* its children and an earned item is unlocked, but for what was lost or asked of nobody.
THEOREM ResultsSettle == ResultsSpec => []IdleMeansSettled
<1> DEFINE ResultsInv == ResultsTypes /\ ResultsSound
<1>1. ResultsInit => ResultsInv
  BY ResultsStart, ResultsSoundStart, Zenon
<1>2. ResultsInv /\ [ResultsNext]_resultsVars => ResultsInv'
  BY ResultsTypesKept, ResultsSoundKept, Zenon
<1>3. ResultsInv => IdleMeansSettled
  BY SettledWhenIdle, Zenon
<1> HIDE DEF ResultsInv
<1> QED
  BY <1>1, <1>2, <1>3, PTL DEF ResultsSpec

===============================================================================
