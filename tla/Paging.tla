------------------------------- MODULE Paging -------------------------------
(***************************************************************************)
(* Lists read page after page: ApplySortingAndPaging                       *)
(* (app/service/sorting.go), which 28 services share, and the activity log *)
(* (app/api/items/get_activity_log.go), which applies it to three queries  *)
(* and then to their union.                                                *)
(*                                                                         *)
(* A client asks for a page, then for the one from the last row it got,    *)
(* named by the tie-breaker fields; the other columns of that row are read *)
(* again by the query.  Rows are added, changed and deleted between two    *)
(* pages.                                                                  *)
(***************************************************************************)
EXTENDS Integers, Sequences, FiniteSets

CONSTANTS
  FieldNames,     \* fields of the list, in the order of sort.Strings
  NullableFields, \* those with Nullable
  TieBreakers,    \* those that identify a row
  ListRows,       \* rows the list may have, functions of the fields
  SortRequests,   \* values of the parameter 'sort'
  LogRows,        \* activities the log may have
  PageLimits,     \* values of the parameter 'limit'
  MaxAllowedLimit,
  MaxRowChanges,  \* bound on the changes made while the pages are read
  SqlNull, NoLastRow, NoRules

VARIABLES
  reads,    \* what is read: "list" or "log"
  table,    \* the rows
  rules,    \* the sorting rules in use
  limit,    \* rows of a page
  lastRow,  \* the last row of the page before, NoLastRow before the first page
  seen,     \* the rows the client got, in order
  kept,     \* history: rows that did not change since the first page
  strayed,  \* history: the page went on from a row that had changed
  finished, \* a page came that is not full
  rowChanges

pagingVars == <<reads, table, rules, limit, lastRow, seen, kept, strayed, finished, rowChanges>>

SortFields == {FieldNames[n] : n \in DOMAIN FieldNames}
NoType == 65535

\* Tie-breakers are fields of the list and cannot be NULL.
mustHaveValidTieBreakerFieldsList == TieBreakers \subseteq SortFields \ NullableFields

ASSUME PagingAssumption ==
  /\ mustHaveValidTieBreakerFieldsList
  /\ FieldNames \in Seq(STRING)
  /\ SortRequests \subseteq Seq([field : STRING, desc : BOOLEAN, last : BOOLEAN])
  /\ SqlNull \notin Int
  /\ IsFiniteSet(ListRows) /\ IsFiniteSet(LogRows) /\ NoLastRow \notin ListRows \union LogRows
  /\ \A r \in ListRows : /\ r \in [SortFields -> Int \union {SqlNull}]
                         /\ \A f \in SortFields \ NullableFields : r[f] # SqlNull
  /\ \A r \in LogRows : /\ r \in [at : Int, result : Int, kind : 1..5, answer : Int, type : Int]
                        /\ r.kind \in {1, 3} => r.answer = -1
                        /\ r.type = CASE r.kind = 2 -> 1 [] r.kind = 4 -> 2 [] r.kind = 5 -> 3
                                       [] OTHER -> NoType
  /\ PageLimits \subseteq Nat
  /\ MaxAllowedLimit \in Nat \ {0} /\ MaxRowChanges \in Nat

\* The elements of S, sorted by a set of pairs: before the n-th there are n - 1.
Sorted(S, before) ==
  [n \in 1..Cardinality(S) |->
     CHOOSE x \in S : Cardinality({y \in S : <<y, x>> \in before}) = n - 1]

-----------------------------------------------------------------------------
(* Sorting rules: statements [field, desc, last], where last is the '$' of  *)
(* "-date$", become rules [field, desc, nulls].                            *)

Ascending(f) == [field |-> f, desc |-> FALSE, nulls |-> "none"]

\* Every field at most once, known, and '$' only if it is nullable.
validateSortingField(request, n) ==
  /\ \A m \in 1..(n - 1) : request[m].field # request[n].field
  /\ request[n].field \in SortFields
  /\ request[n].last => request[n].field \in NullableFields

\* The tie-breakers that are missing come last, in alphabetical order.
parseSortingRules(request) ==
  LET parsed == [n \in DOMAIN request |->
        [field |-> request[n].field, desc |-> request[n].desc,
         nulls |-> IF request[n].last THEN "last"
                   ELSE IF request[n].field \in NullableFields THEN "first" ELSE "none"]]
      used == {request[n].field : n \in DOMAIN request}
      missing == {n \in DOMAIN FieldNames : FieldNames[n] \in TieBreakers \ used}
      toAdd == Sorted(missing, {pair \in missing \X missing : pair[1] < pair[2]})
  IN IF \A n \in DOMAIN request : validateSortingField(request, n)
     THEN parsed \o [n \in 1..Cardinality(missing) |-> Ascending(FieldNames[toAdd[n]])]
     ELSE NoRules

-----------------------------------------------------------------------------
(* The query.                                                              *)

\* ORDER BY col IS [NOT] NULL, col ASC|DESC.
asSQL(rule, r, s) ==
  LET a == r[rule.field]
      b == s[rule.field]
  IN \/ rule.nulls = "first" /\ a = SqlNull /\ b # SqlNull
     \/ rule.nulls = "last" /\ a # SqlNull /\ b = SqlNull
     \/ /\ a # SqlNull /\ b # SqlNull
        /\ IF rule.desc THEN a > b ELSE a < b

OrderBy(rs, r, s) ==
  \E n \in DOMAIN rs : /\ \A m \in 1..(n - 1) : r[rs[m].field] = s[rs[m].field]
                       /\ asSQL(rs[n], r, s)

\* col > value; a comparison with NULL is not true.
ConditionSign(rule, r, from) ==
  /\ r[rule.field] # SqlNull /\ from[rule.field] # SqlNull
  /\ IF rule.desc THEN r[rule.field] < from[rule.field] ELSE r[rule.field] > from[rule.field]

\* Mutant: nothing comes after the rows with a value when NULLs are last.
PagingConditionWithoutNulls(rule, r, from) ==
  IF rule.nulls = "first" /\ from[rule.field] = SqlNull THEN r[rule.field] # SqlNull
  ELSE ConditionSign(rule, r, from)

\* The condition of one field: the row is after the from row by this field.
PagingCondition(rule, r, from) ==
  CASE rule.nulls = "first" ->
         IF from[rule.field] = SqlNull THEN r[rule.field] # SqlNull ELSE ConditionSign(rule, r, from)
    [] rule.nulls = "last" ->
         from[rule.field] # SqlNull /\ (r[rule.field] = SqlNull \/ ConditionSign(rule, r, from))
    [] OTHER -> ConditionSign(rule, r, from)

\* (col1 > val1) OR (col1 <=> val1 AND col2 > val2) OR ...
constructPagingConditions(rs, r, from) ==
  \E n \in DOMAIN rs : /\ \A m \in 1..(n - 1) : r[rs[m].field] = from[rs[m].field]
                       /\ PagingCondition(rs[n], r, from)

\* The from row is looked for when the rules use more than the tie-breakers.
subQueryNeeded(rs) == Len(rs) # Cardinality(TieBreakers)

\* The rows after the from rows (JOIN with at most one row), or all of them.
applyPagingConditions(rows, rs, fromFirst, from) ==
  IF fromFirst THEN rows ELSE {r \in rows : \E f \in from : constructPagingConditions(rs, r, f)}

\* QueryLimiter.Apply.
QueryLimit(n) == IF n > MaxAllowedLimit THEN MaxAllowedLimit ELSE n

\* ApplySortingAndPaging and the limit.
Page(rows, rs, fromFirst, from, n) ==
  LET after == applyPagingConditions(rows, rs, fromFirst, from)
      size == Cardinality(after)
  IN SubSeq(Sorted(after, {pair \in after \X after : OrderBy(rs, pair[1], pair[2])}),
            1, IF size < n THEN size ELSE n)

-----------------------------------------------------------------------------
(* The list: the from row is the row with the tie-breakers of lastRow.     *)

SameKey(r, s) == \A f \in TieBreakers : r[f] = s[f]
ListFrom == IF subQueryNeeded(rules) THEN {r \in table : SameKey(r, lastRow)} ELSE {lastRow}
ListPage == Page(table, rules, lastRow = NoLastRow, ListFrom, limit)

-----------------------------------------------------------------------------
(* The activity log.  A row is [at, result, kind, type, answer]: result     *)
(* stands for item, participant and attempt; kind is activity_type_int;     *)
(* type is the type of an answer, 65535 for a result; answer is -1 there.   *)

StartedRows == {r \in table : r.kind = 1}
ValidatedRows == {r \in table : r.kind = 3}
AnswerRows == {r \in table : r.kind \in {2, 4, 5}}

Descending(f) == [field |-> f, desc |-> TRUE, nulls |-> "none"]
ResultRules == <<Descending("at"), Ascending("result")>>
AnswerRules == ResultRules \o <<Descending("type"), Ascending("answer")>>
UnionRules == ResultRules \o <<Descending("kind"), Ascending("answer")>>

\* The started or validated result of the from values, or the answer.
LogFrom ==
  {r \in table : \/ r.kind \in {1, 3} /\ r.kind = lastRow.kind /\ r.result = lastRow.result
                 \/ lastRow.kind \in {2, 4, 5} /\ r \in AnswerRows /\ r.answer = lastRow.answer}

\* Each of the three queries is sorted, paged and limited, then their union.
LogPage ==
  LET part(rows, rs) ==
        LET page == Page(rows, rs, lastRow = NoLastRow, LogFrom, limit)
        IN {page[n] : n \in DOMAIN page}
      un == part(AnswerRows, AnswerRules) \union part(StartedRows, ResultRules)
              \union part(ValidatedRows, ResultRules)
  IN Page(un, UnionRules, lastRow = NoLastRow, LogFrom, limit)

-----------------------------------------------------------------------------
\* Rows identified alike: there is one of them at most.
SameRow(r, s) ==
  IF reads = "list" THEN SameKey(r, s)
  ELSE \/ r.kind \in {1, 3} /\ r.kind = s.kind /\ r.result = s.result
       \/ {r.kind, s.kind} \subseteq {2, 4, 5} /\ r.answer = s.answer
PossibleRows == IF reads = "list" THEN ListRows ELSE LogRows
IsTable(rows) == \A r, s \in rows : r # s => ~SameRow(r, s)

PagingInit ==
  /\ reads \in {"list", "log"}
  /\ table \in {rows \in SUBSET PossibleRows : IsTable(rows)}
  /\ rules = NoRules
  /\ limit = 0 /\ lastRow = NoLastRow /\ seen = <<>> /\ kept = {}
  /\ strayed = FALSE /\ finished = FALSE /\ rowChanges = 0

\* The first page, with the parameters that are kept for the next ones.
FirstPage(request, n) ==
  /\ limit = 0
  /\ rules' = IF reads = "list" THEN parseSortingRules(request) ELSE UnionRules
  /\ rules' # NoRules
  /\ limit' = QueryLimit(n)
  /\ kept' = table
  /\ UNCHANGED <<reads, table, lastRow, seen, strayed, finished, rowChanges>>

\* Rows of the log that share date and result with the from row and that
\* the strict conditions of the three queries treat as coming before it, or
\* that fill the limit of their query without being wanted.
Twins(from) ==
  {r \in table : /\ r # from /\ r.at = from.at /\ r.result = from.result
                 /\ \/ r.kind \in {1, 3} /\ r.kind < from.kind
                    \/ from.kind \in {1, 3} /\ r.kind \in {2, 4, 5} /\ r.kind > from.kind}

NextPage ==
  /\ limit # 0 /\ ~finished
  /\ LET page == IF reads = "list" THEN ListPage ELSE LogPage
     IN /\ seen' = seen \o page
        /\ lastRow' = IF page = <<>> THEN lastRow ELSE page[Len(page)]
        /\ finished' = (Len(page) < limit)
  /\ strayed' = (strayed \/ (reads = "log" /\ lastRow # NoLastRow /\ Twins(lastRow) # {}))
  /\ UNCHANGED <<reads, table, rules, limit, kept, rowChanges>>

\* A row is inserted, updated or deleted.
ChangeRow(r) ==
  /\ limit # 0 /\ ~finished /\ rowChanges < MaxRowChanges
  /\ \E rows \in {table \ {r}, {s \in table : ~SameRow(s, r)} \union {r}} :
       rows # table /\ table' = rows
  /\ kept' = kept \intersect table'
  /\ strayed' = (strayed \/ (/\ lastRow # NoLastRow /\ SameRow(r, lastRow)
                             /\ reads = "log" \/ subQueryNeeded(rules)))
  /\ rowChanges' = rowChanges + 1
  /\ UNCHANGED <<reads, rules, limit, lastRow, seen, finished>>

PagingNext ==
  \/ \E request \in SortRequests, n \in PageLimits : FirstPage(request, n)
  \/ NextPage
  \/ \E r \in PossibleRows : ChangeRow(r)

PagingSpec == PagingInit /\ [][PagingNext]_pagingVars

-----------------------------------------------------------------------------
\* Whoever reads a list or the activity log to its end, from page to page
\* while rows come, change and go, gets every row that stayed the same once
\* and once only, and in the order asked for: unless the very row a page
\* went on from changed meanwhile, or shares in the log its date and its
\* result with one that the three queries misplace (Twins).
PagesMissNothing ==
  LET places(r) == {n \in DOMAIN seen : seen[n] = r}
  IN finished /\ ~strayed =>
       /\ \A r \in kept : Cardinality(places(r)) = 1
       /\ \A r, s \in kept : OrderBy(rules, r, s) =>
            \A m \in places(r), n \in places(s) : m < n
=============================================================================
