------------------------------- MODULE Search -------------------------------
(***************************************************************************)
(* The WHERE <search expression> of one SELECT or UPDATE, from Statement:: *)
(* searchExpression (src/infinisqld/Asts.cc) over Transaction::sqlPredicate*)
(* (Transaction.cc), SubTransaction::indexSearch and class Index to the    *)
(* rows it finds, locks and releases.  DELETE searches as UPDATE does; what*)
(* they then do to the rows is in Transactions.                            *)
(*                                                                         *)
(* Ast::evaluate goes to the left child, then to the right one, then to    *)
(* the operator, so an expression is the sequence of its nodes in that     *)
(* order, and the predicateResults of the nodes still needed are a stack.  *)
(*                                                                         *)
(* Another transaction takes and gives back row locks meanwhile; rows and  *)
(* indexes do not change (that they agree is checked in Transactions).     *)
(* The transaction has nothing staged when the statement begins. LIKE and a*)
(* second IN in one expression (both would use the statement's only        *)
(* inobject) are left out.                                                 *)
(***************************************************************************)
EXTENDS RowOps, Sequences, SequencesExt

CONSTANTS Me, Other,    \* the statement's transaction and the one beside it
          Rows, Home,   \* rows and the Engine each is in
          NumEngines,   \* nodeTopology.numpartitions
          EngineOf,     \* Transaction::getEngineid of a value
          Fields,       \* field ids, from 0
          NULL,
          FieldType,    \* of a field: "INT" (FLOAT, CHAR, CHARX alike), "UINT", "BOOL"
          Unordered,    \* fields whose index is a hash map
          KeyIsUnique,  \* field 0 has a unique index
          Contents,     \* the tables the statement may meet: rows to values
          Queries       \* records [cmd, expr]

Engines == 0 .. NumEngines - 1

ASSUME SearchAssumption == /\ Me \in Subs /\ Other \in Subs /\ Me # Other
                           /\ NumEngines \in Nat \ {0}
                           /\ Home \in [Rows -> Engines]
                           /\ Contents \subseteq [Rows -> Values]

VARIABLES cells,      \* Rows -> Cell
          query,      \* currentQuery
          code,       \* the nodes of the expression not evaluated yet
          stack,      \* predicateResults of the evaluated ones without a parent yet
          phase,
          sent,       \* rows asked for in SELECTROWS, not yet served
          wait,       \* sqlcmdstate.eventwaitcount
          found,      \* sqlcmdstate.results
          result      \* searchResults, and with it stagedRows

vars == <<cells, query, code, stack, phase, sent, wait, found, result>>

\* The lock Larxer gives the query: FOR UPDATE and NO LOCK make no difference.
LockOf(q) == IF q.cmd = "SELECT" THEN "READLOCK" ELSE "WRITELOCK"

IsLeaf(node) == node.op \notin {"AND", "OR"}

-----------------------------------------------------------------------------
(* class Index: whether a search returns the entry of value v (not NULL).    *)

\* A slip in Index::comparison: an equal key is not skipped.
ComparisonKeepsEqual(op, v, x) == IF op \in {"LT", "LTE"} THEN v <= x ELSE v >= x

\* Index::comparison of signed, floating and character keys.
Comparison(op, v, x) == CASE op = "LT"  -> v < x
                          [] op = "LTE" -> v <= x
                          [] op = "GT"  -> v > x
                          [] op = "GTE" -> v >= x

\* Index::comparison of unsigned keys, and of boolean ones: only GT collects what its
\* loop passes, and LTE adds the equal key.
ComparisonUint(op, v, x) == (op = "GT" /\ v > x) \/ (op = "LTE" /\ v = x)
ComparisonBool(op, v, x) == (op = "GT" /\ v > x) \/ (op = "LTE" /\ v = x)

Compare(f, op, v, x) ==
  /\ f \notin Unordered
  /\ CASE FieldType[f] = "INT"  -> Comparison(op, v, x)
       [] FieldType[f] = "UINT" -> ComparisonUint(op, v, x)
       [] FieldType[f] = "BOOL" -> ComparisonBool(op, v, x)

\* Index::between of signed, floating and character keys, of unsigned and of boolean.
BetweenKeys(v, lower, upper) == lower <= v /\ v <= upper
BetweenUint(v, lower, upper) == v = lower \/ (lower < v /\ v < upper)
BetweenBool(v, lower, upper) == FALSE

Between(f, v, lower, upper) ==
  /\ f \notin Unordered
  /\ CASE FieldType[f] = "INT"  -> BetweenKeys(v, lower, upper)
       [] FieldType[f] = "UINT" -> BetweenUint(v, lower, upper)
       [] FieldType[f] = "BOOL" -> BetweenBool(v, lower, upper)

\* Index::notbetween.
NotBetween(f, v, lower, upper) == Compare(f, "LT", v, lower) \/ Compare(f, "GT", v, upper)

\* Index::getequal_f, getnotequal, getin, getnotin.
GetEqual(v, x)      == v = x
GetNotEqual(v, x)   == v # x
GetIn(v, values)    == \E n \in DOMAIN values : GetEqual(v, values[n])
GetNotIn(v, values) == v \notin Range(values)

\* Index::getnulls and getnotnulls: a null is in the set nulls, not in the map.
GetNulls(v)    == v = NULL
GetNotNulls(v) == v # NULL

\* SubTransaction::indexSearch: the entry of value v matches.
IndexHit(leaf, v) ==
  LET f == leaf.field
      x == leaf.args
  IN  CASE leaf.op = "ISNULL"    -> GetNulls(v)
        [] leaf.op = "ISNOTNULL" -> GetNotNulls(v)
        [] leaf.op \notin {"ISNULL", "ISNOTNULL"} ->
             /\ v # NULL
             /\ CASE leaf.op = "EQ"         -> GetEqual(v, x[1])
                  [] leaf.op = "NE"         -> GetNotEqual(v, x[1])
                  [] leaf.op \in {"LT", "LTE", "GT", "GTE"} -> Compare(f, leaf.op, v, x[1])
                  [] leaf.op = "BETWEEN"    -> Between(f, v, x[1], x[2])
                  [] leaf.op = "NOTBETWEEN" -> NotBetween(f, v, x[1], x[2])
                  [] leaf.op = "IN"         -> GetIn(v, x)
                  [] leaf.op = "NOTIN"      -> GetNotIn(v, x)

\* The Engine that has the index entry of a value of field f.
EntryEngine(f, v) == IF v = NULL THEN f % NumEngines ELSE EngineOf[v]

\* Transaction::sqlPredicate: the Engines INDEXSEARCH goes to.
SearchedEngines(leaf) == CASE leaf.op = "EQ"     -> {EngineOf[leaf.args[1]]}
                           [] leaf.op = "ISNULL" -> {leaf.field % NumEngines}
                           [] OTHER              -> Engines

\* sqlcmdstate.indexHits once every Engine has answered.
IndexHits(leaf) ==
  {r \in Rows : LET v == cells[r].row[leaf.field]
                IN  /\ EntryEngine(leaf.field, v) \in SearchedEngines(leaf)
                    /\ IndexHit(leaf, v)}

\* Equality on a unique field 0 is one SEARCHRETURN1 instead, which looks in the
\* index and selects the row in one go.
IsSearchReturn1(leaf) == leaf.op = "EQ" /\ leaf.field = 0 /\ KeyIsUnique
-----------------------------------------------------------------------------
UnlockedCell(v) == [AbsentCell EXCEPT !.lock = "NOLOCK", !.row = v]

Init == /\ \E content \in Contents : cells = [r \in Rows |-> UnlockedCell(content[r])]
        /\ query \in Queries
        /\ code = query.expr
        /\ stack = <<>> /\ phase = "evaluate"
        /\ sent = {} /\ wait = 0 /\ found = {} /\ result = {}

HomesOf(rows) == {Home[r] : r \in rows}

\* A slip in continueSqlPredicate: it waits for every Engine, not for those that
\* have a payload.
WaitForAll(rows) == NumEngines

\* continueSqlPredicate, case 1: eventwaitcount = payloads.size().
WaitFor(rows) == Cardinality(HomesOf(rows))

\* Ast::evaluate of a predicate up to the SELECTROWS messages.
StartPredicate ==
  /\ phase = "evaluate" /\ code # <<>> /\ IsLeaf(Head(code))
  /\ IndexHits(Head(code)) # {}
  /\ sent' = IndexHits(Head(code))
  /\ wait' = WaitFor(IndexHits(Head(code)))
  /\ found' = {}
  /\ phase' = "rows"
  /\ UNCHANGED <<cells, query, code, stack, result>>

\* SEARCHRETURN1 of a value that is not there: one NOTFOUNDLOCK, which is skipped.
NotFound ==
  /\ phase = "evaluate" /\ code # <<>> /\ IsLeaf(Head(code))
  /\ IndexHits(Head(code)) = {} /\ IsSearchReturn1(Head(code))
  /\ stack' = Append(stack, {})
  /\ code' = Tail(code)
  /\ UNCHANGED <<cells, query, phase, sent, wait, found, result>>

\* No index hit: pendingcmd is cleared before it is looked at, so the statement
\* goes on as after SQLSELECTALL and the rest of the expression is never looked at.
NoHits ==
  /\ phase = "evaluate" /\ code # <<>> /\ IsLeaf(Head(code))
  /\ IndexHits(Head(code)) = {} /\ ~IsSearchReturn1(Head(code))
  /\ phase' = "selected"
  /\ result' = {}
  /\ UNCHANGED <<cells, query, code, stack, sent, wait, found>>

SentTo(e) == {r \in sent : Home[r] = e}

\* Table::selectrows of the rows asked of an Engine.
SelectedCells(rows) ==
  [r \in Rows |-> IF r \in rows THEN SelectCell(cells[r], Me, LockOf(query)) ELSE cells[r]]

Reply(r) == SelectReply(cells[r], Me, LockOf(query))

\* An Engine serves SELECTROWS and continueSqlPredicate, case 2, takes its reply.
SelectRows(e) ==
  LET rows == SentTo(e)
      got  == found \cup {r \in rows : Granted(Reply(r))}
  IN  /\ phase = "rows" /\ rows # {}
      /\ \A r \in rows : Reply(r) # "PENDINGLOCK"
      /\ cells' = SelectedCells(rows)
      /\ sent' = sent \ rows
      /\ wait' = wait - 1
      /\ found' = got
      /\ IF wait = 1 THEN /\ stack' = Append(stack, got)
                          /\ code' = Tail(code)
                          /\ phase' = "evaluate"
                     ELSE UNCHANGED <<stack, code, phase>>
      /\ UNCHANGED <<query, result>>

\* The same with a pending lock: abortQuery.  Nothing of the query is staged yet.
SelectRowsPending(e) ==
  /\ phase = "rows"
  /\ \E r \in SentTo(e) : Reply(r) = "PENDINGLOCK"
  /\ cells' = SelectedCells(SentTo(e))
  /\ sent' = sent \ SentTo(e)
  /\ phase' = "aborted"
  /\ UNCHANGED <<query, code, stack, wait, found, result>>

\* An Engine serves SELECTROWS of a query that is aborted; the reply is dropped.
SelectRowsLate(e) ==
  /\ phase = "aborted" /\ SentTo(e) # {}
  /\ cells' = SelectedCells(SentTo(e))
  /\ sent' = sent \ SentTo(e)
  /\ UNCHANGED <<query, code, stack, phase, wait, found, result>>

Top(n) == stack[Len(stack) - n]
Pop2   == SubSeq(stack, 1, Len(stack) - 2)

\* A slip in OPERATOR_AND: what both sides have is released too.
ReleasedByAndAll(left, right) == left

\* OPERATOR_AND releases what the left side has and the right side has not (the
\* test for staged rows never holds here, nothing is staged).
ReleasedByAnd(left, right) == left \ right

\* case OPERATOR_AND, with the ROLLBACKCMD messages it sends.
EvaluateAnd ==
  /\ phase = "evaluate" /\ code # <<>> /\ Head(code).op = "AND"
  /\ stack' = Append(Pop2, Top(1) \cap Top(0))
  /\ cells' = [r \in Rows |-> IF r \in ReleasedByAnd(Top(1), Top(0))
                                THEN RollbackCell(cells[r], Me) ELSE cells[r]]
  /\ code' = Tail(code)
  /\ UNCHANGED <<query, phase, sent, wait, found, result>>

\* case OPERATOR_OR.
EvaluateOr ==
  /\ phase = "evaluate" /\ code # <<>> /\ Head(code).op = "OR"
  /\ stack' = Append(Pop2, Top(1) \cup Top(0))
  /\ code' = Tail(code)
  /\ UNCHANGED <<cells, query, phase, sent, wait, found, result>>

\* The root is evaluated: searchResults, with which branchtotype goes on.
Finish ==
  /\ phase = "evaluate" /\ code = <<>>
  /\ result' = Top(0)
  /\ phase' = "selected"
  /\ UNCHANGED <<cells, query, code, stack, sent, wait, found>>

\* A slip in continueSelect: rows that are only read are not staged.
ReleasedAtEndOnlyWritten == IF query.cmd = "SELECT" THEN {} ELSE result

\* continueSelect and continueUpdate stage every row of the result; the end of the
\* transaction releases the staged rows.
ReleasedAtEnd == result

\* The transaction ends.
End ==
  /\ phase = "selected"
  /\ phase' = "ended"
  /\ cells' = [r \in Rows |-> IF r \in ReleasedAtEnd THEN CommitCell(cells[r], Me)
                                                     ELSE cells[r]]
  /\ UNCHANGED <<query, code, stack, sent, wait, found, result>>

\* The other transaction locks a row that is free for it ...
OtherLocks(r, locktype) ==
  /\ Granted(SelectReply(cells[r], Other, locktype))
  /\ ~WriteLockedBy(cells[r], Other)
  /\ cells' = [cells EXCEPT ![r] = SelectCell(@, Other, locktype)]
  /\ UNCHANGED <<query, code, stack, phase, sent, wait, found, result>>

\* ... and gives the lock back.
OtherUnlocks(r) ==
  /\ WriteLockedBy(cells[r], Other) \/ Other \in cells[r].readlockHolders
  /\ cells' = [cells EXCEPT ![r] = CommitCell(@, Other)]
  /\ UNCHANGED <<query, code, stack, phase, sent, wait, found, result>>

SearchNext == \/ StartPredicate \/ NotFound \/ NoHits
              \/ \E e \in Engines : SelectRows(e) \/ SelectRowsPending(e) \/ SelectRowsLate(e)
              \/ EvaluateAnd \/ EvaluateOr \/ Finish \/ End

Next == \/ SearchNext
        \/ \E r \in Rows : \/ \E locktype \in {"READLOCK", "WRITELOCK"} :
                                OtherLocks(r, locktype)
                           \/ OtherUnlocks(r)

Spec == Init /\ [][Next]_vars

\* The Transaction Agent and the Engines poll their mailboxes for ever.
FairSpec == Spec /\ WF_vars(SearchNext)
-----------------------------------------------------------------------------
(* What the SQL of docs/pubs/reference.xml says of an expression.            *)

\* A predicate is true of value v; nothing but IS NULL is true of NULL.
Holds(leaf, v) ==
  LET x == leaf.args
  IN  CASE leaf.op = "ISNULL" -> v = NULL
        [] leaf.op # "ISNULL" /\ v = NULL -> FALSE
        [] leaf.op # "ISNULL" /\ v # NULL ->
             CASE leaf.op = "EQ"         -> v = x[1]
               [] leaf.op = "NE"         -> v # x[1]
               [] leaf.op = "LT"         -> v < x[1]
               [] leaf.op = "LTE"        -> v <= x[1]
               [] leaf.op = "GT"         -> v > x[1]
               [] leaf.op = "GTE"        -> v >= x[1]
               [] leaf.op = "BETWEEN"    -> x[1] <= v /\ v <= x[2]
               [] leaf.op = "NOTBETWEEN" -> v < x[1] \/ v > x[2]
               [] leaf.op = "IN"         -> \E n \in DOMAIN x : x[n] = v
               [] leaf.op = "NOTIN"      -> \A n \in DOMAIN x : x[n] # v
               [] leaf.op = "ISNOTNULL"  -> TRUE

RowsWhere(leaf) == {r \in Rows : Holds(leaf, cells[r].row[leaf.field])}

\* What one more node makes of the sets of rows for the nodes before it.
Apply(acc, node) ==
  LET n == Len(acc)
  IN  CASE IsLeaf(node) -> Append(acc, RowsWhere(node))
        [] node.op = "AND" -> Append(SubSeq(acc, 1, n - 2), acc[n - 1] \cap acc[n])
        [] node.op = "OR"  -> Append(SubSeq(acc, 1, n - 2), acc[n - 1] \cup acc[n])

\* The sets for the first n nodes.
Evaluation[n \in 0 .. Len(query.expr)] ==
  IF n = 0 THEN <<>> ELSE Apply(Evaluation[n - 1], query.expr[n])

\* The rows of which the expression is true.
Matches == Evaluation[Len(query.expr)][1]

Nodes  == Range(query.expr)
HasAnd == \E node \in Nodes : node.op = "AND"

\* A predicate other than one on the key is true of no row.
SomePredicateIsEmpty ==
  \E node \in Nodes : IsLeaf(node) /\ ~IsSearchReturn1(node) /\ RowsWhere(node) = {}

LockedByMe(r) == WriteLockedBy(cells[r], Me) \/ Me \in cells[r].readlockHolders

-----------------------------------------------------------------------------
(***************************************************************************)
(* Properties.                                                             *)
(***************************************************************************)

\* Type invariant: every variable has its type, each row's lock, holders and queue
\* fit each other whatever the search and the other transaction do to the row, and
\* the stack always has what the rest of the expression needs.
TypeOK ==
  /\ \A r \in Rows : cells[r] \in Cell /\ WellLocked(cells[r])
  /\ query \in Queries
  /\ phase \in {"evaluate", "rows", "selected", "ended", "aborted"}
  /\ \A n \in DOMAIN stack : stack[n] \subseteq Rows
  /\ sent \subseteq Rows /\ found \subseteq Rows /\ result \subseteq Rows
  /\ wait \in 0 .. NumEngines
  /\ phase = "rows" => wait = Cardinality(HomesOf(sent))

\* A statement works on exactly the rows its search expression is true of, whatever
\* tree of AND and OR it is, however the rows are spread over the Engines and
\* whoever locks rows meanwhile (or it reports a lock and does nothing).
ResultIsTheMatches == phase = "selected" => result = Matches

\* The same, but for the early end: continueSqlPredicate gives up on the expression,
\* with nothing found, at a predicate that no index entry matches, and only then.
ResultIsTheMatchesOrGivenUp ==
  phase = "selected" => result = Matches \/ (SomePredicateIsEmpty /\ result = {})

\* The rows an UPDATE goes on to change are write-locked by its transaction: no
\* ROLLBACKCMD of an AND on the way took the lock of a row that is in the result.
ReturnedRowsAreLocked ==
  phase = "selected" /\ query.cmd = "UPDATE"
    => \A r \in result : WriteLockedBy(cells[r], Me)

\* When a transaction whose search was not aborted has ended, no row it found is
\* locked by it; and no row at all, unless the expression has an AND (which forgets
\* what only its right side found) or was given up.
NoLockIsLeftBehind ==
  phase = "ended"
    => \A r \in Rows : LockedByMe(r)
                          => r \notin result /\ (HasAnd \/ SomePredicateIsEmpty)

\* Every search ends, with a result or with an abort.
EverySearchEnds == <>(phase \in {"ended", "aborted"})
=============================================================================
