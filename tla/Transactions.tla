---------------------------- MODULE Transactions ----------------------------
(***************************************************************************)
(* SQL transactions over partitioned data: class Transaction and class     *)
(* Statement in the Transaction Agents (src/infinisqld/Transaction.cc,     *)
(* Asts.cc, Pg.cc), class SubTransaction, Table and Index in the Engines   *)
(* (SubTransaction.cc, Table.cc, Index.cc, Engine.cc), and the mailboxes   *)
(* between them.  One table; every field has a unique index, a nonunique   *)
(* one, or none; numreplicas is 1 (nothing to dispatch).                   *)
(*                                                                         *)
(* A row lives in the Engine its field 0 hashes to and each index entry in *)
(* the Engine its value hashes to, so one statement and one commit talk to *)
(* several Engines.  An Engine is a thread that handles one message at a   *)
(* time; so is a Transaction Agent, and each transaction below is its own. *)
(* Between one agent and one Engine messages keep their order, otherwise   *)
(* they interleave freely.  A reply runs its continuation to the end, so   *)
(* a handler is one action that sends all of its messages.                 *)
(***************************************************************************)
EXTENDS IndexOps, SequencesExt

CONSTANTS Txns,         \* transactions, each run by a Transaction Agent
          Engines,      \* partitionids
          EngineOf,     \* getengine: the hash of a value, modulo numpartitions
          Vals,         \* field values
          Fields,       \* fieldids, 0 is the one that places the row
          UniqueFields, \* fields with a unique index
          NonuniqueFields, \* fields with a nonunique index
          Rowids,
          Loaded,       \* rows committed before the first transaction begins
          Statements,   \* what clients may ask for
          MaxStmts,     \* bound on the statements of one transaction; with more
                        \* than one it is a transaction block
          HangUps       \* phases in which a client may close its connection

ASSUME TransactionsAssumption ==
  /\ 0 \in Fields /\ Fields \subseteq Nat
  /\ UniqueFields \subseteq Fields /\ NonuniqueFields \subseteq Fields
  /\ UniqueFields \cap NonuniqueFields = {}
  /\ EngineOf \in [Vals -> Engines]
  /\ Values = [Fields -> Vals]
  /\ Rowids \subseteq Nat \ {0} /\ Subs \subseteq Nat \ {0} /\ NoSub = 0
  /\ MaxStmts \in Nat
  /\ HangUps \subseteq {"running", "committing"}
  /\ IsFiniteSet(Engines) /\ IsFiniteSet(Fields) /\ IsFiniteSet(Rowids)
  /\ DOMAIN Loaded \subseteq Engines \X Rowids
  /\ \A u \in DOMAIN Loaded : Loaded[u] \in Values /\ u[1] = EngineOf[Loaded[u][0]]

\* The rows of an Engine have the rowids that as many INSERTs have been given.
ASSUME LoadedAssumption ==
  \A e \in Engines : LET rows == {u \in DOMAIN Loaded : u[1] = e}
                     IN  {u[2] : u \in rows} = 1..Cardinality(rows)

\* What the parser makes of a query.
ASSUME StatementsAssumption ==
  \A q \in Statements :
    /\ q.cmd \in {"INSERT", "SELECT", "UPDATE", "DELETE"}
    /\ q.cmd = "INSERT" => q.row \in Values
    /\ q.cmd # "INSERT" => q.where \in {"EQUAL", "ALL"}
    /\ q.cmd # "INSERT" /\ q.where = "EQUAL" => q.field \in Fields /\ q.val \in Vals
    /\ q.cmd = "UPDATE" => /\ DOMAIN q.set \subseteq Fields
                           /\ \A n \in DOMAIN q.set : q.set[n] \in Vals

VARIABLES table,      \* Table::rows, shadowTable and lockQueue of each Engine
          nextrowid,  \* Table::nextrowid of each Engine
          unique,     \* entries of the unique indices, by <<field, value>>
          nonunique,  \* the nonunique indices, by field
          live,       \* Engine::SubTransactions, the identifiers in use
          owner,      \* SubTransaction::transactionid of each identifier the
                      \* Engine has given out; nextsubtransactionid its length
          crashed,    \* Engines whose thread has died
          mail,       \* messages on their way from an agent to an Engine
          replies,    \* messages on their way from an Engine to an agent
          txn         \* class Transaction and its current Statement

vars == <<table, nextrowid, unique, nonunique, live, owner, crashed,
          mail, replies, txn>>

engineVars == <<table, nextrowid, unique, nonunique, live, owner, crashed>>

-----------------------------------------------------------------------------
Uurs    == Engines \X Rowids                   \* uuRecord_s
Indexed == UniqueFields \cup NonuniqueFields
Keys    == UniqueFields \X Vals

\* getengine: where the entry of a value is, and with field 0 the row itself.
Home(v) == EngineOf[v]

NoStmt == [cmd |-> "NONE"]
Nothing == [u \in {} |-> 0]                    \* an empty unordered_map

\* f[u] = v, and the entries of f before those of g.
With(f, u, v) == [w \in DOMAIN f \cup {u} |-> IF w = u THEN v ELSE f[w]]
Over(f, g) == [w \in DOMAIN f \cup DOMAIN g |-> IF w \in DOMAIN f THEN f[w] ELSE g[w]]

\* stagedRow_s.  ui is uniqueIndices: the values this row has asked locks for.
Staged(cmd, original, new, newuur, ui) ==
  [cmd |-> cmd, original |-> original, new |-> new, newuur |-> newuur, ui |-> ui]

\* stagedRow2ReturnRow.  There is no case for DELETE: no statement follows one
\* here (StartStatement).
ReturnRow(sr) == IF sr.cmd = "NOCOMMAND" THEN sr.original ELSE sr.new

\* A transaction before its first statement.
FreshTxn == [phase |-> "idle", cmd |-> "NOCOMMAND", id |-> 0, left |-> MaxStmts,
             stmt |-> NoStmt, subs |-> [e \in Engines |-> 0], staged |-> Nothing,
             wait |-> 0, hits |-> {}, results |-> Nothing, todo |-> {},
             orig |-> NoUur, late |-> {}]

\* delete transactionPtr
EndedTxn(outcome) == [FreshTxn EXCEPT !.phase = outcome, !.left = 0]

Ended(t) == txn[t].phase \in {"committed", "rolledback", "abandoned"}

-----------------------------------------------------------------------------
(* Messages.                                                                *)

\* sendTransaction: the message carries the subtransactionid if a reply has told
\* it, 0 if none has yet.
Msg(x, e, cmd, ep, arg) ==
  [cmd |-> cmd, ep |-> ep, id |-> x.id, sub |-> x.subs[e], arg |-> arg]

Quiet == [e \in Engines |-> <<>>]
Join(a, b) == [e \in Engines |-> a[e] \o b[e]]

\* A message and its Engine; several are sent in the order of a hash map.
To(e, m) == [to |-> e, msg |-> m]
SendAll(S) == [e \in Engines |-> SetToSeq({y.msg : y \in {z \in S : z.to = e}})]

\* What a handler does to its transaction and what it sends.
Step(x, out) == [x |-> x, out |-> out]

-----------------------------------------------------------------------------
(* Transaction::rollback and Transaction::commit.                           *)

RowRof(u)            == [kind |-> "row", uur |-> u]
AddRof(n, v, u)      == [kind |-> "add", field |-> n, val |-> v, uur |-> u]
DeleteRof(n, v, u)   == [kind |-> "delete", field |-> n, val |-> v, uur |-> u]
ReplaceRof(n, v, u, new) == [kind |-> "replace", field |-> n, val |-> v, uur |-> u,
                             new |-> new]

\* The Engine addRof files a rowOrField_s under.
RofEngine(rof) == IF rof.kind = "row" THEN rof.uur[1] ELSE Home(rof.val)

Replaced(sr, u) == sr.cmd = "UPDATE" /\ sr.newuur # u

RollbackRofs(x) ==
  UNION {LET sr == x.staged[u]
         IN  {RowRof(u)}
             \cup (IF Replaced(sr, u) THEN {RowRof(sr.newuur)} ELSE {})
             \cup {AddRof(n, sr.ui[n], u) : n \in DOMAIN sr.ui}
         : u \in DOMAIN x.staged}

\* TOPIC_ENDSUBTRANSACTION to every Engine whose subtransactionid is known.
EndSubTransactions(x) ==
  [e \in Engines |-> IF x.subs[e] = 0 THEN <<>>
                                      ELSE <<Msg(x, e, "END", 0, {})>>]

\* One ROLLBACKCMD for each row and each index value, then the ends, and nobody
\* waits for an answer.
Rollback(x) ==
  LET rolls == SendAll({To(RofEngine(rof), Msg(x, RofEngine(rof), "ROLLBACK", 0, {rof}))
                          : rof \in RollbackRofs(x)})
  IN  Step(EndedTxn("rolledback"), Join(rolls, EndSubTransactions(x)))

\* Statement::abortQuery: the statement reports its status to Pg::continuePgFunc,
\* which rolls the transaction back at once, in a transaction block or not.
AbortQuery(x) == Rollback(x)

ChangedFields(sr) == {n \in Indexed : sr.original[n] # sr.new[n]}
MoveEntries(sr, u) ==
  UNION {{AddRof(n, sr.new[n], sr.newuur), DeleteRof(n, sr.original[n], u)}
         : n \in ChangedFields(sr)}

\* A value that stays the same gets to point to the replacement row.
ReplaceEntries(sr, u) ==
  MoveEntries(sr, u) \cup
  {ReplaceRof(n, sr.original[n], u, sr.newuur) : n \in Indexed \ ChangedFields(sr)}

\* continueCommitTransaction, case 1: what committing one staged row takes.
CommitRofsOf(sr, u) ==
  CASE sr.cmd = "NOCOMMAND" -> {RowRof(u)}
    [] sr.cmd = "INSERT"    -> {RowRof(u)} \cup {AddRof(n, sr.new[n], u) : n \in Indexed}
    [] sr.cmd = "DELETE"    -> {RowRof(u)} \cup
                               {DeleteRof(n, sr.original[n], u) : n \in Indexed}
    [] sr.cmd = "UPDATE" /\ ~Replaced(sr, u) -> {RowRof(u)} \cup MoveEntries(sr, u)
    [] Replaced(sr, u)      -> {RowRof(sr.newuur)} \cup ReplaceEntries(sr, u)

CommitRofs(x) == UNION {CommitRofsOf(x.staged[u], u) : u \in DOMAIN x.staged}

\* replaceEngineMsgs: the rows that were replaced go in a second round.
LateRofs(x) == {RowRof(u) : u \in {w \in DOMAIN x.staged : Replaced(x.staged[w], w)}}

\* One message to each Engine that has something to commit.
CommitMsgs(x, rofs, ep) ==
  LET at(e) == {rof \in rofs : RofEngine(rof) = e}
  IN  [e \in Engines |-> IF at(e) = {} THEN <<>>
                                       ELSE <<Msg(x, e, "COMMIT", ep, at(e))>>]

EnginesOf(rofs) == {RofEngine(rof) : rof \in rofs}

\* A slip in case 4: the subtransactions are not told that it is over.
CommitDoneSilently(x) == Step(EndedTxn("committed"), Quiet)

\* case 4
CommitDone(x) == Step(EndedTxn("committed"), EndSubTransactions(x))

\* A slip in case 1: tocommit counts the rowOrField_s, not the messages.
CommitCountsRofs(x0) ==
  LET x    == [x0 EXCEPT !.phase = "committing", !.cmd = "COMMIT", !.id = @ + 1]
      rofs == CommitRofs(x)
  IN  IF rofs = {} THEN CommitDone(x)
      ELSE Step([x EXCEPT !.wait = Cardinality(rofs), !.late = LateRofs(x)],
                CommitMsgs(x, rofs, 2))

\* Transaction::commit with numreplicas = 1.
Commit(x0) ==
  LET x    == [x0 EXCEPT !.phase = "committing", !.cmd = "COMMIT", !.id = @ + 1]
      rofs == CommitRofs(x)
  IN  IF rofs = {} THEN CommitDone(x)
      ELSE Step([x EXCEPT !.wait = Cardinality(EnginesOf(rofs)), !.late = LateRofs(x)],
                CommitMsgs(x, rofs, 2))

\* case 2 and case 3: count the answers down.
ContinueCommit(x0, ep) ==
  LET x == [x0 EXCEPT !.wait = @ - 1]
  IN  CASE x.wait > 0                             -> Step(x, Quiet)
        [] x.wait = 0 /\ (ep = 3 \/ x.late = {})  -> CommitDone(x)
        [] x.wait = 0 /\ ep = 2 /\ x.late # {}    ->
             Step([x EXCEPT !.wait = Cardinality(EnginesOf(x.late))],
                  CommitMsgs(x, x.late, 3))

-----------------------------------------------------------------------------
(* Statements.  Each operator below is a continuation: the Step it makes, or *)
(* the set of Steps it may make where the source iterates over a hash map.   *)

\* startQuery with no query left, Statement::reenter.
FinishStatement(x) ==
  Step([x EXCEPT !.phase = "idle", !.cmd = "NOCOMMAND", !.stmt = NoStmt, !.wait = 0,
                 !.hits = {}, !.results = Nothing, !.orig = NoUur], Quiet)

\* Every command has a pendingcmdid of its own.
Pending(x, cmd) == [x EXCEPT !.cmd = cmd, !.id = @ + 1]

\* UNIQUEINDEX for the value of each field of ui, to the row u.
UniqueIndexMsgs(x, ui, u, ep) ==
  SendAll({To(Home(ui[n]), Msg(x, Home(ui[n]), "UNIQUEINDEX", ep,
                               [key |-> <<n, ui[n]>>, uur |-> u])) : n \in DOMAIN ui})

One(e, m) == [Quiet EXCEPT ![e] = <<m>>]

\* Statement::continueSelect: a row not staged yet is staged with no command.
ContinueSelect(x) ==
  LET new == DOMAIN x.results \ DOMAIN x.staged
      row(u) == Staged("NOCOMMAND", x.results[u], x.results[u], u, Nothing)
  IN  FinishStatement([x EXCEPT !.staged = Over([u \in new |-> row(u)], @)])

\* Statement::continueDelete(1).  With no row to delete there is no message, and
\* no answer will move the statement on.  The newuur of a DELETE is never looked at.
ContinueDelete(x0) ==
  LET x      == Pending(x0, "DELETE")
      S      == DOMAIN x.results
      row(u) == IF u \in DOMAIN x.staged
                  THEN [x.staged[u] EXCEPT !.cmd = "DELETE", !.original = x.results[u]]
                  ELSE Staged("DELETE", x.results[u], x.results[u], u, Nothing)
  IN  Step([x EXCEPT !.wait = Cardinality(S),
                     !.staged = Over([u \in S |-> row(u)], @)],
           SendAll({To(u[1], Msg(x, u[1], "DELETEROW", 1, u)) : u \in S}))

Assigned(x, u) == [n \in Fields |-> IF n \in DOMAIN x.stmt.set THEN x.stmt.set[n]
                                                               ELSE x.results[u][n]]

SetUnique(x) == [n \in UniqueFields \cap DOMAIN x.stmt.set |-> x.stmt.set[n]]

\* continueUpdate, field 0 not assigned: the index locks and the shadow row are
\* asked for together, and whatever was staged for the row is written over.
UpdateInPlace(x0, u) ==
  LET x  == Pending(x0, "UPDATE")
      ui == SetUnique(x)
      new == Assigned(x, u)
  IN  Step([x EXCEPT !.todo = @ \ {u},
                     !.wait = 1 + Cardinality(DOMAIN ui),
                     !.staged = With(@, u, Staged("UPDATE", x.results[u], new, u, ui))],
           Join(UniqueIndexMsgs(x, ui, u, 1),
                One(u[1], Msg(x, u[1], "UPDATEROW", 1, [uur |-> u, row |-> new]))))

\* continueUpdate, field 0 assigned: a new row in the Engine of the new value
\* replaces this one.
UpdateReplace(x0, u) ==
  LET x   == Pending(x0, "REPLACE")
      new == Assigned(x, u)
      e   == Home(new[0])
      old == IF u \in DOMAIN x.staged THEN x.staged[u]
                                      ELSE Staged("UPDATE", new, new, <<e, 0>>, Nothing)
      row == [old EXCEPT !.cmd = "UPDATE", !.original = x.results[u], !.new = new,
                         !.newuur = <<e, old.newuur[2]>>]
  IN  Step([x EXCEPT !.todo = @ \ {u}, !.orig = u, !.wait = 0,
                     !.staged = With(@, u, row)],
           One(e, Msg(x, e, "NEWROW", 1, new)))

\* Statement::continueUpdate(2): the next row, or the end.
NextUpdate(x) ==
  IF x.todo = {} THEN {FinishStatement(x)}
  ELSE {IF 0 \in DOMAIN x.stmt.set THEN UpdateReplace(x, u) ELSE UpdateInPlace(x, u)
        : u \in x.todo}

\* branchtotype once the rows are known.
WithRows(x) ==
  CASE x.stmt.cmd = "SELECT" -> {ContinueSelect(x)}
    [] x.stmt.cmd = "DELETE" -> {ContinueDelete(x)}
    [] x.stmt.cmd = "UPDATE" -> NextUpdate([x EXCEPT !.todo = DOMAIN x.results])

\* The parser leaves READLOCK on every SELECT.
LockOf(stmt) == IF stmt.cmd = "SELECT" THEN "READLOCK" ELSE "WRITELOCK"

StagedRows(x) == [u \in DOMAIN x.staged |-> ReturnRow(x.staged[u])]

\* stagedPredicate for OPERATOR_EQ.
StagedHits(x) ==
  {u \in DOMAIN x.staged : StagedRows(x)[u][x.stmt.field] = x.stmt.val}

\* Ast::evaluate, OPERATOR_EQ, and sqlPredicate: staged rows that match are all
\* there is, otherwise the Engine of the value is asked.
SearchEqual(x0) ==
  LET x == Pending(x0, "PREDICATE")
      e == Home(x.stmt.val)
  IN  IF StagedHits(x0) # {}
        THEN WithRows([x0 EXCEPT !.results =
                         [u \in StagedHits(x0) |-> StagedRows(x0)[u]]])
        ELSE {Step([x EXCEPT !.wait = 1],
                   One(e, IF x.stmt.field = 0 /\ 0 \in UniqueFields
                            THEN Msg(x, e, "SEARCHRETURN1", 2,
                                     [val |-> x.stmt.val, lock |-> LockOf(x.stmt)])
                            ELSE Msg(x, e, "INDEXSEARCH", 1,
                                     [field |-> x.stmt.field, vals |-> {x.stmt.val}])))}

\* sqlSelectAll: OPERATOR_SELECTALL on field 0 of every Engine.
SearchAll(x0) ==
  LET x == Pending(x0, "PREDICATE")
  IN  {Step([x EXCEPT !.wait = Cardinality(Engines), !.results = StagedRows(x0)],
            [e \in Engines |-> <<Msg(x, e, "INDEXSEARCH", 1,
                                     [field |-> 0, vals |-> Vals])>>])}

\* branchtotype, CMD_INSERT.
Insert(x0) ==
  LET x == Pending(x0, "INSERT")
      e == Home(x.stmt.row[0])
  IN  {Step(x, One(e, Msg(x, e, "NEWROW", 1, x.stmt.row)))}

\* Statement::execute.
Execute(x0, q) ==
  LET x == [x0 EXCEPT !.phase = "running", !.stmt = q, !.left = @ - 1]
  IN  CASE q.cmd = "INSERT"                       -> Insert(x)
        [] q.cmd # "INSERT" /\ q.where = "EQUAL"  -> SearchEqual(x)
        [] q.cmd # "INSERT" /\ q.where = "ALL"    -> SearchAll(x)

-----------------------------------------------------------------------------
(* Transaction::processTransactionMessage: the continuations of replies.     *)

\* continueSqlPredicate, case 1.  With no hit at all the statement goes on as if
\* it were a SELECT, whatever it is.
OnHits(x0, hits) ==
  LET x == [x0 EXCEPT !.hits = @ \cup hits, !.wait = @ - 1]
      where == {u[1] : u \in x.hits}
  IN  CASE x.wait > 0                  -> {Step(x, Quiet)}
        [] x.wait = 0 /\ x.hits = {}   -> {ContinueSelect(x)}
        [] x.wait = 0 /\ x.hits # {}   ->
             {Step([x EXCEPT !.wait = Cardinality(where)],
                   [e \in Engines |->
                      IF e \in where
                        THEN <<Msg(x, e, "SELECTROWS", 2,
                                   [rowids |-> {u[2] : u \in {h \in x.hits : h[1] = e}},
                                    lock |-> LockOf(x.stmt)])>>
                        ELSE <<>>])}

\* continueSqlPredicate, case 2.  What is locked already is in results, not yet in
\* stagedRows, when a pending lock aborts the query.
OnRows(x0, rows) ==
  LET found == {r \in rows : Granted(r.lock)}
      got   == [u \in {r.uur : r \in found} |-> (CHOOSE r \in found : r.uur = u).row]
      x     == [x0 EXCEPT !.wait = @ - 1, !.results = Over(got, @)]
  IN  CASE \E r \in rows : r.lock = "PENDINGLOCK"    -> {AbortQuery(x0)}
        [] \A r \in rows : r.lock # "PENDINGLOCK"    ->
             IF x.wait > 0 THEN {Step(x, Quiet)} ELSE WithRows(x)

\* continueSqlInsert, case 1: the row is there, now lock its unique values.
OnNewRow(x0, rowid) ==
  LET row == x0.stmt.row
      u   == <<Home(row[0]), rowid>>
      ui  == [n \in UniqueFields |-> row[n]]
      x   == [x0 EXCEPT !.wait = Cardinality(UniqueFields),
                        !.staged = With(@, u, Staged("INSERT", row, row, u, ui))]
  IN  IF UniqueFields = {} THEN {FinishStatement(x)}
      ELSE {Step(x, UniqueIndexMsgs(x, ui, u, 2))}

\* continueSqlReplace, case 1.
OnReplacement(x0, rowid) ==
  LET u   == x0.orig
      old == x0.staged[u]
      new == <<old.newuur[1], rowid>>
      ui  == SetUnique(x0)
      row == [old EXCEPT !.newuur = new, !.ui = Over(ui, @)]
      x   == [x0 EXCEPT !.wait = 1 + Cardinality(DOMAIN ui),
                        !.staged = With(@, u, row)]
  IN  {Step(x, Join(One(u[1], Msg(x, u[1], "REPLACEDELETEROW", 2, u)),
                    UniqueIndexMsgs(x, ui, new, 2)))}

\* continueSqlInsert case 2, continueSqlUpdate and continueSqlReplace case 2: only
\* the locktype of the answer is looked at.
OnLock(x0, lock) ==
  LET x == [x0 EXCEPT !.wait = @ - 1]
  IN  CASE lock \notin {"WRITELOCK", "INDEXLOCK"} -> {AbortQuery(x0)}
        [] lock \in {"WRITELOCK", "INDEXLOCK"} /\ x.wait > 0 -> {Step(x, Quiet)}
        [] lock \in {"WRITELOCK", "INDEXLOCK"} /\ x.wait = 0 ->
             IF x.cmd = "INSERT" THEN {FinishStatement(x)} ELSE NextUpdate(x)

\* continueSqlDelete.
OnDeleted(x0, ok) ==
  LET x == [x0 EXCEPT !.wait = @ - 1]
  IN  CASE ~ok              -> {AbortQuery(x)}
        [] ok /\ x.wait > 0 -> {Step(x, Quiet)}
        [] ok /\ x.wait = 0 -> {FinishStatement(x)}

OnReply(x, m) ==
  CASE x.cmd = "PREDICATE" /\ m.ep = 1               -> OnHits(x, m.arg)
    [] x.cmd = "PREDICATE" /\ m.ep = 2               -> OnRows(x, m.arg)
    [] x.cmd = "INSERT" /\ m.ep = 1                  -> OnNewRow(x, m.arg)
    [] x.cmd = "REPLACE" /\ m.ep = 1                 -> OnReplacement(x, m.arg)
    [] x.cmd \in {"INSERT", "REPLACE"} /\ m.ep = 2   -> OnLock(x, m.arg)
    [] x.cmd = "UPDATE"                              -> OnLock(x, m.arg)
    [] x.cmd = "DELETE"                              -> OnDeleted(x, m.arg)
    [] x.cmd = "COMMIT"                              -> {ContinueCommit(x, m.ep)}

\* A slip in processTransactionMessage: the subtransactionid is not remembered.
LearnNothing(x, e, m) == x

\* The reply tells the subtransactionid the first time.
Learn(x, e, m) == IF x.subs[e] = 0 THEN [x EXCEPT !.subs[e] = m.sub] ELSE x

-----------------------------------------------------------------------------
(* Actions of a Transaction Agent.                                          *)

Apply(t, step) == /\ txn' = [txn EXCEPT ![t] = step.x]
                  /\ mail' = [mail EXCEPT ![t] = Join(@, step.out)]

\* Pg::executeStatement.
StartStatement(t, q) ==
  /\ txn[t].phase = "idle"
  /\ txn[t].left > 0
  /\ \A u \in DOMAIN txn[t].staged : txn[t].staged[u].cmd # "DELETE"
  /\ \E step \in Execute(txn[t], q) : Apply(t, step)
  /\ UNCHANGED <<engineVars, replies>>

\* COMMIT, or the end of a statement outside a transaction block.
ClientCommit(t) ==
  /\ txn[t].phase = "idle"
  /\ txn[t].left < MaxStmts
  /\ Apply(t, Commit(txn[t]))
  /\ UNCHANGED <<engineVars, replies>>

\* ROLLBACK, or the client has gone.
ClientRollback(t) ==
  /\ txn[t].phase = "idle"
  /\ txn[t].left < MaxStmts
  /\ Apply(t, Rollback(txn[t]))
  /\ UNCHANGED <<engineVars, replies>>

\* Pg::closesocket while the transaction waits for answers: it is rolled back and
\* deleted at once, in the middle of a statement (of a transaction block: outside
\* one Pg has no transactionPtr until the statement is over) or of a commit.
HangUp(t) ==
  /\ txn[t].phase \in HangUps
  /\ txn[t].phase = "running" => MaxStmts > 1
  /\ LET step == Rollback(txn[t])
     IN  Apply(t, IF txn[t].phase = "committing"
                    THEN [step EXCEPT !.x.phase = "abandoned"] ELSE step)
  /\ UNCHANGED <<engineVars, replies>>

Receive(t, e) ==
  LET m == Head(replies[t][e])
  IN  /\ replies[t][e] # <<>>
      /\ txn[t].cmd # "NOCOMMAND" /\ m.id = txn[t].id
      /\ replies' = [replies EXCEPT ![t][e] = Tail(@)]
      /\ \E step \in OnReply(Learn(txn[t], e, m), m) : Apply(t, step)
      /\ UNCHANGED engineVars

\* badMessageHandler: the transaction or the command is over.
DropReply(t, e) ==
  /\ replies[t][e] # <<>>
  /\ txn[t].cmd = "NOCOMMAND" \/ Head(replies[t][e]).id # txn[t].id
  /\ replies' = [replies EXCEPT ![t][e] = Tail(@)]
  /\ UNCHANGED <<engineVars, mail, txn>>

-----------------------------------------------------------------------------
(* Actions of an Engine: Engine::Engine, TOPIC_TRANSACTION, and              *)
(* SubTransaction::processTransactionMessage.  m is the message at the head, *)
(* s the subtransaction that handles it: the one it names or a new one.      *)

Arrived(t, e, cmd) == e \notin crashed /\ mail[t][e] # <<>> /\ Head(mail[t][e]).cmd = cmd

SubFor(e, m) == IF m.sub = 0 THEN Len(owner[e]) + 1 ELSE m.sub

\* The message reaches a subtransaction; bounded by Subs.  (The Engine drops one
\* that names a subtransaction it does not have; no agent sends one after END.)
Handled(t, e, m) ==
  /\ m.sub = 0 \/ m.sub \in live[e]
  /\ SubFor(e, m) \in Subs
  /\ owner' = [owner EXCEPT ![e] = IF m.sub = 0 THEN Append(@, t) ELSE @]
  /\ live'  = [live EXCEPT ![e] = @ \cup {SubFor(e, m)}]
  /\ mail'  = [mail EXCEPT ![t][e] = Tail(@)]

\* replyTransaction
Reply(t, e, m, arg) ==
  replies' = [replies EXCEPT ![t][e] =
                Append(@, [ep |-> m.ep, id |-> m.id, sub |-> SubFor(e, m), arg |-> arg])]

\* A slip in getnextrowid: nextrowid++ instead of ++nextrowid.
NewRowPostIncrement(t, e) ==
  LET m == Head(mail[t][e])
      r == nextrowid[e]
  IN  /\ Arrived(t, e, "NEWROW")
      /\ r + 1 \in Rowids
      /\ Handled(t, e, m)
      /\ nextrowid' = [nextrowid EXCEPT ![e] = r + 1]
      /\ table' = [table EXCEPT ![e][r] = NewCell(SubFor(e, m), m.arg)]
      /\ Reply(t, e, m, r)
      /\ UNCHANGED <<unique, nonunique, crashed, txn>>

NewRow(t, e) ==
  LET m == Head(mail[t][e])
      r == nextrowid[e] + 1
  IN  /\ Arrived(t, e, "NEWROW")
      /\ r \in Rowids
      /\ Handled(t, e, m)
      /\ nextrowid' = [nextrowid EXCEPT ![e] = r]
      /\ table' = [table EXCEPT ![e][r] = NewCell(SubFor(e, m), m.arg)]
      /\ Reply(t, e, m, r)
      /\ UNCHANGED <<unique, nonunique, crashed, txn>>

UniqueIndex(t, e) ==
  LET m == Head(mail[t][e])
      x == unique[m.arg.key]
  IN  /\ Arrived(t, e, "UNIQUEINDEX")
      /\ Handled(t, e, m)
      /\ unique' = [unique EXCEPT ![m.arg.key] =
                      UniqueIndexEntry(x, m.arg.uur, SubFor(e, m))]
      /\ Reply(t, e, m, UniqueIndexReply(x))
      /\ UNCHANGED <<table, nextrowid, nonunique, crashed, txn>>

\* The answer says WRITELOCK whether the row was updated or not.
UpdateRow(t, e) ==
  LET m == Head(mail[t][e])
  IN  /\ Arrived(t, e, "UPDATEROW")
      /\ Handled(t, e, m)
      /\ table' = [table EXCEPT ![e][m.arg.uur[2]] = UpdateCell(@, SubFor(e, m), m.arg.row)]
      /\ Reply(t, e, m, "WRITELOCK")
      /\ UNCHANGED <<nextrowid, unique, nonunique, crashed, txn>>

\* A slip in DELETEROW: it answers as UPDATEROW does.
DeleteRowAlwaysOk(t, e) ==
  LET m == Head(mail[t][e])
  IN  /\ Arrived(t, e, "DELETEROW")
      /\ Handled(t, e, m)
      /\ table' = [table EXCEPT ![e][m.arg[2]] = DeleteCell(@, SubFor(e, m))]
      /\ Reply(t, e, m, TRUE)
      /\ UNCHANGED <<nextrowid, unique, nonunique, crashed, txn>>

DeleteRow(t, e) ==
  LET m == Head(mail[t][e])
  IN  /\ Arrived(t, e, "DELETEROW")
      /\ Handled(t, e, m)
      /\ table' = [table EXCEPT ![e][m.arg[2]] = DeleteCell(@, SubFor(e, m))]
      /\ Reply(t, e, m, WriteLockedBy(table[e][m.arg[2]], SubFor(e, m)))
      /\ UNCHANGED <<nextrowid, unique, nonunique, crashed, txn>>

ReplaceDeleteRow(t, e) ==
  LET m == Head(mail[t][e])
  IN  /\ Arrived(t, e, "REPLACEDELETEROW")
      /\ Handled(t, e, m)
      /\ table' = [table EXCEPT ![e][m.arg[2]] = ReplaceDeleteCell(@, SubFor(e, m))]
      /\ Reply(t, e, m, "WRITELOCK")
      /\ UNCHANGED <<nextrowid, unique, nonunique, crashed, txn>>

\* SubTransaction::indexSearch, getequal and getall: staged entries are hits too.
IndexHits(e, n, vals) ==
  IF n \in UniqueFields
    THEN {unique[<<n, v>>].uur : v \in {w \in vals : Home(w) = e /\ unique[<<n, w>>] # NoEntry}}
    ELSE IF n \in NonuniqueFields
    THEN {p[2] : p \in {q \in nonunique[n] : q[1] \in vals /\ Home(q[1]) = e}}
    ELSE {}

IndexSearch(t, e) ==
  LET m == Head(mail[t][e])
  IN  /\ Arrived(t, e, "INDEXSEARCH")
      /\ Handled(t, e, m)
      /\ Reply(t, e, m, IndexHits(e, m.arg.field, m.arg.vals))
      /\ UNCHANGED <<table, nextrowid, unique, nonunique, crashed, txn>>

\* Table::selectrows on the rows R; a row that is skipped has no entry.
ReturnRows(e, R, s, lock) ==
  {[uur |-> <<e, r>>, lock |-> SelectReply(table[e][r], s, lock), row |-> table[e][r].row]
   : r \in {q \in R : SelectReply(table[e][q], s, lock) # "SKIP"}}

Select(t, e, R, lock) ==
  LET m == Head(mail[t][e])
      s == SubFor(e, m)
  IN  /\ Handled(t, e, m)
      /\ table' = [table EXCEPT ![e] =
                     [r \in Rowids |-> IF r \in R THEN SelectCell(@[r], s, lock) ELSE @[r]]]
      /\ Reply(t, e, m, ReturnRows(e, R, s, lock))
      /\ UNCHANGED <<nextrowid, unique, nonunique, crashed, txn>>

SelectRows(t, e) ==
  LET m == Head(mail[t][e])
  IN  Arrived(t, e, "SELECTROWS") /\ Select(t, e, m.arg.rowids, m.arg.lock)

\* SubTransaction::searchReturn1: the hit is looked up in this Engine.
SearchReturn1(t, e) ==
  LET m == Head(mail[t][e])
  IN  /\ Arrived(t, e, "SEARCHRETURN1")
      /\ Select(t, e, {u[2] : u \in IndexHits(e, 0, {m.arg.val})}, m.arg.lock)

-----------------------------------------------------------------------------
(* PAYLOADCOMMITROLLBACK.                                                   *)

RowsIn(rofs)  == {rof.uur[2] : rof \in {x \in rofs : x.kind = "row"}}
RofsOf(rofs, kind, n, v) ==
  {rof \in rofs : rof.kind = kind /\ rof.field = n /\ rof.val = v}

\* drainRowLockQueue answers a waiter that still exists with element 0 of an
\* empty vector.
DrainFails(e, c) == c.lock = "ABSENT" /\ c.waiters \cap live[e] # {}

\* The rows of e after those in the domain of done have become its values.
Settled(e, done) ==
  [r \in Rowids |-> IF r \in DOMAIN done THEN DrainCell(done[r]) ELSE table[e][r]]

Crash(e) == /\ crashed' = crashed \cup {e}
            /\ UNCHANGED <<table, nextrowid, unique, nonunique, live, owner,
                           mail, replies, txn>>

\* An entry of a unique index after a COMMITCMD: commitRollback, deleteUniqueEntry
\* or replaceUnique.
CommittedEntry(rofs, n, v, s) ==
  LET replace == RofsOf(rofs, "replace", n, v)
  IN  CASE RofsOf(rofs, "delete", n, v) # {} -> NoEntry
        [] RofsOf(rofs, "delete", n, v) = {} /\ replace # {} ->
             ReplaceUnique((CHOOSE rof \in replace : TRUE).new)
        [] RofsOf(rofs, "add", n, v) # {} -> CommitEntry(unique[<<n, v>>], s)
        [] OTHER -> unique[<<n, v>>]

\* A slip in the branch for DELETEINDEXENTRY: only unique entries are deleted.
CommittedPairsKeepDeleted(rofs, n) ==
  nonunique[n] \cup {<<rof.val, rof.uur>> :
                       rof \in {x \in rofs : x.kind = "add" /\ x.field = n}}

\* A nonunique index after a COMMITCMD, one rowOrField_s after the other.
CommittedPairs(rofs, n) ==
  LET on(kind) == {rof \in rofs : rof.kind = kind /\ rof.field = n}
      kept  == nonunique[n] \ {<<rof.val, rof.uur>> : rof \in on("delete")}
      moved == {IF \E rof \in on("replace") : p = <<rof.val, rof.uur>>
                  THEN <<p[1], (CHOOSE rof \in on("replace") : p = <<rof.val, rof.uur>>).new>>
                  ELSE p : p \in kept}
  IN  moved \cup {<<rof.val, rof.uur>> : rof \in on("add")}

CommitRofsAt(t, e) ==
  LET m == Head(mail[t][e])
      s == SubFor(e, m)
      R == RowsIn(m.arg)
      C(c) == CommitCell(c, s)
      keys == {<<rof.field, rof.val>> : rof \in {x \in m.arg : x.kind # "row"}}
  IN  /\ Arrived(t, e, "COMMIT")
      /\ IF \E r \in R : \/ table[e][r].lock = "ABSENT" \/ FreedTwice(table[e][r], s)
                         \/ DrainFails(e, C(table[e][r]))
           THEN Crash(e)
           ELSE /\ Handled(t, e, m)
                /\ table' = [table EXCEPT ![e] = Settled(e, [r \in R |-> C(table[e][r])])]
                /\ unique' = [k \in Keys |-> IF k \in keys
                                THEN CommittedEntry(m.arg, k[1], k[2], s) ELSE unique[k]]
                /\ nonunique' = [n \in NonuniqueFields |-> CommittedPairs(m.arg, n)]
                /\ Reply(t, e, m, {})
                /\ UNCHANGED <<nextrowid, crashed, txn>>

\* ROLLBACKCMD carries one row or one unique value and is not answered.  The row is
\* not in Table::rows while the NEWROW of a replacement is not answered: its rowid
\* is 0.
RollbackRofAt(t, e) ==
  LET m == Head(mail[t][e])
      s == SubFor(e, m)
      R == RowsIn(m.arg) \cap Rowids
      C(c) == RollbackCell(c, s)
      keys == {<<rof.field, rof.val>> : rof \in {x \in m.arg : x.kind = "add"}}
  IN  /\ Arrived(t, e, "ROLLBACK")
      /\ IF \E r \in R : DrainFails(e, C(table[e][r]))
           THEN Crash(e)
           ELSE /\ Handled(t, e, m)
                /\ table' = [table EXCEPT ![e] = Settled(e, [r \in R |-> C(table[e][r])])]
                /\ unique' = [k \in Keys |-> IF k \in keys
                                THEN RollbackEntry(unique[k], s) ELSE unique[k]]
                /\ UNCHANGED <<nextrowid, nonunique, crashed, replies, txn>>

\* TOPIC_ENDSUBTRANSACTION
EndSubTransaction(t, e) ==
  LET m == Head(mail[t][e])
  IN  /\ Arrived(t, e, "END")
      /\ m.sub \in live[e]
      /\ live' = [live EXCEPT ![e] = @ \ {m.sub}]
      /\ mail' = [mail EXCEPT ![t][e] = Tail(@)]
      /\ UNCHANGED <<table, nextrowid, unique, nonunique, owner, crashed, replies, txn>>

-----------------------------------------------------------------------------
\* Committed rows and their index entries.
LoadedEntry(n, v) ==
  LET rows == {u \in DOMAIN Loaded : Loaded[u][n] = v}
  IN  IF rows = {} THEN NoEntry ELSE [uur |-> CHOOSE u \in rows : TRUE, sub |-> NoSub]

Init ==
  /\ table = [e \in Engines |-> [r \in Rowids |->
                IF <<e, r>> \in DOMAIN Loaded
                  THEN [AbsentCell EXCEPT !.lock = "NOLOCK", !.row = Loaded[<<e, r>>]]
                  ELSE AbsentCell]]
  /\ nextrowid = [e \in Engines |-> Cardinality({u \in DOMAIN Loaded : u[1] = e})]
  /\ unique = [k \in Keys |-> LoadedEntry(k[1], k[2])]
  /\ nonunique = [n \in NonuniqueFields |-> {<<Loaded[u][n], u>> : u \in DOMAIN Loaded}]
  /\ live = [e \in Engines |-> {}]
  /\ owner = [e \in Engines |-> <<>>]
  /\ crashed = {}
  /\ mail = [t \in Txns |-> Quiet]
  /\ replies = [t \in Txns |-> Quiet]
  /\ txn = [t \in Txns |-> FreshTxn]

Serve(t, e) ==
  \/ NewRow(t, e)
  \/ UniqueIndex(t, e)
  \/ UpdateRow(t, e)
  \/ DeleteRow(t, e)
  \/ ReplaceDeleteRow(t, e)
  \/ IndexSearch(t, e)
  \/ SelectRows(t, e)
  \/ SearchReturn1(t, e)
  \/ CommitRofsAt(t, e)
  \/ RollbackRofAt(t, e)
  \/ EndSubTransaction(t, e)

Next ==
  \E t \in Txns :
    \/ \E q \in Statements : StartStatement(t, q)
    \/ ClientCommit(t)
    \/ ClientRollback(t)
    \/ HangUp(t)
    \/ \E e \in Engines : Receive(t, e) \/ DropReply(t, e) \/ Serve(t, e)

\* Every thread goes on taking messages from its mailbox, none of them preferred.
Fairness == \A t \in Txns, e \in Engines :
              WF_vars(Serve(t, e)) /\ WF_vars(Receive(t, e) \/ DropReply(t, e))

Spec == Init /\ [][Next]_vars
FairSpec == Spec /\ Fairness

-----------------------------------------------------------------------------
(* Properties.                                                              *)

TypeOK ==
  /\ table \in [Engines -> [Rowids -> Cell]]
  /\ nextrowid \in [Engines -> Rowids \cup {0}]
  /\ unique \in [Keys -> [uur : Uurs, sub : Subs \cup {NoSub}] \cup {NoEntry}]
  /\ nonunique \in [NonuniqueFields -> SUBSET (Vals \X Uurs)]
  /\ \A e \in Engines : owner[e] \in Seq(Txns) /\ live[e] \subseteq DOMAIN owner[e]
  /\ crashed \subseteq Engines
  /\ \A t \in Txns : /\ txn[t].phase \in {"idle", "running", "committing",
                                          "committed", "rolledback", "abandoned"}
                     /\ txn[t].wait \in Nat
                     /\ DOMAIN txn[t].staged \subseteq Uurs

\* The subtransactions of t in e hold nothing and are gone.
Released(t, e) ==
  \A s \in {k \in DOMAIN owner[e] : owner[e][k] = t} :
    /\ s \notin live[e]
    /\ \A r \in Rowids : ~WriteLockedBy(table[e][r], s) /\ s \notin table[e][r].readlockHolders
    /\ \A k \in Keys : Home(k[2]) = e => ~EntryLockedBy(unique[k], s)

\* When a transaction is over and its last messages have been handled, no Engine
\* has a subtransaction, a row lock or a unique value locked in its name
\* (Transaction::rollback and case 4 of continueCommitTransaction are the only
\* ones that let go; nothing retries them).
NothingLeftBehind ==
  \A t \in Txns, e \in Engines :
    Ended(t) /\ mail[t][e] = <<>> /\ e \notin crashed => Released(t, e)

\* "Each transaction, therefore, has a single SubTransaction associated with each
\* Engine" (docs/pubs/overview.xml), although a message that names none creates
\* one (Engine.cc).
SingleSubTransaction ==
  \A e \in Engines : \A i, j \in live[e] : owner[e][i] = owner[e][j] => i = j

\* Nothing is in flight and no transaction is between its first statement and its
\* end.
AtRest == /\ crashed = {}
          /\ \A t \in Txns : /\ Ended(t) \/ txn[t] = FreshTxn
                             /\ \A e \in Engines : mail[t][e] = <<>>

\* At rest the indices and the rows say the same: each value of a unique field
\* has an entry exactly when a row has that value, it points to that row, and
\* the pairs of a nonunique index are those of the rows.  Rows and entries are
\* written by different Engines from different messages.
IndexesMatchRows ==
  AtRest =>
    LET rows == {u \in Uurs : table[u[1]][u[2]].row # NoVal}
        val(u, n) == table[u[1]][u[2]].row[n]
    IN  /\ \A k \in Keys : LET having == {u \in rows : val(u, k[1]) = k[2]}
                           IN  IF having = {} THEN unique[k] = NoEntry
                                              ELSE unique[k].uur \in having /\ unique[k].sub = NoSub
        /\ \A n \in NonuniqueFields : nonunique[n] = {<<val(u, n), u>> : u \in rows}

\* A subtransaction of t has the write lock of the row u.
LockedBy(t, u) == \E s \in DOMAIN owner[u[1]] :
                    owner[u[1]][s] = t /\ WriteLockedBy(table[u[1]][u[2]], s)

\* A change that a statement has staged and reported to its client is one the
\* transaction has the row's write lock for: COMMITCMD will find it, and nobody
\* else can have touched the row (updaterow, deleterow and commit all test the
\* lock and do nothing without it, and UPDATEROW answers WRITELOCK either way).
StagedChangesAreLocked ==
  \A t \in Txns : txn[t].phase = "idle" /\ crashed = {} =>
    \A u \in DOMAIN txn[t].staged : txn[t].staged[u].cmd # "NOCOMMAND" =>
      LockedBy(t, u) /\ LockedBy(t, txn[t].staged[u].newuur)

\* Until it commits, a transaction can rely on what it has read: the row it staged
\* is still the committed row (two-phase locking; the copy in stagedRows decides
\* which index entries commit will delete).
ReadsAreRepeatable ==
  \A t \in Txns : txn[t].phase \in {"idle", "running"} =>
    \A u \in DOMAIN txn[t].staged :
      txn[t].staged[u].cmd # "INSERT" =>
        Visible(table[u[1]][u[2]]) = txn[t].staged[u].original

\* "UPDATE ... [WHERE <search expression>]" (docs/pubs/reference.xml): the rows that
\* a statement goes on with, once they are locked, satisfy its predicate.  The
\* predicate is evaluated on an index in one Engine, the row is locked and read in
\* another one later, and is not looked at again.
RowsMatchPredicate ==
  \A t \in Txns : txn[t].phase = "running" /\ txn[t].stmt.cmd # "INSERT" =>
    (txn[t].stmt.where = "EQUAL" =>
       \A u \in DOMAIN txn[t].results :
         txn[t].results[u][txn[t].stmt.field] = txn[t].stmt.val)

CommitStarted(t) == txn[t].phase \in {"committing", "committed", "abandoned"}

\* The commit of row u is decided and has not reached the row: its COMMITCMD is on
\* its way, or waits for the second round.
CommitUnderWay(t, u) ==
  \/ \E i \in DOMAIN mail[t][u[1]] :
       LET m == mail[t][u[1]][i] IN m.cmd = "COMMIT" /\ RowRof(u) \in m.arg
  \/ txn[t].phase = "committing" /\ RowRof(u) \in txn[t].late

\* The committed database: every row as it will be when the commits under way have
\* reached it.
Database ==
  [u \in Uurs |->
     LET c == table[u[1]][u[2]]
     IN  IF \E t \in Txns : CommitUnderWay(t, u) /\ LockedBy(t, u)
           THEN Visible(CommitCell(c, c.writelockHolder)) ELSE Visible(c)]

Atomic == INSTANCE AtomicStore
            WITH db <- Database, committed <- {t \in Txns : CommitStarted(t)}

\* The commit that reaches the Engines one message at a time is one atomic step of
\* the database, made when Transaction::commit decides it; nothing else changes a
\* committed row, and unique fields stay unique.
ImplementsAtomicStore == Atomic!Spec

\* A statement or a commit that has begun comes to its end.
EveryCommandEnds ==
  \A t \in Txns : txn[t].phase \in {"running", "committing"} ~>
                    (txn[t].phase \notin {"running", "committing"} \/ crashed # {})
=============================================================================
