---------------------------- MODULE Replication ----------------------------
(***************************************************************************)
(* Synchronous replication: Transaction::commit and makeMessageDispatch    *)
(* (src/infinisqld/Transaction.cc) send the staged changes to the replicas,*)
(* TransactionAgent::handledispatch acknowledges them, works out the index *)
(* changes and hands both to the Engines, Engine::apply (Engine.cc) applies*)
(* them or puts aside what does not fit yet, class Applier counts answers. *)
(*                                                                         *)
(* Every transaction runs in a Transaction Agent of its own, so the applies*)
(* of different transactions reach an Engine in any order.  How a commit   *)
(* changes the primary's own Engines is one step (Transactions has the     *)
(* details).  An UPDATE keeps the value that places the row.               *)
(***************************************************************************)
EXTENDS Integers, Sequences, FiniteSets, Functions, Folds, SequencesExt

CONSTANTS Txns,
          NumReplicas,  \* nodeTopology.numreplicas, this node's among them
          Partitions,
          Vals, NULL,   \* field values
          PartitionOf,  \* getPartitionid of a value
          IndexType,    \* of fields 0 and 1: "UNIQUE", "NONUNIQUE" or "NONE"
          NewRows,      \* rows clients insert
          MaxChanges,   \* bound on the changes of one transaction
          Primitives    \* what transactions do: INSERT, UPDATE, DELETE

ASSUME ReplicationAssumption ==
  /\ NumReplicas \in Nat \ {0}
  /\ PartitionOf \in [Vals \cup {NULL} -> Partitions]
  /\ IndexType \in [{0, 1} -> {"UNIQUE", "NONUNIQUE", "NONE"}]
  /\ NewRows \subseteq [{0, 1} -> Vals \cup {NULL}] /\ \A row \in NewRows : row[0] # NULL
  /\ Primitives \subseteq {"INSERT", "UPDATE", "DELETE"}

VARIABLES primary,   \* committed rows, by uuRecord_s
          nextrowid, nextsub,   \* of each partition
          txn,       \* [phase, staged, subs, wait] of each Transaction
          dispatches,\* MessageDispatch on their way: [txn, to, copy]
          acks,      \* MessageAckDispatch on their way
          appliers,  \* TransactionAgent::Appliers of each replica: partitioncount
          applies,   \* MessageApply on their way, of each replica
          ackapplies,\* MessageAckApply on their way, of each replica
          store,     \* rows and indexes of each replica
          backgrounded, \* of each replica and partition, by subtransactionid
          up         \* the replica's process has not died

vars == <<primary, nextrowid, nextsub, txn, dispatches, acks, appliers, applies,
          ackapplies, store, backgrounded, up>>
primaryVars == <<primary, nextrowid, nextsub>>
replicaVars == <<appliers, applies, ackapplies, store, backgrounded, up>>

-----------------------------------------------------------------------------
Nothing  == [x \in {} |-> 0]
Fields   == {0, 1}
Rows     == [Fields -> Vals \cup {NULL}]
Replicas == 1 .. NumReplicas - 1
Indexed  == {f \in Fields : IndexType[f] # "NONE"}
Without(f, x) == Restrict(f, DOMAIN f \ {x})
With(f, x, y) == [z \in {x} \cup DOMAIN f |-> IF z = x THEN y ELSE f[z]]

\* stagedRow_s of a changed row.
Change(cmd, original, new) == [cmd |-> cmd, original |-> original, new |-> new]

FreshTxn == [phase |-> "running", staged |-> Nothing, wait |-> 0,
             subs |-> [p \in Partitions |-> 0]]

EmptyStore == [rows   |-> Nothing,   \* Table::rows, by uuRecord_s
               unique |-> Nothing,   \* unique indexes, by field and value
               multi  |-> EmptyBag,        \* nonunique ones: <<field, value, rowid>>
               nulls  |-> {}]        \* Index::nulls: <<field, rowid, partition>>

Init == /\ primary = Nothing
        /\ nextrowid = [p \in Partitions |-> 1]
        /\ nextsub = [p \in Partitions |-> 1]
        /\ txn = [t \in Txns |-> FreshTxn]
        /\ dispatches = {} /\ acks = {}
        /\ appliers = [r \in Replicas |-> Nothing]
        /\ applies = [r \in Replicas |-> {}]
        /\ ackapplies = [r \in Replicas |-> {}]
        /\ store = [r \in Replicas |-> EmptyStore]
        /\ backgrounded = [r \in Replicas |-> [p \in Partitions |-> Nothing]]
        /\ up = [r \in Replicas |-> TRUE]

-----------------------------------------------------------------------------
(* The primary: statements stage changes, commit dispatches them.           *)

Running      == {t \in Txns : txn[t].phase # "committed"}
Staging(u)   == {t \in Running : u \in DOMAIN txn[t].staged}
TakenKeys    == {primary[u][0] : u \in DOMAIN primary}
                \cup UNION {{txn[t].staged[u].new[0] : u \in DOMAIN txn[t].staged} : t \in Running}

\* A statement of t has changed row u; with it t gets a subtransaction there.
Stage(t, u, change) ==
  /\ txn[t].phase = "running" /\ Cardinality(DOMAIN txn[t].staged) < MaxChanges
  /\ change.cmd \in Primitives
  /\ LET p     == u[1]
         known == txn[t].subs[p] # 0
     IN  /\ txn' = [txn EXCEPT ![t].staged = With(@, u, change),
                               ![t].subs[p] = IF known THEN @ ELSE nextsub[p]]
         /\ nextsub' = [nextsub EXCEPT ![p] = IF known THEN @ ELSE @ + 1]
  /\ UNCHANGED <<primary, dispatches, acks, replicaVars>>

StageInsert(t, row) ==
  LET p == PartitionOf[row[0]]
  IN  /\ row[0] \notin TakenKeys
      /\ Stage(t, <<p, nextrowid[p]>>, Change("INSERT", <<>>, row))
      /\ nextrowid' = [nextrowid EXCEPT ![p] = @ + 1]

\* The row lock: nobody else has staged the row.
StageUpdate(t, u, v) ==
  /\ u \in DOMAIN primary /\ Staging(u) = {} /\ primary[u][1] # v
  /\ Stage(t, u, Change("UPDATE", primary[u], [primary[u] EXCEPT ![1] = v]))
  /\ UNCHANGED nextrowid

StageDelete(t, u) ==
  /\ u \in DOMAIN primary /\ Staging(u) = {}
  /\ Stage(t, u, Change("DELETE", primary[u], primary[u]))
  /\ UNCHANGED nextrowid

\* A slip in Transaction::commit: this node is waited for, too.
WaitForDispatchedAll == NumReplicas

\* Transaction::commit: waitfordispatched.
WaitForDispatched == IF NumReplicas = 1 THEN 1 ELSE NumReplicas - 1

Dispatch(t, r, copy) == [txn |-> t, to |-> r, copy |-> copy,
                         staged |-> txn[t].staged, subs |-> txn[t].subs]

\* Transaction::commit: the messages.  With more than two replicas the loop leaves
\* out replicaAddresses[0] and the last address gets a second copy.
\* makeMessageDispatch answers NULL when nothing has changed.
DispatchesOf(t) ==
  CASE NumReplicas = 1 \/ txn[t].staged = Nothing -> {}
    [] NumReplicas = 2 /\ txn[t].staged # Nothing -> {Dispatch(t, 1, 1)}
    [] NumReplicas > 2 /\ txn[t].staged # Nothing ->
         {Dispatch(t, r, 1) : r \in Replicas \ {1}} \cup {Dispatch(t, NumReplicas - 1, 2)}

\* continueCommitTransaction(1) once waitfordispatched is down to 0.
Committed(staged) ==
  LET gone == {u \in DOMAIN staged : staged[u].cmd = "DELETE"}
      kept == DOMAIN staged \ gone
  IN  [u \in kept \cup (DOMAIN primary \ gone) |-> IF u \in kept THEN staged[u].new ELSE primary[u]]

\* A slip in Transaction::commit: it goes on without waiting for the replicas.
CommitAtOnce(t) ==
  /\ txn[t].phase = "running"
  /\ txn' = [txn EXCEPT ![t].phase = "committed"]
  /\ primary' = Committed(txn[t].staged)
  /\ dispatches' = dispatches \cup DispatchesOf(t)
  /\ UNCHANGED <<nextrowid, nextsub, acks, replicaVars>>

Commit(t) ==
  /\ txn[t].phase = "running"
  /\ IF NumReplicas = 1
       THEN /\ txn' = [txn EXCEPT ![t].phase = "committed"]
            /\ primary' = Committed(txn[t].staged)
       ELSE /\ txn' = [txn EXCEPT ![t].phase = "dispatching", ![t].wait = WaitForDispatched]
            /\ UNCHANGED primary
  /\ dispatches' = dispatches \cup DispatchesOf(t)
  /\ UNCHANGED <<nextrowid, nextsub, acks, replicaVars>>

\* TOPIC_ACKDISPATCH: continueCommitTransaction(1).
AckDispatch(ack) ==
  LET t == ack.txn
  IN  /\ acks' = acks \ {ack}
      /\ IF txn[t].phase = "committed"       \* the Transaction is gone
           THEN UNCHANGED <<txn, primary>>
           ELSE IF txn[t].wait > 1
           THEN /\ txn' = [txn EXCEPT ![t].wait = @ - 1]
                /\ UNCHANGED primary
           ELSE /\ txn' = [txn EXCEPT ![t].phase = "committed", ![t].wait = 0]
                /\ primary' = Committed(txn[t].staged)
      /\ UNCHANGED <<nextrowid, nextsub, dispatches, replicaVars>>

-----------------------------------------------------------------------------
(* The replica's Transaction Agent.                                         *)

IndexItem(add, f, v, rowid) == [add |-> add, field |-> f, val |-> v, rowid |-> rowid]

\* handledispatch: the index changes of a record.  A DELETE carries no oldrow, so
\* unmakerow reads whatever lies behind an empty string (Garbage).
IndexItems(change, rowid, garbage) ==
  CASE change.cmd = "INSERT" -> {IndexItem(TRUE, f, change.new[f], rowid) : f \in Indexed}
    [] change.cmd = "UPDATE" ->
         UNION {{IndexItem(FALSE, f, change.original[f], rowid),
                 IndexItem(TRUE, f, change.new[f], rowid)}
                : f \in {g \in Indexed : change.original[g] # change.new[g]}}
    [] change.cmd = "DELETE" -> {IndexItem(FALSE, f, garbage[f], rowid) : f \in Indexed}

Garbage(d) == IF \E u \in DOMAIN d.staged : d.staged[u].cmd = "DELETE" THEN Rows ELSE {<<>>}

\* makeMessageDispatch: the changed rows of partition p, the partitions that have one.
RecordsOf(staged, p) == {u \in DOMAIN staged : u[1] = p}
Destinations(staged) == {u[1] : u \in DOMAIN staged}

ItemsOf(d, p, garbage) ==
  UNION {IndexItems(d.staged[u], u[2], garbage) : u \in RecordsOf(d.staged, p)}

\* handledispatch: the MessageApply of partition p.  An index change goes to the
\* partition its value hashes to.
ApplyMsg(d, p, garbage) ==
  [from    |-> <<d.txn, d.copy>>, part |-> p, sub |-> d.subs[p],
   records |-> SetToSeq({<<u, d.staged[u]>> : u \in RecordsOf(d.staged, p)}),
   indices |-> SetToSeq({i \in UNION {ItemsOf(d, q, garbage) : q \in Destinations(d.staged)} :
                           PartitionOf[i.val] = p})]

\* handledispatch visits the partitions in the order of an unordered_map, and
\* msgs[engineid] is a null pointer for a partition it has not come to.
FindsEveryMessage(d, order, garbage) ==
  \A n \in DOMAIN order :
    \A i \in ItemsOf(d, order[n], garbage) :
      \E m \in 1 .. n : order[m] = PartitionOf[i.val]

\* The answer is the first thing handledispatch sends.
HandleDispatch(d) ==
  LET r == d.to
  IN  /\ up[r]
      /\ dispatches' = dispatches \ {d}
      /\ acks' = acks \cup {[txn |-> d.txn, from |-> r, copy |-> d.copy]}
      /\ appliers' = [appliers EXCEPT ![r] = With(@, <<d.txn, d.copy>>, 0)]
      /\ \E order \in SetToSeqs(Destinations(d.staged)), garbage \in Garbage(d) :
           /\ FindsEveryMessage(d, order, garbage)
           /\ applies' = [applies EXCEPT ![r] = @ \cup {ApplyMsg(d, p, garbage) :
                                                          p \in Destinations(d.staged)}]
      /\ UNCHANGED <<primaryVars, txn, ackapplies, store, backgrounded, up>>

\* The same when it comes to a null pointer; the answer is still in the batch for
\* the other node, or it is not.
HandleDispatchDies(d) ==
  LET r == d.to
  IN  /\ up[r]
      /\ \E order \in SetToSeqs(Destinations(d.staged)), garbage \in Garbage(d) :
           ~FindsEveryMessage(d, order, garbage)
      /\ dispatches' = dispatches \ {d}
      /\ \/ acks' = acks \cup {[txn |-> d.txn, from |-> r, copy |-> d.copy]}
         \/ UNCHANGED acks
      /\ up' = [up EXCEPT ![r] = FALSE]
      /\ UNCHANGED <<primaryVars, txn, appliers, applies, ackapplies, store, backgrounded>>

-----------------------------------------------------------------------------
(* The replica's Engines.  An applied item is [ok, store].                  *)

Done(s)    == [ok |-> TRUE, store |-> s]
NotYet(s)  == [ok |-> FALSE, store |-> s]

\* A slip in Engine::applyItem: INSERT tests what UPDATE does.
ApplyInsertInverted(s, u, row, sub) ==
  IF u \notin DOMAIN s.rows THEN NotYet(s)
  ELSE Done([s EXCEPT !.rows = With(@, u, [row |-> row, sub |-> sub])])

\* applyItem of an INSERT.
ApplyInsert(s, u, row, sub) ==
  IF u \in DOMAIN s.rows THEN NotYet(s)
  ELSE Done([s EXCEPT !.rows = With(@, u, [row |-> row, sub |-> sub])])

\* applyItem of a record: an UPDATE of a row that is there is put aside, one of a row
\* that is not reads through a null pointer; a DELETE wants the subtransaction that
\* wrote the row.
UpdateDies(s, record) == record[2].cmd = "UPDATE" /\ record[1] \notin DOMAIN s.rows

ApplyRecord(s, sub, record) ==
  LET u      == record[1]
      change == record[2]
  IN  CASE change.cmd = "INSERT" -> ApplyInsert(s, u, change.new, sub)
        [] change.cmd = "UPDATE" -> NotYet(s)
        [] change.cmd = "DELETE" -> IF u \in DOMAIN s.rows /\ s.rows[u].sub = sub
                                      THEN Done([s EXCEPT !.rows = Without(@, u)])
                                      ELSE NotYet(s)

\* applyItem of a null.
ApplyNull(s, p, item) ==
  LET v == <<item.field, item.rowid, p>>
  IN  CASE item.add -> Done([s EXCEPT !.nulls = @ \cup {v}])
        [] ~item.add /\ v \in s.nulls -> Done([s EXCEPT !.nulls = @ \ {v}])
        [] ~item.add /\ v \notin s.nulls -> NotYet(s)

\* Index::checkifthere, checkifmatch, getprevioussubtransactionid, addifnotthere, rm.
Key(item)             == <<item.field, item.val>>
CheckIfThere(s, item) == Key(item) \in DOMAIN s.unique
CheckIfMatch(s, item) == s.unique[Key(item)].rowid = item.rowid
PreviousSub(s, item)  == s.unique[Key(item)].sub
Added(s, sub, item)   == With(s.unique, Key(item), [rowid |-> item.rowid, sub |-> sub])
Rm(s, item)           == Without(s.unique, Key(item))

\* applyItem of a unique value: an older entry in the way is left as it is, and the
\* new one is forgotten.
ApplyUniqueAdd(s, sub, item) ==
  CASE ~CheckIfThere(s, item) -> Done([s EXCEPT !.unique = Added(s, sub, item)])
    [] CheckIfThere(s, item)  -> IF PreviousSub(s, item) > sub THEN NotYet(s) ELSE Done(s)

ApplyUniqueDelete(s, sub, item) ==
  CASE ~CheckIfThere(s, item) -> NotYet(s)
    [] CheckIfThere(s, item)  -> IF CheckIfMatch(s, item)
                                   THEN Done([s EXCEPT !.unique = Rm(s, item)])
                                 ELSE IF PreviousSub(s, item) < sub
                                   THEN NotYet(s) ELSE Done(s)

\* applyItem of a nonunique value.
ApplyNonunique(s, item) ==
  LET v == <<item.field, item.val, item.rowid>>
  IN  CASE item.add -> Done([s EXCEPT !.multi = @ (+) SetToBag({v})])
        [] ~item.add /\ BagIn(v, s.multi) -> Done([s EXCEPT !.multi = @ (-) SetToBag({v})])
        [] ~item.add /\ ~BagIn(v, s.multi) -> NotYet(s)

ApplyIndex(s, p, sub, item) ==
  CASE item.val = NULL -> ApplyNull(s, p, item)
    [] item.val # NULL /\ IndexType[item.field] = "NONUNIQUE" -> ApplyNonunique(s, item)
    [] item.val # NULL /\ IndexType[item.field] = "UNIQUE" ->
         IF item.add THEN ApplyUniqueAdd(s, sub, item) ELSE ApplyUniqueDelete(s, sub, item)

\* apply: the items one after the other; acc has the store, what did not fit and
\* whether a null pointer was read.
ApplyRecords(acc, sub, records) ==
  LET Step(a, x) == LET done == ApplyRecord(a.store, sub, x)
                    IN  [a EXCEPT !.store = done.store,
                                  !.records = IF done.ok THEN @ ELSE Append(@, x),
                                  !.dies = @ \/ UpdateDies(a.store, x)]
  IN  FoldLeft(Step, acc, records)

ApplyIndices(acc, p, sub, indices) ==
  LET Step(a, x) == LET done == ApplyIndex(a.store, p, sub, x)
                    IN  [a EXCEPT !.store = done.store,
                                  !.indices = IF done.ok THEN @ ELSE Append(@, x)]
  IN  FoldLeft(Step, acc, indices)

NoneLeft(s) == [store |-> s, records |-> <<>>, indices |-> <<>>, dies |-> FALSE]

ApplyItems(msg, s) ==
  ApplyIndices(ApplyRecords(NoneLeft(s), msg.sub, msg.records), msg.part, msg.sub, msg.indices)

\* background, both of them: what did not fit is kept under its subtransaction.
Background(b, msg, acc) ==
  IF acc.records = <<>> /\ acc.indices = <<>> THEN b
  ELSE LET old == IF msg.sub \in DOMAIN b THEN b[msg.sub]
                  ELSE [from |-> msg.from, records |-> <<>>, indices |-> <<>>]
       IN  With(b, msg.sub, [old EXCEPT !.records = @ \o acc.records,
                                        !.indices = @ \o acc.indices])

\* apply, its walk through one vector of backgrounded items.  The erase inside the
\* loop makes it pass over the next item, or run off the end.
RetryRecords(s, sub, records) ==
  LET Step(a, x) ==
        LET done == ApplyRecord(a.store, sub, x)
        IN  IF a.skip \/ ~done.ok
              THEN [a EXCEPT !.kept = Append(@, x), !.skip = FALSE,
                             !.dies = @ \/ (~a.skip /\ UpdateDies(a.store, x))]
              ELSE [a EXCEPT !.store = done.store, !.skip = TRUE]
  IN  FoldLeft(Step, [store |-> s, kept |-> <<>>, skip |-> FALSE, dies |-> FALSE], records)

RetryIndices(s, p, sub, indices) ==
  LET Step(a, x) ==
        LET done == ApplyIndex(a.store, p, sub, x)
        IN  IF a.skip \/ ~done.ok THEN [a EXCEPT !.kept = Append(@, x), !.skip = FALSE]
            ELSE [a EXCEPT !.store = done.store, !.skip = TRUE]
  IN  FoldLeft(Step, [store |-> s, kept |-> <<>>, skip |-> FALSE], indices)

\* apply, its walk through backgrounded (in the order of the subtransactions).
Retry(s, b, p) ==
  LET Sub(sub) == sub
      Step(sub, a) ==
        LET rows == RetryRecords(a.store, sub, b[sub].records)
            idx  == RetryIndices(rows.store, p, sub, b[sub].indices)
        IN  [store |-> idx.store,
             b     |-> [a.b EXCEPT ![sub].records = rows.kept, ![sub].indices = idx.kept],
             dies  |-> a.dies \/ rows.dies \/ rows.skip \/ idx.skip]
  IN  MapThenFoldSet(Step, [store |-> s, b |-> b, dies |-> FALSE], Sub, Max, DOMAIN b)

\* Engine::apply.
Apply(r, msg) ==
  LET acc  == ApplyItems(msg, store[r])
      b    == Background(backgrounded[r][msg.part], msg, acc)
      walk == Retry(acc.store, b, msg.part)
  IN  /\ up[r]
      /\ applies' = [applies EXCEPT ![r] = @ \ {msg}]
      /\ IF acc.dies \/ walk.dies
           THEN /\ up' = [up EXCEPT ![r] = FALSE]
                /\ UNCHANGED <<store, backgrounded, ackapplies>>
           ELSE /\ store' = [store EXCEPT ![r] = walk.store]
                /\ backgrounded' = [backgrounded EXCEPT ![r][msg.part] = walk.b]
                /\ ackapplies' = IF msg.sub \in DOMAIN b THEN ackapplies
                                  ELSE [ackapplies EXCEPT ![r] = @ \cup {<<msg.from, msg.part>>}]
                /\ UNCHANGED up
      /\ UNCHANGED <<primaryVars, txn, dispatches, acks, appliers>>

\* Applier::ackedApply: whether the Applier stays.  partitioncount starts at 0.
ApplierStays(count) == count - 1 # 0

\* TOPIC_ACKAPPLY.  The Engines always answer STATUS_OK.
AckApply(r, ack) ==
  LET a == ack[1]
  IN  /\ up[r]
      /\ ackapplies' = [ackapplies EXCEPT ![r] = @ \ {ack}]
      /\ appliers' = CASE a \notin DOMAIN appliers[r] -> appliers
                        [] a \in DOMAIN appliers[r] /\ ApplierStays(appliers[r][a]) ->
                             [appliers EXCEPT ![r][a] = @ - 1]
                        [] a \in DOMAIN appliers[r] /\ ~ApplierStays(appliers[r][a]) ->
                             [appliers EXCEPT ![r] = Without(@, a)]
      /\ UNCHANGED <<primaryVars, txn, dispatches, acks, applies, store, backgrounded, up>>

-----------------------------------------------------------------------------
ClientNext(t) == \/ \E row \in NewRows : StageInsert(t, row)
                 \/ \E u \in DOMAIN primary : \E v \in Vals \cup {NULL} : StageUpdate(t, u, v)
                 \/ \E u \in DOMAIN primary : StageDelete(t, u)
                 \/ Commit(t)

ReplicaNext(r) == \/ \E msg \in applies[r] : Apply(r, msg)
                  \/ \E ack \in ackapplies[r] : AckApply(r, ack)

AgentNext == \/ \E ack \in acks : AckDispatch(ack)
             \/ \E d \in dispatches : HandleDispatch(d) \/ HandleDispatchDies(d)

Next == (\E t \in Txns : ClientNext(t)) \/ AgentNext \/ (\E r \in Replicas : ReplicaNext(r))

Spec == Init /\ [][Next]_vars

\* Mailboxes and gateways deliver, and Transaction Agents poll their mailboxes for
\* ever.  Nothing is asked of the replicas' Engines.
FairSpec == Spec /\ WF_vars(AgentNext)
-----------------------------------------------------------------------------
(***************************************************************************)
(* Properties.                                                             *)
(***************************************************************************)

\* Type invariant, with the counts that must fit the messages on their way: a
\* dispatching transaction has changes that nobody else has staged.
TypeOK ==
  /\ \A u \in DOMAIN primary : primary[u] \in Rows /\ u[1] = PartitionOf[primary[u][0]]
  /\ \A t \in Txns :
       /\ txn[t].phase \in {"running", "dispatching", "committed"}
       /\ txn[t].wait \in 0 .. NumReplicas
       /\ t \in Running => \A u \in DOMAIN txn[t].staged : Staging(u) = {t}
  /\ \A r \in Replicas : \A u \in DOMAIN store[r].rows : store[r].rows[u].row \in Rows

\* A change is visible at the primary only when the Transaction Agent of every replica
\* that is up has got it: what a client was told is committed outlives the primary.
CommittedIsDispatched ==
  \A t \in Txns : txn[t].phase = "committed" /\ txn[t].staged # Nothing
    => \A r \in Replicas : up[r] => \E a \in DOMAIN appliers[r] : a[1] = t

\* Nothing is on its way to replica r and nothing is being committed.
Quiet(r) == /\ applies[r] = {} /\ dispatches = {} /\ acks = {}
            /\ \A t \in Txns : txn[t].phase # "dispatching"

\* A row that is not as it was inserted; a transaction that has deleted something.
Touched(u) == \E t \in Txns \ Running : /\ u \in DOMAIN txn[t].staged
                                         /\ txn[t].staged[u].cmd # "INSERT"
SomeDelete == \E t \in Txns \ Running : \E u \in DOMAIN txn[t].staged :
                                            txn[t].staged[u].cmd = "DELETE"

\* Replica r has every row that was inserted and not changed since, with (as long as
\* nothing is deleted) an entry in the key's index, and no row that was never committed.
HasTheInserts(r) ==
  /\ \A u \in DOMAIN store[r].rows : u \in DOMAIN primary \/ Touched(u)
  /\ \A u \in {v \in DOMAIN primary : ~Touched(v)} :
       /\ u \in DOMAIN store[r].rows /\ store[r].rows[u].row = primary[u]
       /\ IndexType[0] = "UNIQUE" /\ ~SomeDelete =>
            LET item == [field |-> 0, val |-> primary[u][0], rowid |-> u[2]]
            IN  CheckIfThere(store[r], item) /\ CheckIfMatch(store[r], item)

\* A replica that has applied everything has the inserted rows, in whatever order the
\* changes of the transactions arrived.
ReplicaHasTheInserts == \A r \in Replicas : up[r] /\ Quiet(r) => HasTheInserts(r)

\* A replica that has applied everything is the same as the primary.
ReplicaIsTheSame ==
  \A r \in Replicas : up[r] /\ Quiet(r) =>
    /\ DOMAIN store[r].rows = DOMAIN primary
    /\ \A u \in DOMAIN primary : store[r].rows[u].row = primary[u]

\* A commit of a transaction that has changed something ends.
CommitsEnd ==
  \A t \in Txns : txn[t].phase = "dispatching" /\ txn[t].staged # Nothing
                     ~> txn[t].phase = "committed" \/ \E r \in Replicas : ~up[r]

\* Every commit ends.
EveryCommitEnds ==
  \A t \in Txns : txn[t].phase = "dispatching"
                     ~> txn[t].phase = "committed" \/ \E r \in Replicas : ~up[r]

\* Every Applier ends.
AppliersEnd == \A r \in Replicas : <>[](up[r] /\ Quiet(r) => appliers[r] = Nothing)
=============================================================================
