------------------------------- MODULE Table --------------------------------
(***************************************************************************)
(* One table of one Engine and the subtransactions that use it             *)
(* (src/infinisqld/Table.cc, SubTransaction.cc, Engine.cc).  The Engine is *)
(* a single thread: it takes one message at a time from its mailbox, so    *)
(* every action below is one message, and the messages of different        *)
(* subtransactions interleave freely.                                      *)
(*                                                                         *)
(* The sender is class Transaction: it remembers in stagedRows every row   *)
(* it was given, commits all of them in one message, rolls them back in    *)
(* one message each, and then ends the subtransaction.  A statement that   *)
(* is told PENDINGLOCK is aborted and only a rollback follows.             *)
(***************************************************************************)
EXTENDS RowOps

CONSTANTS MaxRowid,       \* bound on Table::nextrowid
          SelectLocks,    \* the locktypes that statements ask for
          MaxSelect       \* bound on the rows one SELECTROWS message names

ASSUME TableAssumption == /\ MaxRowid \in Nat
                          /\ MaxSelect \in Nat
                          /\ SelectLocks \subseteq LockTypes

VARIABLES table,      \* rows, shadowTable and lockQueue, by rowid
          nextrowid,  \* Table::nextrowid
          sub,        \* life of each subtransaction
          staged,     \* Transaction::stagedRows: rows the sender was given
          crashed     \* why the Engine thread died, "no" while it runs

vars == <<table, nextrowid, sub, staged, crashed>>

Rowids == 1..MaxRowid

SubStates == {"new", "open", "aborted", "committed", "ended"}

TypeOK == /\ table \in [Rowids -> Cell]
          /\ nextrowid \in 0..MaxRowid
          /\ sub \in [Subs -> SubStates]
          /\ staged \in [Subs -> SUBSET Rowids]
          /\ crashed \in {"no", "missing row", "double free", "empty reply"}

Init == /\ table = [r \in Rowids |-> AbsentCell]
        /\ nextrowid = 0
        /\ sub = [s \in Subs |-> "new"]
        /\ staged = [s \in Subs |-> {}]
        /\ crashed = "no"

\* Engine: the first message of a transaction creates its SubTransaction, and
\* ENDSUBTRANSACTION deletes it.
Serving(s) == crashed = "no" /\ sub[s] \in {"new", "open"}
Alive(s)   == sub[s] \in {"open", "aborted", "committed"}
Opened(s)  == [sub EXCEPT ![s] = "open"]

-----------------------------------------------------------------------------
\* A slip in getnextrowid: nextrowid++ instead of ++nextrowid.
NewRowPostIncrement(s, v) ==
  /\ Serving(s)
  /\ nextrowid < MaxRowid
  /\ nextrowid' = nextrowid + 1
  /\ table' = [table EXCEPT ![nextrowid] = NewCell(s, v)]
  /\ staged' = [staged EXCEPT ![s] = @ \cup {nextrowid}]
  /\ sub' = Opened(s)
  /\ UNCHANGED crashed

NewRow(s, v) ==
  /\ Serving(s)
  /\ nextrowid < MaxRowid
  /\ nextrowid' = nextrowid + 1
  /\ table' = [table EXCEPT ![nextrowid + 1] = NewCell(s, v)]
  /\ staged' = [staged EXCEPT ![s] = @ \cup {nextrowid + 1}]
  /\ sub' = Opened(s)
  /\ UNCHANGED crashed

\* The rows of a reply are staged together, and none of them when one of them
\* is pending.
SelectRows(s, R, locktype) ==
  /\ Serving(s)
  /\ table' = [r \in Rowids |-> IF r \in R THEN SelectCell(table[r], s, locktype)
                                           ELSE table[r]]
  /\ IF \E r \in R : SelectReply(table[r], s, locktype) = "PENDINGLOCK"
       THEN /\ sub' = [sub EXCEPT ![s] = "aborted"]
            /\ UNCHANGED staged
       ELSE /\ sub' = Opened(s)
            /\ staged' = [staged EXCEPT ![s] = @ \cup
                 {r \in R : Granted(SelectReply(table[r], s, locktype))}]
  /\ UNCHANGED <<nextrowid, crashed>>

UpdateRow(s, r, v) ==
  /\ Serving(s)
  /\ r \in staged[s]
  /\ table' = [table EXCEPT ![r] = UpdateCell(@, s, v)]
  /\ UNCHANGED <<nextrowid, sub, staged, crashed>>

DeleteRow(s, r) ==
  /\ Serving(s)
  /\ r \in staged[s]
  /\ table' = [table EXCEPT ![r] = DeleteCell(@, s)]
  /\ UNCHANGED <<nextrowid, sub, staged, crashed>>

ReplaceDeleteRow(s, r) ==
  /\ Serving(s)
  /\ r \in staged[s]
  /\ table' = [table EXCEPT ![r] = ReplaceDeleteCell(@, s)]
  /\ UNCHANGED <<nextrowid, sub, staged, crashed>>

-----------------------------------------------------------------------------
\* drainRowLockQueue tells each waiter that still exists by writing element 0
\* of a reply that has no elements.
DrainFails(c) == c.lock = "ABSENT" /\ \E w \in c.waiters : Alive(w)

\* SubTransaction::processTransactionMessage, PAYLOADCOMMITROLLBACK with
\* COMMITCMD: every staged row, and the lock queue of each that is gone.
CommitRows(s) ==
  LET after(r) == CommitCell(table[r], s)
  IN  /\ crashed = "no"
      /\ sub[s] = "open"
      /\ IF \E r \in staged[s] : table[r].lock = "ABSENT"
           THEN /\ crashed' = "missing row"
                /\ UNCHANGED <<table, sub, staged>>
           ELSE IF \E r \in staged[s] : FreedTwice(table[r], s)
           THEN /\ crashed' = "double free"
                /\ UNCHANGED <<table, sub, staged>>
           ELSE IF \E r \in staged[s] : DrainFails(after(r))
           THEN /\ crashed' = "empty reply"
                /\ UNCHANGED <<table, sub, staged>>
           ELSE /\ table' = [r \in Rowids |-> IF r \in staged[s]
                                                THEN DrainCell(after(r))
                                                ELSE table[r]]
                /\ sub' = [sub EXCEPT ![s] = "committed"]
                /\ staged' = [staged EXCEPT ![s] = {}]
                /\ UNCHANGED crashed
      /\ UNCHANGED nextrowid

\* The same message with ROLLBACKCMD, which names one row.
RollbackRow(s, r) ==
  LET after == RollbackCell(table[r], s)
  IN  /\ crashed = "no"
      /\ sub[s] \in {"open", "aborted"}
      /\ r \in staged[s]
      /\ IF DrainFails(after)
           THEN /\ crashed' = "empty reply"
                /\ UNCHANGED <<table, sub, staged>>
           ELSE /\ table' = [table EXCEPT ![r] = DrainCell(after)]
                /\ sub' = [sub EXCEPT ![s] = "aborted"]
                /\ staged' = [staged EXCEPT ![s] = @ \ {r}]
                /\ UNCHANGED crashed
      /\ UNCHANGED nextrowid

\* A slip in Transaction::rollback: the end overtakes the rollbacks.
EndSubTransactionEarly(s) ==
  /\ crashed = "no"
  /\ Alive(s)
  /\ sub' = [sub EXCEPT ![s] = "ended"]
  /\ UNCHANGED <<table, nextrowid, staged, crashed>>

\* TOPIC_ENDSUBTRANSACTION.  It follows the commit or the rollbacks in the same
\* mailbox.
EndSubTransaction(s) ==
  /\ crashed = "no"
  /\ Alive(s)
  /\ staged[s] = {}
  /\ sub' = [sub EXCEPT ![s] = "ended"]
  /\ UNCHANGED <<table, nextrowid, staged, crashed>>

-----------------------------------------------------------------------------
RowSets == {R \in SUBSET Rowids : R # {} /\ Cardinality(R) <= MaxSelect}

Next ==
  \E s \in Subs :
    \/ \E v \in Values : NewRow(s, v)
    \/ \E R \in RowSets, l \in SelectLocks : SelectRows(s, R, l)
    \/ \E r \in Rowids :
         \/ \E v \in Values : UpdateRow(s, r, v)
         \/ DeleteRow(s, r)
         \/ ReplaceDeleteRow(s, r)
         \/ RollbackRow(s, r)
    \/ CommitRows(s)
    \/ EndSubTransaction(s)

Spec == Init /\ [][Next]_vars

-----------------------------------------------------------------------------
(* Properties.                                                              *)

\* The lock word of a row, its holders and its staged changes always agree:
\* it has readers or one writer and never both, only a row under a write
\* lock has a shadow row or a flag set, and a row that is gone has left
\* nothing behind (selectrows, updaterow, deleterow, commitRollbackUnlock and
\* drainRowLockQueue each maintain a part of it by hand).
LockDiscipline == \A r \in Rowids : WellLocked(table[r])

\* Every uncommitted change (an insert, a shadow row, a delete mark) belongs to
\* a subtransaction that is still there and whose Transaction has the row in
\* stagedRows: commit or rollback will reach it, nothing half-done is orphaned.
ChangesHaveAnOwner ==
  \A r \in Rowids : Changed(table[r]) =>
    \E s \in Subs : WriteLockedBy(table[r], s) /\ Alive(s) /\ r \in staged[s]

\* The table keeps the promise of LockedStore: strict two-phase row locking in
\* front of committed rows, with shadow rows and inserts in progress invisible
\* in the committed state until the writer's COMMITCMD.
Store == INSTANCE LockedStore
           WITH committed <- [r \in Rowids |-> Visible(table[r])],
                writer    <- [r \in Rowids |-> table[r].writelockHolder],
                readers   <- [r \in Rowids |-> table[r].readlockHolders]

ImplementsLockedStore == Store!Spec

\* What the documentation says happens to a transaction that meets a locked
\* record, "all locked records result in a rolled back transaction"
\* (docs/pubs/overview.xml): once its subtransaction has ended no row lock is
\* held in its name.
LocksHaveAnOwner ==
  \A r \in Rowids, s \in Subs :
    WriteLockedBy(table[r], s) \/ s \in table[r].readlockHolders => Alive(s)

\* The comment on a commit of rows, "a locked row didn't get modified, but still
\* part of a commit" (Table.cc), takes it that the row is there: COMMITCMD
\* never dereferences a row that is not in the table.
CommittedRowsExist == crashed # "missing row"

\* "Proposed changes from INSERT, UPDATE and DELETE are staged to each record in a
\* shadow table" (docs/pubs/overview.xml): an insert and a delete of the same
\* record can be staged and committed, COMMITCMD frees the row once.
RowsAreFreedOnce == crashed # "double free"

\* "drain lock queue if: successful delete & commit" (SubTransaction.cc): the
\* waiters of a deleted row are told, the Engine survives telling them.
DrainReachesWaiters == crashed # "empty reply"
=============================================================================
