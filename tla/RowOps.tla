------------------------------- MODULE RowOps -------------------------------
(***************************************************************************)
(* What class Table (src/infinisqld/Table.cc) does to ONE row on behalf of *)
(* one subtransaction.  Every operation of Table is a loop of these over   *)
(* row identifiers, so they are stated once here as functions from a cell  *)
(* to a cell and used by every module that has a table in its state.       *)
(*                                                                         *)
(* A cell is everything an Engine keeps under one rowid:                   *)
(*   lock             getlocktype(rowdata_s.flags), or "ABSENT" when       *)
(*                    Table::rows has no such rowid                        *)
(*   writelockHolder, readlockHolders, row   the fields of rowdata_s       *)
(*                    (readlockHolders = {} stands for the NULL pointer)   *)
(*   flags            the DELETEFLAG, INSERTFLAG and REPLACEDELETEFLAG bits*)
(*   shadow           shadowTable->rows[rowid], NoVal when there is none   *)
(*   shared           rows[rowid] == shadowTable->rows[rowid], one object  *)
(*   waiters          the subtransactions in lockQueue[rowid]              *)
(***************************************************************************)
EXTENDS Naturals, FiniteSets

CONSTANTS Subs,      \* subtransaction identifiers of the Engine
          NoSub,     \* writelockHolder = 0
          Values,    \* row contents
          NoVal      \* no row content

ASSUME RowOpsAssumption == /\ NoSub \notin Subs
                           /\ NoVal \notin Values

LockTypes == {"NOLOCK", "READLOCK", "WRITELOCK"}
RowFlags  == {"DELETE", "INSERT", "REPLACEDELETE"}

Cell == [lock : LockTypes \cup {"ABSENT"},
         writelockHolder : Subs \cup {NoSub},
         readlockHolders : SUBSET Subs,
         flags   : SUBSET RowFlags,
         row     : Values \cup {NoVal},
         shadow  : Values \cup {NoVal},
         shared  : BOOLEAN,
         waiters : SUBSET Subs]

AbsentCell == [lock |-> "ABSENT", writelockHolder |-> NoSub,
               readlockHolders |-> {}, flags |-> {}, row |-> NoVal,
               shadow |-> NoVal, shared |-> FALSE, waiters |-> {}]

\* The test that updaterow, deleterow and commit open with.
WriteLockedBy(c, s) == c.lock = "WRITELOCK" /\ c.writelockHolder = s

\* The row has been inserted, updated or deleted and not committed yet.
Changed(c) == c.shadow # NoVal \/ c.flags # {}

\* The content of the row for everyone but its writer.
Visible(c) == IF "INSERT" \in c.flags THEN NoVal ELSE c.row

\* What the fields of a cell say of each other.
WellLocked(c) ==
  /\ (c.lock = "READLOCK") <=> (c.readlockHolders # {})
  /\ (c.lock = "WRITELOCK") <=> (c.writelockHolder # NoSub)
  /\ Changed(c) => c.lock = "WRITELOCK"
  /\ "INSERT" \in c.flags => c.shadow # NoVal /\ c.waiters = {}
  /\ c.lock = "ABSENT" => c = AbsentCell
  /\ c.lock # "ABSENT" => c.row # NoVal

-----------------------------------------------------------------------------
(* Table::selectrows: the locktype of the row's entry in the reply.  A row  *)
(* for which the loop does `continue' gets no entry: "SKIP".                *)

\* case NOLOCK: a row the caller has locked itself is skipped, any other one
\* is returned whoever has locked it.
SelectNolockReply(c, s) ==
  IF WriteLockedBy(c, s) \/ s \in c.readlockHolders THEN "SKIP" ELSE "NOLOCK"

\* assignToLockQueue refuses a row that is being inserted.
QueueReply(c) == IF "INSERT" \in c.flags THEN "SKIP" ELSE "PENDINGLOCK"

SelectReadlockReply(c, s) ==
  CASE c.lock = "NOLOCK"    -> "READLOCK"
    [] c.lock = "READLOCK"  -> IF s \in c.readlockHolders THEN "SKIP"
                                                          ELSE "READLOCK"
    [] c.lock = "WRITELOCK" -> IF c.writelockHolder = s THEN "SKIP"
                                                        ELSE QueueReply(c)

\* A slip in case WRITELOCK: the readers are not looked at.
SelectWritelockReplyIgnoresReaders(c, s) ==
  IF c.lock # "WRITELOCK" \/ c.writelockHolder = s THEN "WRITELOCK" ELSE QueueReply(c)

\* case WRITELOCK: there is no upgrade, a caller that already reads the row
\* waits for itself.
SelectWritelockReply(c, s) ==
  IF c.lock = "NOLOCK" \/ WriteLockedBy(c, s) THEN "WRITELOCK"
                                              ELSE QueueReply(c)

SelectReply(c, s, locktype) ==
  CASE c.lock = "ABSENT"       -> "NOTFOUNDLOCK"
    [] c.lock # "ABSENT" /\ locktype = "NOLOCK"    -> SelectNolockReply(c, s)
    [] c.lock # "ABSENT" /\ locktype = "READLOCK"  -> SelectReadlockReply(c, s)
    [] c.lock # "ABSENT" /\ locktype = "WRITELOCK" -> SelectWritelockReply(c, s)

\* The reply carries the row: the caller has been given it.
Granted(reply) == reply \in LockTypes

\* Table::selectrows: what the call leaves behind in the row and its queue.
SelectCell(c, s, locktype) ==
  LET reply == SelectReply(c, s, locktype)
  IN  CASE reply = "READLOCK"    -> [c EXCEPT !.lock = "READLOCK",
                                              !.readlockHolders = @ \cup {s}]
        [] reply = "WRITELOCK"   -> [c EXCEPT !.lock = "WRITELOCK",
                                              !.writelockHolder = s]
        [] reply = "PENDINGLOCK" -> [c EXCEPT !.waiters = @ \cup {s}]
        [] OTHER                 -> c

-----------------------------------------------------------------------------
\* A slip in Table::newrow: the insert flag is not set.
NewCellVisible(s, v) == [AbsentCell EXCEPT !.lock = "WRITELOCK", !.writelockHolder = s,
                                           !.row = v, !.shadow = v, !.shared = TRUE]

\* Table::newrow: born write-locked, with rows and shadowTable sharing it.
NewCell(s, v) == [AbsentCell EXCEPT !.lock = "WRITELOCK",
                                    !.writelockHolder = s,
                                    !.flags = {"INSERT"},
                                    !.row = v,
                                    !.shadow = v,
                                    !.shared = TRUE]

\* A slip in Table::updaterow: the row is written, not its shadow.
UpdateCellInPlace(c, s, v) ==
  IF WriteLockedBy(c, s) THEN [c EXCEPT !.row = v, !.shadow = v, !.shared = FALSE] ELSE c

\* Table::updaterow: the new content waits in the shadow table.
UpdateCell(c, s, v) ==
  IF WriteLockedBy(c, s) THEN [c EXCEPT !.shadow = v, !.shared = FALSE] ELSE c

\* Table::deleterow(rowid, subtransactionid).
DeleteCell(c, s) ==
  IF WriteLockedBy(c, s) THEN [c EXCEPT !.flags = @ \cup {"DELETE"}] ELSE c

\* Table::deleterow with the place of the replacement row.
ReplaceDeleteCell(c, s) ==
  IF WriteLockedBy(c, s)
    THEN [DeleteCell(c, s) EXCEPT !.flags = @ \cup {"REPLACEDELETE"}]
    ELSE c

-----------------------------------------------------------------------------
(* Table::commitRollbackUnlock.                                             *)

\* One read lock given back; the last one clears the locked flag.
ReleaseRead(c, s) ==
  LET left == c.readlockHolders \ {s}
  IN  [c EXCEPT !.readlockHolders = left,
                !.lock = IF left = {} THEN "NOLOCK" ELSE "READLOCK"]

\* The staged content becomes the row, all flags and the lock are cleared.
InstallCell(c) ==
  [c EXCEPT !.lock = "NOLOCK",
            !.writelockHolder = NoSub,
            !.readlockHolders = {},
            !.flags = {},
            !.row = IF c.shadow # NoVal THEN c.shadow ELSE c.row,
            !.shadow = NoVal,
            !.shared = FALSE]

\* COMMITCMD of a deleted row deletes rows[rowid] and then
\* shadowTable->rows[rowid], which of a row inserted and not updated are the same.
\* What follows is undefined; nothing can be said of the Engine any more.
FreedTwice(c, s) == WriteLockedBy(c, s) /\ "DELETE" \in c.flags /\ c.shared

\* case COMMITCMD.  Its callers exclude an absent row, which the code
\* dereferences, and one that is freed twice.
CommitCell(c, s) ==
  CASE c.lock = "READLOCK"   -> IF s \in c.readlockHolders
                                  THEN ReleaseRead(c, s) ELSE c
    [] WriteLockedBy(c, s)   -> IF "DELETE" \in c.flags
                                  THEN [AbsentCell EXCEPT !.waiters = c.waiters]
                                  ELSE InstallCell(c)
    [] OTHER                 -> c

\* A slip in ROLLBACKCMD: the read lock bit is not set again for the readers that
\* stay.
RollbackCellForgetsReaders(c, s) ==
  CASE c.lock = "ABSENT" \/ (c.lock = "WRITELOCK" /\ c.writelockHolder # s) -> c
    [] OTHER -> IF "INSERT" \in c.flags
                  THEN AbsentCell
                  ELSE [c EXCEPT !.lock = "NOLOCK", !.writelockHolder = NoSub,
                                 !.readlockHolders = @ \ {s}, !.flags = {},
                                 !.shadow = NoVal, !.shared = FALSE]

\* case ROLLBACKCMD.
RollbackCell(c, s) ==
  LET left == c.readlockHolders \ {s}
  IN  CASE c.lock = "ABSENT"                                   -> c
        [] c.lock = "WRITELOCK" /\ c.writelockHolder # s       -> c
        [] c.lock # "ABSENT" /\ ~(c.lock = "WRITELOCK" /\ c.writelockHolder # s)
             -> IF "INSERT" \in c.flags
                  THEN [AbsentCell EXCEPT !.waiters = c.waiters]
                  ELSE [c EXCEPT !.lock = IF left = {} THEN "NOLOCK"
                                                       ELSE "READLOCK",
                                 !.writelockHolder = NoSub,
                                 !.readlockHolders = left,
                                 !.flags = {},
                                 !.shadow = NoVal,
                                 !.shared = FALSE]

\* SubTransaction::drainRowLockQueue: every waiter of a row that has gone is
\* taken off the queue.
DrainCell(c) == IF c.lock = "ABSENT" THEN [c EXCEPT !.waiters = {}] ELSE c
=============================================================================
