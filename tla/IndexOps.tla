------------------------------ MODULE IndexOps ------------------------------
(***************************************************************************)
(* What class Index (src/infinisqld/Index.cc) and                          *)
(* SubTransaction::uniqueIndex do to ONE entry of a unique index on behalf *)
(* of one subtransaction.  The source repeats each operation for seven      *)
(* field types and two map types; a value here is a member of any of them, *)
(* after trimspace.                                                        *)
(*                                                                         *)
(* A unique entry is a lockingIndexEntry: the row it points to, and the    *)
(* subtransaction that staged it, NoSub once it is committed.              *)
(*                                                                         *)
(* The lock queue of a value is left out: a statement that is told         *)
(* INDEXPENDINGLOCK gives up, and what drainIndexLockQueue later sends is  *)
(* a reply to a command that is over, which the Transaction Agent drops.   *)
(***************************************************************************)
EXTENDS RowOps       \* NoSub is lockingIndexEntry.subtransactionid = 0

NoUur   == <<>>
NoEntry == [uur |-> NoUur, sub |-> NoSub]

EntryLockedBy(x, s) == x # NoEntry /\ x.sub = s

\* SubTransaction::uniqueIndex, the locktype it answers.
UniqueIndexReply(x) == CASE x = NoEntry                       -> "INDEXLOCK"
                         [] x # NoEntry /\ x.sub # NoSub      -> "INDEXPENDINGLOCK"
                         [] x # NoEntry /\ x.sub = NoSub      -> "NOLOCK"

\* A slip in SubTransaction::uniqueIndex: the entry is written before the answer
\* is known.
UniqueIndexEntryAlways(x, u, s) == [uur |-> u, sub |-> s]

\* SubTransaction::uniqueIndex, the entry it leaves: a free value is staged.
UniqueIndexEntry(x, u, s) == IF x = NoEntry THEN [uur |-> u, sub |-> s] ELSE x

\* Index::commitRollback with COMMITCMD and with ROLLBACKCMD.  Both ignore an
\* entry that someone else has staged.
CommitEntry(x, s)   == IF EntryLockedBy(x, s) THEN [x EXCEPT !.sub = NoSub] ELSE x
RollbackEntry(x, s) == IF EntryLockedBy(x, s) THEN NoEntry ELSE x

\* Index::replaceUnique: the value now belongs to the replacement row.
ReplaceUnique(u) == [uur |-> u, sub |-> NoSub]

=============================================================================
