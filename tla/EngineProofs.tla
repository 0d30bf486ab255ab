---------------------------- MODULE EngineProofs ----------------------------
(***************************************************************************)
(* Proofs about an Engine's two data structures.                           *)
(*                                                                         *)
(* Table: for any number of rows, subtransactions and values the cells of  *)
(* a table stay well formed, no uncommitted change is orphaned, and Table  *)
(* implements LockedStore.                                                 *)
(*                                                                         *)
(* Mbox: as long as the allocator hands out no memory that the tail or a   *)
(* producer still points to, the mailbox is a FIFO queue that loses        *)
(* nothing, for any number of producers and messages and however their     *)
(* memory accesses interleave.                                             *)
(***************************************************************************)
EXTENDS Table, Mbox, Integers, TLAPS, WellFoundedInduction, FiniteSetTheorems,
        SequenceTheorems


-----------------------------------------------------------------------------
(* Each operation on one row keeps the cell well formed.                    *)

\* A fresh rowid holds a well-formed cell without holders.
LEMMA AbsentCellOK == AbsentCell \in Cell /\ WellLocked(AbsentCell)
BY RowOpsAssumption DEF AbsentCell, Cell, WellLocked, Changed, LockTypes

\* Table::newrow makes a well-formed cell.
LEMMA NewCellOK ==
  ASSUME NEW s \in Subs, NEW v \in Values
  PROVE  NewCell(s, v) \in Cell /\ WellLocked(NewCell(s, v))
BY RowOpsAssumption
   DEF NewCell, AbsentCell, Cell, WellLocked, Changed, LockTypes, RowFlags

\* The replies a row can get from Table::selectrows, and what each one tells
\* about the row.
LEMMA SelectReplyFacts ==
  ASSUME NEW c \in Cell, NEW s \in Subs, NEW l \in LockTypes, WellLocked(c)
  PROVE  /\ SelectReply(c, s, l) = "READLOCK" =>
              c.lock \in {"NOLOCK", "READLOCK"} /\ s \notin c.readlockHolders
         /\ SelectReply(c, s, l) = "WRITELOCK" =>
              c.lock = "NOLOCK" \/ WriteLockedBy(c, s)
         /\ SelectReply(c, s, l) = "PENDINGLOCK" =>
              c.lock # "ABSENT" /\ "INSERT" \notin c.flags
         /\ Granted(SelectReply(c, s, l)) => c.lock # "ABSENT"
BY DEF SelectReply, SelectNolockReply, SelectReadlockReply, Granted,
       SelectWritelockReply, QueueReply, WellLocked, WriteLockedBy, Cell, LockTypes

\* Table::selectrows keeps a cell well formed.
LEMMA SelectCellOK ==
  ASSUME NEW c \in Cell, NEW s \in Subs, NEW l \in LockTypes, WellLocked(c)
  PROVE  SelectCell(c, s, l) \in Cell /\ WellLocked(SelectCell(c, s, l))
<1> DEFINE reply == SelectReply(c, s, l)
<1>1. CASE reply = "READLOCK"
  <2>1. SelectCell(c, s, l) = [c EXCEPT !.lock = "READLOCK",
                                        !.readlockHolders = @ \cup {s}]
    BY <1>1 DEF SelectCell
  <2>2. c.lock \in {"NOLOCK", "READLOCK"}
    BY <1>1, SelectReplyFacts
  <2>3. /\ c.readlockHolders \cup {s} # {}
        /\ c.readlockHolders \cup {s} \in SUBSET Subs
    BY DEF Cell
  <2> QED
    BY <2>1, <2>2, <2>3, RowOpsAssumption
       DEF Cell, WellLocked, Changed, LockTypes, AbsentCell
<1>2. CASE reply = "WRITELOCK"
  <2>1. SelectCell(c, s, l) = [c EXCEPT !.lock = "WRITELOCK",
                                        !.writelockHolder = s]
    BY <1>2 DEF SelectCell
  <2>2. c.lock = "NOLOCK" \/ WriteLockedBy(c, s)
    BY <1>2, SelectReplyFacts
  <2> QED
    BY <2>1, <2>2, RowOpsAssumption
       DEF Cell, WellLocked, Changed, LockTypes, AbsentCell, WriteLockedBy
<1>3. CASE reply = "PENDINGLOCK"
  <2>1. SelectCell(c, s, l) = [c EXCEPT !.waiters = @ \cup {s}]
    BY <1>3 DEF SelectCell
  <2>2. c.lock # "ABSENT" /\ "INSERT" \notin c.flags
    BY <1>3, SelectReplyFacts
  <2> QED
    BY <2>1, <2>2
       DEF Cell, WellLocked, Changed, LockTypes, AbsentCell
<1>4. CASE reply \notin {"READLOCK", "WRITELOCK", "PENDINGLOCK"}
  BY <1>4 DEF SelectCell
<1> QED BY <1>1, <1>2, <1>3, <1>4

\* Table::updaterow keeps a cell well formed.
LEMMA UpdateCellOK ==
  ASSUME NEW c \in Cell, NEW s \in Subs, NEW v \in Values, WellLocked(c)
  PROVE  UpdateCell(c, s, v) \in Cell /\ WellLocked(UpdateCell(c, s, v))
BY RowOpsAssumption
   DEF UpdateCell, WriteLockedBy, Cell, WellLocked, Changed, LockTypes, AbsentCell

\* Both forms of Table::deleterow keep a cell well formed.
LEMMA DeleteCellOK ==
  ASSUME NEW c \in Cell, NEW s \in Subs, WellLocked(c)
  PROVE  /\ DeleteCell(c, s) \in Cell /\ WellLocked(DeleteCell(c, s))
         /\ ReplaceDeleteCell(c, s) \in Cell /\ WellLocked(ReplaceDeleteCell(c, s))
<1>1. DeleteCell(c, s) \in Cell /\ WellLocked(DeleteCell(c, s))
  BY DEF DeleteCell, WriteLockedBy, Cell, WellLocked, Changed, LockTypes,
         RowFlags, AbsentCell
<1>2. ReplaceDeleteCell(c, s) \in Cell /\ WellLocked(ReplaceDeleteCell(c, s))
  BY DEF ReplaceDeleteCell, DeleteCell, WriteLockedBy, Cell, WellLocked, Changed,
         LockTypes, RowFlags, AbsentCell
<1> QED BY <1>1, <1>2

\* COMMITCMD on a row that exists keeps its cell well formed once the lock
\* queue has been drained, and leaves no change of the committer in it.
LEMMA CommitCellOK ==
  ASSUME NEW c \in Cell, NEW s \in Subs, WellLocked(c)
  PROVE  /\ DrainCell(CommitCell(c, s)) \in Cell
         /\ WellLocked(DrainCell(CommitCell(c, s)))
         /\ Changed(DrainCell(CommitCell(c, s))) => Changed(c) /\ ~WriteLockedBy(c, s)
<1>1. CASE c.lock = "READLOCK" /\ s \in c.readlockHolders
  <2>1. CommitCell(c, s) = ReleaseRead(c, s)
    BY <1>1 DEF CommitCell, WriteLockedBy
  <2>2. ReleaseRead(c, s).lock # "ABSENT"
    BY DEF ReleaseRead, Cell
  <2>3. DrainCell(CommitCell(c, s)) = ReleaseRead(c, s)
    BY <2>1, <2>2 DEF DrainCell
  <2>4. c.readlockHolders \ {s} \in SUBSET Subs
    BY DEF Cell
  <2>5. ReleaseRead(c, s) \in Cell /\ WellLocked(ReleaseRead(c, s))
    BY <1>1, <2>4 DEF ReleaseRead, Cell, WellLocked, Changed, LockTypes, AbsentCell
  <2>6. Changed(ReleaseRead(c, s)) => Changed(c)
    BY DEF ReleaseRead, Changed, Cell
  <2> QED BY <1>1, <2>3, <2>5, <2>6 DEF WriteLockedBy
<1>2. CASE WriteLockedBy(c, s) /\ "DELETE" \in c.flags
  <2>1. CommitCell(c, s) = [AbsentCell EXCEPT !.waiters = c.waiters]
    BY <1>2 DEF CommitCell, WriteLockedBy
  <2>2. DrainCell(CommitCell(c, s)) = AbsentCell
    BY <2>1 DEF DrainCell, AbsentCell
  <2> QED BY <2>2, AbsentCellOK DEF Changed, AbsentCell
<1>3. CASE WriteLockedBy(c, s) /\ "DELETE" \notin c.flags
  <2>1. CommitCell(c, s) = InstallCell(c)
    BY <1>3 DEF CommitCell, WriteLockedBy
  <2>2. DrainCell(CommitCell(c, s)) = InstallCell(c)
    BY <2>1 DEF DrainCell, InstallCell, Cell
  <2>3. InstallCell(c) \in Cell /\ WellLocked(InstallCell(c)) /\ ~Changed(InstallCell(c))
    BY <1>3, RowOpsAssumption
       DEF InstallCell, Cell, WellLocked, Changed, LockTypes, AbsentCell, WriteLockedBy
  <2> QED BY <2>2, <2>3
<1>4. CASE ~(c.lock = "READLOCK" /\ s \in c.readlockHolders) /\ ~WriteLockedBy(c, s)
  <2>1. CommitCell(c, s) = c
    BY <1>4 DEF CommitCell
  <2>2. DrainCell(c) = c
    BY DEF DrainCell, WellLocked, AbsentCell
  <2> QED BY <1>4, <2>1, <2>2
<1> QED BY <1>1, <1>2, <1>3, <1>4

\* ROLLBACKCMD keeps a cell well formed, and leaves no change of the caller.
LEMMA RollbackCellOK ==
  ASSUME NEW c \in Cell, NEW s \in Subs, WellLocked(c)
  PROVE  /\ DrainCell(RollbackCell(c, s)) \in Cell
         /\ WellLocked(DrainCell(RollbackCell(c, s)))
         /\ Changed(DrainCell(RollbackCell(c, s))) => Changed(c) /\ ~WriteLockedBy(c, s)
<1> DEFINE left == c.readlockHolders \ {s}
           back == [c EXCEPT !.lock = IF left = {} THEN "NOLOCK" ELSE "READLOCK",
                             !.writelockHolder = NoSub,
                             !.readlockHolders = left,
                             !.flags = {},
                             !.shadow = NoVal, !.shared = FALSE]
<1>1. CASE c.lock = "ABSENT" \/ (c.lock = "WRITELOCK" /\ c.writelockHolder # s)
  <2>1. RollbackCell(c, s) = c
    BY <1>1 DEF RollbackCell
  <2>2. DrainCell(c) = c
    BY DEF DrainCell, WellLocked, AbsentCell
  <2> QED BY <1>1, <2>1, <2>2 DEF WriteLockedBy
<1>2. CASE /\ ~(c.lock = "ABSENT" \/ (c.lock = "WRITELOCK" /\ c.writelockHolder # s))
           /\ "INSERT" \in c.flags
  <2>1. RollbackCell(c, s) = [AbsentCell EXCEPT !.waiters = c.waiters]
    BY <1>2 DEF RollbackCell
  <2>2. DrainCell(RollbackCell(c, s)) = AbsentCell
    BY <2>1 DEF DrainCell, AbsentCell
  <2> QED BY <2>2, AbsentCellOK DEF Changed, AbsentCell
<1>3. CASE /\ ~(c.lock = "ABSENT" \/ (c.lock = "WRITELOCK" /\ c.writelockHolder # s))
           /\ "INSERT" \notin c.flags
  <2>1. RollbackCell(c, s) = back
    BY <1>3 DEF RollbackCell
  <2>2. DrainCell(RollbackCell(c, s)) = back
    BY <2>1 DEF DrainCell, Cell
  <2>3. back \in Cell /\ WellLocked(back) /\ ~Changed(back)
    BY <1>3, RowOpsAssumption DEF Cell, WellLocked, Changed, LockTypes, AbsentCell
  <2> QED BY <2>2, <2>3
<1> QED BY <1>1, <1>2, <1>3

-----------------------------------------------------------------------------
(* Type correctness.                                                        *)

\* The variables of Table keep their types, and every cell stays well formed:
\* the conjunction is inductive, the type invariant alone is not, because what
\* an operation leaves in a cell depends on what the cell's fields say of each
\* other.
CellsOK == TypeOK /\ LockDiscipline

\* The table starts empty, with every cell well formed.
LEMMA CellsInit == Init => CellsOK
BY AbsentCellOK, TableAssumption
   DEF Init, CellsOK, TypeOK, LockDiscipline, SubStates, Rowids

\* Every message an Engine handles leaves every cell well formed: one step for each
\* handler, by the lemma on its row operation.
LEMMA CellsNext == CellsOK /\ [Next]_vars => CellsOK'
<1> SUFFICES ASSUME CellsOK, [Next]_vars PROVE CellsOK'
  OBVIOUS
<1> USE DEF CellsOK, TypeOK, LockDiscipline
<1>1. ASSUME NEW s \in Subs, NEW v \in Values, NewRow(s, v) PROVE CellsOK'
  <2>a. nextrowid \in 0..MaxRowid /\ nextrowid < MaxRowid
    BY <1>1 DEF NewRow
  <2>1. nextrowid + 1 \in Rowids /\ nextrowid + 1 \in 0..MaxRowid
    <3> HIDE DEF CellsOK, TypeOK, LockDiscipline
    <3> QED BY <2>a, TableAssumption DEF Rowids
  <2>2. table' \in [Rowids -> Cell] /\ \A r \in Rowids : WellLocked(table'[r])
    BY <1>1, <2>1, NewCellOK DEF NewRow
  <2> QED BY <1>1, <2>1, <2>2 DEF NewRow, Opened, SubStates
<1>2. ASSUME NEW s \in Subs, NEW R \in RowSets, NEW l \in SelectLocks,
             SelectRows(s, R, l)
      PROVE CellsOK'
  <2>1. l \in LockTypes /\ R \in SUBSET Rowids
    BY TableAssumption DEF RowSets
  <2>2. table' \in [Rowids -> Cell] /\ \A r \in Rowids : WellLocked(table'[r])
    BY <1>2, <2>1, SelectCellOK DEF SelectRows
  <2> QED BY <1>2, <2>1, <2>2 DEF SelectRows, Opened, SubStates
<1>3. ASSUME NEW s \in Subs, NEW r \in Rowids, NEW v \in Values, UpdateRow(s, r, v)
      PROVE CellsOK'
  <2>1. table' \in [Rowids -> Cell] /\ \A q \in Rowids : WellLocked(table'[q])
    BY <1>3, UpdateCellOK DEF UpdateRow
  <2> QED BY <1>3, <2>1 DEF UpdateRow
<1>4. ASSUME NEW s \in Subs, NEW r \in Rowids, DeleteRow(s, r) PROVE CellsOK'
  <2>1. table' \in [Rowids -> Cell] /\ \A q \in Rowids : WellLocked(table'[q])
    BY <1>4, DeleteCellOK DEF DeleteRow
  <2> QED BY <1>4, <2>1 DEF DeleteRow
<1>5. ASSUME NEW s \in Subs, NEW r \in Rowids, ReplaceDeleteRow(s, r) PROVE CellsOK'
  <2>1. table' \in [Rowids -> Cell] /\ \A q \in Rowids : WellLocked(table'[q])
    BY <1>5, DeleteCellOK DEF ReplaceDeleteRow
  <2> QED BY <1>5, <2>1 DEF ReplaceDeleteRow
<1>6. ASSUME NEW s \in Subs, CommitRows(s) PROVE CellsOK'
  <2>1. CASE crashed' # "no"
    BY <1>6, <2>1 DEF CommitRows
  <2>2. CASE crashed' = "no"
    <3>1. table' = [r \in Rowids |-> IF r \in staged[s]
                                       THEN DrainCell(CommitCell(table[r], s))
                                       ELSE table[r]]
      BY <1>6, <2>2 DEF CommitRows
    <3>2. table' \in [Rowids -> Cell] /\ \A r \in Rowids : WellLocked(table'[r])
      BY <3>1, CommitCellOK
    <3> QED BY <1>6, <2>2, <3>2 DEF CommitRows, SubStates
  <2> QED BY <2>1, <2>2
<1>7. ASSUME NEW s \in Subs, NEW r \in Rowids, RollbackRow(s, r) PROVE CellsOK'
  <2>1. CASE crashed' # "no"
    BY <1>7, <2>1 DEF RollbackRow
  <2>2. CASE crashed' = "no"
    <3>1. table' = [table EXCEPT ![r] = DrainCell(RollbackCell(table[r], s))]
      BY <1>7, <2>2 DEF RollbackRow
    <3>2. table' \in [Rowids -> Cell] /\ \A q \in Rowids : WellLocked(table'[q])
      BY <3>1, RollbackCellOK
    <3> QED BY <1>7, <2>2, <3>2 DEF RollbackRow, SubStates
  <2> QED BY <2>1, <2>2
<1>8. ASSUME NEW s \in Subs, EndSubTransaction(s) PROVE CellsOK'
  BY <1>8 DEF EndSubTransaction, SubStates
<1>9. CASE UNCHANGED vars
  BY <1>9 DEF vars
<1> QED BY <1>1, <1>2, <1>3, <1>4, <1>5, <1>6, <1>7, <1>8, <1>9 DEF Next

\* Rowids that getnextrowid has not handed out yet are absent.
FreshRowids == \A r \in Rowids : r > nextrowid => table[r] = AbsentCell

\* No operation but newrow brings a row into being.
LEMMA AbsentStays ==
  ASSUME NEW s \in Subs
  PROVE  /\ \A l \in LockTypes : SelectCell(AbsentCell, s, l) = AbsentCell
         /\ \A v : UpdateCell(AbsentCell, s, v) = AbsentCell
         /\ DeleteCell(AbsentCell, s) = AbsentCell
         /\ ReplaceDeleteCell(AbsentCell, s) = AbsentCell
         /\ DrainCell(CommitCell(AbsentCell, s)) = AbsentCell
         /\ DrainCell(RollbackCell(AbsentCell, s)) = AbsentCell
<1>1. \A l \in LockTypes : SelectCell(AbsentCell, s, l) = AbsentCell
  <2>1. \A l \in LockTypes : SelectReply(AbsentCell, s, l) = "NOTFOUNDLOCK"
    BY DEF SelectReply, AbsentCell
  <2> QED BY <2>1 DEF SelectCell
<1>2. ~WriteLockedBy(AbsentCell, s) /\ AbsentCell.lock = "ABSENT"
  BY DEF WriteLockedBy, AbsentCell
<1>3. DrainCell(AbsentCell) = AbsentCell
  BY DEF DrainCell, AbsentCell
<1>4. CommitCell(AbsentCell, s) = AbsentCell /\ RollbackCell(AbsentCell, s) = AbsentCell
  BY <1>2 DEF CommitCell, RollbackCell
<1> QED BY <1>1, <1>2, <1>3, <1>4 DEF UpdateCell, DeleteCell, ReplaceDeleteCell

Typed == CellsOK /\ FreshRowids

\* No rowid has been handed out at first.
LEMMA TypedInit == Init => Typed
BY CellsInit DEF Init, Typed, FreshRowids

\* Only newrow brings a cell out of absence, at the rowid getnextrowid has just
\* handed out.
LEMMA TypedNext == Typed /\ [Next]_vars => Typed'
<1> SUFFICES ASSUME Typed, [Next]_vars PROVE FreshRowids'
  BY CellsNext DEF Typed
<1>t. /\ table \in [Rowids -> Cell] /\ nextrowid \in 0..MaxRowid
      /\ \A r \in Rowids : r > nextrowid => table[r] = AbsentCell
  BY DEF Typed, CellsOK, TypeOK, FreshRowids
<1>1. ASSUME nextrowid' = nextrowid,
             \A r \in Rowids : table[r] = AbsentCell => table'[r] = AbsentCell
      PROVE  FreshRowids'
  BY <1>1, <1>t DEF FreshRowids
<1>2. ASSUME NEW s \in Subs, NEW v \in Values, NewRow(s, v) PROVE FreshRowids'
  <2>1. ASSUME NEW r \in Rowids, r > nextrowid' PROVE table'[r] = AbsentCell
    <3>1. r # nextrowid + 1 /\ r > nextrowid
      BY <1>2, <1>t, <2>1, TableAssumption DEF NewRow, Rowids
    <3> QED BY <1>2, <1>t, <3>1 DEF NewRow
  <2> QED BY <2>1 DEF FreshRowids
<1>3. ASSUME NEW s \in Subs, NEW R \in RowSets, NEW l \in SelectLocks,
             SelectRows(s, R, l)
      PROVE  FreshRowids'
  <2>1. l \in LockTypes BY TableAssumption
  <2> QED BY <1>1, <1>3, <2>1, AbsentStays DEF SelectRows
<1>4. ASSUME NEW s \in Subs, NEW q \in Rowids, NEW v \in Values, UpdateRow(s, q, v)
      PROVE  FreshRowids'
  BY <1>1, <1>4, <1>t, AbsentStays DEF UpdateRow
<1>5. ASSUME NEW s \in Subs, NEW q \in Rowids,
             DeleteRow(s, q) \/ ReplaceDeleteRow(s, q)
      PROVE  FreshRowids'
  BY <1>1, <1>5, <1>t, AbsentStays DEF DeleteRow, ReplaceDeleteRow
<1>6. ASSUME NEW s \in Subs, CommitRows(s) PROVE FreshRowids'
  BY <1>1, <1>6, AbsentStays DEF CommitRows
<1>7. ASSUME NEW s \in Subs, NEW q \in Rowids, RollbackRow(s, q) PROVE FreshRowids'
  BY <1>1, <1>7, <1>t, AbsentStays DEF RollbackRow
<1>8. CASE \/ \E s \in Subs : EndSubTransaction(s)
           \/ UNCHANGED vars
  BY <1>1, <1>8 DEF EndSubTransaction, vars
<1> QED BY <1>2, <1>3, <1>4, <1>5, <1>6, <1>7, <1>8 DEF Next

\* Every reachable state of the table is well typed, and the lock word, the
\* holders and the staged changes of every row agree in it.
THEOREM TypeAndLocks == Spec => [](TypeOK /\ LockDiscipline)
<1>1. Init => Typed BY TypedInit
<1>2. Typed /\ [Next]_vars => Typed' BY TypedNext
<1>3. Typed => TypeOK /\ LockDiscipline BY DEF Typed, CellsOK
<1> QED BY <1>1, <1>2, <1>3, PTL DEF Spec

\* In particular, no message leaves a row, a holder or the next rowid outside its type
\* (Table::newrow, selectrows, commit, rollback and what they call).
THEOREM TypesHold == Spec => []TypeOK
<1>1. TypeOK /\ LockDiscipline => TypeOK
  OBVIOUS
<1> QED BY <1>1, TypeAndLocks, PTL

-----------------------------------------------------------------------------
(* No uncommitted change is orphaned.                                       *)

\* Whoever has a row staged has a SubTransaction that still serves it, and a
\* change belongs to such a subtransaction.  The first part is what makes the
\* second inductive: a change is made to a staged row.
StagedAlive == \A s \in Subs : staged[s] # {} => Alive(s)

Owned == Typed /\ StagedAlive /\ ChangesHaveAnOwner

\* A changed row is write-locked by somebody else: nothing s does reaches it.
LEMMA ForeignCell ==
  ASSUME NEW c \in Cell, NEW s \in Subs, NEW w \in Subs, w # s,
         WellLocked(c), WriteLockedBy(c, w)
  PROVE  /\ \A v : UpdateCell(c, s, v) = c
         /\ DeleteCell(c, s) = c
         /\ ReplaceDeleteCell(c, s) = c
         /\ DrainCell(CommitCell(c, s)) = c
         /\ DrainCell(RollbackCell(c, s)) = c
<1>1. ~WriteLockedBy(c, s) BY DEF WriteLockedBy
<1>2. CommitCell(c, s) = c BY <1>1 DEF CommitCell, WriteLockedBy
<1>3. RollbackCell(c, s) = c BY DEF RollbackCell, WriteLockedBy
<1>4. DrainCell(c) = c BY DEF DrainCell, WriteLockedBy
<1> QED BY <1>1, <1>2, <1>3, <1>4 DEF UpdateCell, DeleteCell, ReplaceDeleteCell

\* selectrows changes no row, and leaves a write lock where it is.
LEMMA SelectKeepsWriter ==
  ASSUME NEW c \in Cell, NEW s \in Subs, NEW w \in Subs, NEW l \in LockTypes,
         WellLocked(c)
  PROVE  /\ Changed(SelectCell(c, s, l)) => Changed(c)
         /\ WriteLockedBy(c, w) => WriteLockedBy(SelectCell(c, s, l), w)
<1> DEFINE reply == SelectReply(c, s, l)
<1>1. CASE reply = "READLOCK"
  <2>1. c.lock \in {"NOLOCK", "READLOCK"} BY <1>1, SelectReplyFacts
  <2> QED BY <1>1, <2>1 DEF SelectCell, Changed, WriteLockedBy, Cell
<1>2. CASE reply = "WRITELOCK"
  <2>1. c.lock = "NOLOCK" \/ WriteLockedBy(c, s) BY <1>2, SelectReplyFacts
  <2> QED BY <1>2, <2>1 DEF SelectCell, Changed, WriteLockedBy, Cell
<1>3. CASE reply = "PENDINGLOCK"
  BY <1>3 DEF SelectCell, Changed, WriteLockedBy, Cell
<1>4. CASE reply \notin {"READLOCK", "WRITELOCK", "PENDINGLOCK"}
  BY <1>4 DEF SelectCell
<1> QED BY <1>1, <1>2, <1>3, <1>4

\* Only the writer of a row makes it changed, and it stays the writer.
LEMMA ChangerIsWriter ==
  ASSUME NEW c \in Cell, NEW s \in Subs, NEW v, WellLocked(c)
  PROVE  /\ Changed(UpdateCell(c, s, v)) =>
              Changed(c) \/ WriteLockedBy(UpdateCell(c, s, v), s)
         /\ Changed(DeleteCell(c, s)) =>
              Changed(c) \/ WriteLockedBy(DeleteCell(c, s), s)
         /\ Changed(ReplaceDeleteCell(c, s)) =>
              Changed(c) \/ WriteLockedBy(ReplaceDeleteCell(c, s), s)
         /\ WriteLockedBy(c, s) => /\ WriteLockedBy(UpdateCell(c, s, v), s)
                                   /\ WriteLockedBy(DeleteCell(c, s), s)
                                   /\ WriteLockedBy(ReplaceDeleteCell(c, s), s)
BY DEF UpdateCell, DeleteCell, ReplaceDeleteCell, WriteLockedBy, Changed, Cell

\* Ownership of changes is inductive.  A step of s moves the owner of a changed
\* row only where s is that owner (newrow, updaterow, deleterow, commit and
\* rollback); step <1>3 is what the three operations that stage a change share.
LEMMA OwnedNext == Owned /\ [Next]_vars => Owned'
<1> SUFFICES ASSUME Owned, [Next]_vars PROVE Owned'
  OBVIOUS
<1>0. Typed /\ Typed' /\ StagedAlive /\ ChangesHaveAnOwner
  BY TypedNext DEF Owned
<1>t. /\ table \in [Rowids -> Cell]
      /\ \A r \in Rowids : WellLocked(table[r])
      /\ sub \in [Subs -> SubStates]
      /\ staged \in [Subs -> SUBSET Rowids]
  BY <1>0 DEF Typed, CellsOK, TypeOK, LockDiscipline
<1> SUFFICES StagedAlive' /\ ChangesHaveAnOwner'
  BY <1>0 DEF Owned
<1>1. ASSUME NEW s \in Subs, NEW v \in Values, NewRow(s, v)
      PROVE  StagedAlive' /\ ChangesHaveAnOwner'
  <2>1. nextrowid + 1 \in Rowids
    BY <1>0, <1>1, TableAssumption DEF NewRow, Typed, CellsOK, TypeOK, Rowids
  <2>2. StagedAlive'
    BY <1>0, <1>1, <1>t DEF NewRow, Opened, StagedAlive, Alive
  <2>3. WriteLockedBy(NewCell(s, v), s)
    BY DEF NewCell, AbsentCell, WriteLockedBy
  <2>4. Alive(s)'
    BY <1>1, <1>t DEF NewRow, Opened, Alive
  <2>5. ASSUME NEW r \in Rowids, Changed(table'[r])
        PROVE  \E w \in Subs : /\ WriteLockedBy(table'[r], w)
                               /\ Alive(w)' /\ r \in staged'[w]
    <3>1. CASE r = nextrowid + 1
      <4>1. table'[r] = NewCell(s, v) /\ r \in staged'[s]
        BY <1>1, <1>t, <3>1 DEF NewRow
      <4> QED BY <2>3, <2>4, <4>1
    <3>2. CASE r # nextrowid + 1
      <4>1. table'[r] = table[r]
        BY <1>1, <1>t, <3>2 DEF NewRow
      <4>2. PICK w \in Subs : WriteLockedBy(table[r], w) /\ Alive(w) /\ r \in staged[w]
        BY <1>0, <2>5, <4>1 DEF ChangesHaveAnOwner
      <4>3. Alive(w)' /\ r \in staged'[w]
        BY <1>1, <1>t, <4>2 DEF NewRow, Opened, Alive
      <4> QED BY <4>1, <4>2, <4>3
    <3> QED BY <3>1, <3>2
  <2> QED BY <2>2, <2>5 DEF ChangesHaveAnOwner
<1>2. ASSUME NEW s \in Subs, NEW R \in RowSets, NEW l \in SelectLocks,
             SelectRows(s, R, l)
      PROVE  StagedAlive' /\ ChangesHaveAnOwner'
  <2>1. l \in LockTypes /\ Alive(s)'
    BY <1>2, <1>t, TableAssumption DEF SelectRows, Opened, Alive
  <2>2. StagedAlive'
    BY <1>0, <1>2, <1>t, <2>1 DEF SelectRows, Opened, StagedAlive, Alive
  <2>3. ASSUME NEW r \in Rowids, Changed(table'[r])
        PROVE  \E w \in Subs : /\ WriteLockedBy(table'[r], w)
                               /\ Alive(w)' /\ r \in staged'[w]
    <3>1. table'[r] = table[r] \/ table'[r] = SelectCell(table[r], s, l)
      BY <1>2 DEF SelectRows
    <3>2. Changed(table[r])
      BY <1>t, <2>1, <2>3, <3>1, SelectKeepsWriter
    <3>3. PICK w \in Subs : WriteLockedBy(table[r], w) /\ Alive(w) /\ r \in staged[w]
      BY <1>0, <3>2 DEF ChangesHaveAnOwner
    <3>4. WriteLockedBy(table'[r], w)
      BY <1>t, <2>1, <3>1, <3>3, SelectKeepsWriter
    <3>5. Alive(w)' /\ r \in staged'[w]
      BY <1>2, <1>t, <2>1, <3>3 DEF SelectRows, Opened, Alive
    <3> QED BY <3>4, <3>5
  <2> QED BY <2>2, <2>3 DEF ChangesHaveAnOwner
<1>3. ASSUME NEW s \in Subs, NEW q \in Rowids,
             q \in staged[s], UNCHANGED <<sub, staged>>,
             NEW d, table' = [table EXCEPT ![q] = d],
             WriteLockedBy(table[q], s) => WriteLockedBy(d, s),
             Changed(d) => Changed(table[q]) \/ WriteLockedBy(d, s),
             \A w \in Subs : w # s /\ WriteLockedBy(table[q], w) => d = table[q]
      PROVE  StagedAlive' /\ ChangesHaveAnOwner'
  <2>1. StagedAlive' /\ Alive(s)
    BY <1>0, <1>3 DEF StagedAlive, Alive
  <2>2. ASSUME NEW r \in Rowids, Changed(table'[r])
        PROVE  \E w \in Subs : /\ WriteLockedBy(table'[r], w)
                               /\ Alive(w)' /\ r \in staged'[w]
    <3>1. CASE r = q /\ WriteLockedBy(d, s)
      BY <1>3, <1>t, <2>1, <3>1 DEF Alive
    <3>2. CASE r # q \/ ~WriteLockedBy(d, s)
      <4>1. Changed(table[r])
        BY <1>3, <1>t, <2>2, <3>2
      <4>2. PICK w \in Subs : WriteLockedBy(table[r], w) /\ Alive(w) /\ r \in staged[w]
        BY <1>0, <4>1 DEF ChangesHaveAnOwner
      <4>3. WriteLockedBy(table'[r], w)
        BY <1>3, <1>t, <3>2, <4>2
      <4> QED BY <1>3, <4>2, <4>3 DEF Alive
    <3> QED BY <3>1, <3>2
  <2> QED BY <2>1, <2>2 DEF ChangesHaveAnOwner
<1>4. ASSUME NEW s \in Subs, NEW r \in Rowids, NEW v \in Values, UpdateRow(s, r, v)
      PROVE  StagedAlive' /\ ChangesHaveAnOwner'
  <2> DEFINE d == UpdateCell(table[r], s, v)
  <2>1. /\ r \in staged[s] /\ UNCHANGED <<sub, staged>>
        /\ table' = [table EXCEPT ![r] = d]
    BY <1>4 DEF UpdateRow
  <2>2. /\ WriteLockedBy(table[r], s) => WriteLockedBy(d, s)
        /\ Changed(d) => Changed(table[r]) \/ WriteLockedBy(d, s)
        /\ \A w \in Subs : w # s /\ WriteLockedBy(table[r], w) => d = table[r]
    BY <1>t, ChangerIsWriter, ForeignCell
  <2> HIDE DEF d
  <2> QED BY <1>3, <2>1, <2>2
<1>5. ASSUME NEW s \in Subs, NEW r \in Rowids, DeleteRow(s, r)
      PROVE  StagedAlive' /\ ChangesHaveAnOwner'
  <2> DEFINE d == DeleteCell(table[r], s)
  <2>1. /\ r \in staged[s] /\ UNCHANGED <<sub, staged>>
        /\ table' = [table EXCEPT ![r] = d]
    BY <1>5 DEF DeleteRow
  <2>2. /\ WriteLockedBy(table[r], s) => WriteLockedBy(d, s)
        /\ Changed(d) => Changed(table[r]) \/ WriteLockedBy(d, s)
        /\ \A w \in Subs : w # s /\ WriteLockedBy(table[r], w) => d = table[r]
    BY <1>t, ChangerIsWriter, ForeignCell
  <2> HIDE DEF d
  <2> QED BY <1>3, <2>1, <2>2
<1>6. ASSUME NEW s \in Subs, NEW r \in Rowids, ReplaceDeleteRow(s, r)
      PROVE  StagedAlive' /\ ChangesHaveAnOwner'
  <2> DEFINE d == ReplaceDeleteCell(table[r], s)
  <2>1. /\ r \in staged[s] /\ UNCHANGED <<sub, staged>>
        /\ table' = [table EXCEPT ![r] = d]
    BY <1>6 DEF ReplaceDeleteRow
  <2>2. /\ WriteLockedBy(table[r], s) => WriteLockedBy(d, s)
        /\ Changed(d) => Changed(table[r]) \/ WriteLockedBy(d, s)
        /\ \A w \in Subs : w # s /\ WriteLockedBy(table[r], w) => d = table[r]
    BY <1>t, ChangerIsWriter, ForeignCell
  <2> HIDE DEF d
  <2> QED BY <1>3, <2>1, <2>2
<1>7. ASSUME NEW s \in Subs, CommitRows(s)
      PROVE  StagedAlive' /\ ChangesHaveAnOwner'
  <2>1. CASE crashed' # "no"
    BY <1>0, <1>7, <2>1 DEF CommitRows, StagedAlive, ChangesHaveAnOwner, Alive
  <2>2. CASE crashed' = "no"
    <3>1. /\ table' = [r \in Rowids |-> IF r \in staged[s]
                                          THEN DrainCell(CommitCell(table[r], s))
                                          ELSE table[r]]
          /\ sub' = [sub EXCEPT ![s] = "committed"]
          /\ staged' = [staged EXCEPT ![s] = {}]
      BY <1>7, <2>2 DEF CommitRows
    <3>2. StagedAlive'
      BY <1>0, <1>t, <3>1 DEF StagedAlive, Alive
    <3>3. ASSUME NEW r \in Rowids, Changed(table'[r])
          PROVE  \E w \in Subs : /\ WriteLockedBy(table'[r], w)
                                 /\ Alive(w)' /\ r \in staged'[w]
      <4>1. Changed(table[r]) /\ (r \in staged[s] => ~WriteLockedBy(table[r], s))
        BY <1>t, <3>1, <3>3, CommitCellOK
      <4>2. PICK w \in Subs : WriteLockedBy(table[r], w) /\ Alive(w) /\ r \in staged[w]
        BY <1>0, <4>1 DEF ChangesHaveAnOwner
      <4>3. w # s
        BY <4>1, <4>2
      <4>4. table'[r] = table[r]
        BY <1>t, <3>1, <4>2, <4>3, ForeignCell
      <4>5. Alive(w)' /\ r \in staged'[w]
        BY <1>t, <3>1, <4>2, <4>3 DEF Alive
      <4> QED BY <4>2, <4>4, <4>5
    <3> QED BY <3>2, <3>3 DEF ChangesHaveAnOwner
  <2> QED BY <2>1, <2>2
<1>8. ASSUME NEW s \in Subs, NEW q \in Rowids, RollbackRow(s, q)
      PROVE  StagedAlive' /\ ChangesHaveAnOwner'
  <2>1. CASE crashed' # "no"
    BY <1>0, <1>8, <2>1 DEF RollbackRow, StagedAlive, ChangesHaveAnOwner, Alive
  <2>2. CASE crashed' = "no"
    <3>1. /\ table' = [table EXCEPT ![q] = DrainCell(RollbackCell(table[q], s))]
          /\ sub' = [sub EXCEPT ![s] = "aborted"]
          /\ staged' = [staged EXCEPT ![s] = @ \ {q}]
      BY <1>8, <2>2 DEF RollbackRow
    <3>2. StagedAlive'
      BY <1>0, <1>t, <3>1 DEF StagedAlive, Alive
    <3>3. ASSUME NEW r \in Rowids, Changed(table'[r])
          PROVE  \E w \in Subs : /\ WriteLockedBy(table'[r], w)
                                 /\ Alive(w)' /\ r \in staged'[w]
      <4>1. Changed(table[r]) /\ (r = q => ~WriteLockedBy(table[r], s))
        BY <1>t, <3>1, <3>3, RollbackCellOK
      <4>2. PICK w \in Subs : WriteLockedBy(table[r], w) /\ Alive(w) /\ r \in staged[w]
        BY <1>0, <4>1 DEF ChangesHaveAnOwner
      <4>3. table'[r] = table[r]
        BY <1>t, <3>1, <4>1, <4>2, ForeignCell
      <4>4. Alive(w)' /\ r \in staged'[w]
        BY <1>t, <3>1, <4>1, <4>2 DEF Alive
      <4> QED BY <4>2, <4>3, <4>4
    <3> QED BY <3>2, <3>3 DEF ChangesHaveAnOwner
  <2> QED BY <2>1, <2>2
<1>9. ASSUME NEW s \in Subs, EndSubTransaction(s)
      PROVE  StagedAlive' /\ ChangesHaveAnOwner'
  <2>1. \A w \in Subs : Alive(w) /\ staged[w] # {} => Alive(w)'
    BY <1>9, <1>t DEF EndSubTransaction, Alive
  <2> QED BY <1>0, <1>9, <2>1
          DEF EndSubTransaction, StagedAlive, ChangesHaveAnOwner
<1>10. CASE UNCHANGED vars
  BY <1>0, <1>10 DEF vars, StagedAlive, ChangesHaveAnOwner, Alive
<1> QED
  BY <1>1, <1>2, <1>4, <1>5, <1>6, <1>7, <1>8, <1>9, <1>10 DEF Next

\* In every reachable state each uncommitted change belongs to a live
\* subtransaction whose Transaction has the row staged.
THEOREM NoOrphanedChange == Spec => []ChangesHaveAnOwner
<1>1. Init => Owned
  BY TypedInit DEF Init, Owned, StagedAlive, ChangesHaveAnOwner, Changed, AbsentCell
<1>2. Owned /\ [Next]_vars => Owned' BY OwnedNext
<1>3. Owned => ChangesHaveAnOwner BY DEF Owned
<1> QED BY <1>1, <1>2, <1>3, PTL DEF Spec

-----------------------------------------------------------------------------
(* Table implements LockedStore.  On each row an operation of s is a        *)
(* stutter, or what Share, Seize, LetGoRead or LetGoWrite allow s.          *)

SameLock(c, d) == /\ Visible(d) = Visible(c)
                  /\ d.writelockHolder = c.writelockHolder
                  /\ d.readlockHolders = c.readlockHolders

\* selectrows shares or seizes the row, or changes no lock.
LEMMA SelectAcquires ==
  ASSUME NEW c \in Cell, NEW s \in Subs, NEW l \in LockTypes, WellLocked(c)
  PROVE  LET d == SelectCell(c, s, l)
         IN  \/ SameLock(c, d)
             \/ /\ c.writelockHolder = NoSub /\ Visible(d) = Visible(c)
                /\ d.writelockHolder = NoSub
                /\ d.readlockHolders = c.readlockHolders \cup {s}
             \/ /\ c.writelockHolder = NoSub /\ c.readlockHolders = {}
                /\ Visible(d) = Visible(c)
                /\ d.writelockHolder = s /\ d.readlockHolders = {}
<1> DEFINE reply == SelectReply(c, s, l)
<1>1. CASE reply = "READLOCK"
  <2>1. c.lock \in {"NOLOCK", "READLOCK"} BY <1>1, SelectReplyFacts
  <2>2. c.writelockHolder = NoSub BY <2>1 DEF WellLocked
  <2> QED BY <1>1, <2>2 DEF SelectCell, Visible, Cell
<1>2. CASE reply = "WRITELOCK"
  <2>1. c.lock = "NOLOCK" \/ WriteLockedBy(c, s) BY <1>2, SelectReplyFacts
  <2>2. c.lock = "NOLOCK" => c.writelockHolder = NoSub /\ c.readlockHolders = {}
    BY DEF WellLocked
  <2> QED BY <1>2, <2>1, <2>2 DEF SelectCell, Visible, SameLock, WriteLockedBy, Cell
<1>3. CASE reply = "PENDINGLOCK"
  BY <1>3 DEF SelectCell, Visible, SameLock, Cell
<1>4. CASE reply \notin {"READLOCK", "WRITELOCK", "PENDINGLOCK"}
  BY <1>4 DEF SelectCell, SameLock
<1> QED BY <1>1, <1>2, <1>3, <1>4

\* updaterow and deleterow touch no lock and nothing visible.
LEMMA ChangeStutters ==
  ASSUME NEW c \in Cell, NEW s \in Subs, NEW v
  PROVE  /\ SameLock(c, UpdateCell(c, s, v))
         /\ SameLock(c, DeleteCell(c, s))
         /\ SameLock(c, ReplaceDeleteCell(c, s))
BY DEF UpdateCell, DeleteCell, ReplaceDeleteCell, SameLock, Visible, Cell

LetsGo(c, d, s) ==
  \/ SameLock(c, d)
  \/ /\ s \in c.readlockHolders /\ Visible(d) = Visible(c)
     /\ d.writelockHolder = c.writelockHolder
     /\ d.readlockHolders = c.readlockHolders \ {s}
  \/ /\ c.writelockHolder = s
     /\ d.writelockHolder = NoSub
     /\ d.readlockHolders = c.readlockHolders

\* COMMITCMD gives back at most the lock of its sender.
LEMMA CommitReleases ==
  ASSUME NEW c \in Cell, NEW s \in Subs, WellLocked(c)
  PROVE  LetsGo(c, DrainCell(CommitCell(c, s)), s)
<1>1. CASE c.lock = "READLOCK" /\ s \in c.readlockHolders
  <2>1. CommitCell(c, s) = ReleaseRead(c, s) BY <1>1 DEF CommitCell, WriteLockedBy
  <2>2. DrainCell(CommitCell(c, s)) = ReleaseRead(c, s)
    BY <2>1 DEF DrainCell, ReleaseRead, Cell
  <2> QED BY <1>1, <2>2 DEF LetsGo, ReleaseRead, Visible, Cell
<1>2. CASE WriteLockedBy(c, s)
  <2>1. c.writelockHolder = s /\ c.readlockHolders = {}
    BY <1>2 DEF WriteLockedBy, WellLocked
  <2>2. CommitCell(c, s) \in {[AbsentCell EXCEPT !.waiters = c.waiters], InstallCell(c)}
    BY <1>2 DEF CommitCell, WriteLockedBy
  <2>3. DrainCell(CommitCell(c, s)).writelockHolder = NoSub
    BY <2>2 DEF DrainCell, InstallCell, AbsentCell, Cell
  <2>4. DrainCell(CommitCell(c, s)).readlockHolders = {}
    BY <2>2 DEF DrainCell, InstallCell, AbsentCell, Cell
  <2> QED BY <2>1, <2>3, <2>4 DEF LetsGo
<1>3. CASE ~(c.lock = "READLOCK" /\ s \in c.readlockHolders) /\ ~WriteLockedBy(c, s)
  <2>1. CommitCell(c, s) = c BY <1>3 DEF CommitCell
  <2>2. DrainCell(c) = c BY DEF DrainCell, WellLocked, AbsentCell
  <2> QED BY <2>1, <2>2 DEF LetsGo, SameLock
<1> QED BY <1>1, <1>2, <1>3

\* ROLLBACKCMD gives back at most the lock of its sender.
LEMMA RollbackReleases ==
  ASSUME NEW c \in Cell, NEW s \in Subs, WellLocked(c)
  PROVE  LetsGo(c, DrainCell(RollbackCell(c, s)), s)
<1> DEFINE left == c.readlockHolders \ {s}
           back == [c EXCEPT !.lock = IF left = {} THEN "NOLOCK" ELSE "READLOCK",
                             !.writelockHolder = NoSub,
                             !.readlockHolders = left,
                             !.flags = {},
                             !.shadow = NoVal, !.shared = FALSE]
<1>1. CASE c.lock = "ABSENT" \/ (c.lock = "WRITELOCK" /\ c.writelockHolder # s)
  <2>1. RollbackCell(c, s) = c BY <1>1 DEF RollbackCell
  <2>2. DrainCell(c) = c BY DEF DrainCell, WellLocked, AbsentCell
  <2> QED BY <2>1, <2>2 DEF LetsGo, SameLock
<1>2. CASE WriteLockedBy(c, s)
  <2>1. c.writelockHolder = s /\ c.readlockHolders = {}
    BY <1>2 DEF WriteLockedBy, WellLocked
  <2>2. RollbackCell(c, s) \in {[AbsentCell EXCEPT !.waiters = c.waiters], back}
    BY <1>2 DEF RollbackCell, WriteLockedBy
  <2>3. DrainCell(RollbackCell(c, s)).writelockHolder = NoSub
    BY <2>2 DEF DrainCell, AbsentCell, Cell
  <2>4. DrainCell(RollbackCell(c, s)).readlockHolders = {}
    BY <2>1, <2>2 DEF DrainCell, AbsentCell, Cell
  <2> QED BY <2>1, <2>3, <2>4 DEF LetsGo
<1>3. CASE c.lock \in {"NOLOCK", "READLOCK"}
  <2>1. c.flags = {} /\ c.writelockHolder = NoSub
    BY <1>3 DEF WellLocked, Changed
  <2>2. RollbackCell(c, s) = back
    BY <1>3, <2>1 DEF RollbackCell
  <2>3. DrainCell(RollbackCell(c, s)) = back
    BY <2>2 DEF DrainCell, Cell
  <2>4. /\ Visible(back) = Visible(c) /\ back.writelockHolder = c.writelockHolder
        /\ back.readlockHolders = c.readlockHolders \ {s}
    BY <2>1 DEF Visible, Cell
  <2>5. s \notin c.readlockHolders => c.readlockHolders \ {s} = c.readlockHolders
    OBVIOUS
  <2> QED BY <2>3, <2>4, <2>5 DEF LetsGo, SameLock
<1> QED BY <1>1, <1>2, <1>3 DEF Cell, LockTypes, WriteLockedBy

\* What is visible of a well-formed cell is a row or nothing.
LEMMA VisibleTyped ==
  ASSUME NEW c \in Cell PROVE Visible(c) \in Values \cup {NoVal}
BY DEF Visible, Cell

\* Every step of Table is a step of LockedStore or leaves its state alone.
LEMMA StoreStep == Typed /\ [Next]_vars => [Store!Next]_(Store!vars)
<1> SUFFICES ASSUME Typed, [Next]_vars PROVE Store!Next \/ UNCHANGED Store!vars
  OBVIOUS
<1>0. Typed' BY TypedNext
<1>t. /\ table \in [Rowids -> Cell] /\ table' \in [Rowids -> Cell]
      /\ \A r \in Rowids : WellLocked(table[r])
  BY <1>0 DEF Typed, CellsOK, TypeOK, LockDiscipline
<1>1. ASSUME NEW s \in Subs,
             \A r \in Rowids :
               LET c == table[r]
                   d == table'[r]
               IN  \/ SameLock(c, d)
                   \/ /\ c.writelockHolder = NoSub /\ Visible(d) = Visible(c)
                      /\ d.writelockHolder = NoSub
                      /\ d.readlockHolders = c.readlockHolders \cup {s}
                   \/ /\ c.writelockHolder = NoSub /\ c.readlockHolders = {}
                      /\ Visible(d) = Visible(c)
                      /\ d.writelockHolder = s /\ d.readlockHolders = {}
      PROVE  Store!Next
  <2>1. Store!Acquire(s)
    BY <1>1 DEF Store!Acquire, Store!SameRow, Store!Share, Store!Seize, SameLock
  <2> QED BY <2>1 DEF Store!Next
<1>2. ASSUME NEW s \in Subs, \A r \in Rowids : LetsGo(table[r], table'[r], s)
      PROVE  Store!Next
  <2>1. \A r \in Rowids : Visible(table'[r]) \in Values \cup {NoVal}
    BY <1>t, VisibleTyped
  <2>2. Store!Release(s)
    BY <1>2, <2>1 DEF Store!Release, Store!SameRow, Store!LetGoRead,
                      Store!LetGoWrite, LetsGo, SameLock
  <2> QED BY <2>2 DEF Store!Next
<1>3. ASSUME \A r \in Rowids : SameLock(table[r], table'[r])
      PROVE  UNCHANGED Store!vars
  BY <1>3 DEF Store!vars, SameLock
<1>4. ASSUME NEW s \in Subs, NEW v \in Values, NewRow(s, v) PROVE Store!Next
  <2>1. nextrowid \in 0..MaxRowid /\ nextrowid < MaxRowid
    BY <1>4 DEF NewRow, Typed, CellsOK, TypeOK
  <2>2. nextrowid + 1 \in Rowids
    BY <2>1, TableAssumption DEF Rowids
  <2>3. table[nextrowid + 1] = AbsentCell
    BY <2>1, <2>2, TableAssumption DEF Typed, FreshRowids, Rowids
  <2>4. /\ AbsentCell.writelockHolder = NoSub /\ AbsentCell.readlockHolders = {}
        /\ Visible(AbsentCell) = NoVal
    BY DEF AbsentCell, Visible
  <2>5. /\ NewCell(s, v).writelockHolder = s /\ NewCell(s, v).readlockHolders = {}
        /\ Visible(NewCell(s, v)) = NoVal
    BY DEF NewCell, AbsentCell, Visible
  <2>6. \A r \in Rowids : r # nextrowid + 1 => table'[r] = table[r]
    BY <1>4, <1>t DEF NewRow
  <2>7. table'[nextrowid + 1] = NewCell(s, v)
    BY <1>4, <1>t, <2>2 DEF NewRow
  <2> QED BY <1>1, <2>3, <2>4, <2>5, <2>6, <2>7 DEF SameLock
<1>5. ASSUME NEW s \in Subs, NEW R \in RowSets, NEW l \in SelectLocks,
             SelectRows(s, R, l)
      PROVE  Store!Next
  <2>1. l \in LockTypes BY TableAssumption
  <2>2. \A r \in Rowids : table'[r] = table[r] \/ table'[r] = SelectCell(table[r], s, l)
    BY <1>5 DEF SelectRows
  <2> QED BY <1>1, <1>t, <2>1, <2>2, SelectAcquires DEF SameLock
<1>6. ASSUME NEW s \in Subs, NEW q \in Rowids,
             \/ \E v \in Values : UpdateRow(s, q, v)
             \/ DeleteRow(s, q)
             \/ ReplaceDeleteRow(s, q)
      PROVE  UNCHANGED Store!vars
  <2>1. \A r \in Rowids : \/ table'[r] = table[r]
                          \/ \E v \in Values : table'[r] = UpdateCell(table[r], s, v)
                          \/ table'[r] = DeleteCell(table[r], s)
                          \/ table'[r] = ReplaceDeleteCell(table[r], s)
    BY <1>6, <1>t DEF UpdateRow, DeleteRow, ReplaceDeleteRow
  <2>2. \A r \in Rowids : SameLock(table[r], table'[r])
    BY <1>t, <2>1, ChangeStutters DEF SameLock
  <2> QED BY <1>3, <2>2
<1>7. ASSUME NEW s \in Subs, CommitRows(s) PROVE Store!Next
  <2>1. \A r \in Rowids : \/ table'[r] = table[r]
                          \/ table'[r] = DrainCell(CommitCell(table[r], s))
    BY <1>7 DEF CommitRows
  <2>2. \A r \in Rowids : LetsGo(table[r], table'[r], s)
    BY <1>t, <2>1, CommitReleases DEF LetsGo, SameLock
  <2> QED BY <1>2, <2>2
<1>8. ASSUME NEW s \in Subs, NEW q \in Rowids, RollbackRow(s, q) PROVE Store!Next
  <2>1. \A r \in Rowids : \/ table'[r] = table[r]
                          \/ table'[r] = DrainCell(RollbackCell(table[r], s))
    BY <1>8, <1>t DEF RollbackRow
  <2>2. \A r \in Rowids : LetsGo(table[r], table'[r], s)
    BY <1>t, <2>1, RollbackReleases DEF LetsGo, SameLock
  <2> QED BY <1>2, <2>2
<1>9. CASE \/ \E s \in Subs : EndSubTransaction(s)
           \/ UNCHANGED vars
  BY <1>3, <1>9 DEF EndSubTransaction, vars, SameLock
<1> QED BY <1>4, <1>5, <1>6, <1>7, <1>8, <1>9 DEF Next

\* Table implements LockedStore, for any number of rows and subtransactions.
THEOREM TableImplementsLockedStore == Spec => ImplementsLockedStore
<1>1. Init => Store!Init
  BY DEF Init, Store!Init, AbsentCell, Visible
<1>2. Typed /\ [Next]_vars => [Store!Next]_(Store!vars) BY StoreStep
<1>3. Init => Typed BY TypedInit
<1>4. Typed /\ [Next]_vars => Typed' BY TypedNext
<1> QED BY <1>1, <1>2, <1>3, <1>4, PTL DEF Spec, ImplementsLockedStore, Store!Spec

-----------------------------------------------------------------------------
(* Mbox.                                                                    *)


(***************************************************************************)
(* Induction on the natural numbers, stated of a set instead of an         *)
(* operator so that first-order provers can use it.                        *)
(***************************************************************************)

\* The order of Nat as a well-founded relation.
LEMMA NatOrder ==
  \E R : IsWellFoundedOn(R, Nat) /\ \A x, y \in Nat : x < y => <<x, y>> \in R
<1>1. \A x, y \in Nat : x < y => <<x, y>> \in OpToRel(<, Nat)
  BY DEF OpToRel
<1> QED BY <1>1, NatLessThanWellFounded, Zenon

\* A set of natural numbers has a smallest element.
LEMMA Smallest ==
  ASSUME NEW T \in SUBSET Nat, T # {}
  PROVE  \E m \in T : \A k \in T : m <= k
<1>1. PICK R : IsWellFoundedOn(R, Nat) /\ \A x, y \in Nat : x < y => <<x, y>> \in R
  BY NatOrder
<1>2. T \subseteq Nat
  OBVIOUS
<1>3. IsWellFoundedOn(R, Nat)
  BY <1>1
<1>4. PICK m \in T : \A y \in T : ~(<<y, m>> \in R)
  BY <1>2, <1>3, WFMin
<1>5. \A k \in T : m <= k
  <2> TAKE k \in T
  <2>1. m \in Nat /\ k \in Nat
    BY <1>2
  <2>2. ~(k < m)
    BY <1>1, <1>4, <2>1
  <2> QED BY <2>1, <2>2
<1> QED BY <1>5

\* A set with 0 and with the successors of its elements is Nat.
LEMMA SetInduction ==
  ASSUME NEW P \in SUBSET Nat, 0 \in P, \A n \in P : n + 1 \in P
  PROVE  \A n \in Nat : n \in P
<1> SUFFICES ASSUME Nat \ P # {} PROVE FALSE
  OBVIOUS
<1>1. PICK m \in Nat \ P : \A k \in Nat \ P : m <= k
  BY Smallest
<1>2. m # 0 /\ m - 1 \in Nat /\ (m - 1) + 1 = m
  BY <1>1
<1>3. m - 1 \in P
  BY <1>1, <1>2
<1> QED BY <1>1, <1>2, <1>3

-----------------------------------------------------------------------------

\* The allocator hands out no memory that the queue still points to.
ReusesUnreferenced == \A p \in Producers : NewMessage(p) => prod'[p].msg \notin Referenced

\* p has a message that it has not linked yet.
Sending == {"new", "loadtail", "loadnext", "recheck", "link", "help"}
Unlinked(p) == prod[p].at \in Sending

\* p has taken a message for the tail.
Looking == {"loadnext", "recheck", "link", "help", "swing"}

\* The type of the producers' part of the state.
Locals == prod \in [Producers -> [at : Steps, sent : 0..MaxMsgs, msg : Addrs \cup {NoAddr},
                                  mytail : Links, mynext : Links]]

\* The messages p has linked.
Put(p) == IF Unlinked(p) THEN prod[p].sent - 1 ELSE prod[p].sent

-----------------------------------------------------------------------------
(* The inductive invariant.  c is the memory of every message that was ever *)
(* linked, in the order in which that happened (firstMsg is the first), and *)
(* m is what they contained.  v are the places in c whose memory has not    *)
(* been handed out again: no two of them are the same memory.               *)

\* Their nextmsg goes from one to the next, and the consumer has followed it.  What it
\* has not followed yet has not been deleted.
ChainOK(c, v) ==
  /\ c \in Seq(Addrs \ fresh) /\ Len(received) + 1 \in 1..Len(c)
  /\ v \subseteq 1..Len(c)
  /\ \A i \in (Len(received) + 1)..Len(c) : i \in v /\ c[i] \notin freed
  /\ \A i, j \in v : c[i] = c[j] => i = j
  /\ \A i \in v : i # Len(c) => heap[c[i]].nextmsg.ptr = c[i + 1]
  /\ heap[c[Len(c)]].nextmsg.ptr = NoAddr
  /\ current = c[Len(received) + 1]

\* What was received, and what can be.
ContentOK(c, m) ==
  /\ m \in Seq(Messages \cup {NoMsg}) /\ Len(m) = Len(c)
  /\ \A i \in 1..Len(received) : received[i] = m[i + 1]
  /\ \A i \in (Len(received) + 2)..Len(c) : heap[c[i]].msg = m[i]

\* The tail is the last of them or the one before.
TailOK(c, v) == \E t \in v : t + 1 >= Len(c) /\ tail.ptr = c[t]

\* What a producer knows: its own message, a message that has been the tail, and what
\* follows it if there was something when it looked.
OwnOK(c, v, p) ==
  /\ prod[p].at # "idle" => prod[p].msg \in Addrs \ fresh
  /\ Unlinked(p) => /\ prod[p].sent >= 1 /\ prod[p].msg \notin freed
                    /\ heap[prod[p].msg].msg = <<p, prod[p].sent>>
                    /\ \A i \in v : c[i] # prod[p].msg
                    /\ prod[p].at # "new" => heap[prod[p].msg].nextmsg.ptr = NoAddr

SeenOK(c, v, p) ==
  /\ prod[p].at \in Looking =>
       \E i, t \in v : i <= t /\ prod[p].mytail.ptr = c[i] /\ tail.ptr = c[t]
  /\ prod[p].at \in {"recheck", "help"} /\ prod[p].mynext.ptr # NoAddr =>
       prod[p].mynext.ptr = heap[prod[p].mytail.ptr].nextmsg.ptr
  /\ prod[p].at = "link" => prod[p].mynext.ptr = NoAddr
  /\ prod[p].at = "help" => prod[p].mynext.ptr # NoAddr
  /\ prod[p].at = "swing" => prod[p].msg = heap[prod[p].mytail.ptr].nextmsg.ptr

\* No two producers have the same message in hand.
Apart == \A p, q \in Producers : Unlinked(p) /\ Unlinked(q) /\ prod[p].msg = prod[q].msg => p = q

\* Each producer's messages have been linked once, up to the number it has linked.
OnceEach(m) ==
  /\ \A i \in 2..Len(m) : m[i] \in Messages /\ m[i][2] <= Put(m[i][1])
  /\ \A i, j \in 2..Len(m) : m[i] = m[j] => i = j
  /\ \A p \in Producers : \A k \in 1..Put(p) : \E i \in 2..Len(m) : m[i] = <<p, k>>

\* The places at which p's messages were linked, which are as many.
Positions(m, p) == {i \in 1..(Len(m) - 1) : m[i + 1][1] = p}
Counted(m) == \A p \in Producers : Cardinality(Positions(m, p)) = Put(p)

Good(c, v, m) ==
  /\ MboxTypeOK /\ ChainOK(c, v) /\ ContentOK(c, m) /\ TailOK(c, v)
  /\ Apart /\ OnceEach(m) /\ Counted(m)
  /\ \A p \in Producers : OwnOK(c, v, p) /\ SeenOK(c, v, p)

IInv == \E c, v, m : Good(c, v, m)

-----------------------------------------------------------------------------
\* What the invariant says of the chain, the parts that most proofs use.
LEMMA ChainFacts ==
  ASSUME NEW c, NEW v, NEW m, Good(c, v, m)
  PROVE  /\ Len(c) \in Nat /\ Len(received) \in Nat /\ Len(received) + 1 <= Len(c)
         /\ c \in [1..Len(c) -> Addrs \ fresh]
         /\ v \subseteq 1..Len(c) /\ Len(c) \in v /\ Len(received) + 1 \in v
         /\ \A i \in v : i \in Nat /\ c[i] \in Addrs \ fresh
         /\ received \in Seq(Messages) /\ current = c[Len(received) + 1]
<1>1. Len(c) \in Nat /\ c \in [1..Len(c) -> Addrs \ fresh] /\ Len(received) + 1 \in 1..Len(c)
  BY LenProperties DEF Good, ChainOK
<1>2. Len(received) \in Nat /\ received \in Seq(Messages)
  BY LenProperties DEF Good, MboxTypeOK
<1>3. current = c[Len(received) + 1] /\ v \subseteq 1..Len(c)
  BY DEF Good, ChainOK
<1>4. Len(c) \in v /\ Len(received) + 1 \in v
  <2>1. \A i \in (Len(received) + 1)..Len(c) : i \in v
    BY DEF Good, ChainOK
  <2>2. Len(c) \in (Len(received) + 1)..Len(c) /\ Len(received) + 1 \in (Len(received) + 1)..Len(c)
    BY <1>1, <1>2
  <2> QED BY <2>1, <2>2
<1>5. \A i \in v : i \in Nat /\ c[i] \in Addrs \ fresh
  BY <1>1, <1>3
<1> QED BY <1>1, <1>2, <1>3, <1>4, <1>5

\* A step that leaves the messages whose memory is still theirs alone keeps the chain.
LEMMA ChainFrame ==
  ASSUME NEW c, NEW v, NEW m, Good(c, v, m), NEW w \in SUBSET v,
         received' = received, current' = current, freed' \subseteq freed,
         c \in Seq(Addrs \ fresh'), \A i \in (Len(received) + 1)..Len(c) : i \in w,
         \A i \in w : heap'[c[i]] = heap[c[i]]
  PROVE  ChainOK(c, w)' /\ ContentOK(c, m)'
<1>1. /\ Len(c) \in Nat /\ Len(received) \in Nat /\ Len(received) + 1 <= Len(c)
      /\ w \subseteq 1..Len(c)
  BY ChainFacts
<1>2. \A i \in w : i # Len(c) => heap'[c[i]].nextmsg.ptr = c[i + 1]
  BY DEF Good, ChainOK
<1>3. Len(c) \in (Len(received) + 1)..Len(c)
  BY <1>1
<1>4. heap'[c[Len(c)]].nextmsg.ptr = NoAddr
  BY <1>3 DEF Good, ChainOK
<1>5. /\ Len(received) + 1 \in 1..Len(c) /\ current = c[Len(received) + 1]
      /\ \A i, j \in w : c[i] = c[j] => i = j
      /\ \A i \in (Len(received) + 1)..Len(c) : c[i] \notin freed'
  BY DEF Good, ChainOK
<1>6. ChainOK(c, w)'
  BY <1>1, <1>2, <1>4, <1>5 DEF ChainOK
<1>7. \A i \in (Len(received) + 2)..Len(c) : heap'[c[i]].msg = m[i]
  <2>1. \A i \in (Len(received) + 2)..Len(c) : i \in (Len(received) + 1)..Len(c)
    BY <1>1
  <2> QED BY <2>1 DEF Good, ContentOK
<1>8. ContentOK(c, m)'
  BY <1>7 DEF Good, ContentOK
<1> QED BY <1>6, <1>8

\* A step that leaves how many each producer has linked keeps them linked once.
LEMMA OnceFrame ==
  ASSUME NEW c, NEW v, NEW m, Good(c, v, m), \A q \in Producers : Put(q)' = Put(q)
  PROVE  OnceEach(m)' /\ Counted(m)'
<1>1. ASSUME NEW i \in 2..Len(m)
      PROVE  m[i] \in Messages /\ m[i][2] <= Put(m[i][1])'
  <2>1. PICK x : x = m[i]
    OBVIOUS
  <2>2. x \in Messages /\ x[2] <= Put(x[1])
    BY <2>1 DEF Good, OnceEach
  <2>3. Put(x[1])' = Put(x[1])
    BY <2>2 DEF Messages
  <2> QED BY <2>1, <2>2, <2>3
<1>2. \A i, j \in 2..Len(m) : m[i] = m[j] => i = j
  BY DEF Good, OnceEach
<1>3. ASSUME NEW p \in Producers, NEW k \in 1..Put(p)'
      PROVE  \E i \in 2..Len(m) : m[i] = <<p, k>>
  BY DEF Good, OnceEach
<1>4. Counted(m)'
  BY DEF Good, Counted, Positions
<1> QED BY <1>1, <1>2, <1>3, <1>4 DEF OnceEach

\* Going to another step of sendMsg changes nothing else of a producer's.
LEMMA GotoFacts ==
  ASSUME MboxTypeOK, NEW p \in Producers, NEW step \in Steps, Goto(p, step)
  PROVE  /\ Locals'
         /\ prod'[p].at = step /\ prod'[p].msg = prod[p].msg /\ prod'[p].sent = prod[p].sent
         /\ prod'[p].mytail = prod[p].mytail /\ prod'[p].mynext = prod[p].mynext
         /\ \A q \in Producers : q # p => prod'[q] = prod[q]
<1>1. Locals /\ prod' = [prod EXCEPT ![p].at = step]
  BY DEF MboxTypeOK, Locals, Goto
<1> QED BY <1>1 DEF Locals

(***************************************************************************)
(* One lemma per action: the step preserves the invariant.                 *)
(***************************************************************************)

\* The steps of sendMsg that only read: p changes nothing but its own place and what it
\* has seen, and its message stays unlinked.
LEMMA LookStep ==
  ASSUME NEW c, NEW v, NEW m, Good(c, v, m), NEW p \in Producers,
         heap' = heap, fresh' = fresh, freed' = freed, tail' = tail, current' = current,
         received' = received, counter' \in Nat,
         prod[p].at \in Sending \ {"new"}, prod'[p].at \in Sending \ {"new"},
         prod'[p].msg = prod[p].msg, prod'[p].sent = prod[p].sent,
         Locals', \A q \in Producers : q # p => prod'[q] = prod[q],
         SeenOK(c, v, p)'
  PROVE  Good(c, v, m)'
<1>1. MboxTypeOK'
  BY DEF Good, MboxTypeOK, Locals
<1>2. ChainOK(c, v)' /\ ContentOK(c, m)' /\ TailOK(c, v)'
  BY DEF Good, ChainOK, ContentOK, TailOK
<1>3. \A q \in Producers : /\ prod'[q].msg = prod[q].msg /\ prod'[q].sent = prod[q].sent
                           /\ Unlinked(q)' = Unlinked(q) /\ Put(q)' = Put(q)
                           /\ prod'[q].at = "idle" <=> prod[q].at = "idle"
                           /\ prod'[q].at = "new" <=> prod[q].at = "new"
  BY DEF Unlinked, Sending, Put
<1>4. Apart'
  BY <1>3 DEF Good, Apart
<1>5. OnceEach(m)' /\ Counted(m)'
  BY <1>3, OnceFrame
<1>7. ASSUME NEW q \in Producers PROVE OwnOK(c, v, q)'
  BY <1>3 DEF Good, OwnOK
<1>8. ASSUME NEW q \in Producers PROVE SeenOK(c, v, q)'
  BY DEF Good, SeenOK
<1> QED BY <1>1, <1>2, <1>4, <1>5, <1>7, <1>8 DEF Good

\* LoadTail: what is loaded is the tail of this moment.
LEMMA LoadTailStep ==
  ASSUME NEW c, NEW v, NEW m, Good(c, v, m), NEW p \in Producers, LoadTail(p)
  PROVE  Good(c, v, m)'
<1>1. Locals'
  <2>1. Locals /\ tail \in Links /\ "loadnext" \in Steps
    BY DEF Good, MboxTypeOK, Locals, Steps
  <2> QED BY <2>1 DEF Locals, LoadTail
<1>2. prod'[p].at = "loadnext" /\ prod'[p].mytail = tail /\ tail' = tail
  BY DEF LoadTail, Good, MboxTypeOK
<1>3. PICK t \in v : tail.ptr = c[t] /\ t \in Nat
  BY ChainFacts DEF Good, TailOK
<1>4. SeenOK(c, v, p)'
  BY <1>2, <1>3 DEF SeenOK
<1> QED BY <1>1, <1>4, LookStep DEF LoadTail, Good, MboxTypeOK, At, Sending

\* LoadNext: what follows the message seen as the tail, which stays if it is there.
LEMMA LoadNextStep ==
  ASSUME NEW c, NEW v, NEW m, Good(c, v, m), NEW p \in Producers, LoadNext(p)
  PROVE  Good(c, v, m)'
<1> DEFINE n == heap[prod[p].mytail.ptr].nextmsg
<1>0. prod[p].mytail.ptr \in Addrs
  BY ChainFacts DEF Good, SeenOK, Looking, LoadNext, At
<1>1. n \in Links
  BY <1>0 DEF Good, MboxTypeOK
<1> HIDE DEF n
<1>2. prod' = [prod EXCEPT ![p].mynext = n, ![p].at = "recheck"]
  BY DEF LoadNext, n
<1>3. Locals'
  <2>1. Locals /\ "recheck" \in Steps
    BY DEF Good, MboxTypeOK, Locals, Steps
  <2> QED BY <1>1, <1>2, <2>1 DEF Locals
<1>4. /\ prod'[p].at = "recheck" /\ prod'[p].msg = prod[p].msg /\ prod'[p].sent = prod[p].sent
      /\ prod'[p].mytail = prod[p].mytail /\ prod'[p].mynext = n
      /\ \A q \in Producers : q # p => prod'[q] = prod[q]
  BY <1>2 DEF Good, MboxTypeOK
<1>5. /\ prod[p].at = "loadnext" /\ counter' \in Nat
      /\ UNCHANGED <<heap, fresh, freed, tail, counter, current, received>>
  BY DEF LoadNext, At, Good, MboxTypeOK
<1>6. SeenOK(c, v, p)'
  BY <1>4, <1>5 DEF Good, SeenOK, Looking, n
<1> QED BY <1>3, <1>4, <1>5, <1>6, LookStep DEF Sending

\* Recheck: what it decides on is what LoadNext has found, whether or not the tail moved.
LEMMA RecheckStep ==
  ASSUME NEW c, NEW v, NEW m, Good(c, v, m), NEW p \in Producers, Recheck(p)
  PROVE  Good(c, v, m)'
<1> DEFINE step == IF prod[p].mytail # tail          THEN "loadtail"
                   ELSE IF prod[p].mynext.ptr = NoAddr THEN "link" ELSE "help"
<1>1. step \in Steps /\ MboxTypeOK /\ Goto(p, step) /\ prod[p].at = "recheck"
  BY DEF Good, Recheck, At, Steps
<1>2. /\ Locals'
      /\ prod'[p].at = step /\ prod'[p].msg = prod[p].msg /\ prod'[p].sent = prod[p].sent
      /\ prod'[p].mytail = prod[p].mytail /\ prod'[p].mynext = prod[p].mynext
      /\ \A q \in Producers : q # p => prod'[q] = prod[q]
  BY <1>1, GotoFacts
<1>3. UNCHANGED <<heap, fresh, freed, tail, counter, current, received>> /\ counter' \in Nat
  BY DEF Recheck, Good, MboxTypeOK
<1>4. SeenOK(c, v, p)'
  BY <1>1, <1>2, <1>3 DEF Good, SeenOK, Looking
<1> QED BY <1>1, <1>2, <1>3, <1>4, LookStep DEF Sending

\* ClearNext: the message is in nobody's way yet.
LEMMA ClearNextStep ==
  ASSUME NEW c, NEW v, NEW m, Good(c, v, m), NEW p \in Producers, ClearNext(p)
  PROVE  Good(c, v, m)'
<1> DEFINE own == prod[p].msg
<1>0. own \in Addrs /\ own \notin freed /\ (\A i \in v : c[i] # own)
  BY DEF Good, OwnOK, Unlinked, Sending, ClearNext, At
<1> HIDE DEF own
<1>1. heap' = [heap EXCEPT ![own].nextmsg = Link(NoAddr, 5555)]
  BY DEF ClearNext, own
<1>2. /\ heap' \in [Addrs -> [msg : Messages \cup {NoMsg}, nextmsg : Links]]
      /\ \A a \in Addrs : heap'[a].msg = heap[a].msg
      /\ \A a \in Addrs : a # own => heap'[a] = heap[a]
      /\ heap'[own].nextmsg.ptr = NoAddr
  BY <1>0, <1>1 DEF Good, MboxTypeOK, Link, Links
<1>3. "loadtail" \in Steps /\ MboxTypeOK /\ Goto(p, "loadtail")
  BY DEF Good, ClearNext, Steps
<1>4. /\ prod'[p].at = "loadtail" /\ prod'[p].msg = own /\ prod'[p].sent = prod[p].sent
      /\ Locals' /\ \A q \in Producers : q # p => prod'[q] = prod[q]
  BY <1>3, GotoFacts DEF own
<1>5. prod[p].at = "new" /\ UNCHANGED <<fresh, freed, tail, counter, current, received>>
  BY DEF ClearNext, At
<1>6. MboxTypeOK'
  BY <1>2, <1>4, <1>5 DEF Good, MboxTypeOK, Locals
<1>7. \A i \in v : c[i] \in Addrs /\ heap'[c[i]] = heap[c[i]]
  BY <1>0, <1>2, ChainFacts
<1>8. ChainOK(c, v)' /\ ContentOK(c, m)' /\ TailOK(c, v)'
  <2>1. TailOK(c, v)'
    BY <1>5 DEF Good, TailOK
  <2>2. c \in Seq(Addrs \ fresh') /\ \A i \in (Len(received) + 1)..Len(c) : i \in v
    BY <1>5 DEF Good, ChainOK
  <2>3. v \in SUBSET v /\ freed' \subseteq freed /\ received' = received /\ current' = current
    BY <1>5
  <2>4. ChainOK(c, v)' /\ ContentOK(c, m)'
    BY <1>7, <2>2, <2>3, ChainFrame
  <2> QED BY <2>1, <2>4
<1>9. \A q \in Producers : /\ prod'[q].msg = prod[q].msg /\ prod'[q].sent = prod[q].sent
                           /\ Unlinked(q)' = Unlinked(q) /\ Put(q)' = Put(q)
                           /\ prod'[q].at # "idle" => prod[q].at # "idle"
  BY <1>4, <1>5 DEF Unlinked, Sending, Put, own
<1>10. Apart'
  BY <1>9 DEF Good, Apart
<1>11. OnceEach(m)' /\ Counted(m)'
  BY <1>9, OnceFrame
<1>13. ASSUME NEW q \in Producers PROVE OwnOK(c, v, q)'
  <2>1. CASE q = p
    <3>1. /\ OwnOK(c, v, p) /\ prod[p].at # "idle" /\ Unlinked(p) /\ prod[p].msg = own
      BY <1>5 DEF Good, Unlinked, Sending, own
    <3>2. own \in Addrs \ fresh /\ prod[p].sent >= 1 /\ heap[own].msg = <<p, prod[p].sent>>
      BY <3>1 DEF OwnOK
    <3> QED BY <2>1, <3>2, <1>0, <1>2, <1>4, <1>5 DEF OwnOK
  <2>2. CASE q # p
    <3>1. OwnOK(c, v, q) /\ prod'[q] = prod[q] /\ Unlinked(q)' = Unlinked(q)
      BY <2>2, <1>4, <1>9 DEF Good
    <3>2. Unlinked(q) => /\ prod[q].msg \in Addrs
                         /\ heap'[prod[q].msg].msg = heap[prod[q].msg].msg
                         /\ heap'[prod[q].msg].nextmsg.ptr \in {heap[prod[q].msg].nextmsg.ptr, NoAddr}
      BY <3>1, <1>2 DEF OwnOK, Unlinked, Sending
    <3> QED BY <3>1, <3>2, <1>5 DEF OwnOK
  <2> QED BY <2>1, <2>2
<1>14. ASSUME NEW q \in Producers PROVE SeenOK(c, v, q)'
  <2>1. CASE q = p
    BY <2>1, <1>4 DEF SeenOK, Looking
  <2>2. CASE q # p
    <3>1. SeenOK(c, v, q) /\ prod'[q] = prod[q]
      BY <2>2, <1>4 DEF Good
    <3>2. prod[q].at \in Looking => heap'[prod[q].mytail.ptr] = heap[prod[q].mytail.ptr]
      BY <3>1, <1>7 DEF SeenOK
    <3> QED BY <3>1, <3>2, <1>5 DEF SeenOK, Looking
  <2> QED BY <2>1, <2>2
<1> QED BY <1>6, <1>8, <1>10, <1>11, <1>13, <1>14 DEF Good

\* NewMessage: unused or deleted memory is neither waiting nor in anybody's hand, and when
\* nobody points to it the places where it was linked before are of no interest.
LEMMA NewMessageStep ==
  ASSUME NEW c, NEW v, NEW m, Good(c, v, m), NEW p \in Producers, NewMessage(p),
         prod'[p].msg \notin Referenced
  PROVE  \E w : Good(c, w, m)'
<1> DEFINE k == prod[p].sent + 1
<1>0. PICK a \in fresh \cup freed :
        /\ heap' = [heap EXCEPT ![a].msg = <<p, k>>]
        /\ fresh' = fresh \ {a} /\ freed' = freed \ {a}
        /\ prod' = [prod EXCEPT ![p].at = "new", ![p].msg = a, ![p].sent = @ + 1]
  BY MboxAssumption DEF NewMessage, Available
<1>1. /\ prod[p].at = "idle" /\ k \in 1..MaxMsgs /\ a \in Addrs
      /\ UNCHANGED <<tail, counter, current, received>>
  BY <1>0, MboxAssumption DEF NewMessage, At, Good, MboxTypeOK
<1>2. /\ heap' \in [Addrs -> [msg : Messages \cup {NoMsg}, nextmsg : Links]]
      /\ \A b \in Addrs : b # a => heap'[b] = heap[b]
      /\ heap'[a].msg = <<p, k>>
  BY <1>0, <1>1 DEF Good, MboxTypeOK, Messages
<1>3. /\ prod'[p].at = "new" /\ prod'[p].msg = a /\ prod'[p].sent = k
      /\ \A q \in Producers : q # p => prod'[q] = prod[q]
  BY <1>0 DEF Good, MboxTypeOK
<1>4. Locals'
  <2>1. prod[p].sent + 1 \in 0..MaxMsgs
    BY <1>1
  <2>2. Locals /\ "new" \in Steps
    BY DEF Good, MboxTypeOK, Locals, Steps
  <2> QED BY <1>0, <1>1, <2>1, <2>2 DEF Locals
<1>5. MboxTypeOK'
  <2>1. freed' \subseteq Addrs \ fresh' /\ fresh' \subseteq Addrs
    BY <1>0 DEF Good, MboxTypeOK
  <2>2. current' \in Addrs \ fresh'
    BY <1>0, <1>1 DEF Good, MboxTypeOK
  <2> QED BY <2>1, <2>2, <1>1, <1>2, <1>4 DEF Good, MboxTypeOK, Locals
<1>6. PICK w \in SUBSET v : \A i \in v : i \in w <=> c[i] # a
  <2>1. {i \in v : c[i] # a} \in SUBSET v
    OBVIOUS
  <2> QED BY <2>1
<1>7. /\ \A i \in w : i \in v /\ c[i] \in Addrs /\ heap'[c[i]] = heap[c[i]]
      /\ \A i \in v : c[i] \notin fresh
  BY <1>2, <1>6, ChainFacts
<1>8. a # tail.ptr /\ \A q \in Producers : prod[q].at \in Looking => prod[q].mytail.ptr # a
  BY <1>3 DEF Referenced, Looking
<1>9. ChainOK(c, w)' /\ ContentOK(c, m)' /\ TailOK(c, w)'
  <2>1. TailOK(c, w)'
    BY <1>1, <1>6, <1>8 DEF Good, TailOK
  <2>2. c \in Seq(Addrs \ fresh')
    <3>1. c \in Seq(Addrs \ fresh) /\ Addrs \ fresh \subseteq Addrs \ fresh'
      BY <1>0 DEF Good, ChainOK
    <3> QED BY <3>1
  <2>3. \A i \in (Len(received) + 1)..Len(c) : i \in w
    <3>1. \A i \in (Len(received) + 1)..Len(c) : i \in v /\ c[i] \notin freed
      BY DEF Good, ChainOK
    <3> QED BY <3>1, <1>0, <1>6, <1>7
  <2>4. freed' \subseteq freed /\ received' = received /\ current' = current
    BY <1>0, <1>1
  <2>5. ChainOK(c, w)' /\ ContentOK(c, m)'
    BY <1>7, <2>2, <2>3, <2>4, ChainFrame
  <2> QED BY <2>1, <2>5
<1>10. \A q \in Producers : /\ Put(q)' = Put(q)
                            /\ q # p => Unlinked(q)' = Unlinked(q)
  BY <1>1, <1>3 DEF Unlinked, Sending, Put, Good, MboxTypeOK
<1>11. \A q \in Producers : Unlinked(q) => prod[q].msg # a
  BY <1>0 DEF Good, OwnOK, Unlinked, Sending
<1>12. Apart'
  BY <1>3, <1>10, <1>11 DEF Good, Apart
<1>13. OnceEach(m)' /\ Counted(m)'
  BY <1>10, OnceFrame
<1>14. ASSUME NEW q \in Producers PROVE OwnOK(c, w, q)'
  <2>1. CASE q = p
    <3>1. a \in Addrs \ fresh' /\ a \notin freed' /\ \A i \in w : c[i] # a
      BY <1>0, <1>1, <1>6
    <3> QED BY <2>1, <3>1, <1>1, <1>2, <1>3 DEF OwnOK
  <2>2. CASE q # p
    <3>1. OwnOK(c, v, q) /\ prod'[q] = prod[q] /\ Unlinked(q)' = Unlinked(q)
      BY <2>2, <1>3, <1>10 DEF Good
    <3>2. Unlinked(q) => prod[q].msg \in Addrs /\ heap'[prod[q].msg] = heap[prod[q].msg]
      BY <3>1, <1>2, <1>11 DEF OwnOK, Unlinked, Sending
    <3>3. fresh' \subseteq fresh /\ freed' \subseteq freed
      BY <1>0
    <3> QED BY <3>1, <3>2, <3>3, <1>6 DEF OwnOK
  <2> QED BY <2>1, <2>2
<1>15. ASSUME NEW q \in Producers PROVE SeenOK(c, w, q)'
  <2>1. CASE q = p
    BY <2>1, <1>3 DEF SeenOK, Looking
  <2>2. CASE q # p
    <3>1. SeenOK(c, v, q) /\ prod'[q] = prod[q] /\ tail' = tail
      BY <2>2, <1>1, <1>3 DEF Good
    <3>2. ASSUME prod[q].at \in Looking
          PROVE  /\ \E i, t \in w : i <= t /\ prod[q].mytail.ptr = c[i] /\ tail.ptr = c[t]
                 /\ heap'[prod[q].mytail.ptr] = heap[prod[q].mytail.ptr]
      <4>1. PICK i \in v, t \in v : i <= t /\ prod[q].mytail.ptr = c[i] /\ tail.ptr = c[t]
        BY <3>1, <3>2 DEF SeenOK
      <4>2. i \in w /\ t \in w
        BY <4>1, <3>2, <1>6, <1>8
      <4> QED BY <4>1, <4>2, <1>7
    <3> QED BY <3>1, <3>2 DEF SeenOK, Looking
  <2> QED BY <2>1, <2>2
<1>16. Good(c, w, m)'
  BY <1>5, <1>9, <1>12, <1>13, <1>14, <1>15 DEF Good
<1> QED BY <1>16

\* Moving the tail from a message to the next keeps it near the end, and ahead of
\* every message that a producer has taken for the tail.
LEMMA MoveTailFacts ==
  ASSUME NEW c, NEW v, NEW m, Good(c, v, m), NEW p \in Producers, NEW to \in Addrs,
         MoveTail(p, to),
         prod[p].at \in {"help", "swing"}, to = heap[prod[p].mytail.ptr].nextmsg.ptr
  PROVE  /\ tail' \in Links /\ tail'.ptr # NoAddr /\ counter' \in Nat
         /\ TailOK(c, v)'
         /\ \A t \in v : tail.ptr = c[t] => \E u \in v : t <= u /\ tail'.ptr = c[u]
<1>0. /\ Len(c) \in Nat /\ Len(c) \in v /\ \A i \in v : i \in Nat /\ i <= Len(c)
      /\ \A i, j \in v : c[i] = c[j] => i = j
      /\ \A i \in v : i # Len(c) => heap[c[i]].nextmsg.ptr = c[i + 1]
      /\ heap[c[Len(c)]].nextmsg.ptr = NoAddr
  BY ChainFacts DEF Good, ChainOK
<1>1. counter' \in Nat /\ counter + 1 \in Nat
  BY DEF MoveTail, Good, MboxTypeOK
<1>2. CASE tail # prod[p].mytail
  <2>1. tail' = tail
    BY <1>2 DEF MoveTail
  <2>2. \A t \in v : t <= t
    BY <1>0
  <2> QED BY <2>1, <2>2, <1>1 DEF Good, MboxTypeOK, TailOK
<1>3. CASE tail = prod[p].mytail
  <2>1. tail' = Link(to, counter + 1)
    BY <1>3 DEF MoveTail
  <2>2. PICK t \in v : t + 1 >= Len(c) /\ tail.ptr = c[t]
    BY DEF Good, TailOK
  <2>3. t # Len(c)
    BY <1>0, <1>3, <2>2, MboxAssumption
  <2>4. t + 1 \in v /\ t + 1 = Len(c) /\ to = c[t + 1]
    BY <1>0, <1>3, <2>2, <2>3
  <2>5. tail'.ptr = c[t + 1]
    BY <2>1, <2>4 DEF Link
  <2>6. tail' \in Links /\ tail'.ptr # NoAddr
    BY <2>1, <1>1, MboxAssumption DEF Link, Links
  <2>7. TailOK(c, v)'
    <3>1. (t + 1) + 1 >= Len(c)
      BY <1>0, <2>4
    <3> QED BY <2>4, <2>5, <3>1 DEF TailOK
  <2>8. ASSUME NEW s \in v, tail.ptr = c[s] PROVE s <= t + 1
    BY <2>2, <2>8, <1>0
  <2> QED BY <2>4, <2>5, <2>6, <2>7, <2>8, <1>1
<1> QED BY <1>2, <1>3

\* A step that moves the tail and ends p's turn of the loop, or p's sendMsg.
LEMMA TailStep ==
  ASSUME NEW c, NEW v, NEW m, Good(c, v, m), NEW p \in Producers, NEW to \in Addrs,
         MoveTail(p, to),
         prod[p].at \in {"help", "swing"}, to = heap[prod[p].mytail.ptr].nextmsg.ptr,
         Goto(p, IF prod[p].at = "help" THEN "loadtail" ELSE "idle")
  PROVE  Good(c, v, m)'
<1>1. MboxTypeOK /\ (IF prod[p].at = "help" THEN "loadtail" ELSE "idle") \in Steps
  BY DEF Good, Steps
<1>2. /\ prod'[p].at = IF prod[p].at = "help" THEN "loadtail" ELSE "idle"
      /\ prod'[p].msg = prod[p].msg /\ prod'[p].sent = prod[p].sent
      /\ Locals' /\ \A q \in Producers : q # p => prod'[q] = prod[q]
  BY <1>1, GotoFacts
<1>3. heap' = heap /\ fresh' = fresh /\ freed' = freed /\ current' = current /\ received' = received
  BY DEF MoveTail
<1>4. /\ tail' \in Links /\ tail'.ptr # NoAddr /\ counter' \in Nat
      /\ TailOK(c, v)'
      /\ \A t \in v : tail.ptr = c[t] => \E u \in v : t <= u /\ tail'.ptr = c[u]
  BY MoveTailFacts
<1>5. MboxTypeOK'
  BY <1>2, <1>3, <1>4 DEF Good, MboxTypeOK, Locals
<1>6. ChainOK(c, v)' /\ ContentOK(c, m)'
  BY <1>3 DEF Good, ChainOK, ContentOK
<1>7. \A q \in Producers : /\ prod'[q].msg = prod[q].msg /\ prod'[q].sent = prod[q].sent
                           /\ Unlinked(q)' = Unlinked(q) /\ Put(q)' = Put(q)
                           /\ prod'[q].at # "idle" => prod[q].at # "idle"
                           /\ prod'[q].at = "new" <=> prod[q].at = "new"
  BY <1>2 DEF Unlinked, Sending, Put
<1>8. Apart'
  BY <1>7 DEF Good, Apart
<1>9. OnceEach(m)' /\ Counted(m)'
  BY <1>7, OnceFrame
<1>11. ASSUME NEW q \in Producers PROVE OwnOK(c, v, q)'
  BY <1>3, <1>7 DEF Good, OwnOK
<1>12. ASSUME NEW q \in Producers PROVE SeenOK(c, v, q)'
  <2>1. CASE q = p
    BY <2>1, <1>2 DEF SeenOK, Looking
  <2>2. CASE q # p
    <3>1. SeenOK(c, v, q) /\ prod'[q] = prod[q] /\ \A i \in v : i \in Nat
      BY <2>2, <1>2, ChainFacts DEF Good
    <3>2. prod[q].at \in Looking =>
            \E i, u \in v : i <= u /\ prod[q].mytail.ptr = c[i] /\ tail'.ptr = c[u]
      BY <3>1, <1>4 DEF SeenOK
    <3> QED BY <3>1, <3>2, <1>3 DEF SeenOK
  <2> QED BY <2>1, <2>2
<1> QED BY <1>4, <1>5, <1>6, <1>8, <1>9, <1>11, <1>12 DEF Good

\* HelpTail: mynext is the message after mytail.
LEMMA HelpTailStep ==
  ASSUME NEW c, NEW v, NEW m, Good(c, v, m), NEW p \in Producers, HelpTail(p)
  PROVE  Good(c, v, m)'
<1>1. prod[p].at = "help" /\ prod[p].mynext.ptr = heap[prod[p].mytail.ptr].nextmsg.ptr
  BY DEF HelpTail, At, Good, SeenOK
<1>2. prod[p].mynext.ptr \in Addrs
  BY <1>1 DEF Good, SeenOK, MboxTypeOK, Links
<1> QED BY <1>1, <1>2, TailStep DEF HelpTail

\* SwingTail: the message p has linked is the one after mytail.
LEMMA SwingTailStep ==
  ASSUME NEW c, NEW v, NEW m, Good(c, v, m), NEW p \in Producers, SwingTail(p)
  PROVE  Good(c, v, m)'
<1>1. /\ prod[p].at = "swing" /\ prod[p].msg = heap[prod[p].mytail.ptr].nextmsg.ptr
      /\ prod[p].msg \in Addrs
  BY DEF SwingTail, At, Good, SeenOK, OwnOK
<1> QED BY <1>1, TailStep DEF SwingTail

\* Receive: current moves on by one, and that message is added to received.
LEMMA ReceiveStep ==
  ASSUME NEW c, NEW v, NEW m, Good(c, v, m), Receive
  PROVE  Good(c, v, m)'
<1> DEFINE r == Len(received) + 1
           next == m[r + 1]
<1>1. /\ UNCHANGED <<heap, fresh, tail, counter, prod>>
      /\ freed' = freed \cup {current} /\ heap[current].nextmsg.ptr # NoAddr
      /\ current' = heap[current].nextmsg.ptr
      /\ received' = Append(received, heap[heap[current].nextmsg.ptr].msg)
  BY DEF Receive
<1>2. r \in 1..Len(c) /\ Len(c) \in Nat /\ current = c[r] /\ r \in v /\ v \subseteq 1..Len(c)
  BY ChainFacts DEF Good, ChainOK
<1>3. r # Len(c)
  BY <1>1, <1>2 DEF Good, ChainOK
<1>4. r + 1 \in 1..Len(c) /\ heap[current].nextmsg.ptr = c[r + 1] /\ r + 1 \in 2..Len(m)
  BY <1>2, <1>3 DEF Good, ChainOK, ContentOK
<1>5. next \in Messages /\ heap[c[r + 1]].msg = next
  <2>1. r + 1 \in (Len(received) + 2)..Len(c)
    BY <1>2, <1>4
  <2> QED BY <1>4, <2>1 DEF Good, OnceEach, ContentOK
<1> HIDE DEF next
<1>6. received' = Append(received, next) /\ current' = c[r + 1]
  BY <1>1, <1>4, <1>5
<1>7. /\ received' \in Seq(Messages) /\ Len(received') = r
      /\ \A i \in 1..r : received'[i] = IF i = r THEN next ELSE received[i]
  BY <1>5, <1>6 DEF Good, MboxTypeOK
<1>8. c[r + 1] \in Addrs \ fresh
  BY <1>4 DEF Good, ChainOK
<1>9. MboxTypeOK'
  BY <1>1, <1>6, <1>7, <1>8 DEF Good, MboxTypeOK
<1>10. ChainOK(c, v)'
  <2>1. \A i \in (r + 1)..Len(c) : i \in v /\ c[i] \notin freed'
    <3>1. \A i \in (r + 1)..Len(c) : i # r /\ i \in r..Len(c)
      BY <1>2
    <3>2. \A i \in r..Len(c) : i \in v /\ c[i] \notin freed
      BY DEF Good, ChainOK
    <3>3. \A i \in v : c[i] = c[r] => i = r
      BY <1>2 DEF Good, ChainOK
    <3> QED BY <3>1, <3>2, <3>3, <1>1, <1>2
  <2> QED BY <2>1, <1>1, <1>2, <1>4, <1>6, <1>7 DEF Good, ChainOK
<1>11. ContentOK(c, m)'
  <2>1. \A i \in 1..r : received'[i] = m[i + 1]
    <3>1. \A i \in 1..r : i # r => i \in 1..Len(received)
      BY <1>2, ChainFacts
    <3> QED BY <3>1, <1>7 DEF Good, ContentOK, next
  <2>2. \A i \in (r + 2)..Len(c) : i \in (Len(received) + 2)..Len(c)
    BY <1>2, ChainFacts
  <2> QED BY <2>1, <2>2, <1>1, <1>7 DEF Good, ContentOK
<1>12. heap' = heap /\ prod' = prod /\ tail' = tail /\ fresh' = fresh
  BY <1>1
<1>13. \A q : Put(q)' = Put(q) /\ Unlinked(q)' = Unlinked(q)
  BY <1>12 DEF Put, Unlinked
<1>14. TailOK(c, v)' /\ Apart' /\ OnceEach(m)' /\ Counted(m)'
  BY <1>12, <1>13, OnceFrame DEF Good, TailOK, Apart
<1>15. \A q \in Producers : OwnOK(c, v, q)' /\ SeenOK(c, v, q)'
  <2>1. \A q \in Producers : OwnOK(c, v, q) /\ SeenOK(c, v, q)
    BY DEF Good
  <2>2. \A q \in Producers : Unlinked(q) => prod[q].msg \notin freed'
    BY <2>1, <1>1, <1>2 DEF OwnOK
  <2> QED BY <2>1, <2>2, <1>12, <1>13 DEF OwnOK, SeenOK
<1> QED BY <1>9, <1>10, <1>11, <1>14, <1>15 DEF Good

\* LinkMessage when the compare and exchange fails: p starts over.
LEMMA LinkFailsStep ==
  ASSUME NEW c, NEW v, NEW m, Good(c, v, m), NEW p \in Producers, LinkMessage(p),
         heap[prod[p].mytail.ptr].nextmsg # prod[p].mynext
  PROVE  Good(c, v, m)'
<1>1. /\ Goto(p, "loadtail") /\ prod[p].at = "link"
      /\ UNCHANGED <<heap, fresh, freed, tail, current, received>>
      /\ counter' = counter + 1
  BY DEF LinkMessage, At
<1>2. "loadtail" \in Steps /\ MboxTypeOK /\ counter' \in Nat
  BY <1>1 DEF Good, MboxTypeOK, Steps
<1>3. /\ prod'[p].at = "loadtail" /\ prod'[p].msg = prod[p].msg /\ prod'[p].sent = prod[p].sent
      /\ Locals' /\ \A q \in Producers : q # p => prod'[q] = prod[q]
  BY <1>1, <1>2, GotoFacts
<1>4. SeenOK(c, v, p)'
  BY <1>3 DEF SeenOK, Looking
<1> QED BY <1>1, <1>2, <1>3, <1>4, LookStep DEF Sending

\* LinkMessage when it succeeds: mytail is the end of the queue, and so is the tail, and
\* p's message comes after it.
LEMMA LinkStep ==
  ASSUME NEW c, NEW v, NEW m, Good(c, v, m), NEW p \in Producers, LinkMessage(p),
         heap[prod[p].mytail.ptr].nextmsg = prod[p].mynext,
         NEW d, d = Append(c, prod[p].msg),
         NEW w, w = v \cup {Len(c) + 1},
         NEW n \in {Append(m, <<p, Put(p) + 1>>)}
  PROVE  Good(d, w, n)' /\ Put(p) < MaxMsgs /\ received' = received
<1> DEFINE L == Len(c)
           own == prod[p].msg
           a == prod[p].mytail.ptr
           x == <<p, Put(p) + 1>>
<1>1. /\ prod[p].at = "link" /\ counter' = counter + 1
      /\ heap' = [heap EXCEPT ![a].nextmsg = Link(own, counter + 1)]
      /\ Goto(p, "swing")
      /\ UNCHANGED <<fresh, freed, tail, current, received>>
  BY DEF LinkMessage, At
<1>2. /\ L \in Nat /\ L # 0 /\ c \in Seq(Addrs \ fresh) /\ L \in v /\ v \subseteq 1..L
      /\ \A i \in v : c[i] \in Addrs \ fresh
      /\ \A i, j \in v : c[i] = c[j] => i = j
      /\ \A i \in v : i # L => heap[c[i]].nextmsg.ptr = c[i + 1]
      /\ heap[c[L]].nextmsg.ptr = NoAddr
  BY ChainFacts DEF Good, ChainOK
<1>3. /\ own \in Addrs \ fresh /\ heap[own].msg = <<p, prod[p].sent>> /\ prod[p].sent >= 1
      /\ heap[own].nextmsg.ptr = NoAddr /\ own \notin freed
      /\ \A i \in v : c[i] # own
  BY <1>1 DEF Good, OwnOK, Unlinked, Sending
<1>4. a = c[L] /\ tail.ptr = c[L] /\ heap[a].nextmsg.ptr = NoAddr
  <2>1. PICK i \in v, t \in v : i <= t /\ a = c[i] /\ tail.ptr = c[t]
    BY <1>1 DEF Good, SeenOK, Looking
  <2>2. heap[a].nextmsg.ptr = NoAddr
    BY <1>1 DEF Good, SeenOK
  <2>3. i = L
    <3> SUFFICES ASSUME i # L PROVE FALSE
      OBVIOUS
    <3>1. i + 1 \in 1..L
      BY <1>2
    <3>2. c[i + 1] = NoAddr
      BY <2>1, <2>2, <1>2
    <3>3. c[i + 1] \in Addrs
      BY <3>1, <1>2
    <3> QED BY <3>2, <3>3, MboxAssumption
  <2> QED BY <2>1, <2>2, <2>3, <1>2
<1>5. a \in Addrs /\ a # own
  BY <1>2, <1>3, <1>4
<1>6. /\ Put(p) = prod[p].sent - 1 /\ prod[p].sent \in 1..MaxMsgs /\ p \in Producers
      /\ prod[p].sent = Put(p) + 1 /\ Put(p) < MaxMsgs
  BY <1>1, <1>3, MboxAssumption DEF Put, Unlinked, Sending, Good, MboxTypeOK
<1>6a. x \in Messages /\ heap[own].msg = x /\ x[1] = p /\ x[2] = Put(p) + 1
  BY <1>3, <1>6 DEF Messages
<1> HIDE DEF L, own, a, x
<1>7. /\ heap' \in [Addrs -> [msg : Messages \cup {NoMsg}, nextmsg : Links]]
      /\ \A b \in Addrs : heap'[b].msg = heap[b].msg
      /\ \A b \in Addrs : b # a => heap'[b] = heap[b]
      /\ heap'[a].nextmsg.ptr = own
  <2>1. Link(own, counter + 1) \in Links /\ Link(own, counter + 1).ptr = own
    BY <1>3 DEF Link, Links, Good, MboxTypeOK
  <2> QED BY <2>1, <1>1, <1>5 DEF Good, MboxTypeOK
<1>8. "swing" \in Steps /\ MboxTypeOK
  BY DEF Good, Steps
<1>9. /\ prod'[p].at = "swing" /\ prod'[p].msg = own /\ prod'[p].sent = prod[p].sent
      /\ prod'[p].mytail = prod[p].mytail
      /\ Locals' /\ \A q \in Producers : q # p => prod'[q] = prod[q]
  BY <1>1, <1>8, GotoFacts DEF own
<1>10. /\ Len(d) = L + 1 /\ d \in Seq(Addrs \ fresh) /\ d[L + 1] = own
       /\ \A i \in 1..L : d[i] = c[i]
       /\ w = v \cup {L + 1} /\ L + 1 \notin v
  BY <1>2, <1>3 DEF own, L
<1>11. MboxTypeOK'
  BY <1>1, <1>7, <1>9 DEF Good, MboxTypeOK, Locals
<1>12. Len(received) \in Nat /\ Len(received) + 1 \in 1..L /\ current = c[Len(received) + 1]
  BY ChainFacts DEF Good, ChainOK, L
<1>13. ChainOK(d, w)'
  <2>1. \A i, j \in w : d[i] = d[j] => i = j
    <3>1. \A i \in v : d[i] = c[i] /\ d[i] # d[L + 1]
      BY <1>2, <1>3, <1>10
    <3> QED BY <3>1, <1>2, <1>10
  <2>2. ASSUME NEW i \in v PROVE heap'[d[i]].nextmsg.ptr = d[i + 1]
    <3>1. CASE i = L
      BY <3>1, <1>2, <1>4, <1>7, <1>10
    <3>2. CASE i # L
      <4>1. i \in 1..L /\ i + 1 \in 1..L /\ c[i] # a /\ c[i] \in Addrs
        BY <3>2, <1>2, <1>4
      <4> QED BY <3>2, <4>1, <1>2, <1>7, <1>10
    <3> QED BY <3>1, <3>2
  <2>3. heap'[d[L + 1]].nextmsg.ptr = NoAddr
    BY <1>3, <1>5, <1>7, <1>10
  <2>4. w \subseteq 1..(L + 1) /\ Len(received) + 1 \in 1..(L + 1)
    <3>1. L + 1 \in 1..(L + 1) /\ \A i \in 1..L : i \in 1..(L + 1)
      BY <1>2
    <3> QED BY <3>1, <1>2, <1>10, <1>12
  <2>5. current' = d[Len(received) + 1]
    BY <1>1, <1>10, <1>12
  <2>6. ASSUME NEW i \in (Len(received) + 1)..(L + 1) PROVE i \in w /\ d[i] \notin freed
    <3>1. CASE i = L + 1
      BY <3>1, <1>3, <1>10
    <3>2. CASE i # L + 1
      <4>1. i \in (Len(received) + 1)..L /\ i \in 1..L
        BY <3>2, <1>2, <1>12
      <4>2. i \in v /\ c[i] \notin freed
        BY <4>1 DEF Good, ChainOK, L
      <4> QED BY <4>1, <4>2, <1>10
    <3> QED BY <3>1, <3>2
  <2>7. received' = received /\ fresh' = fresh /\ freed' = freed
    BY <1>1
  <2>8. \A i \in w : i # L + 1 => i \in v
    BY <1>10
  <2> QED BY <2>1, <2>2, <2>3, <2>4, <2>5, <2>6, <2>7, <2>8, <1>10 DEF ChainOK
<1>14. /\ n \in Seq(Messages \cup {NoMsg}) /\ Len(n) = L + 1 /\ Len(m) = L /\ n[L + 1] = x
       /\ \A i \in 1..L : n[i] = m[i]
  <2>1. m \in Seq(Messages \cup {NoMsg}) /\ Len(m) = L
    BY DEF Good, ContentOK, L
  <2>2. n = Append(m, x) /\ x \in Messages \cup {NoMsg}
    BY <1>6a DEF x
  <2>3. PICK S : S = Messages \cup {NoMsg}
    OBVIOUS
  <2> HIDE DEF x
  <2>4. /\ n \in Seq(S) /\ Len(n) = L + 1
        /\ \A i \in 1..(L + 1) : n[i] = IF i <= L THEN m[i] ELSE x
    <3>1. m \in Seq(S) /\ x \in S /\ n = Append(m, x)
      BY <2>1, <2>2, <2>3
    <3>2. /\ Append(m, x) \in Seq(S) /\ Len(Append(m, x)) = L + 1
          /\ \A i \in 1..(L + 1) : Append(m, x)[i] = IF i <= L THEN m[i] ELSE x
      BY <2>1, <3>1, AppendProperties
    <3> QED BY <3>1, <3>2
  <2>5. L + 1 \in 1..(L + 1) /\ ~(L + 1 <= L) /\ \A i \in 1..L : i \in 1..(L + 1) /\ i <= L
    BY <1>2
  <2> QED BY <2>1, <2>3, <2>4, <2>5
<1>15. ContentOK(d, n)'
  <2>1. ASSUME NEW i \in 1..Len(received) PROVE received[i] = n[i + 1]
    <3>1. i + 1 \in 1..L
      BY <1>2, <1>12
    <3> QED BY <3>1, <1>14 DEF Good, ContentOK
  <2>2. ASSUME NEW i \in (Len(received) + 2)..(L + 1) PROVE heap'[d[i]].msg = n[i]
    <3>1. CASE i = L + 1
      <4>1. heap'[own].msg = x
        BY <1>3, <1>6a, <1>7
      <4> QED BY <3>1, <4>1, <1>10, <1>14
    <3>2. CASE i # L + 1
      <4>1. /\ i \in (Len(received) + 2)..L /\ i \in 1..L
            /\ i \in (Len(received) + 1)..L
        <5>1. PICK R : R = Len(received)
          OBVIOUS
        <5>2. R \in Nat /\ L \in Nat /\ i \in Int /\ R + 2 <= i /\ i <= L + 1 /\ i # L + 1
          BY <3>2, <5>1, <1>2, <1>12
        <5>3. i \in (R + 2)..L /\ i \in 1..L /\ i \in (R + 1)..L
          BY <5>2
        <5> QED BY <5>1, <5>3
      <4>2. heap[c[i]].msg = m[i] /\ i \in v
        BY <4>1 DEF Good, ContentOK, ChainOK, L
      <4> QED BY <4>1, <4>2, <1>2, <1>7, <1>10, <1>14
    <3> QED BY <3>1, <3>2
  <2> QED BY <2>1, <2>2, <1>1, <1>10, <1>14 DEF ContentOK
<1>16. TailOK(d, w)'
  <2>1. L \in w /\ L + 1 >= Len(d) /\ d[L] = c[L]
    BY <1>2, <1>10
  <2> QED BY <2>1, <1>1, <1>4 DEF TailOK
<1>17. /\ ~Unlinked(p)' /\ Put(p)' = Put(p) + 1
       /\ \A q \in Producers : q # p => Unlinked(q)' = Unlinked(q) /\ Put(q)' = Put(q)
  BY <1>6, <1>9 DEF Unlinked, Sending, Put
<1>18. Apart'
  BY <1>9, <1>17 DEF Good, Apart
<1>19. \A i \in 2..L : /\ i \in 1..L /\ m[i] \in Messages /\ m[i][2] <= Put(m[i][1])
                       /\ m[i] # x
  <2>1. \A i \in 2..L : i \in 1..L /\ m[i] \in Messages /\ m[i][2] <= Put(m[i][1])
    BY <1>2, <1>14 DEF Good, OnceEach
  <2> QED BY <2>1, <1>6, <1>6a
<1>20. OnceEach(n)'
  <2>1. ASSUME NEW i \in 2..(L + 1)
        PROVE  n[i] \in Messages /\ n[i][2] <= Put(n[i][1])'
    <3>1. PICK y : y = n[i]
      OBVIOUS
    <3>2. y \in Messages /\ y[2] <= Put(y[1])'
      <4>1. CASE i = L + 1
        <5>1. y = x
          BY <3>1, <4>1, <1>14
        <5>2. Put(y[1])' = Put(p) + 1
          BY <5>1, <1>6a, <1>17
        <5> QED BY <5>1, <5>2, <1>6, <1>6a
      <4>2. CASE i # L + 1
        <5>1. i \in 2..L /\ i \in 1..L
          BY <4>2, <1>2
        <5>2. y \in Messages /\ y[2] <= Put(y[1])
          BY <3>1, <5>1, <1>14, <1>19
        <5>3. y[1] \in Producers /\ y[2] \in Nat
          BY <5>2, MboxAssumption DEF Messages
        <5>4. Put(y[1]) \in Int
          BY <5>3 DEF Put, Good, MboxTypeOK
        <5>5. Put(y[1])' = Put(y[1]) \/ Put(y[1])' = Put(y[1]) + 1
          BY <5>3, <1>17
        <5> QED BY <5>2, <5>3, <5>4, <5>5
      <4> QED BY <4>1, <4>2
    <3> QED BY <3>1, <3>2
  <2>2. ASSUME NEW i \in 2..(L + 1), NEW j \in 2..(L + 1), n[i] = n[j]
        PROVE  i = j
    <3>1. \A y, z \in 2..L : m[y] = m[z] => y = z
      BY <1>14 DEF Good, OnceEach
    <3>2. (i \in 2..L \/ i = L + 1) /\ (j \in 2..L \/ j = L + 1)
      BY <1>2
    <3>3. \A y \in 2..L : n[y] = m[y] /\ n[y] # n[L + 1]
      BY <1>14, <1>19
    <3> QED BY <3>1, <3>2, <3>3, <2>2
  <2>3. ASSUME NEW q \in Producers, NEW k \in 1..Put(q)'
        PROVE  \E i \in 2..(L + 1) : n[i] = <<q, k>>
    <3>1. CASE q = p /\ k = Put(p) + 1
      <4>1. L + 1 \in 2..(L + 1) /\ n[L + 1] = <<q, k>>
        BY <3>1, <1>2, <1>14 DEF x
      <4> QED BY <4>1
    <3>2. CASE ~(q = p /\ k = Put(p) + 1)
      <4>1. k \in 1..Put(q)
        BY <3>2, <1>6, <1>17
      <4>2. PICK i \in 2..L : m[i] = <<q, k>>
        BY <4>1, <1>14 DEF Good, OnceEach
      <4>3. i \in 2..(L + 1) /\ i \in 1..L
        BY <1>2
      <4> QED BY <4>2, <4>3, <1>14
    <3> QED BY <3>1, <3>2
  <2> QED BY <2>1, <2>2, <2>3, <1>14 DEF OnceEach
<1>21. Counted(n)'
  <2> SUFFICES ASSUME NEW q \in Producers PROVE Cardinality(Positions(n, q)) = Put(q)'
    BY DEF Counted, Positions
  <2>1. IsFiniteSet(Positions(m, q)) /\ L \notin Positions(m, q)
    <3>1. Positions(m, q) \subseteq 1..L
      BY <1>2, <1>14 DEF Positions
    <3>2. IsFiniteSet(1..L)
      <4>1. L \in Int /\ 1 \in Int
        BY <1>2
      <4> QED BY <4>1, FS_Interval
    <3>3. L \notin 1..(L - 1)
      BY <1>2
    <3> QED BY <3>1, <3>2, <3>3, <1>14, FS_Subset DEF Positions
  <2>2. Cardinality(Positions(m, q)) = Put(q)
    BY DEF Good, Counted
  <2>3. Positions(n, q) = {i \in 1..L : n[i + 1][1] = q}
    <3>1. Len(n) - 1 = L
      BY <1>2, <1>14
    <3> QED BY <3>1 DEF Positions
  <2>4. ASSUME NEW i \in 1..(L - 1) PROVE i \in 1..L /\ n[i + 1] = m[i + 1]
    <3>1. i + 1 \in 1..L /\ i \in 1..L
      BY <1>2
    <3> QED BY <3>1, <1>14
  <2>5. n[L + 1][1] = p
    BY <1>6a, <1>14
  <2>6. L \in 1..L /\ \A i \in 1..L : i = L \/ i \in 1..(L - 1)
    BY <1>2
  <2>7. Positions(m, q) = {i \in 1..(L - 1) : m[i + 1][1] = q}
    BY <1>14 DEF Positions
  <2>8. CASE q = p
    <3>1. Positions(n, q) = Positions(m, q) \cup {L}
      BY <2>3, <2>4, <2>5, <2>6, <2>7, <2>8
    <3> QED BY <3>1, <2>1, <2>2, <2>8, <1>17, FS_AddElement
  <2>9. CASE q # p
    <3>1. Positions(n, q) = Positions(m, q)
      BY <2>3, <2>4, <2>5, <2>6, <2>7, <2>9
    <3> QED BY <3>1, <2>2, <2>9, <1>17
  <2> QED BY <2>8, <2>9
<1>22. ASSUME NEW q \in Producers PROVE OwnOK(d, w, q)'
  <2>1. CASE q = p
    BY <2>1, <1>1, <1>3, <1>9, <1>17 DEF OwnOK
  <2>2. CASE q # p
    <3>1. /\ OwnOK(c, v, q) /\ prod'[q] = prod[q] /\ Unlinked(q)' = Unlinked(q)
          /\ Unlinked(q) => prod[q].msg # own
      BY <2>2, <1>1, <1>9, <1>17 DEF Good, Apart, Unlinked, Sending, own
    <3>2. Unlinked(q) => /\ prod[q].msg \in Addrs
                         /\ \A i \in w : d[i] # prod[q].msg
      BY <3>1, <1>2, <1>10 DEF OwnOK, Unlinked, Sending
    <3>3. Unlinked(q) => prod[q].msg # a
      BY <3>2, <1>2, <1>4, <1>10
    <3>4. Unlinked(q) => heap'[prod[q].msg] = heap[prod[q].msg]
      BY <3>2, <3>3, <1>7
    <3> QED BY <3>1, <3>2, <3>4, <1>1 DEF OwnOK
  <2> QED BY <2>1, <2>2
<1>23. ASSUME NEW q \in Producers PROVE SeenOK(d, w, q)'
  <2>1. tail' = tail /\ L \in w /\ L \in Nat /\ d[L] = c[L]
    BY <1>1, <1>2, <1>10
  <2>2. CASE q = p
    <3>1. prod'[p].mytail.ptr = d[L] /\ tail'.ptr = d[L] /\ heap'[prod'[p].mytail.ptr].nextmsg.ptr = own
      BY <2>1, <1>4, <1>7, <1>9 DEF a
    <3>2. \E i, t \in w : i <= t /\ prod'[p].mytail.ptr = d[i] /\ tail'.ptr = d[t]
      <4>1. L <= L
        BY <2>1
      <4> QED BY <3>1, <2>1, <4>1, Zenon
    <3> QED BY <3>1, <3>2, <2>2, <1>9 DEF SeenOK
  <2>3. CASE q # p
    <3>1. SeenOK(c, v, q) /\ OwnOK(c, v, q) /\ prod'[q] = prod[q]
      BY <2>3, <1>9 DEF Good
    <3>2. ASSUME prod[q].at \in Looking
          PROVE  /\ prod[q].mytail.ptr \in Addrs
                 /\ \E i, t \in w : i <= t /\ prod[q].mytail.ptr = d[i] /\ tail.ptr = d[t]
      <4>1. PICK i \in v, t \in v : i <= t /\ prod[q].mytail.ptr = c[i] /\ tail.ptr = c[t]
        BY <3>1, <3>2 DEF SeenOK
      <4>2. i \in w /\ t \in w /\ d[i] = c[i] /\ d[t] = c[t] /\ c[i] \in Addrs
        BY <1>2, <1>10
      <4> QED BY <4>1, <4>2
    <3>3. heap[prod[q].mytail.ptr].nextmsg.ptr # NoAddr /\ prod[q].mytail.ptr \in Addrs
            => heap'[prod[q].mytail.ptr] = heap[prod[q].mytail.ptr]
      BY <1>4, <1>7
    <3>4. prod[q].at = "swing" => prod[q].msg # NoAddr
      BY <3>1, MboxAssumption DEF OwnOK
    <3>5. prod[q].at \in Looking =>
            \E i, t \in w : i <= t /\ prod'[q].mytail.ptr = d[i] /\ tail'.ptr = d[t]
      <4> SUFFICES ASSUME prod[q].at \in Looking
                   PROVE  \E i, t \in w : i <= t /\ prod'[q].mytail.ptr = d[i] /\ tail'.ptr = d[t]
        OBVIOUS
      <4>1. PICK i \in w, t \in w : i <= t /\ prod[q].mytail.ptr = d[i] /\ tail.ptr = d[t]
        BY <3>2
      <4>2. prod'[q].mytail.ptr = d[i] /\ tail'.ptr = d[t]
        BY <4>1, <3>1, <2>1
      <4> QED BY <4>1, <4>2
    <3>6. prod[q].at \in {"recheck", "help"} /\ prod[q].mynext.ptr # NoAddr =>
            prod[q].mynext.ptr = heap'[prod[q].mytail.ptr].nextmsg.ptr
      BY <3>1, <3>2, <3>3 DEF SeenOK, Looking
    <3>7. prod[q].at = "swing" => prod[q].msg = heap'[prod[q].mytail.ptr].nextmsg.ptr
      BY <3>1, <3>2, <3>3, <3>4 DEF SeenOK, Looking
    <3> QED BY <3>1, <3>5, <3>6, <3>7 DEF SeenOK
  <2> QED BY <2>2, <2>3
<1>24. Good(d, w, n)'
  BY <1>11, <1>13, <1>15, <1>16, <1>18, <1>20, <1>21, <1>22, <1>23 DEF Good
<1> QED BY <1>1, <1>6, <1>24

\* MboxInit: only firstMsg is linked.
LEMMA InitGood ==
  ASSUME MboxInit
  PROVE  Good(<<First>>, {1}, <<NoMsg>>)
<1> DEFINE c == <<First>>
           m == <<NoMsg>>
           v == {1}
<1>1. MboxTypeOK
  BY MboxAssumption DEF MboxInit, MboxTypeOK, Link, Links, Steps
<1>2. /\ Len(c) = 1 /\ c[1] = First /\ c \in Seq(Addrs \ fresh) /\ v = {1}
      /\ Len(m) = 1 /\ m \in Seq(Messages \cup {NoMsg})
  BY MboxAssumption DEF MboxInit
<1> HIDE DEF c, m, v
<1>3. /\ heap[First].nextmsg.ptr = NoAddr /\ current = First /\ received = <<>> /\ tail.ptr = First
      /\ freed = {}
  BY MboxAssumption DEF MboxInit, Link
<1>4. \A p \in Producers : prod[p].at = "idle" /\ prod[p].sent = 0
  BY DEF MboxInit
<1>5. ChainOK(c, v) /\ ContentOK(c, m)
  BY <1>2, <1>3 DEF ChainOK, ContentOK
<1>6. TailOK(c, v)
  BY <1>2, <1>3 DEF TailOK
<1>7. Apart /\ \A p \in Producers : OwnOK(c, v, p) /\ SeenOK(c, v, p)
  BY <1>4 DEF Apart, OwnOK, SeenOK, Unlinked, Sending, Looking
<1>8. \A p \in Producers : Put(p) = 0 /\ Positions(m, p) = {}
  BY <1>2, <1>4 DEF Put, Unlinked, Sending, Positions
<1>9. OnceEach(m)
  BY <1>2, <1>8 DEF OnceEach
<1>10. Counted(m)
  BY <1>8, FS_EmptySet DEF Counted
<1> QED BY <1>1, <1>5, <1>6, <1>7, <1>9, <1>10 DEF Good, c, m, v

-----------------------------------------------------------------------------
(* What a step does to the queue.                                          *)

\* The step of p that adds to the queue.
Adds(p, m) == /\ received' = received /\ p \in Producers /\ Put(p) < MaxMsgs
              /\ \E d, w, n : n = Append(m, <<p, Put(p) + 1>>) /\ Good(d, w, n)'

\* Every step keeps the invariant, and the messages linked and received as well unless it
\* is Receive or the linking of a message.
LEMMA StepGood ==
  ASSUME NEW c, NEW v, NEW m, Good(c, v, m), [MboxNext]_mboxVars, [ReusesUnreferenced]_mboxVars
  PROVE  \/ (\E w : Good(c, w, m)') /\ received' = received
         \/ Good(c, v, m)' /\ Receive
         \/ \E p : Adds(p, m)
<1>1. ASSUME NEW p \in Producers, LinkMessage(p)
      PROVE  (Good(c, v, m)' /\ received' = received) \/ Adds(p, m)
  <2>1. PICK d, w, n : /\ d = Append(c, prod[p].msg) /\ w = v \cup {Len(c) + 1}
                       /\ n = Append(m, <<p, Put(p) + 1>>)
    OBVIOUS
  <2>2. CASE heap[prod[p].mytail.ptr].nextmsg = prod[p].mynext
    <3>1. Good(d, w, n)' /\ received' = received /\ Put(p) < MaxMsgs
      BY <1>1, <2>1, <2>2, LinkStep
    <3> QED BY <2>1, <3>1 DEF Adds
  <2>3. CASE heap[prod[p].mytail.ptr].nextmsg # prod[p].mynext
    BY <1>1, <2>3, LinkFailsStep DEF LinkMessage
  <2> QED BY <2>2, <2>3
<1>2. CASE Receive
  BY <1>2, ReceiveStep
<1>3. ASSUME NEW p \in Producers, NewMessage(p)
      PROVE  (\E w : Good(c, w, m)') /\ received' = received
  <2>1. prod' # prod
    <3>1. prod[p].at = "idle" /\ prod'[p].at = "new"
      BY <1>3 DEF NewMessage, At, Good, MboxTypeOK
    <3> QED BY <3>1
  <2>2. prod'[p].msg \notin Referenced
    BY <1>3, <2>1 DEF ReusesUnreferenced, mboxVars
  <2> QED BY <1>3, <2>2, NewMessageStep DEF NewMessage
<1>4. ASSUME NEW p \in Producers,
             ClearNext(p) \/ LoadTail(p) \/ LoadNext(p) \/ Recheck(p) \/ HelpTail(p) \/ SwingTail(p)
      PROVE  Good(c, v, m)' /\ received' = received
  <2>1. Good(c, v, m)'
    BY <1>4, ClearNextStep, LoadTailStep, LoadNextStep, RecheckStep, HelpTailStep, SwingTailStep
  <2> QED BY <1>4, <2>1 DEF ClearNext, LoadTail, LoadNext, Recheck, HelpTail, SwingTail, MoveTail
<1>5. CASE UNCHANGED mboxVars
  <2>1. /\ heap' = heap /\ fresh' = fresh /\ freed' = freed /\ tail' = tail /\ counter' = counter
        /\ current' = current /\ received' = received /\ prod' = prod
    BY <1>5 DEF mboxVars
  <2>2. MboxTypeOK' /\ ChainOK(c, v)' /\ ContentOK(c, m)' /\ TailOK(c, v)'
    BY <2>1 DEF Good, MboxTypeOK, ChainOK, ContentOK, TailOK
  <2>3. \A q : Put(q)' = Put(q) /\ Unlinked(q)' = Unlinked(q)
    BY <2>1 DEF Put, Unlinked
  <2>4. Apart' /\ OnceEach(m)' /\ Counted(m)'
    BY <2>1, <2>3, OnceFrame DEF Good, Apart
  <2>5. \A q \in Producers : OwnOK(c, v, q)' /\ SeenOK(c, v, q)'
    BY <2>1, <2>3 DEF Good, OwnOK, SeenOK
  <2> QED BY <2>1, <2>2, <2>4, <2>5 DEF Good
<1> QED BY <1>1, <1>2, <1>3, <1>4, <1>5 DEF MboxNext, SendMsg

\* The invariant holds throughout.
LEMMA Invariance ==
  MboxSpec /\ [][ReusesUnreferenced]_mboxVars => []IInv
<1>1. MboxInit => IInv
  BY InitGood DEF IInv
<1>2. IInv /\ [MboxNext]_mboxVars /\ [ReusesUnreferenced]_mboxVars => IInv'
  <2> SUFFICES ASSUME NEW c, NEW v, NEW m, Good(c, v, m),
                      [MboxNext]_mboxVars, [ReusesUnreferenced]_mboxVars
               PROVE  IInv'
    BY DEF IInv
  <2> QED BY StepGood DEF IInv, Adds
<1> QED BY <1>1, <1>2, PTL DEF MboxSpec

-----------------------------------------------------------------------------
(* What the properties of Mbox see of it.                                  *)

\* What is reached from current in at most n steps: the part of c from current on.
Reached(c, n) ==
  LET r == Len(received)
  IN  [i \in 1..(IF r + n < Len(c) THEN n + 1 ELSE Len(c) - r) |-> c[r + i]]

\* The step from one part to the next is the one ChainOf takes.
LEMMA ReachedUnfolds ==
  ASSUME NEW c, NEW v, NEW m, Good(c, v, m)
  PROVE  /\ Reached(c, 0) = <<current>>
         /\ \A n \in Nat :
              LET e    == Reached(c, n)
                  next == heap[e[Len(e)]].nextmsg.ptr
              IN  Reached(c, n + 1) = IF next = NoAddr THEN e ELSE Append(e, next)
<1> DEFINE R == Len(received)
           L == Len(c)
<1>1. /\ R \in Nat /\ L \in Nat /\ R + 1 <= L /\ current = c[R + 1]
      /\ \A i \in 1..L : c[i] \in Addrs
      /\ \A i \in (R + 1)..L : i # L => heap[c[i]].nextmsg.ptr = c[i + 1]
      /\ heap[c[L]].nextmsg.ptr = NoAddr
  BY ChainFacts DEF Good, ChainOK
<1>2. Reached(c, 0) = <<current>>
  <2>1. Reached(c, 0) = [i \in 1..1 |-> c[R + i]]
    BY <1>1 DEF Reached
  <2> QED BY <2>1, <1>1
<1>3. ASSUME NEW n \in Nat
      PROVE  LET e    == Reached(c, n)
                 next == heap[e[Len(e)]].nextmsg.ptr
             IN  Reached(c, n + 1) = IF next = NoAddr THEN e ELSE Append(e, next)
  <2> DEFINE K == IF R + n < L THEN n + 1 ELSE L - R
             e == Reached(c, n)
             next == heap[e[Len(e)]].nextmsg.ptr
  <2>1. K \in Nat /\ K >= 1 /\ R + K <= L
    BY <1>1
  <2>2. e = [i \in 1..K |-> c[R + i]]
    BY DEF Reached
  <2> HIDE DEF e, K
  <2>3. Len(e) = K /\ e[K] = c[R + K] /\ e \in Seq(Addrs)
    <3>1. \A i \in 1..K : R + i \in 1..L /\ K \in 1..K
      BY <2>1, <1>1
    <3>2. e \in [1..K -> Addrs]
      BY <2>2, <3>1, <1>1
    <3>3. e \in Seq(Addrs) /\ DOMAIN e = 1..K
      BY <2>1, <3>2, SeqDef
    <3>4. Len(e) = K
      BY <2>1, <3>3, LenProperties
    <3> QED BY <2>1, <2>2, <3>1, <3>3, <3>4
  <2>4. CASE R + K = L
    <3>1. next = NoAddr
      BY <2>3, <2>4, <1>1
    <3>2. Reached(c, n + 1) = [i \in 1..K |-> c[R + i]]
      BY <2>4, <1>1 DEF Reached, K
    <3> QED BY <3>1, <3>2, <2>2 DEF e
  <2>5. CASE R + K # L
    <3>1. K = n + 1 /\ R + K \in (R + 1)..L /\ R + K + 1 \in 1..L
      BY <2>1, <2>5, <1>1 DEF K
    <3>2. next = c[R + K + 1] /\ next \in Addrs
      BY <2>3, <3>1, <1>1
    <3>3. Reached(c, n + 1) = [i \in 1..(K + 1) |-> c[R + i]]
      BY <3>1, <2>1, <1>1 DEF Reached
    <3> HIDE DEF next
    <3>4. Append(e, next) = [i \in 1..(K + 1) |-> IF i = K + 1 THEN next ELSE e[i]]
      BY <2>1, <2>3, <3>2, AppendProperties, SeqDef
    <3>5. \A i \in 1..(K + 1) : c[R + i] = IF i = K + 1 THEN next ELSE e[i]
      <4>1. \A i \in 1..(K + 1) : i = K + 1 \/ i \in 1..K
        BY <2>1
      <4>2. R + (K + 1) = R + K + 1 /\ K + 1 \notin 1..K
        BY <2>1, <1>1
      <4> QED BY <4>1, <4>2, <2>2, <3>2
    <3>6. Reached(c, n + 1) = Append(e, next)
      BY <3>3, <3>4, <3>5
    <3> QED BY <3>2, <3>6, MboxAssumption DEF e, next
  <2> QED BY <2>4, <2>5 DEF e
<1> QED BY <1>2, <1>3

\* ChainOf is well defined, and is what the invariant says.
LEMMA ChainOfIs ==
  ASSUME NEW c, NEW v, NEW m, Good(c, v, m)
  PROVE  \A n \in Nat : ChainOf[n] = Reached(c, n)
<1> DEFINE Body(f, n) ==
             IF n = 0 THEN <<current>>
             ELSE LET e    == f[n - 1]
                      next == heap[e[Len(e)]].nextmsg.ptr
                  IN  IF next = NoAddr THEN e ELSE Append(e, next)
           F == [n \in Nat |-> Reached(c, n)]
<1>1. \A n \in Nat : F[n] = Body(F, n)
  <2>1. F[0] = Body(F, 0)
    BY ReachedUnfolds
  <2>2. ASSUME NEW n \in Nat, n # 0 PROVE F[n] = Body(F, n)
    <3>1. n - 1 \in Nat /\ (n - 1) + 1 = n
      BY <2>2
    <3>2. F[n - 1] = Reached(c, n - 1) /\ F[n] = Reached(c, n)
      BY <3>1
    <3>3. LET e    == Reached(c, n - 1)
              next == heap[e[Len(e)]].nextmsg.ptr
          IN  Reached(c, (n - 1) + 1) = IF next = NoAddr THEN e ELSE Append(e, next)
      BY <3>1, ReachedUnfolds
    <3> HIDE DEF F
    <3> QED BY <2>2, <3>1, <3>2, <3>3
  <2> QED BY <2>1, <2>2
<1>2. F = [n \in Nat |-> Body(F, n)]
  BY <1>1
<1>3. \E f : f = [n \in Nat |-> Body(f, n)]
  BY <1>2
<1>4. ChainOf = [n \in Nat |-> Body(ChainOf, n)]
  BY <1>3, Zenon DEF ChainOf
<1>5. ChainOf[0] = <<current>>
  BY <1>4
<1>6. ASSUME NEW n \in Nat
      PROVE  LET e    == ChainOf[n]
                 next == heap[e[Len(e)]].nextmsg.ptr
             IN  ChainOf[n + 1] = IF next = NoAddr THEN e ELSE Append(e, next)
  <2>1. n + 1 \in Nat /\ n + 1 # 0 /\ (n + 1) - 1 = n
    OBVIOUS
  <2> QED BY <1>4, <2>1
<1> DEFINE P == {n \in Nat : ChainOf[n] = Reached(c, n)}
<1>7. 0 \in P
  BY <1>5, ReachedUnfolds
<1>8. ASSUME NEW n \in P PROVE n + 1 \in P
  <2>1. n \in Nat /\ ChainOf[n] = Reached(c, n)
    OBVIOUS
  <2>2. ChainOf[n + 1] = Reached(c, n + 1)
    BY <2>1, <1>6, ReachedUnfolds
  <2> QED BY <2>1, <2>2
<1>9. \A n \in Nat : n \in P
  <2>1. P \in SUBSET Nat
    OBVIOUS
  <2> HIDE DEF P
  <2> QED BY <2>1, <1>7, <1>8, SetInduction
<1> QED BY <1>9

\* The messages in the queue: those linked after current.
Rest(m) == [i \in 1..(Len(m) - Len(received) - 1) |-> m[Len(received) + 1 + i]]

\* All of them, those received included.
Linked(m) == [i \in 1..(Len(m) - 1) |-> m[i + 1]]

\* What waits fits into memory, so Chain gets to its end.
LEMMA ChainIs ==
  ASSUME NEW c, NEW v, NEW m, Good(c, v, m)
  PROVE  /\ Len(Chain) = Len(c) - Len(received)
         /\ \A i \in 1..(Len(c) - Len(received)) : Chain[i] = c[Len(received) + i]
<1> DEFINE R == Len(received)
           L == Len(c)
           N == Cardinality(Addrs)
<1>1. /\ R \in Nat /\ L \in Nat /\ R + 1 <= L /\ c \in [1..L -> Addrs]
      /\ \A i, j \in (R + 1)..L : c[i] = c[j] => i = j
  BY ChainFacts DEF Good, ChainOK
<1>2. N \in Nat
  BY MboxAssumption, FS_CardinalityType
<1>3. IsFiniteSet((R + 1)..L) /\ Cardinality((R + 1)..L) = L - R
  <2>1. R + 1 \in Int /\ L \in Int /\ ~(R + 1 > L) /\ L - (R + 1) + 1 = L - R
    BY <1>1
  <2> QED BY <2>1, FS_Interval
<1>4. L - R <= N
  <2> SUFFICES ASSUME N < L - R PROVE FALSE
    BY <1>1, <1>2
  <2>1. PICK f : f = [i \in (R + 1)..L |-> c[i]]
    OBVIOUS
  <2>2. f \in [(R + 1)..L -> Addrs] /\ \A i \in (R + 1)..L : f[i] = c[i]
    <3>1. \A i \in (R + 1)..L : i \in 1..L
      BY <1>1
    <3> QED BY <2>1, <3>1, <1>1
  <2>3. \E x, y \in (R + 1)..L : x # y /\ f[x] = f[y]
    BY <1>3, <2>2, MboxAssumption, FS_PigeonHole
  <2> QED BY <1>1, <2>2, <2>3
<1>5. Chain = Reached(c, N)
  BY <1>2, ChainOfIs DEF Chain
<1> HIDE DEF N
<1>6. Reached(c, N) = [i \in 1..(L - R) |-> c[R + i]]
  <2>1. ~(R + N < L)
    BY <1>1, <1>2, <1>4
  <2> QED BY <2>1 DEF Reached
<1>7. Chain \in Seq(Addrs) /\ DOMAIN Chain = 1..(L - R)
  <2>1. L - R \in Nat /\ \A i \in 1..(L - R) : R + i \in 1..L
    BY <1>1
  <2>2. Chain \in [1..(L - R) -> Addrs]
    BY <1>1, <1>5, <1>6, <2>1
  <2> QED BY <2>1, <2>2, SeqDef
<1>8. Len(Chain) = L - R
  <2>1. Len(Chain) \in Nat /\ 1..Len(Chain) = 1..(L - R)
    BY <1>7, LenProperties
  <2>2. L - R \in Nat
    BY <1>1
  <2> QED BY <2>1, <2>2
<1> QED BY <1>5, <1>6, <1>8

\* Waiting is the rest of m.
RestWaits == \A c, v, m : Good(c, v, m) => Waiting = Rest(m)

\* Chain begins at current, which has been received already.
LEMMA WaitingIs ==
  RestWaits
<1> SUFFICES ASSUME NEW c, NEW v, NEW m, Good(c, v, m) PROVE Waiting = Rest(m)
  BY DEF RestWaits
<1>1. Len(c) \in Nat /\ Len(received) \in Nat /\ Len(received) + 1 <= Len(c) /\ Len(m) = Len(c)
  BY ChainFacts DEF Good, ContentOK
<1> DEFINE K == Len(c) - Len(received)
<1>2. K \in Nat /\ Len(c) - Len(received) - 1 = K - 1
  BY <1>1
<1>3. Waiting = [i \in 1..(K - 1) |-> heap[Chain[i + 1]].msg]
  BY ChainIs DEF Waiting
<1>4. ASSUME NEW i \in 1..(K - 1) PROVE heap[Chain[i + 1]].msg = m[Len(received) + 1 + i]
  <2>1. i + 1 \in 1..K /\ Len(received) + (i + 1) = Len(received) + 1 + i
    BY <1>1, <1>2
  <2>2. Chain[i + 1] = c[Len(received) + (i + 1)]
    BY <2>1, ChainIs
  <2>3. Len(received) + 1 + i \in (Len(received) + 2)..Len(c)
    BY <1>1, <1>2
  <2>4. heap[c[Len(received) + 1 + i]].msg = m[Len(received) + 1 + i]
    BY <2>3 DEF Good, ContentOK
  <2> QED BY <2>1, <2>2, <2>4
<1> QED BY <1>1, <1>2, <1>3, <1>4 DEF Rest

\* received and Rest together.
LEMMA LinkedIs ==
  \A c, v, m : Good(c, v, m) => received \o Rest(m) = Linked(m) /\ Rest(m) \in Seq(Messages)
<1> SUFFICES ASSUME NEW c, NEW v, NEW m, Good(c, v, m)
             PROVE  received \o Rest(m) = Linked(m) /\ Rest(m) \in Seq(Messages)
  OBVIOUS
<1> DEFINE R == Len(received)
           L == Len(m)
<1>1. /\ L \in Nat /\ R \in Nat /\ R + 1 <= L /\ received \in Seq(Messages)
      /\ \A i \in 1..R : received[i] = m[i + 1]
      /\ \A i \in 2..L : m[i] \in Messages
  <2>1. Len(c) \in Nat /\ R \in Nat /\ R + 1 <= Len(c) /\ received \in Seq(Messages)
    BY ChainFacts
  <2>2. Len(m) = Len(c) /\ \A i \in 1..R : received[i] = m[i + 1]
    BY DEF Good, ContentOK
  <2>3. \A i \in 2..L : m[i] \in Messages
    BY DEF Good, OnceEach
  <2> QED BY <2>1, <2>2, <2>3
<1>2. Rest(m) = [i \in 1..(L - R - 1) |-> m[R + 1 + i]]
  BY DEF Rest
<1>3. /\ Rest(m) \in Seq(Messages) /\ Len(Rest(m)) = L - R - 1
      /\ \A i \in 1..(L - R - 1) : Rest(m)[i] = m[R + 1 + i]
  <2>1. L - R - 1 \in Nat /\ \A i \in 1..(L - R - 1) : R + 1 + i \in 2..L
    BY <1>1
  <2>2. Rest(m) \in [1..(L - R - 1) -> Messages]
    BY <1>1, <1>2, <2>1
  <2>3. Rest(m) \in Seq(Messages) /\ DOMAIN Rest(m) = 1..(L - R - 1)
    BY <2>1, <2>2, SeqDef
  <2> QED BY <2>1, <2>3, <1>2, LenProperties
<1>4. /\ Len(received \o Rest(m)) = L - 1 /\ received \o Rest(m) \in Seq(Messages)
      /\ \A i \in 1..(L - 1) : (received \o Rest(m))[i] = IF i <= R THEN received[i] ELSE Rest(m)[i - R]
  BY <1>1, <1>3, ConcatProperties
<1>5. ASSUME NEW i \in 1..(L - 1) PROVE (received \o Rest(m))[i] = m[i + 1]
  <2>1. CASE i <= R
    BY <2>1, <1>1, <1>4
  <2>2. CASE ~(i <= R)
    <3>1. i - R \in 1..(L - R - 1) /\ R + 1 + (i - R) = i + 1
      BY <2>2, <1>1
    <3> QED BY <2>2, <3>1, <1>3, <1>4
  <2> QED BY <2>1, <2>2
<1>6. DOMAIN (received \o Rest(m)) = 1..(L - 1)
  BY <1>4, LenProperties
<1>7. received \o Rest(m) = [i \in 1..(L - 1) |-> (received \o Rest(m))[i]]
  BY <1>4, <1>6, LenProperties
<1> QED BY <1>3, <1>5, <1>7 DEF Linked

-----------------------------------------------------------------------------
(* The theorems.                                                           *)

\* The invariant says that what a producer has sent was linked once.
LEMMA SentOnce ==
  IInv => NoMessageLost
<1> SUFFICES ASSUME NEW c, NEW v, NEW m, Good(c, v, m), NEW p \in Producers, At(p, "idle"),
                    NEW k \in 1..prod[p].sent
             PROVE  LET all == received \o Waiting
                    IN  Cardinality({i \in DOMAIN all : all[i] = <<p, k>>}) = 1
  BY DEF IInv, NoMessageLost
<1> DEFINE S == {i \in 1..(Len(m) - 1) : m[i + 1] = <<p, k>>}
<1>1. received \o Waiting = Linked(m)
  BY WaitingIs, LinkedIs DEF RestWaits
<1>2. {i \in DOMAIN (received \o Waiting) : (received \o Waiting)[i] = <<p, k>>} = S
  BY <1>1 DEF Linked
<1>3. Len(m) \in Nat /\ Put(p) = prod[p].sent
  BY ChainFacts DEF At, Put, Unlinked, Sending, Good, ContentOK
<1>4. PICK j \in 2..Len(m) : m[j] = <<p, k>>
  BY <1>3 DEF Good, OnceEach
<1>5. j - 1 \in 1..(Len(m) - 1) /\ (j - 1) + 1 = j
  BY <1>3
<1>6. ASSUME NEW i \in S PROVE i = j - 1
  <2>1. i + 1 \in 2..Len(m) /\ m[i + 1] = <<p, k>>
    BY <1>3
  <2>2. i + 1 = j
    BY <2>1, <1>4 DEF Good, OnceEach
  <2> QED BY <2>1, <2>2, <1>3
<1>7. S = {j - 1}
  <2>1. j - 1 \in S
    BY <1>4, <1>5
  <2> QED BY <1>6, <2>1
<1> QED BY <1>2, <1>7, FS_Singleton

\* The invariant says where the tail is.
LEMMA TailNear ==
  IInv => MboxTypeOK /\ TailLagsByOne
<1> SUFFICES ASSUME NEW c, NEW v, NEW m, Good(c, v, m) PROVE MboxTypeOK /\ TailLagsByOne
  BY DEF IInv
<1>1. /\ Len(c) \in Nat /\ Len(received) \in Nat /\ Len(received) + 1 <= Len(c)
      /\ \A i \in v : i # Len(c) => heap[c[i]].nextmsg.ptr = c[i + 1]
      /\ \A i \in v : i \in 1..Len(c)
  BY ChainFacts DEF Good, ChainOK
<1>2. Chain[Len(Chain)] = c[Len(c)]
  <2>1. Len(c) - Len(received) \in 1..(Len(c) - Len(received))
    BY <1>1
  <2>2. Len(received) + (Len(c) - Len(received)) = Len(c)
    BY <1>1
  <2> QED BY <2>1, <2>2, ChainIs
<1>3. PICK t \in v : t + 1 >= Len(c) /\ tail.ptr = c[t]
  BY DEF Good, TailOK
<1>4. t = Len(c) \/ (t # Len(c) /\ t + 1 = Len(c))
  BY <1>1, <1>3
<1>5. TailLagsByOne
  BY <1>1, <1>2, <1>3, <1>4 DEF TailLagsByOne
<1> QED BY <1>5 DEF Good

\* What a producer has sent can be received or has been, once, when its sendMsg is over:
\* for any number of producers and messages, whatever deleted memory the allocator hands
\* out again, as long as it is none that the tail or a producer in its loop points to.
THEOREM NothingIsLost ==
  MboxSpec /\ [][ReusesUnreferenced]_mboxVars => []NoMessageLost
BY Invariance, SentOnce, PTL

\* The tail is the last message or the one before, also when that one has been deleted.
THEOREM TailStaysNear ==
  MboxSpec /\ [][ReusesUnreferenced]_mboxVars => [](MboxTypeOK /\ TailLagsByOne)
BY Invariance, TailNear, PTL

\* The number of p's messages that have been put is the number p has linked.
LEMMA PutByIs ==
  ASSUME NEW c, NEW v, NEW m, Good(c, v, m), NEW p \in Producers
  PROVE  Queue!PutBy(p) = Put(p)
<1>1. received \o Waiting = Linked(m)
  BY WaitingIs, LinkedIs DEF RestWaits
<1>2. {i \in DOMAIN (received \o Waiting) : (received \o Waiting)[i][1] = p} = Positions(m, p)
  BY <1>1 DEF Linked, Positions
<1>3. \A S : Queue!Cardinality(S) = Cardinality(S)
  BY DEF Queue!Cardinality, Cardinality, Queue!IsFiniteSet, IsFiniteSet
<1>4. Queue!PutBy(p) = Cardinality(Positions(m, p))
  BY <1>2, <1>3 DEF Queue!PutBy
<1> QED BY <1>4 DEF Good, Counted

\* What is known of Rest as a sequence.
LEMMA RestFacts ==
  ASSUME NEW c, NEW v, NEW m, Good(c, v, m)
  PROVE  /\ Len(m) \in Nat /\ Len(received) \in Nat /\ Len(received) + 1 <= Len(m)
         /\ m \in Seq(Messages \cup {NoMsg})
         /\ Rest(m) \in Seq(Messages) /\ Len(Rest(m)) = Len(m) - Len(received) - 1
         /\ \A i \in 1..(Len(m) - Len(received) - 1) : Rest(m)[i] = m[Len(received) + 1 + i]
<1>1. /\ Len(m) \in Nat /\ Len(received) \in Nat /\ Len(received) + 1 <= Len(m)
      /\ m \in Seq(Messages \cup {NoMsg})
  BY ChainFacts DEF Good, ContentOK
<1>2. /\ Rest(m) \in Seq(Messages) /\ DOMAIN Rest(m) = 1..(Len(m) - Len(received) - 1)
      /\ \A i \in 1..(Len(m) - Len(received) - 1) : Rest(m)[i] = m[Len(received) + 1 + i]
  BY LinkedIs DEF Rest
<1>3. Len(Rest(m)) \in Nat /\ 1..Len(Rest(m)) = 1..(Len(m) - Len(received) - 1)
  BY <1>2, LenProperties
<1>4. Len(m) - Len(received) - 1 \in Nat
  BY <1>1
<1> QED BY <1>1, <1>2, <1>3, <1>4

\* Linking a message is putting it at the end of the queue.
LEMMA AddsPuts ==
  ASSUME NEW c, NEW v, NEW m, Good(c, v, m), NEW p, Adds(p, m), RestWaits, RestWaits'
  PROVE  Queue!Put(p)
<1> DEFINE R == Len(received)
           L == Len(m)
           K == L - R - 1
           x == <<p, Put(p) + 1>>
<1>1. p \in Producers /\ Put(p) < MaxMsgs /\ received' = received
  BY DEF Adds
<1>2. PICK d, w, n : n \in {Append(m, x)} /\ Good(d, w, n)'
  BY DEF Adds
<1>3. x \in Messages
  <2>1. Put(p) \in Nat
    BY <1>1 DEF Put, Good, OwnOK, MboxTypeOK
  <2>2. Put(p) + 1 \in 1..MaxMsgs
    BY <2>1, <1>1, MboxAssumption
  <2> QED BY <2>2, <1>1 DEF Messages
<1> HIDE DEF x
<1>4. /\ L \in Nat /\ R \in Nat /\ R + 1 <= L /\ K \in Nat /\ m \in Seq(Messages \cup {NoMsg})
      /\ Rest(m) \in Seq(Messages) /\ Len(Rest(m)) = K
      /\ \A i \in 1..K : Rest(m)[i] = m[R + 1 + i]
  <2>1. L \in Nat /\ R \in Nat /\ R + 1 <= L /\ m \in Seq(Messages \cup {NoMsg})
    BY RestFacts
  <2>2. /\ Rest(m) \in Seq(Messages) /\ Len(Rest(m)) = L - R - 1
        /\ \A i \in 1..(L - R - 1) : Rest(m)[i] = m[R + 1 + i]
    BY RestFacts
  <2>3. L - R - 1 \in Nat
    BY <2>1
  <2> QED BY <2>1, <2>2, <2>3
<1>5. Waiting = Rest(m) /\ Waiting' = Rest(n)'
  BY <1>2 DEF RestWaits
<1>6. Len(n) = L + 1 /\ n[L + 1] = x /\ \A i \in 1..L : n[i] = m[i]
  <2>1. PICK S : S = Messages \cup {NoMsg}
    OBVIOUS
  <2>2. m \in Seq(S) /\ x \in S
    BY <2>1, <1>3, <1>4
  <2>3. /\ Len(Append(m, x)) = L + 1
        /\ \A i \in 1..(L + 1) : Append(m, x)[i] = IF i <= L THEN m[i] ELSE x
    BY <2>2, AppendProperties
  <2>4. L + 1 \in 1..(L + 1) /\ ~(L + 1 <= L) /\ \A i \in 1..L : i \in 1..(L + 1) /\ i <= L
    BY <1>4
  <2> QED BY <2>3, <2>4, <1>2
<1>7. Rest(n)' = [i \in 1..(K + 1) |-> n[R + 1 + i]]
  <2>1. Len(n) - Len(received') - 1 = K + 1
    BY <1>1, <1>4, <1>6
  <2> QED BY <2>1, <1>1 DEF Rest
<1>8. Append(Rest(m), x) = [i \in 1..(K + 1) |-> IF i <= K THEN Rest(m)[i] ELSE x]
  <2>1. /\ Append(Rest(m), x) \in Seq(Messages) /\ Len(Append(Rest(m), x)) = K + 1
        /\ \A i \in 1..(K + 1) : Append(Rest(m), x)[i] = IF i <= K THEN Rest(m)[i] ELSE x
    BY <1>3, <1>4, AppendProperties
  <2> QED BY <2>1, LenProperties
<1>9. ASSUME NEW i \in 1..(K + 1)
      PROVE  n[R + 1 + i] = IF i <= K THEN Rest(m)[i] ELSE x
  <2>1. CASE i = K + 1
    <3>1. R + 1 + i = L + 1 /\ ~(i <= K)
      BY <2>1, <1>4
    <3> QED BY <3>1, <1>6
  <2>2. CASE i # K + 1
    <3>1. /\ L \in Nat /\ R \in Nat /\ i \in Int /\ 1 <= i /\ i <= L - R - 1 + 1 /\ i # L - R - 1 + 1
          /\ K = L - R - 1
      BY <2>2, <1>4
    <3>2. PICK y, z : y = L /\ z = R
      OBVIOUS
    <3>3. z + 1 + i \in 1..y /\ i \in 1..(y - z - 1) /\ i <= y - z - 1
      BY <3>1, <3>2
    <3>4. R + 1 + i \in 1..L /\ i \in 1..K /\ i <= K
      BY <3>1, <3>2, <3>3
    <3> QED BY <3>4, <1>4, <1>6
  <2> QED BY <2>1, <2>2
<1>10. Waiting' = Append(Waiting, <<p, Put(p) + 1>>)
  BY <1>5, <1>7, <1>8, <1>9 DEF x
<1>11. Queue!PutBy(p) = Put(p)
  BY <1>1, PutByIs
<1> QED BY <1>1, <1>10, <1>11 DEF Queue!Put

\* Receiving is taking the first message of the queue.
LEMMA ReceiveTakes ==
  ASSUME NEW c, NEW v, NEW m, Good(c, v, m), Good(c, v, m)', Receive, RestWaits, RestWaits'
  PROVE  Queue!Take
<1> DEFINE R == Len(received)
           L == Len(m)
<1>1. /\ L \in Nat /\ R \in Nat /\ R + 1 <= L /\ received \in Seq(Messages) /\ L = Len(c)
      /\ current = c[R + 1] /\ heap[c[L]].nextmsg.ptr = NoAddr
      /\ \A i \in (R + 1)..L : i # L => heap[c[i]].nextmsg.ptr = c[i + 1]
      /\ \A i \in (R + 2)..L : heap[c[i]].msg = m[i]
  <2>1. /\ Len(c) \in Nat /\ R \in Nat /\ R + 1 <= Len(c) /\ received \in Seq(Messages)
        /\ current = c[R + 1]
    BY ChainFacts
  <2>2. Len(m) = Len(c) /\ \A i \in (R + 2)..Len(c) : heap[c[i]].msg = m[i]
    BY DEF Good, ContentOK
  <2>3. /\ heap[c[Len(c)]].nextmsg.ptr = NoAddr
        /\ \A i \in (R + 1)..Len(c) : i # Len(c) => heap[c[i]].nextmsg.ptr = c[i + 1]
    BY DEF Good, ChainOK
  <2> QED BY <2>1, <2>2, <2>3
<1>2. heap[current].nextmsg.ptr # NoAddr
  BY DEF Receive
<1>3. R + 1 # L
  BY <1>1, <1>2
<1>4. /\ heap[current].nextmsg.ptr = c[R + 1 + 1] /\ heap[c[R + 1 + 1]].msg = m[R + 1 + 1]
      /\ L - R - 1 \in Nat /\ L - R - 1 >= 1
  BY <1>1, <1>3
<1>5. Waiting = Rest(m) /\ Waiting' = Rest(m)'
  BY DEF RestWaits
<1>6. /\ Rest(m) \in Seq(Messages) /\ Len(Rest(m)) = L - R - 1
      /\ \A i \in 1..(L - R - 1) : Rest(m)[i] = m[R + 1 + i]
  BY RestFacts
<1>7. Rest(m) # <<>>
  BY <1>4, <1>6
<1>8. received' = Append(received, Head(Rest(m)))
  <2>1. Head(Rest(m)) = m[R + 1 + 1]
    BY <1>4, <1>6, <1>7
  <2> QED BY <2>1, <1>4 DEF Receive
<1>9. Len(received') = R + 1
  BY <1>1, <1>6, <1>7, <1>8
<1>10. Rest(m)' = [i \in 1..(L - R - 2) |-> m[R + 2 + i]]
  <2>1. Len(m) - Len(received') - 1 = L - R - 2 /\ Len(received') + 1 = R + 2
    BY <1>1, <1>9
  <2> QED BY <2>1 DEF Rest
<1>11. Tail(Rest(m)) = [i \in 1..(L - R - 2) |-> Rest(m)[i + 1]]
  <2>1. /\ Tail(Rest(m)) \in Seq(Messages) /\ Len(Tail(Rest(m))) = L - R - 2
        /\ \A i \in 1..Len(Tail(Rest(m))) : Tail(Rest(m))[i] = Rest(m)[i + 1]
    BY <1>1, <1>6, <1>7, HeadTailProperties
  <2> QED BY <2>1, LenProperties
<1>12. ASSUME NEW i \in 1..(L - R - 2) PROVE m[R + 2 + i] = Rest(m)[i + 1]
  <2>1. i + 1 \in 1..(L - R - 1) /\ R + 1 + (i + 1) = R + 2 + i
    BY <1>1
  <2> QED BY <2>1, <1>6
<1>13. Waiting' = Tail(Waiting)
  BY <1>5, <1>10, <1>11, <1>12
<1> QED BY <1>5, <1>7, <1>8, <1>13 DEF Queue!Take

\* The mailbox implements a FIFO queue into which each producer puts its messages in
\* order and once: for any number of producers and messages, however the accesses of
\* sendMsg and receive to shared memory interleave, and whatever deleted memory is handed
\* out again, as long as it is none that the tail or a producer in its loop points to.
THEOREM MailboxIsAFifo ==
  MboxSpec /\ [][ReusesUnreferenced]_mboxVars => ImplementsFifo
<1>1. MboxInit => Queue!Init
  <2> SUFFICES ASSUME MboxInit PROVE Waiting = <<>> /\ received = <<>>
    BY DEF Queue!Init
  <2>1. Good(<<First>>, {1}, <<NoMsg>>) /\ received = <<>>
    BY InitGood DEF MboxInit
  <2>2. Waiting = Rest(<<NoMsg>>)
    BY <2>1, WaitingIs DEF RestWaits
  <2>3. Len(<<NoMsg>>) - Len(received) - 1 = 0
    BY <2>1
  <2> QED BY <2>1, <2>2, <2>3 DEF Rest
<1>2. IInv /\ RestWaits /\ RestWaits' /\ [MboxNext]_mboxVars /\ [ReusesUnreferenced]_mboxVars
        => [Queue!Next]_(Queue!vars)
  <2> SUFFICES ASSUME NEW c, NEW v, NEW m, Good(c, v, m), RestWaits, RestWaits',
                      [MboxNext]_mboxVars, [ReusesUnreferenced]_mboxVars
               PROVE  [Queue!Next]_(Queue!vars)
    BY DEF IInv
  <2>1. ASSUME NEW w, Good(c, w, m)', received' = received
        PROVE  UNCHANGED Queue!vars
    <3>1. Waiting = Rest(m) /\ Waiting' = Rest(m)'
      BY <2>1 DEF RestWaits
    <3>2. Rest(m)' = Rest(m)
      BY <2>1 DEF Rest
    <3> QED BY <2>1, <3>1, <3>2 DEF Queue!vars
  <2>2. CASE Good(c, v, m)' /\ Receive
    BY <2>2, ReceiveTakes DEF Queue!Next
  <2>3. ASSUME NEW p, Adds(p, m) PROVE Queue!Next
    BY <2>3, AddsPuts DEF Queue!Next, Adds
  <2> QED BY <2>1, <2>2, <2>3, StepGood
<1> QED BY <1>1, <1>2, Invariance, WaitingIs, PTL DEF MboxSpec, ImplementsFifo, Queue!Spec
=============================================================================
