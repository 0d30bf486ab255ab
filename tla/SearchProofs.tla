---------------------------- MODULE SearchProofs ----------------------------
(***************************************************************************)
(* Proofs about Search: for any table, any spreading over the Engines, any *)
(* tree of AND and OR and whatever the other transaction locks meanwhile,  *)
(* what a statement finds is what its expression is true of, what it goes  *)
(* on to change it has locked, and what it has locked it gives back.       *)
(***************************************************************************)
EXTENDS Search, Integers, TLAPS, SequenceTheorems, FiniteSetTheorems, WellFoundedInduction

(***************************************************************************)
(* Expressions.                                                            *)
(***************************************************************************)

\* h counts the predicateResults that are on the stack after each node.
IsHeight(h, expr) ==
  /\ h \in [0 .. Len(expr) -> Nat]
  /\ h[0] = 0 /\ h[Len(expr)] = 1
  /\ \A i \in 1 .. Len(expr) :
       IF IsLeaf(expr[i]) THEN h[i] = h[i - 1] + 1
                          ELSE h[i - 1] >= 2 /\ h[i] = h[i - 1] - 1

\* The postfix form of a tree of AND, OR and predicates.
IsTree(expr) ==
  /\ expr \in Seq(Range(expr))
  /\ \E h : IsHeight(h, expr)

\* No AND lies in the right side of an OR: between an AND and a later OR the stack comes
\* down to the height of the OR's result, so that the AND is in its left side or before it.
AndsStayLeft(h, expr) ==
  \A i, j \in 1 .. Len(expr) :
    i < j /\ expr[i].op = "AND" /\ expr[j].op = "OR" => \E k \in i .. (j - 1) : h[k] <= h[j]
NoAndRightOfOr(expr) == \A h : IsHeight(h, expr) => AndsStayLeft(h, expr)

(***************************************************************************)
(* The cells of the table.                                                 *)
(***************************************************************************)

\* A row that nobody changes: its lock and its holders fit each other.
Quiet(c) ==
  /\ c \in Cell /\ c.lock \in LockTypes /\ c.flags = {} /\ c.shadow = NoVal
  /\ (c.lock = "READLOCK") <=> (c.readlockHolders # {})
  /\ (c.lock = "WRITELOCK") <=> (c.writelockHolder # NoSub)

LockedBy(c, s) == WriteLockedBy(c, s) \/ s \in c.readlockHolders

\* The same lock of s on both.
SameFor(c, d, s) == /\ WriteLockedBy(d, s) <=> WriteLockedBy(c, s)
                    /\ s \in d.readlockHolders <=> s \in c.readlockHolders

\* Table::selectrows on such a row locks it for s if it grants it and not otherwise,
\* and leaves the others' locks.
LEMMA SelectQuiet ==
  ASSUME NEW c, Quiet(c), NEW s \in Subs, NEW lt \in {"READLOCK", "WRITELOCK"},
         NEW d, d = SelectCell(c, s, lt), NEW reply, reply = SelectReply(c, s, lt)
  PROVE  /\ Quiet(d) /\ d.row = c.row
         /\ WriteLockedBy(c, s) => WriteLockedBy(d, s)
         /\ Granted(reply) /\ lt = "WRITELOCK" => WriteLockedBy(d, s)
         /\ LockedBy(d, s) => LockedBy(c, s) \/ Granted(reply)
         /\ \A u \in Subs : u # s => SameFor(c, d, u)
<1> USE DEF Quiet, Cell, LockTypes, WriteLockedBy, LockedBy, SameFor, Granted
<1>1. CASE lt = "READLOCK"
  <2>1. reply = CASE c.lock = "NOLOCK"    -> "READLOCK"
                  [] c.lock = "READLOCK"  -> IF s \in c.readlockHolders THEN "SKIP" ELSE "READLOCK"
                  [] c.lock = "WRITELOCK" -> IF c.writelockHolder = s THEN "SKIP" ELSE "PENDINGLOCK"
    BY <1>1 DEF SelectReply, SelectReadlockReply, QueueReply
  <2>2. CASE reply = "READLOCK"
    <3>1. d = [c EXCEPT !.lock = "READLOCK", !.readlockHolders = @ \cup {s}]
      BY <2>2 DEF SelectCell
    <3>2. c.lock \in {"NOLOCK", "READLOCK"}
      BY <2>1, <2>2
    <3>3. /\ d.lock = "READLOCK" /\ d.writelockHolder = c.writelockHolder
          /\ d.readlockHolders = c.readlockHolders \cup {s}
          /\ d.flags = {} /\ d.shadow = NoVal /\ d.row = c.row
      BY <3>1
    <3>4. d \in Cell /\ c.writelockHolder = NoSub
      <4>1. c.readlockHolders \cup {s} \in SUBSET Subs
        OBVIOUS
      <4>2. d \in Cell
        BY <3>1, <4>1
      <4> QED BY <3>2, <4>2
    <3>5. reply \in LockTypes
      BY <2>2
    <3> QED BY <1>1, <3>2, <3>3, <3>4, <3>5
  <2>3. CASE reply = "PENDINGLOCK"
    <3>1. d = [c EXCEPT !.waiters = @ \cup {s}]
      BY <2>3 DEF SelectCell
    <3> QED BY <1>1, <2>3, <3>1
  <2>4. CASE reply = "SKIP"
    <3>1. d = c
      BY <2>4 DEF SelectCell
    <3> QED BY <1>1, <2>4, <3>1
  <2> QED BY <2>1, <2>2, <2>3, <2>4
<1>2. CASE lt = "WRITELOCK"
  <2>1. reply = IF c.lock = "NOLOCK" \/ WriteLockedBy(c, s) THEN "WRITELOCK" ELSE "PENDINGLOCK"
    BY <1>2 DEF SelectReply, SelectWritelockReply, QueueReply
  <2>2. CASE reply = "WRITELOCK"
    <3>1. d = [c EXCEPT !.lock = "WRITELOCK", !.writelockHolder = s]
      BY <2>2 DEF SelectCell
    <3>2. c.lock = "NOLOCK" \/ WriteLockedBy(c, s)
      BY <2>1, <2>2
    <3>3. /\ d.lock = "WRITELOCK" /\ d.writelockHolder = s
          /\ d.readlockHolders = c.readlockHolders
          /\ d.flags = {} /\ d.shadow = NoVal /\ d.row = c.row
      BY <3>1
    <3>4. d \in Cell /\ c.readlockHolders = {} /\ s # NoSub
      BY <3>1, <3>2, RowOpsAssumption
    <3>5. reply \in LockTypes
      BY <2>2
    <3>6. \A u \in Subs : u # s => ~WriteLockedBy(c, u) /\ ~WriteLockedBy(d, u)
      BY <3>2, <3>3
    <3> QED BY <1>2, <3>2, <3>3, <3>4, <3>5, <3>6
  <2>3. CASE reply = "PENDINGLOCK"
    <3>1. d = [c EXCEPT !.waiters = @ \cup {s}]
      BY <2>3 DEF SelectCell
    <3> QED BY <1>2, <2>3, <3>1
  <2> QED BY <2>1, <2>2, <2>3
<1> QED BY <1>1, <1>2

\* COMMITCMD releases the lock of s and no other.
LEMMA CommitQuiet ==
  ASSUME NEW c, Quiet(c), NEW s \in Subs, NEW d, d = CommitCell(c, s)
  PROVE  /\ Quiet(d) /\ d.row = c.row
         /\ ~LockedBy(d, s)
         /\ \A u \in Subs : u # s => SameFor(c, d, u)
<1> USE DEF Quiet, Cell, LockTypes, WriteLockedBy, LockedBy, SameFor
<1>1. CASE c.lock = "READLOCK" /\ s \in c.readlockHolders
  <2>1. d = ReleaseRead(c, s)
    BY <1>1 DEF CommitCell
  <2> DEFINE left == c.readlockHolders \ {s}
  <2>2. d = [c EXCEPT !.readlockHolders = left,
                      !.lock = IF left = {} THEN "NOLOCK" ELSE "READLOCK"]
    BY <2>1 DEF ReleaseRead
  <2>3. /\ d.lock = (IF left = {} THEN "NOLOCK" ELSE "READLOCK")
        /\ d.writelockHolder = c.writelockHolder
        /\ d.readlockHolders = left
        /\ d.flags = {} /\ d.shadow = NoVal /\ d.row = c.row
    BY <2>2
  <2>4. d \in Cell
    <3>1. left \in SUBSET Subs
      OBVIOUS
    <3> HIDE DEF left
    <3> QED BY <2>2, <3>1
  <2> QED BY <1>1, <2>3, <2>4
<1>2. CASE WriteLockedBy(c, s)
  <2>1. d = InstallCell(c)
    BY <1>2 DEF CommitCell
  <2> QED BY <1>2, <2>1, RowOpsAssumption DEF InstallCell
<1>3. CASE ~(c.lock = "READLOCK" /\ s \in c.readlockHolders) /\ ~WriteLockedBy(c, s)
  <2>1. d = c
    BY <1>3 DEF CommitCell
  <2> QED BY <1>3, <2>1
<1> QED BY <1>1, <1>2, <1>3

\* So does ROLLBACKCMD.
LEMMA RollbackQuiet ==
  ASSUME NEW c, Quiet(c), NEW s \in Subs, NEW d, d = RollbackCell(c, s)
  PROVE  /\ Quiet(d) /\ d.row = c.row
         /\ ~LockedBy(d, s)
         /\ \A u \in Subs : u # s => SameFor(c, d, u)
<1> USE DEF Quiet, Cell, LockTypes, WriteLockedBy, LockedBy, SameFor
<1>1. CASE c.lock = "WRITELOCK" /\ c.writelockHolder # s
  <2>1. d = c
    BY <1>1 DEF RollbackCell
  <2> QED BY <1>1, <2>1
<1>2. CASE ~(c.lock = "WRITELOCK" /\ c.writelockHolder # s)
  <2> DEFINE left == c.readlockHolders \ {s}
  <2>1. d = [c EXCEPT !.lock = IF left = {} THEN "NOLOCK" ELSE "READLOCK",
                      !.writelockHolder = NoSub, !.readlockHolders = left, !.flags = {},
                      !.shadow = NoVal, !.shared = FALSE]
    BY <1>2 DEF RollbackCell
  <2>2. /\ d.lock = (IF left = {} THEN "NOLOCK" ELSE "READLOCK")
        /\ d.writelockHolder = NoSub /\ d.readlockHolders = left
        /\ d.flags = {} /\ d.shadow = NoVal /\ d.row = c.row
    BY <2>1
  <2>4. d \in Cell
    <3>1. left \in SUBSET Subs /\ {} \in SUBSET RowFlags
      OBVIOUS
    <3> HIDE DEF left
    <3> QED BY <2>1, <3>1
  <2>3. \A u \in Subs : u # s => ~WriteLockedBy(c, u) /\ u # NoSub
    BY <1>2, RowOpsAssumption
  <2> QED BY <1>2, <2>2, <2>3, <2>4
<1> QED BY <1>1, <1>2

-----------------------------------------------------------------------------
(***************************************************************************)
(* The invariants.                                                         *)
(***************************************************************************)

Evaluating == phase \in {"evaluate", "rows"}

\* The first n nodes are evaluated, and their results are on the stack.
Stands(n, h) ==
  /\ n \in 0 .. Len(query.expr)
  /\ code = SubSeq(query.expr, n + 1, Len(query.expr))
  /\ Len(stack) = h[n]

Sets ==
  /\ cells \in [Rows -> Cell] /\ \A r \in Rows : Quiet(cells[r])
  /\ \E content \in Contents : \A r \in Rows : cells[r].row = content[r]
  /\ query \in Queries
  /\ stack \in Seq(SUBSET Rows)
  /\ sent \subseteq Rows /\ found \subseteq Rows /\ result \subseteq Rows
  /\ phase \in {"evaluate", "rows", "selected", "ended", "aborted"}

Position(h) ==
  /\ IsHeight(h, query.expr)
  /\ Evaluating => \E n : Stands(n, h)
  /\ phase = "rows" => code # <<>> /\ IsLeaf(Head(code))

\* With n nodes evaluated, the k-th result on the stack is to be the left side of an OR.
LeftOfOr(h, n, k) ==
  \E j \in (n + 1) .. Len(query.expr) :
    query.expr[j].op = "OR" /\ h[j] = k /\ \A i \in n .. (j - 1) : h[i] > k

\* The result on top of the stack is locked, and so is what an OR will take over.  Of
\* the left side of an AND, an AND on its right may have released rows.
StackHeld(h) ==
  \A n : Stands(n, h) =>
    \A k \in DOMAIN stack : k = Len(stack) \/ LeftOfOr(h, n, k) =>
      \A r \in stack[k] : WriteLockedBy(cells[r], Me)

\* What a statement that changes rows has found it has the write lock of.
Held(h) ==
  query.cmd # "SELECT" =>
    /\ Evaluating => StackHeld(h)
    /\ phase = "rows" => \A r \in found : WriteLockedBy(cells[r], Me)
    /\ phase = "selected" => \A r \in result : WriteLockedBy(cells[r], Me)

\* What it has locked it has found, unless an AND has dropped it or the search has
\* ended early.
OnStack(r) == \E n \in DOMAIN stack : r \in stack[n]
Remembered ==
  ~HasAnd => \A r \in Rows : LockedByMe(r) =>
    /\ phase = "evaluate" => OnStack(r)
    /\ phase = "rows" => OnStack(r) \/ r \in found
    /\ phase = "selected" => r \in result \/ SomePredicateIsEmpty

\* The nodes are a sequence.
Shape == query.expr \in Seq(Range(query.expr))

HeldInv == /\ Sets /\ Shape
           /\ \E h : Position(h) /\ (AndsStayLeft(h, query.expr) => Held(h))
TreeInv == /\ Sets /\ Shape
           /\ \E h : Position(h)
           /\ Remembered /\ NoLockIsLeftBehind

-----------------------------------------------------------------------------
(***************************************************************************)
(* What a step does to the cells.                                          *)
(***************************************************************************)

\* Each step leaves a cell alone or does one operation of Table to it.
CellStep(c, d) ==
  \/ d = c
  \/ \E lt \in {"READLOCK", "WRITELOCK"} : d = SelectCell(c, Me, lt) \/ d = SelectCell(c, Other, lt)
  \/ d = CommitCell(c, Me) \/ d = CommitCell(c, Other) \/ d = RollbackCell(c, Me)

\* A query asks for a read or a write lock.
LEMMA LockOfQuery == \A q : LockOf(q) \in {"READLOCK", "WRITELOCK"}
BY DEF LockOf

\* That is all a step does to the cells, and the query stays.
LEMMA CellSteps ==
  ASSUME Sets, [Next]_vars
  PROVE  /\ query' = query
         /\ DOMAIN cells' = Rows
         /\ \A r \in Rows : CellStep(cells[r], cells'[r])
<1>1. DOMAIN cells = Rows /\ cells = [r \in Rows |-> cells[r]]
  BY DEF Sets
<1>2. ASSUME UNCHANGED <<cells, query>>
      PROVE  query' = query /\ DOMAIN cells' = Rows /\ \A r \in Rows : CellStep(cells[r], cells'[r])
  BY <1>1, <1>2 DEF CellStep
<1>3. ASSUME NEW S, cells' = SelectedCells(S), UNCHANGED query
      PROVE  query' = query /\ DOMAIN cells' = Rows /\ \A r \in Rows : CellStep(cells[r], cells'[r])
  <2>1. \A r \in Rows : cells'[r] = cells[r] \/ cells'[r] = SelectCell(cells[r], Me, LockOf(query))
    BY <1>3 DEF SelectedCells
  <2> QED BY <1>3, <2>1, LockOfQuery DEF CellStep, SelectedCells
<1>4. CASE UNCHANGED vars
  BY <1>2, <1>4 DEF vars
<1>5. CASE StartPredicate \/ NotFound \/ NoHits \/ EvaluateOr \/ Finish
  BY <1>2, <1>5 DEF StartPredicate, NotFound, NoHits, EvaluateOr, Finish
<1>6. ASSUME NEW e \in Engines, SelectRows(e) \/ SelectRowsPending(e) \/ SelectRowsLate(e)
      PROVE  query' = query /\ DOMAIN cells' = Rows /\ \A r \in Rows : CellStep(cells[r], cells'[r])
  BY <1>3, <1>6 DEF SelectRows, SelectRowsPending, SelectRowsLate
<1>7. CASE EvaluateAnd
  <2>1. \A r \in Rows : cells'[r] = cells[r] \/ cells'[r] = RollbackCell(cells[r], Me)
    BY <1>7 DEF EvaluateAnd
  <2> QED BY <1>7, <2>1 DEF EvaluateAnd, CellStep
<1>8. CASE End
  <2>1. \A r \in Rows : cells'[r] = cells[r] \/ cells'[r] = CommitCell(cells[r], Me)
    BY <1>8 DEF End
  <2> QED BY <1>8, <2>1 DEF End, CellStep
<1>9. ASSUME NEW r \in Rows, NEW lt \in {"READLOCK", "WRITELOCK"}, OtherLocks(r, lt)
      PROVE  query' = query /\ DOMAIN cells' = Rows /\ \A q \in Rows : CellStep(cells[q], cells'[q])
  <2>1. \A q \in Rows : cells'[q] = cells[q] \/ cells'[q] = SelectCell(cells[q], Other, lt)
    BY <1>1, <1>9 DEF OtherLocks
  <2> QED BY <1>1, <1>9, <2>1 DEF OtherLocks, CellStep
<1>10. ASSUME NEW r \in Rows, OtherUnlocks(r)
       PROVE  query' = query /\ DOMAIN cells' = Rows /\ \A q \in Rows : CellStep(cells[q], cells'[q])
  <2>1. \A q \in Rows : cells'[q] = cells[q] \/ cells'[q] = CommitCell(cells[q], Other)
    BY <1>1, <1>10 DEF OtherUnlocks
  <2> QED BY <1>1, <1>10, <2>1 DEF OtherUnlocks, CellStep
<1> QED BY <1>4, <1>5, <1>6, <1>7, <1>8, <1>9, <1>10 DEF Next, SearchNext

\* So the rows stay what they are, and their locks fit.
LEMMA CellsStayQuiet ==
  ASSUME Sets, [Next]_vars
  PROVE  /\ query' = query
         /\ cells' \in [Rows -> Cell] /\ \A r \in Rows : Quiet(cells'[r])
         /\ \A r \in Rows : cells'[r].row = cells[r].row
<1>1. query' = query /\ DOMAIN cells' = Rows /\ \A r \in Rows : CellStep(cells[r], cells'[r])
  BY CellSteps
<1>2. Me \in Subs /\ Other \in Subs
  BY SearchAssumption
<1>3. ASSUME NEW c, NEW d, Quiet(c), CellStep(c, d) PROVE Quiet(d) /\ d.row = c.row
  <2>1. CASE d = c
    BY <1>3, <2>1
  <2>2. ASSUME NEW lt \in {"READLOCK", "WRITELOCK"}, NEW s \in Subs, d = SelectCell(c, s, lt)
        PROVE  Quiet(d) /\ d.row = c.row
    BY <1>3, <2>2, SelectQuiet
  <2>3. ASSUME NEW s \in Subs, d = CommitCell(c, s) PROVE Quiet(d) /\ d.row = c.row
    BY <1>3, <2>3, CommitQuiet
  <2>4. CASE d = RollbackCell(c, Me)
    BY <1>2, <1>3, <2>4, RollbackQuiet
  <2> QED BY <1>2, <1>3, <2>1, <2>2, <2>3, <2>4 DEF CellStep
<1>4. \A r \in Rows : Quiet(cells'[r]) /\ cells'[r].row = cells[r].row
  BY <1>1, <1>3 DEF Sets
<1>5. \A r \in Rows : cells'[r] \in Cell
  BY <1>4 DEF Quiet
<1>6. cells' = [r \in Rows |-> cells'[r]]
  <2>1. CASE UNCHANGED vars
    BY <2>1 DEF vars, Sets
  <2>2. CASE SearchNext
    BY <2>2 DEF Sets, SearchNext, StartPredicate, NotFound, NoHits, EvaluateOr, Finish,
                SelectRows, SelectRowsPending, SelectRowsLate, SelectedCells, EvaluateAnd, End
  <2>3. CASE \E r \in Rows : \/ \E lt \in {"READLOCK", "WRITELOCK"} : OtherLocks(r, lt)
                             \/ OtherUnlocks(r)
    BY <2>3 DEF Sets, OtherLocks, OtherUnlocks
  <2> QED BY <2>1, <2>2, <2>3 DEF Next
<1> QED BY <1>1, <1>4, <1>5, <1>6

-----------------------------------------------------------------------------
(***************************************************************************)
(* What it does to the stack.                                              *)
(***************************************************************************)

\* The node at hand.
LEMMA NodeFacts ==
  ASSUME query.expr \in Seq(Range(query.expr)), NEW h, NEW n, Stands(n, h), code # <<>>
  PROVE  /\ n + 1 \in 1 .. Len(query.expr) /\ n \in Nat
         /\ Head(code) = query.expr[n + 1] /\ Head(code) \in Nodes
         /\ Tail(code) = SubSeq(query.expr, (n + 1) + 1, Len(query.expr))
<1> DEFINE s == query.expr
<1>1. Len(s) \in Nat /\ DOMAIN s = 1 .. Len(s) /\ n \in 0 .. Len(s) /\ n \in Nat
  BY DEF Stands
<1>2. code = SubSeq(s, n + 1, Len(s))
  BY DEF Stands
<1>3. n # Len(s)
  BY <1>1, <1>2
<1>4. n + 1 \in 1 .. Len(s)
  BY <1>1, <1>3
<1>5. Head(code) = s[n + 1]
  BY <1>1, <1>2, <1>4
<1>6. s[n + 1] \in Nodes
  BY <1>1, <1>4 DEF Nodes, Range
<1>7. Tail(code) = SubSeq(s, (n + 1) + 1, Len(s))
  <2>1. Len(s) \in (n + 1) .. Len(s) /\ s \in Seq(Range(s))
    BY <1>1, <1>4
  <2> HIDE DEF s
  <2> QED BY <1>2, <1>4, <2>1, HeadTailOfSubSeq
<1> QED BY <1>1, <1>4, <1>5, <1>6, <1>7

\* At the end of the expression.
LEMMA EndFacts ==
  ASSUME query.expr \in Seq(Range(query.expr)), NEW h, NEW n, Stands(n, h), code = <<>>
  PROVE  n = Len(query.expr)
<1>1. ASSUME NEW S, NEW s \in Seq(S), NEW m \in 1 .. Len(s)
      PROVE  SubSeq(s, m, Len(s)) # <<>>
  <2>1. Len(s) \in m .. Len(s) /\ Len(s) \in Int /\ m \in Int
        /\ \A i \in m .. Len(s) : s[i] \in S
    OBVIOUS
  <2>2. Len(SubSeq(s, m, Len(s))) = IF m <= Len(s) THEN Len(s) - m + 1 ELSE 0
    BY <2>1, SubSeqProperties
  <2>3. Len(SubSeq(s, m, Len(s))) # 0
    BY <2>1, <2>2
  <2> QED BY <2>3
<1>2. Len(query.expr) \in Nat /\ n \in 0 .. Len(query.expr)
  BY DEF Stands
<1>3. code = SubSeq(query.expr, n + 1, Len(query.expr))
  BY DEF Stands
<1>4. CASE n + 1 \in 1 .. Len(query.expr)
  BY <1>1, <1>3, <1>4
<1> QED BY <1>2, <1>4

\* Pushing a result, and replacing two by one.
LEMMA Push ==
  ASSUME NEW S, NEW st \in Seq(S), NEW x \in S, NEW new, new = Append(st, x)
  PROVE  /\ new \in Seq(S) /\ Len(new) = Len(st) + 1
         /\ \A i \in DOMAIN new : (i \in DOMAIN st /\ new[i] = st[i]) \/ new[i] = x
         /\ \A i \in DOMAIN st : i \in DOMAIN new /\ new[i] = st[i]
         /\ Len(new) \in DOMAIN new /\ new[Len(new)] = x
OBVIOUS

\* AND and OR leave all but the two results on top.
LEMMA PopTwo ==
  ASSUME stack \in Seq(SUBSET Rows), Len(stack) >= 2, NEW x, x \in SUBSET Rows,
         NEW new, new = Append(Pop2, x)
  PROVE  /\ new \in Seq(SUBSET Rows) /\ Len(new) = Len(stack) - 1
         /\ \A i \in DOMAIN new : (i \in 1 .. (Len(stack) - 2) /\ new[i] = stack[i]) \/ new[i] = x
         /\ \A i \in DOMAIN stack : \/ i \in DOMAIN new /\ new[i] = stack[i]
                                    \/ i \in {Len(stack) - 1, Len(stack)}
         /\ Len(new) \in DOMAIN new /\ new[Len(new)] = x
<1>1. Len(stack) \in Nat
  OBVIOUS
<1>2. /\ Pop2 \in Seq(SUBSET Rows) /\ Len(Pop2) = Len(stack) - 2
      /\ \A i \in 1 .. (Len(stack) - 2) : Pop2[i] = stack[i]
  <2>1. 1 \in Int /\ Len(stack) - 2 \in Int
        /\ \A i \in 1 .. (Len(stack) - 2) : stack[i] \in SUBSET Rows
    BY <1>1
  <2>2. /\ Pop2 \in Seq(SUBSET Rows)
        /\ Len(Pop2) = IF 1 <= Len(stack) - 2 THEN (Len(stack) - 2) - 1 + 1 ELSE 0
        /\ \A i \in 1 .. (Len(stack) - 2) - 1 + 1 : Pop2[i] = stack[1 + i - 1]
    BY <2>1, SubSeqProperties DEF Pop2
  <2>3. ASSUME NEW k \in Nat, k >= 2
        PROVE  (IF 1 <= k - 2 THEN (k - 2) - 1 + 1 ELSE 0) = k - 2
    BY <2>3
  <2>4. ASSUME NEW i \in 1 .. (Len(stack) - 2) PROVE Pop2[i] = stack[i]
    <3>1. i \in 1 .. (Len(stack) - 2) - 1 + 1 /\ 1 + i - 1 = i
      BY <1>1
    <3> QED BY <2>2, <3>1
  <2> QED BY <1>1, <2>2, <2>3, <2>4
<1>3. /\ new \in Seq(SUBSET Rows) /\ Len(new) = Len(Pop2) + 1
      /\ \A i \in DOMAIN new : (i \in DOMAIN Pop2 /\ new[i] = Pop2[i]) \/ new[i] = x
      /\ \A i \in DOMAIN Pop2 : i \in DOMAIN new /\ new[i] = Pop2[i]
      /\ Len(new) \in DOMAIN new /\ new[Len(new)] = x
  BY <1>2, Push
<1>4. DOMAIN Pop2 = 1 .. (Len(stack) - 2) /\ DOMAIN stack = 1 .. Len(stack)
  BY <1>2
<1>5. Len(new) = Len(stack) - 1
  BY <1>1, <1>2, <1>3
<1>6. \A i \in DOMAIN stack : i \in DOMAIN Pop2 \/ i \in {Len(stack) - 1, Len(stack)}
  BY <1>1, <1>4
<1> QED BY <1>2, <1>3, <1>4, <1>5, <1>6

\* The stack has what the node at hand needs.
LEMMA NodeAt ==
  ASSUME Shape, NEW h, Position(h), code # <<>>, NEW n, Stands(n, h)
  PROVE  /\ n \in Nat /\ n + 1 \in 1 .. Len(query.expr) /\ n + 1 \in 0 .. Len(query.expr)
         /\ Head(code) = query.expr[n + 1] /\ Head(code) \in Nodes
         /\ Tail(code) = SubSeq(query.expr, (n + 1) + 1, Len(query.expr))
         /\ IF IsLeaf(Head(code)) THEN h[n + 1] = Len(stack) + 1
                                  ELSE Len(stack) >= 2 /\ h[n + 1] = Len(stack) - 1
<1>2. /\ n + 1 \in 1 .. Len(query.expr) /\ n \in Nat
      /\ Head(code) = query.expr[n + 1] /\ Head(code) \in Nodes
      /\ Tail(code) = SubSeq(query.expr, (n + 1) + 1, Len(query.expr))
  BY NodeFacts DEF Shape
<1>3. Len(stack) = h[n]
  BY DEF Stands
<1>4. (n + 1) - 1 = n
  BY <1>2
<1>5. IF IsLeaf(query.expr[n + 1])
        THEN h[n + 1] = h[(n + 1) - 1] + 1
        ELSE h[(n + 1) - 1] >= 2 /\ h[n + 1] = h[(n + 1) - 1] - 1
  BY <1>2 DEF Position, IsHeight
<1>6. n + 1 \in 0 .. Len(query.expr)
  BY <1>2
<1> QED BY <1>2, <1>3, <1>4, <1>5, <1>6

\* The same, whichever node it is.
LEMMA Node ==
  ASSUME Shape, NEW h, Position(h), Evaluating, code # <<>>
  PROVE  Head(code) \in Nodes /\ (~IsLeaf(Head(code)) => Len(stack) >= 2)
<1>1. PICK n : Stands(n, h)
  BY DEF Position
<1> QED BY <1>1, NodeAt

\* A predicate pushes its result.
LEMMA PushStep ==
  ASSUME Sets, Shape, NEW h, Position(h), code # <<>>, IsLeaf(Head(code)), NEW n, Stands(n, h),
         NEW x \in SUBSET Rows, stack' = Append(stack, x), code' = Tail(code), query' = query
  PROVE  stack' \in Seq(SUBSET Rows) /\ Stands(n + 1, h)'
<1>1. /\ n + 1 \in 0 .. Len(query.expr)
      /\ Tail(code) = SubSeq(query.expr, (n + 1) + 1, Len(query.expr))
      /\ h[n + 1] = Len(stack) + 1
  BY NodeAt
<1>2. stack' \in Seq(SUBSET Rows) /\ Len(stack') = Len(stack) + 1
  BY Push DEF Sets
<1>3. Stands(n + 1, h)'
  BY <1>1, <1>2 DEF Stands
<1> QED BY <1>2, <1>3

\* AND and OR replace the results of their sides by theirs.
LEMMA PopStep ==
  ASSUME Sets, Shape, NEW h, Position(h), code # <<>>, ~IsLeaf(Head(code)), NEW n, Stands(n, h),
         NEW x \in SUBSET Rows, stack' = Append(Pop2, x), code' = Tail(code), query' = query
  PROVE  stack' \in Seq(SUBSET Rows) /\ Stands(n + 1, h)'
<1>1. /\ n + 1 \in 0 .. Len(query.expr)
      /\ Tail(code) = SubSeq(query.expr, (n + 1) + 1, Len(query.expr))
      /\ Len(stack) >= 2 /\ h[n + 1] = Len(stack) - 1
  BY NodeAt
<1>2. stack' \in Seq(SUBSET Rows) /\ Len(stack') = Len(stack) - 1
  BY <1>1, PopTwo DEF Sets
<1>3. Stands(n + 1, h)'
  BY <1>1, <1>2 DEF Stands
<1> QED BY <1>2, <1>3

\* The two results an AND or an OR finds.
LEMMA TopTwo ==
  ASSUME Sets, Shape, NEW h, Position(h), Evaluating, code # <<>>, ~IsLeaf(Head(code))
  PROVE  /\ Len(stack) \in Nat /\ Len(stack) >= 2
         /\ Len(stack) - 1 \in DOMAIN stack /\ Len(stack) \in DOMAIN stack
         /\ Top(0) = stack[Len(stack)] /\ Top(1) = stack[Len(stack) - 1]
         /\ Top(0) \in SUBSET Rows /\ Top(1) \in SUBSET Rows
<1>1. Len(stack) \in Nat /\ Len(stack) >= 2
  BY Node DEF Sets
<1>2. Len(stack) - 0 = Len(stack)
  BY <1>1
<1> QED BY <1>1, <1>2 DEF Sets, Top

\* The result of the root.
LEMMA TopOne ==
  ASSUME Sets, Shape, NEW h, Position(h), Evaluating, code = <<>>
  PROVE  /\ Len(stack) = 1 /\ DOMAIN stack = {1}
         /\ Top(0) = stack[1] /\ Top(0) \in SUBSET Rows
<1>1. PICK n : Stands(n, h)
  BY DEF Position
<1>2. n = Len(query.expr)
  BY <1>1, EndFacts DEF Shape
<1>3. Len(stack) = 1
  BY <1>1, <1>2 DEF Stands, Position, IsHeight
<1> QED BY <1>3 DEF Sets, Top

\* Every step keeps the stack and the rest of the expression together.
LEMMA TreeNext ==
  ASSUME Sets, Shape, NEW h, Position(h), [Next]_vars
  PROVE  Sets' /\ Shape' /\ Position(h)'
<1>1. /\ query' = query
      /\ cells' \in [Rows -> Cell] /\ \A r \in Rows : Quiet(cells'[r])
      /\ \A r \in Rows : cells'[r].row = cells[r].row
  BY CellsStayQuiet
<1>2. \E content \in Contents : \A r \in Rows : cells'[r].row = content[r]
  BY <1>1 DEF Sets
<1>3. Shape' /\ IsHeight(h, query'.expr)
  BY <1>1 DEF Shape, Position
<1> DEFINE Goal == /\ stack' \in Seq(SUBSET Rows)
                   /\ sent' \subseteq Rows /\ found' \subseteq Rows /\ result' \subseteq Rows
                   /\ phase' \in {"evaluate", "rows", "selected", "ended", "aborted"}
                   /\ Evaluating' => \E n : Stands(n, h)'
                   /\ phase' = "rows" => code' # <<>> /\ IsLeaf(Head(code'))
<1>4. SUFFICES Goal
  <2>1. Sets'
    BY <1>1, <1>2, <1>4 DEF Sets
  <2>2. Position(h)'
    BY <1>3, <1>4 DEF Position
  <2> QED BY <1>3, <2>1, <2>2
<1>5. ASSUME UNCHANGED <<stack, code>>, Evaluating PROVE \E n : Stands(n, h)'
  <2>1. PICK n : Stands(n, h)
    BY <1>5 DEF Position
  <2>2. Stands(n, h)'
    BY <1>1, <1>5, <2>1 DEF Stands
  <2> QED BY <2>2
<1>6. CASE UNCHANGED vars
  BY <1>5, <1>6 DEF vars, Sets, Position, Evaluating
<1>7. CASE StartPredicate
  <2>1. IndexHits(Head(code)) \subseteq Rows
    BY DEF IndexHits
  <2> QED BY <1>5, <1>7, <2>1 DEF StartPredicate, Sets, Evaluating
<1>8. CASE NotFound
  <2>1. Evaluating /\ {} \in SUBSET Rows
    BY <1>8 DEF NotFound, Evaluating
  <2>2. stack' \in Seq(SUBSET Rows) /\ \E n : Stands(n, h)'
    <3>1. PICK n : Stands(n, h)
      BY <2>1 DEF Position
    <3>2. stack' \in Seq(SUBSET Rows) /\ Stands(n + 1, h)'
      BY <1>8, <2>1, <3>1, PushStep DEF NotFound
    <3> QED BY <3>2
  <2> QED BY <1>8, <2>2 DEF NotFound, Sets
<1>9. CASE NoHits
  BY <1>9 DEF NoHits, Sets, Evaluating
<1>10. ASSUME NEW e \in Engines, SelectRows(e) PROVE Goal
  <2>1. found' \in SUBSET Rows /\ sent' \subseteq Rows
    BY <1>10 DEF SelectRows, Sets, SentTo
  <2>2. CASE wait = 1
    <3>1. stack' = Append(stack, found') /\ code' = Tail(code) /\ phase' = "evaluate"
      BY <1>10, <2>2 DEF SelectRows
    <3>2. code # <<>> /\ IsLeaf(Head(code)) /\ Evaluating
      BY <1>10 DEF SelectRows, Position, Evaluating
    <3>3. stack' \in Seq(SUBSET Rows) /\ \E n : Stands(n, h)'
      <4>1. PICK n : Stands(n, h)
        BY <3>2 DEF Position
      <4>2. stack' \in Seq(SUBSET Rows) /\ Stands(n + 1, h)'
        BY <1>1, <2>1, <3>1, <3>2, <4>1, PushStep
      <4> QED BY <4>2
    <3> QED BY <1>10, <2>1, <3>1, <3>3 DEF SelectRows, Sets
  <2>3. CASE wait # 1
    BY <1>5, <1>10, <2>1, <2>3 DEF SelectRows, Sets, Position, Evaluating
  <2> QED BY <2>2, <2>3
<1>11. ASSUME NEW e \in Engines, SelectRowsPending(e) \/ SelectRowsLate(e) PROVE Goal
  BY <1>11 DEF SelectRowsPending, SelectRowsLate, Sets, Evaluating
<1>12. CASE EvaluateAnd
  <2>1. Evaluating /\ ~IsLeaf(Head(code)) /\ code # <<>>
    BY <1>12 DEF EvaluateAnd, Evaluating, IsLeaf
  <2>2. Top(1) \cap Top(0) \in SUBSET Rows
    BY <2>1, TopTwo
  <2>3. stack' \in Seq(SUBSET Rows) /\ \E n : Stands(n, h)'
    <3>1. PICK n : Stands(n, h)
      BY <2>1 DEF Position
    <3>2. stack' \in Seq(SUBSET Rows) /\ Stands(n + 1, h)'
      BY <1>12, <2>1, <2>2, <3>1, PopStep DEF EvaluateAnd
    <3> QED BY <3>2
  <2> QED BY <1>12, <2>3 DEF EvaluateAnd, Sets
<1>13. CASE EvaluateOr
  <2>1. Evaluating /\ ~IsLeaf(Head(code)) /\ code # <<>>
    BY <1>13 DEF EvaluateOr, Evaluating, IsLeaf
  <2>2. Top(1) \cup Top(0) \in SUBSET Rows
    BY <2>1, TopTwo
  <2>3. stack' \in Seq(SUBSET Rows) /\ \E n : Stands(n, h)'
    <3>1. PICK n : Stands(n, h)
      BY <2>1 DEF Position
    <3>2. stack' \in Seq(SUBSET Rows) /\ Stands(n + 1, h)'
      BY <1>13, <2>1, <2>2, <3>1, PopStep DEF EvaluateOr
    <3> QED BY <3>2
  <2> QED BY <1>13, <2>3 DEF EvaluateOr, Sets
<1>14. CASE Finish
  <2>1. Top(0) \in SUBSET Rows
    BY <1>14, TopOne DEF Finish, Evaluating
  <2> QED BY <1>14, <2>1 DEF Finish, Sets, Evaluating
<1>15. CASE End
  BY <1>15 DEF End, Sets, Evaluating
<1>16. CASE \E r \in Rows : \/ \E lt \in {"READLOCK", "WRITELOCK"} : OtherLocks(r, lt)
                            \/ OtherUnlocks(r)
  <2>1. UNCHANGED <<query, code, stack, phase, sent, wait, found, result>>
    BY <1>16 DEF OtherLocks, OtherUnlocks
  <2> QED BY <1>5, <2>1 DEF Sets, Position, Evaluating
<1> QED BY <1>6, <1>7, <1>8, <1>9, <1>10, <1>11, <1>12, <1>13, <1>14, <1>15, <1>16
        DEF Next, SearchNext

\* Before the first node.
LEMMA StandsAtFirst ==
  ASSUME Init, Shape, NEW h, IsHeight(h, query.expr)
  PROVE  Stands(0, h)
<1>1. code = query.expr /\ stack = <<>> /\ h[0] = 0
  BY DEF Init, IsHeight
<1>2. SubSeq(query.expr, 1, Len(query.expr)) = query.expr
  BY SubSeqFull DEF Shape
<1>3. 0 \in 0 .. Len(query.expr) /\ 0 + 1 = 1
  BY DEF Shape
<1> QED BY <1>1, <1>2, <1>3 DEF Stands

\* The statement begins with an empty stack and unlocked rows.
LEMMA TreeInit ==
  ASSUME Init, Shape, NEW h, IsHeight(h, query.expr)
  PROVE  Sets /\ Position(h) /\ \A r \in Rows : ~LockedByMe(r)
<1>1. PICK content \in Contents : cells = [r \in Rows |-> UnlockedCell(content[r])]
  BY DEF Init
<1>2. ASSUME NEW v \in Values
      PROVE  Quiet(UnlockedCell(v)) /\ UnlockedCell(v).row = v /\ ~LockedBy(UnlockedCell(v), Me)
  BY SearchAssumption, RowOpsAssumption
     DEF UnlockedCell, AbsentCell, Quiet, Cell, LockTypes, LockedBy, WriteLockedBy
<1>3. \A r \in Rows : content[r] \in Values
  BY SearchAssumption
<1>4. \A r \in Rows : Quiet(cells[r]) /\ cells[r].row = content[r] /\ ~LockedBy(cells[r], Me)
  BY <1>1, <1>2, <1>3
<1>5. cells \in [Rows -> Cell]
  BY <1>1, <1>4 DEF Quiet
<1>6. Sets
  BY <1>4, <1>5 DEF Sets, Init
<1>7. Stands(0, h)
  BY StandsAtFirst
<1> QED BY <1>4, <1>6, <1>7 DEF Init, Position, LockedByMe, LockedBy

-----------------------------------------------------------------------------
(***************************************************************************)
(* What an UPDATE has found it has locked.                                 *)
(***************************************************************************)

\* The other transaction does not touch the statement's locks.
LEMMA OtherLeavesMine ==
  ASSUME Sets, NEW q \in Rows,
         \/ \E lt \in {"READLOCK", "WRITELOCK"} : OtherLocks(q, lt)
         \/ OtherUnlocks(q)
  PROVE  \A r \in Rows : SameFor(cells[r], cells'[r], Me)
<1>1. SUFFICES ASSUME NEW r \in Rows PROVE SameFor(cells[r], cells'[r], Me)
  OBVIOUS
<1>2. Me \in Subs /\ Other \in Subs /\ Me # Other /\ Quiet(cells[r]) /\ DOMAIN cells = Rows
  BY SearchAssumption DEF Sets
<1>3. CASE cells'[r] = cells[r]
  BY <1>3 DEF SameFor
<1>4. ASSUME NEW lt \in {"READLOCK", "WRITELOCK"}, OtherLocks(q, lt)
      PROVE  SameFor(cells[r], cells'[r], Me)
  <2>1. cells'[r] = cells[r] \/ cells'[r] = SelectCell(cells[r], Other, lt)
    BY <1>2, <1>4 DEF OtherLocks
  <2>2. CASE cells'[r] = SelectCell(cells[r], Other, lt)
    <3>1. PICK c, d : c = cells[r] /\ d = cells'[r]
      OBVIOUS
    <3>2. SameFor(c, d, Me)
      <4>1. Quiet(c) /\ d = SelectCell(c, Other, lt) /\ Me \in Subs /\ Other \in Subs /\ Me # Other
        BY <1>2, <2>2, <3>1
      <4> QED BY ONLY <4>1, lt \in {"READLOCK", "WRITELOCK"}, SelectQuiet
    <3> QED BY <3>1, <3>2
  <2> QED BY <1>3, <2>1, <2>2
<1>5. CASE OtherUnlocks(q)
  <2>1. cells'[r] = cells[r] \/ cells'[r] = CommitCell(cells[r], Other)
    BY <1>2, <1>5 DEF OtherUnlocks
  <2> QED BY <1>2, <1>3, <2>1, CommitQuiet
<1> QED BY <1>4, <1>5

\* SELECTROWS of a statement that changes rows write-locks what it grants.
LEMMA SelectHolds ==
  ASSUME Sets, LockOf(query) = "WRITELOCK", NEW S, cells' = SelectedCells(S)
  PROVE  \A r \in Rows :
           /\ WriteLockedBy(cells[r], Me) => WriteLockedBy(cells'[r], Me)
           /\ r \in S /\ Granted(Reply(r)) => WriteLockedBy(cells'[r], Me)
<1>1. SUFFICES ASSUME NEW r \in Rows
               PROVE  /\ WriteLockedBy(cells[r], Me) => WriteLockedBy(cells'[r], Me)
                      /\ r \in S /\ Granted(Reply(r)) => WriteLockedBy(cells'[r], Me)
  OBVIOUS
<1>2. Me \in Subs /\ Quiet(cells[r])
  BY SearchAssumption DEF Sets
<1>3. CASE r \in S
  <2>1. /\ cells'[r] = SelectCell(cells[r], Me, "WRITELOCK")
        /\ Reply(r) = SelectReply(cells[r], Me, "WRITELOCK")
    BY <1>3 DEF SelectedCells, Reply
  <2> QED BY <1>2, <2>1, SelectQuiet
<1>4. CASE r \notin S
  BY <1>4 DEF SelectedCells
<1> QED BY <1>3, <1>4

\* The code that is left tells how many nodes are evaluated.
LEMMA StandsOnce ==
  ASSUME NEW S, NEW s \in Seq(S), NEW n \in 0 .. Len(s), NEW p \in 0 .. Len(s),
         SubSeq(s, n + 1, Len(s)) = SubSeq(s, p + 1, Len(s))
  PROVE  n = p
<1>1. Len(s) \in Nat
  OBVIOUS
<1>2. ASSUME NEW m \in 0 .. Len(s) PROVE Len(SubSeq(s, m + 1, Len(s))) = Len(s) - m
  <2>1. m + 1 \in Int /\ Len(s) \in Int /\ \A i \in (m + 1) .. Len(s) : s[i] \in S
    BY <1>1
  <2>2. Len(SubSeq(s, m + 1, Len(s))) = IF m + 1 <= Len(s) THEN Len(s) - (m + 1) + 1 ELSE 0
    BY <2>1, SubSeqProperties
  <2> QED BY <1>1, <2>2
<1>3. Len(s) - n = Len(s) - p
  BY <1>2
<1> QED BY <1>1, <1>3

\* One node on, what is to be the left side of an OR was so before, and the node was no
\* AND; the left side of an OR at hand is the second result.
LEMMA LeftOfOrBefore ==
  ASSUME Shape, NEW h, Position(h), code # <<>>, NEW n, Stands(n, h)
  PROVE  /\ \A k : LeftOfOr(h, n + 1, k) /\ h[n] > k => LeftOfOr(h, n, k)
         /\ \A k : LeftOfOr(h, n + 1, k) /\ AndsStayLeft(h, query.expr) => Head(code).op # "AND"
         /\ Head(code).op = "OR" => LeftOfOr(h, n, Len(stack) - 1)
<1>1. /\ n \in Nat /\ n + 1 \in 1 .. Len(query.expr) /\ Len(query.expr) \in Nat
      /\ Head(code) = query.expr[n + 1] /\ Len(stack) = h[n]
      /\ IF IsLeaf(Head(code)) THEN h[n + 1] = Len(stack) + 1
                               ELSE Len(stack) >= 2 /\ h[n + 1] = Len(stack) - 1
  <2>1. Len(query.expr) \in Nat /\ Len(stack) = h[n]
    BY DEF Stands, Shape
  <2> QED BY <2>1, NodeAt
<1>2. h \in [0 .. Len(query.expr) -> Nat]
  BY DEF Position, IsHeight
<1>3. ASSUME NEW k, LeftOfOr(h, n + 1, k), h[n] > k PROVE LeftOfOr(h, n, k)
  <2>1. PICK j \in ((n + 1) + 1) .. Len(query.expr) :
          query.expr[j].op = "OR" /\ h[j] = k /\ \A i \in (n + 1) .. (j - 1) : h[i] > k
    BY <1>3 DEF LeftOfOr
  <2>2. j \in (n + 1) .. Len(query.expr)
    BY <1>1
  <2>3. \A i \in n .. (j - 1) : i = n \/ i \in (n + 1) .. (j - 1)
    BY <1>1
  <2> QED BY <1>3, <2>1, <2>2, <2>3 DEF LeftOfOr
<1>4. ASSUME NEW k, LeftOfOr(h, n + 1, k), AndsStayLeft(h, query.expr) PROVE Head(code).op # "AND"
  <2>1. PICK j \in ((n + 1) + 1) .. Len(query.expr) :
          query.expr[j].op = "OR" /\ h[j] = k /\ \A i \in (n + 1) .. (j - 1) : h[i] > k
    BY <1>4 DEF LeftOfOr
  <2>2. j \in 1 .. Len(query.expr) /\ n + 1 < j
    BY <1>1
  <2>3. SUFFICES ASSUME query.expr[n + 1].op = "AND" PROVE FALSE
    BY <1>1
  <2>4. PICK i \in (n + 1) .. (j - 1) : h[i] <= h[j]
    BY <1>1, <1>4, <2>1, <2>2, <2>3 DEF AndsStayLeft
  <2>5. h[i] > h[j]
    BY <2>1
  <2>6. h[i] \in Nat /\ h[j] \in Nat
    <3>1. i \in 0 .. Len(query.expr) /\ j \in 0 .. Len(query.expr)
      BY <1>1
    <3> QED BY <1>2, <3>1
  <2> QED BY <2>4, <2>5, <2>6
<1>5. ASSUME Head(code).op = "OR" PROVE LeftOfOr(h, n, Len(stack) - 1)
  <2>1. h[n + 1] = Len(stack) - 1
    BY <1>1, <1>5 DEF IsLeaf
  <2>2. h[n] \in Nat
    <3>1. n \in 0 .. Len(query.expr)
      BY <1>1
    <3> QED BY <1>2, <3>1
  <2>3. h[n] > Len(stack) - 1
    BY <1>1, <2>2
  <2>4. \A i \in n .. ((n + 1) - 1) : i = n
    BY <1>1
  <2>5. n + 1 \in (n + 1) .. Len(query.expr)
    BY <1>1
  <2> QED BY <1>1, <1>5, <2>1, <2>3, <2>4, <2>5 DEF LeftOfOr
<1> QED BY <1>3, <1>4, <1>5

\* A step that leaves the expression and the stack alone.
LEMMA HeldStays ==
  ASSUME Sets, NEW h, StackHeld(h), UNCHANGED <<query, code, stack>>,
         \A r \in Rows : WriteLockedBy(cells[r], Me) => WriteLockedBy(cells'[r], Me)
  PROVE  StackHeld(h)'
<1>1. \A k \in DOMAIN stack : stack[k] \in SUBSET Rows
  BY DEF Sets
<1>2. \A n : Stands(n, h)' <=> Stands(n, h)
  BY DEF Stands
<1>3. \A n, k : LeftOfOr(h, n, k)' <=> LeftOfOr(h, n, k)
  BY DEF LeftOfOr
<1> QED BY <1>1, <1>2, <1>3 DEF StackHeld

\* A step to the next node: what is on top afterwards is locked, and so is what an OR
\* will take over.
LEMMA HeldOn ==
  ASSUME Shape, NEW h, NEW n, Stands(n + 1, h)', query' = query,
         \A k \in DOMAIN stack' : k = Len(stack') \/ LeftOfOr(h, n + 1, k) =>
           \A r \in stack'[k] : WriteLockedBy(cells'[r], Me)
  PROVE  StackHeld(h)'
<1>2. ASSUME NEW p, Stands(p, h)' PROVE p = n + 1
  <2>1. PICK s \in Seq(Range(query.expr)) : s = query.expr
    BY DEF Shape
  <2>2. /\ p \in 0 .. Len(s) /\ n + 1 \in 0 .. Len(s)
        /\ SubSeq(s, p + 1, Len(s)) = SubSeq(s, (n + 1) + 1, Len(s))
    BY <1>2, <2>1 DEF Stands
  <2> QED BY <2>2, StandsOnce
<1>3. \A k : LeftOfOr(h, n + 1, k)' <=> LeftOfOr(h, n + 1, k)
  BY DEF LeftOfOr
<1> QED BY <1>2, <1>3 DEF StackHeld

\* A predicate's rows are pushed.
LEMMA HeldPush ==
  ASSUME Sets, Shape, NEW h, Position(h), code # <<>>, IsLeaf(Head(code)), Evaluating,
         NEW x \in SUBSET Rows, stack' = Append(stack, x), code' = Tail(code), query' = query,
         StackHeld(h), \A r \in x : WriteLockedBy(cells'[r], Me),
         \A r \in Rows : WriteLockedBy(cells[r], Me) => WriteLockedBy(cells'[r], Me)
  PROVE  StackHeld(h)'
<1>1. PICK n : Stands(n, h)
  BY DEF Position
<1>2. Stands(n + 1, h)'
  BY <1>1, PushStep
<1>3. /\ Len(stack') = Len(stack) + 1 /\ Len(stack) \in Nat /\ DOMAIN stack = 1 .. Len(stack)
      /\ DOMAIN stack' = 1 .. Len(stack') /\ stack'[Len(stack')] = x
      /\ \A i \in DOMAIN stack : stack'[i] = stack[i] /\ stack[i] \in SUBSET Rows
  BY Push DEF Sets
<1>4. SUFFICES ASSUME NEW k \in DOMAIN stack', k = Len(stack') \/ LeftOfOr(h, n + 1, k), NEW r \in stack'[k]
               PROVE  WriteLockedBy(cells'[r], Me)
  BY <1>2, <1>4, HeldOn
<1>5. CASE k = Len(stack')
  BY <1>3, <1>4, <1>5
<1>6. CASE k # Len(stack')
  <2>1. k \in DOMAIN stack /\ LeftOfOr(h, n + 1, k) /\ (k = Len(stack) \/ Len(stack) > k)
    BY <1>3, <1>4, <1>6
  <2>2. k = Len(stack) \/ LeftOfOr(h, n, k)
    BY <1>1, <2>1, LeftOfOrBefore DEF Stands
  <2>3. WriteLockedBy(cells[r], Me)
    BY <1>1, <1>3, <1>4, <2>1, <2>2 DEF StackHeld
  <2> QED BY <1>3, <1>4, <2>1, <2>3
<1> QED BY <1>5, <1>6

\* AND and OR put their result in the place of the two.
LEMMA HeldPop ==
  ASSUME Sets, Shape, NEW h, Position(h), code # <<>>, ~IsLeaf(Head(code)), NEW n, Stands(n, h),
         NEW x \in SUBSET Rows, stack' = Append(Pop2, x), code' = Tail(code), query' = query,
         StackHeld(h), \A r \in x : WriteLockedBy(cells'[r], Me),
         \/ cells' = cells
         \/ \A k : ~LeftOfOr(h, n + 1, k)
  PROVE  StackHeld(h)'
<1>1. Stands(n + 1, h)'
  BY PopStep
<1>2. /\ Len(stack) \in Nat /\ Len(stack) >= 2 /\ DOMAIN stack = 1 .. Len(stack)
      /\ Len(stack') = Len(stack) - 1 /\ stack'[Len(stack')] = x /\ DOMAIN stack' = 1 .. Len(stack')
      /\ \A i \in DOMAIN stack' : (i \in 1 .. (Len(stack) - 2) /\ stack'[i] = stack[i]) \/ stack'[i] = x
  <2>1. Len(stack) \in Nat /\ Len(stack) >= 2 /\ DOMAIN stack = 1 .. Len(stack)
    BY NodeAt DEF Sets
  <2>2. stack \in Seq(SUBSET Rows)
    BY DEF Sets
  <2>3. /\ stack' \in Seq(SUBSET Rows) /\ Len(stack') = Len(stack) - 1 /\ stack'[Len(stack')] = x
        /\ \A i \in DOMAIN stack' : (i \in 1 .. (Len(stack) - 2) /\ stack'[i] = stack[i]) \/ stack'[i] = x
    <3>1. PICK new : new = stack' /\ new = Append(Pop2, x)
      OBVIOUS
    <3>2. /\ new \in Seq(SUBSET Rows) /\ Len(new) = Len(stack) - 1 /\ new[Len(new)] = x
          /\ \A i \in DOMAIN new : (i \in 1 .. (Len(stack) - 2) /\ new[i] = stack[i]) \/ new[i] = x
      BY ONLY x \in SUBSET Rows, <2>1, <2>2, <3>1, PopTwo
    <3> QED BY <3>1, <3>2
  <2>4. DOMAIN stack' = 1 .. Len(stack')
    BY <2>3
  <2> QED BY <2>1, <2>3, <2>4
<1>3. SUFFICES ASSUME NEW k \in DOMAIN stack', k = Len(stack') \/ LeftOfOr(h, n + 1, k), NEW r \in stack'[k]
               PROVE  WriteLockedBy(cells'[r], Me)
  BY <1>1, <1>3, HeldOn
<1>4. CASE stack'[k] = x
  BY <1>3, <1>4
<1>5. CASE stack'[k] # x
  <2>1. stack'[k] = stack[k] /\ k \in 1 .. (Len(stack) - 2) /\ k # Len(stack')
    BY <1>2, <1>3, <1>5
  <2>2. k \in DOMAIN stack /\ Len(stack) > k
    <3>1. PICK n1 \in Nat : n1 = Len(stack) /\ DOMAIN stack = 1 .. n1
      BY <1>2
    <3>2. k \in 1 .. (n1 - 2)
      BY <2>1, <3>1
    <3>3. k \in 1 .. n1 /\ n1 > k
      BY <3>2
    <3> QED BY <3>1, <3>3
  <2>3. LeftOfOr(h, n + 1, k) /\ cells' = cells
    BY <1>3, <2>1
  <2>4. LeftOfOr(h, n, k)
    BY <2>2, <2>3, LeftOfOrBefore DEF Stands
  <2> QED BY <1>3, <2>1, <2>2, <2>3, <2>4 DEF StackHeld
<1> QED BY <1>4, <1>5

\* Every step keeps the locks of what a changing statement has found and needs.
LEMMA HeldNext ==
  ASSUME Sets, Shape, NEW h, Position(h), AndsStayLeft(h, query.expr), Held(h), [Next]_vars
  PROVE  Held(h)'
<1>1. query' = query
  BY CellsStayQuiet
<1>2. CASE query.cmd = "SELECT"
  BY <1>1, <1>2 DEF Held
<1>3. CASE query.cmd # "SELECT"
  <2> DEFINE Goal == /\ Evaluating' => StackHeld(h)'
                     /\ phase' = "rows" => \A r \in found' : WriteLockedBy(cells'[r], Me)
                     /\ phase' = "selected" => \A r \in result' : WriteLockedBy(cells'[r], Me)
  <2>1. SUFFICES Goal
    BY <2>1 DEF Held
  <2>2. /\ Evaluating => StackHeld(h)
        /\ phase = "rows" => \A r \in found : WriteLockedBy(cells[r], Me)
        /\ phase = "selected" => \A r \in result : WriteLockedBy(cells[r], Me)
    BY <1>3 DEF Held
  <2>3. sent \subseteq Rows /\ found \subseteq Rows /\ result \subseteq Rows
    BY DEF Sets
  <2>4. LockOf(query) = "WRITELOCK"
    BY <1>3 DEF LockOf
  <2>5. ASSUME UNCHANGED <<cells, query, code, stack>>, Evaluating PROVE StackHeld(h)'
    BY <2>2, <2>5, HeldStays
  <2>6. CASE UNCHANGED vars
    <3>1. UNCHANGED <<cells, query, code, stack, phase, found, result>>
      BY <2>6 DEF vars
    <3>2. Evaluating' => Evaluating
      BY <3>1 DEF Evaluating
    <3> QED BY <2>2, <2>5, <3>1, <3>2
  <2>7. CASE StartPredicate
    <3>1. UNCHANGED <<cells, query, code, stack>> /\ Evaluating /\ found' = {} /\ phase' = "rows"
      BY <2>7 DEF StartPredicate, Evaluating
    <3> QED BY <2>5, <3>1
  <2>8. CASE NotFound
    <3>1. /\ Evaluating /\ code # <<>> /\ IsLeaf(Head(code)) /\ {} \in SUBSET Rows
          /\ stack' = Append(stack, {}) /\ code' = Tail(code) /\ cells' = cells
          /\ phase' = "evaluate"
      BY <2>8 DEF NotFound, Evaluating
    <3>2. StackHeld(h)'
      BY <1>1, <2>2, <3>1, HeldPush
    <3> QED BY <3>1, <3>2
  <2>9. CASE NoHits
    BY <2>9 DEF NoHits, Evaluating
  <2>10. ASSUME NEW e \in Engines, SelectRows(e) PROVE Goal
    <3>1. /\ cells' = SelectedCells(SentTo(e)) /\ phase = "rows" /\ Evaluating
          /\ found' = found \cup {r \in SentTo(e) : Granted(Reply(r))}
          /\ SentTo(e) \subseteq Rows /\ code # <<>> /\ IsLeaf(Head(code))
      BY <2>3, <2>10 DEF SelectRows, SentTo, Evaluating, Position
    <3>2. \A r \in Rows : /\ WriteLockedBy(cells[r], Me) => WriteLockedBy(cells'[r], Me)
                          /\ r \in SentTo(e) /\ Granted(Reply(r)) => WriteLockedBy(cells'[r], Me)
      BY <2>4, <3>1, SelectHolds
    <3>3. found' \in SUBSET Rows /\ \A r \in found' : WriteLockedBy(cells'[r], Me)
      BY <2>2, <2>3, <3>1, <3>2
    <3>4. CASE wait = 1
      <4>1. stack' = Append(stack, found') /\ phase' = "evaluate" /\ code' = Tail(code)
        BY <2>10, <3>4 DEF SelectRows
      <4>2. StackHeld(h)'
        BY <1>1, <2>2, <3>1, <3>2, <3>3, <4>1, HeldPush
      <4> QED BY <4>1, <4>2
    <3>5. CASE wait # 1
      <4>1. UNCHANGED <<stack, phase, code>>
        BY <2>10, <3>5 DEF SelectRows
      <4>2. StackHeld(h)'
        BY <1>1, <2>2, <3>1, <3>2, <4>1, HeldStays
      <4> QED BY <3>1, <3>3, <4>1, <4>2
    <3> QED BY <3>4, <3>5
  <2>11. ASSUME NEW e \in Engines, SelectRowsPending(e) \/ SelectRowsLate(e) PROVE Goal
    BY <2>11 DEF SelectRowsPending, SelectRowsLate, Evaluating
  <2>12. CASE EvaluateAnd
    <3>1. /\ phase = "evaluate" /\ Evaluating /\ ~IsLeaf(Head(code)) /\ code # <<>>
          /\ Head(code).op = "AND" /\ code' = Tail(code) /\ phase' = "evaluate"
      BY <2>12 DEF EvaluateAnd, Evaluating, IsLeaf
    <3>2. PICK n : Stands(n, h)
      BY <3>1 DEF Position
    <3>3. /\ Len(stack) \in DOMAIN stack /\ Top(0) = stack[Len(stack)]
          /\ Top(0) \in SUBSET Rows /\ Top(1) \in SUBSET Rows
      BY <3>1, TopTwo
    <3>4. \A r \in Top(0) : WriteLockedBy(cells[r], Me)
      BY <2>2, <3>1, <3>2, <3>3 DEF StackHeld
    <3>5. \A r \in Top(1) \cap Top(0) : cells'[r] = cells[r]
      BY <2>12, <3>3 DEF EvaluateAnd, ReleasedByAnd
    <3>6. \A k : ~LeftOfOr(h, n + 1, k)
      BY <3>1, <3>2, LeftOfOrBefore
    <3>7. Top(1) \cap Top(0) \in SUBSET Rows /\ stack' = Append(Pop2, Top(1) \cap Top(0))
      BY <2>12, <3>3 DEF EvaluateAnd
    <3>8. StackHeld(h)'
      <4>1. \A r \in Top(1) \cap Top(0) : WriteLockedBy(cells'[r], Me)
        BY <3>4, <3>5
      <4> QED BY <1>1, <2>2, <3>1, <3>2, <3>6, <3>7, <4>1, HeldPop
    <3> QED BY <3>1, <3>8
  <2>13. CASE EvaluateOr
    <3>1. /\ phase = "evaluate" /\ Evaluating /\ ~IsLeaf(Head(code)) /\ code # <<>>
          /\ Head(code).op = "OR" /\ code' = Tail(code) /\ phase' = "evaluate" /\ cells' = cells
      BY <2>13 DEF EvaluateOr, Evaluating, IsLeaf
    <3>2. PICK n : Stands(n, h)
      BY <3>1 DEF Position
    <3>3. /\ Len(stack) - 1 \in DOMAIN stack /\ Len(stack) \in DOMAIN stack
          /\ Top(0) = stack[Len(stack)] /\ Top(1) = stack[Len(stack) - 1]
          /\ Top(0) \in SUBSET Rows /\ Top(1) \in SUBSET Rows
      BY <3>1, TopTwo
    <3>4. LeftOfOr(h, n, Len(stack) - 1)
      BY <3>1, <3>2, LeftOfOrBefore
    <3>5. \A r \in Top(1) \cup Top(0) : WriteLockedBy(cells[r], Me)
      BY <2>2, <3>1, <3>2, <3>3, <3>4 DEF StackHeld
    <3>6. Top(1) \cup Top(0) \in SUBSET Rows /\ stack' = Append(Pop2, Top(1) \cup Top(0))
      BY <2>13, <3>3 DEF EvaluateOr
    <3>7. StackHeld(h)'
      BY <1>1, <2>2, <3>1, <3>2, <3>5, <3>6, HeldPop
    <3> QED BY <3>1, <3>7
  <2>14. CASE Finish
    <3>1. phase = "evaluate" /\ Evaluating /\ code = <<>> /\ phase' = "selected" /\ result' = Top(0)
          /\ cells' = cells
      BY <2>14 DEF Finish, Evaluating
    <3>2. DOMAIN stack = {1} /\ Len(stack) = 1 /\ Top(0) = stack[1]
      BY <3>1, TopOne
    <3>3. PICK n : Stands(n, h)
      BY <3>1 DEF Position
    <3>4. \A r \in Top(0) : WriteLockedBy(cells[r], Me)
      BY <2>2, <3>1, <3>2, <3>3 DEF StackHeld
    <3> QED BY <3>1, <3>4 DEF Evaluating
  <2>15. CASE End
    BY <2>15 DEF End, Evaluating
  <2>16. ASSUME NEW q \in Rows, \/ \E lt \in {"READLOCK", "WRITELOCK"} : OtherLocks(q, lt)
                                \/ OtherUnlocks(q)
         PROVE  Goal
    <3>1. UNCHANGED <<query, code, stack, phase, sent, wait, found, result>>
      BY <2>16 DEF OtherLocks, OtherUnlocks
    <3>2. \A r \in Rows : WriteLockedBy(cells[r], Me) => WriteLockedBy(cells'[r], Me)
      BY <2>16, OtherLeavesMine DEF SameFor
    <3>3. Evaluating' => Evaluating
      BY <3>1 DEF Evaluating
    <3>4. Evaluating' => StackHeld(h)'
      BY <2>2, <3>1, <3>2, <3>3, HeldStays
    <3> QED BY <2>2, <2>3, <3>1, <3>2, <3>4
  <2> HIDE DEF Goal
  <2> QED BY <2>6, <2>7, <2>8, <2>9, <2>10, <2>11, <2>12, <2>13, <2>14, <2>15, <2>16
          DEF Next, SearchNext
<1> QED BY <1>2, <1>3

\* Whatever tree of AND and OR an UPDATE or DELETE searches with, in whatever Engines
\* its rows are and whatever the other transaction locks: unless an AND lies in the
\* right side of an OR, as in c OR (a AND b), the rows the statement goes on to change
\* are write-locked by its transaction.  The ROLLBACKCMDs of every other AND
\* (Ast::evaluate) take only locks of rows that no result to come has.
THEOREM RowsStayLocked ==
  ASSUME \A q \in Queries : IsTree(q.expr)
  PROVE  Spec => [](NoAndRightOfOr(query.expr) => ReturnedRowsAreLocked)
<1>1. Init => HeldInv
  <2>1. SUFFICES ASSUME Init PROVE HeldInv
    OBVIOUS
  <2>2. query \in Queries /\ stack = <<>> /\ phase = "evaluate"
    BY <2>1 DEF Init
  <2>3. PICK h : IsHeight(h, query.expr)
    BY <2>2 DEF IsTree
  <2>4. Shape
    BY <2>2 DEF IsTree, Shape
  <2>5. Sets /\ Position(h)
    BY <2>1, <2>3, <2>4, TreeInit
  <2>6. Held(h)
    BY <2>2 DEF Held, StackHeld
  <2> QED BY <2>4, <2>5, <2>6 DEF HeldInv
<1>2. HeldInv /\ [Next]_vars => HeldInv'
  <2>1. SUFFICES ASSUME HeldInv, [Next]_vars PROVE HeldInv'
    OBVIOUS
  <2>2. Sets /\ Shape
    BY <2>1 DEF HeldInv
  <2>3. PICK h : Position(h) /\ (AndsStayLeft(h, query.expr) => Held(h))
    BY <2>1 DEF HeldInv
  <2>4. Sets' /\ Shape' /\ Position(h)' /\ query' = query
    BY <2>1, <2>2, <2>3, TreeNext, CellsStayQuiet
  <2>5. AndsStayLeft(h, query.expr) => Held(h)'
    BY <2>1, <2>2, <2>3, HeldNext
  <2>6. (AndsStayLeft(h, query.expr) => Held(h))'
    BY <2>4, <2>5
  <2> QED BY <2>4, <2>6 DEF HeldInv
<1>3. HeldInv => (NoAndRightOfOr(query.expr) => ReturnedRowsAreLocked)
  BY DEF HeldInv, Position, NoAndRightOfOr, Held, ReturnedRowsAreLocked
<1> QED BY <1>1, <1>2, <1>3, PTL DEF Spec


-----------------------------------------------------------------------------
(***************************************************************************)
(* What a statement has locked it gives back.                              *)
(***************************************************************************)

Ranges     == {"LT", "LTE", "GT", "GTE", "BETWEEN", "NOTBETWEEN"}
Predicates == Ranges \cup {"EQ", "NE", "IN", "NOTIN", "ISNULL", "ISNOTNULL"}

\* An index that answers the predicate: of a range, an ordered one with signed keys
\* (floating and character ones alike).
Answers(leaf) ==
  /\ leaf.op \in Predicates /\ leaf.field \in Fields
  /\ leaf.op \in Ranges => leaf.field \notin Unordered /\ FieldType[leaf.field] = "INT"

\* Every predicate of a query has one, and every value of the table has an entry in an
\* Engine of the cluster.
IndexesAnswer ==
  /\ \A q \in Queries : \A node \in Range(q.expr) : IsLeaf(node) => Answers(node)
  /\ \A content \in Contents : \A r \in Rows : \A f \in Fields :
       content[r][f] # NULL => EngineOf[content[r][f]] \in Engines

\* Such an index finds the entry of a value just when the predicate is true of it.
LEMMA IndexIsExact ==
  ASSUME NEW leaf, Answers(leaf), NEW v
  PROVE  IndexHit(leaf, v) <=> Holds(leaf, v)
<1> USE DEF Answers, Predicates, Ranges
<1>1. CASE leaf.op \in {"ISNULL", "ISNOTNULL"}
  BY <1>1 DEF IndexHit, Holds, GetNulls, GetNotNulls
<1>2. CASE leaf.op \in {"EQ", "NE"}
  BY <1>2 DEF IndexHit, Holds, GetEqual, GetNotEqual
<1>3. CASE leaf.op \in {"LT", "LTE", "GT", "GTE"}
  BY <1>3 DEF IndexHit, Holds, Compare, Comparison
<1>4. CASE leaf.op \in {"BETWEEN", "NOTBETWEEN"}
  BY <1>4 DEF IndexHit, Holds, Between, BetweenKeys, NotBetween, Compare, Comparison
<1>5. CASE leaf.op \in {"IN", "NOTIN"}
  <2>1. Range(leaf.args) = {leaf.args[n] : n \in DOMAIN leaf.args}
    BY DEF Range
  <2> QED BY <1>5, <2>1 DEF IndexHit, Holds, GetIn, GetNotIn, GetEqual
<1> QED BY <1>1, <1>2, <1>3, <1>4, <1>5

\* The Engines asked have an entry for every row a predicate is true of.
LEMMA HitsAreTheMatches ==
  ASSUME IndexesAnswer, Sets, NEW leaf \in Nodes, IsLeaf(leaf)
  PROVE  IndexHits(leaf) = RowsWhere(leaf)
<1>1. Answers(leaf)
  BY DEF IndexesAnswer, Sets, Nodes
<1>2. PICK content \in Contents : \A r \in Rows : cells[r].row = content[r]
  BY DEF Sets
<1>3. ASSUME NEW r \in Rows, NEW v, v = cells[r].row[leaf.field], Holds(leaf, v)
      PROVE  EntryEngine(leaf.field, v) \in SearchedEngines(leaf)
  <2>1. v # NULL => EngineOf[v] \in Engines
    BY <1>1, <1>2, <1>3 DEF IndexesAnswer, Answers
  <2>2. CASE leaf.op = "ISNULL"
    BY <1>3, <2>2 DEF Holds, EntryEngine, SearchedEngines
  <2>3. CASE leaf.op = "EQ"
    <3>1. v # NULL /\ v = leaf.args[1]
      BY <1>3, <2>3 DEF Holds
    <3> QED BY <2>3, <3>1 DEF EntryEngine, SearchedEngines
  <2>4. CASE leaf.op \notin {"ISNULL", "EQ"}
    <3>1. v # NULL
      BY <1>3, <2>4 DEF Holds
    <3>2. SearchedEngines(leaf) = Engines
      BY <2>4 DEF SearchedEngines
    <3> QED BY <2>1, <3>1, <3>2 DEF EntryEngine
  <2> QED BY <2>2, <2>3, <2>4
<1>4. \A v : IndexHit(leaf, v) <=> Holds(leaf, v)
  BY <1>1, IndexIsExact
<1>5. ASSUME NEW r \in Rows PROVE r \in IndexHits(leaf) <=> r \in RowsWhere(leaf)
  BY <1>3, <1>4 DEF IndexHits, RowsWhere
<1> QED BY <1>5 DEF IndexHits, RowsWhere

\* Neither the expression nor what is true of the rows changes.
LEMMA TruthStays ==
  ASSUME Sets, [Next]_vars
  PROVE  (HasAnd' <=> HasAnd) /\ (SomePredicateIsEmpty' <=> SomePredicateIsEmpty)
         /\ Nodes' = Nodes /\ \A leaf : RowsWhere(leaf)' = RowsWhere(leaf)
<1>1. query' = query /\ \A r \in Rows : cells'[r].row = cells[r].row
  BY CellsStayQuiet
<1>2. Nodes' = Nodes /\ (HasAnd' <=> HasAnd)
  BY <1>1 DEF Nodes, HasAnd
<1>3. ASSUME NEW leaf PROVE RowsWhere(leaf)' = RowsWhere(leaf)
  <2>1. ASSUME NEW r \in Rows
        PROVE  Holds(leaf, cells'[r].row[leaf.field]) <=> Holds(leaf, cells[r].row[leaf.field])
    BY <1>1
  <2> QED BY <2>1 DEF RowsWhere
<1>4. SomePredicateIsEmpty' <=> SomePredicateIsEmpty
  BY <1>2, <1>3 DEF SomePredicateIsEmpty
<1> QED BY <1>2, <1>3, <1>4

\* SELECTROWS locks what it grants and nothing else.
LEMMA SelectLocksGranted ==
  ASSUME Sets, NEW S, cells' = SelectedCells(S), NEW r \in Rows, LockedBy(cells'[r], Me)
  PROVE  LockedBy(cells[r], Me) \/ (r \in S /\ Granted(Reply(r)))
<1>1. Me \in Subs /\ Quiet(cells[r]) /\ LockOf(query) \in {"READLOCK", "WRITELOCK"}
  BY SearchAssumption, LockOfQuery DEF Sets
<1>2. CASE r \in S
  <2>1. /\ cells'[r] = SelectCell(cells[r], Me, LockOf(query))
        /\ Reply(r) = SelectReply(cells[r], Me, LockOf(query))
    BY <1>2 DEF SelectedCells, Reply
  <2> QED BY <1>1, <1>2, <2>1, SelectQuiet
<1>3. CASE r \notin S
  BY <1>3 DEF SelectedCells
<1> QED BY <1>2, <1>3

\* Without AND, every step keeps every locked row on the stack or among those found.
LEMMA RememberedNext ==
  ASSUME IndexesAnswer, Sets, Shape, NEW h, Position(h), Remembered, [Next]_vars
  PROVE  Remembered'
<1>1. SUFFICES ASSUME ~HasAnd', NEW r \in Rows, LockedByMe(r)'
               PROVE  /\ phase' = "evaluate" => OnStack(r)'
                      /\ phase' = "rows" => OnStack(r)' \/ r \in found'
                      /\ phase' = "selected" => r \in result' \/ SomePredicateIsEmpty'
  BY DEF Remembered
<1> DEFINE Goal == /\ phase' = "evaluate" => OnStack(r)'
                   /\ phase' = "rows" => OnStack(r)' \/ r \in found'
                   /\ phase' = "selected" => r \in result' \/ SomePredicateIsEmpty'
<1>2. ~HasAnd /\ (SomePredicateIsEmpty' <=> SomePredicateIsEmpty) /\ query' = query
  BY <1>1, TruthStays, CellsStayQuiet
<1>3. LockedByMe(r) => /\ phase = "evaluate" => OnStack(r)
                       /\ phase = "rows" => OnStack(r) \/ r \in found
                       /\ phase = "selected" => r \in result \/ SomePredicateIsEmpty
  BY <1>1, <1>2 DEF Remembered
<1>4. LockedBy(cells'[r], Me)
  BY <1>1 DEF LockedBy, LockedByMe
<1>5. LockedByMe(r) <=> LockedBy(cells[r], Me)
  BY DEF LockedBy, LockedByMe
<1>6. stack \in Seq(SUBSET Rows) /\ sent \subseteq Rows /\ found \subseteq Rows
  BY DEF Sets
<1>7. ASSUME UNCHANGED <<stack, phase, found, result>>, LockedByMe(r) PROVE Goal
  BY <1>2, <1>3, <1>7 DEF OnStack
<1>8. CASE UNCHANGED vars
  BY <1>4, <1>5, <1>7, <1>8 DEF vars
<1>9. CASE StartPredicate
  <2>1. OnStack(r)
    BY <1>3, <1>4, <1>5, <1>9 DEF StartPredicate
  <2> QED BY <1>9, <2>1 DEF StartPredicate, OnStack
<1>10. CASE NotFound
  <2>1. OnStack(r)
    BY <1>3, <1>4, <1>5, <1>10 DEF NotFound
  <2>2. \A i \in DOMAIN stack : i \in DOMAIN stack' /\ stack'[i] = stack[i]
    BY <1>6, <1>10, Push DEF NotFound
  <2> QED BY <1>10, <2>1, <2>2 DEF NotFound, OnStack
<1>11. CASE NoHits
  <2>1. Head(code) \in Nodes
    BY <1>11, Node DEF NoHits, Evaluating
  <2>2. SomePredicateIsEmpty
    BY <1>11, <2>1, HitsAreTheMatches DEF NoHits, SomePredicateIsEmpty
  <2> QED BY <1>2, <1>11, <2>2 DEF NoHits
<1>12. ASSUME NEW e \in Engines, SelectRows(e) PROVE Goal
  <2>1. /\ cells' = SelectedCells(SentTo(e)) /\ phase = "rows"
        /\ found' = found \cup {q \in SentTo(e) : Granted(Reply(q))}
    BY <1>12 DEF SelectRows
  <2>2. OnStack(r) \/ r \in found'
    BY <1>3, <1>4, <1>5, <2>1, SelectLocksGranted
  <2>3. CASE wait = 1
    <3>1. stack' = Append(stack, found') /\ phase' = "evaluate"
      BY <1>12, <2>3 DEF SelectRows
    <3>2. found' \in SUBSET Rows
      BY <1>6, <2>1 DEF SentTo
    <3>3. /\ \A i \in DOMAIN stack : i \in DOMAIN stack' /\ stack'[i] = stack[i]
          /\ Len(stack') \in DOMAIN stack' /\ stack'[Len(stack')] = found'
      BY <1>6, <3>1, <3>2, Push
    <3>4. OnStack(r)'
      BY <2>2, <3>3 DEF OnStack
    <3> QED BY <3>1, <3>4
  <2>4. CASE wait # 1
    <3>1. UNCHANGED <<stack, phase>>
      BY <1>12, <2>4 DEF SelectRows
    <3> QED BY <2>1, <2>2, <3>1 DEF OnStack
  <2> QED BY <2>3, <2>4
<1>13. ASSUME NEW e \in Engines, SelectRowsPending(e) \/ SelectRowsLate(e) PROVE Goal
  BY <1>13 DEF SelectRowsPending, SelectRowsLate
<1>14. CASE EvaluateAnd
  <2>1. Head(code) \in Nodes
    BY <1>14, Node DEF EvaluateAnd, Evaluating
  <2>2. HasAnd
    BY <1>14, <2>1 DEF EvaluateAnd, HasAnd
  <2> QED BY <1>2, <2>2
<1>15. CASE EvaluateOr
  <2>1. phase = "evaluate" /\ Evaluating /\ ~IsLeaf(Head(code)) /\ code # <<>> /\ cells' = cells
    BY <1>15 DEF EvaluateOr, Evaluating, IsLeaf
  <2>2. PICK i \in DOMAIN stack : r \in stack[i]
    BY <1>3, <1>4, <1>5, <2>1 DEF OnStack
  <2>3. /\ Len(stack) >= 2
        /\ Top(0) = stack[Len(stack)] /\ Top(1) = stack[Len(stack) - 1]
        /\ Top(0) \in SUBSET Rows /\ Top(1) \in SUBSET Rows
    BY <2>1, TopTwo
  <2>4. Top(1) \cup Top(0) \in SUBSET Rows /\ stack' = Append(Pop2, Top(1) \cup Top(0))
    BY <1>15, <2>3 DEF EvaluateOr
  <2>5. /\ \A j \in DOMAIN stack : \/ j \in DOMAIN stack' /\ stack'[j] = stack[j]
                                   \/ j \in {Len(stack) - 1, Len(stack)}
        /\ Len(stack') \in DOMAIN stack' /\ stack'[Len(stack')] = Top(1) \cup Top(0)
    BY <1>6, <2>3, <2>4, PopTwo
  <2>6. OnStack(r)'
    BY <2>2, <2>3, <2>5 DEF OnStack
  <2> QED BY <1>15, <2>6 DEF EvaluateOr
<1>16. CASE Finish
  <2>1. phase = "evaluate" /\ Evaluating /\ code = <<>> /\ phase' = "selected" /\ result' = Top(0)
        /\ cells' = cells
    BY <1>16 DEF Finish, Evaluating
  <2>2. DOMAIN stack = {1} /\ Top(0) = stack[1]
    BY <2>1, TopOne
  <2> QED BY <1>3, <1>4, <1>5, <2>1, <2>2 DEF OnStack
<1>17. CASE End
  BY <1>17 DEF End
<1>18. ASSUME NEW q \in Rows, \/ \E lt \in {"READLOCK", "WRITELOCK"} : OtherLocks(q, lt)
                              \/ OtherUnlocks(q)
       PROVE  Goal
  <2>1. UNCHANGED <<query, code, stack, phase, sent, wait, found, result>>
    BY <1>18 DEF OtherLocks, OtherUnlocks
  <2>2. LockedBy(cells[r], Me)
    BY <1>4, <1>18, OtherLeavesMine DEF SameFor, LockedBy
  <2> QED BY <1>5, <1>7, <2>1, <2>2
<1> QED BY <1>8, <1>9, <1>10, <1>11, <1>12, <1>13, <1>14, <1>15, <1>16, <1>17, <1>18
        DEF Next, SearchNext

\* The end releases what is remembered, and nothing is locked after it.
LEMMA LeftBehindNext ==
  ASSUME Sets, Remembered, NoLockIsLeftBehind, [Next]_vars
  PROVE  NoLockIsLeftBehind'
<1>1. SUFFICES ASSUME phase' = "ended", NEW r \in Rows, LockedByMe(r)'
               PROVE  r \notin result' /\ (HasAnd' \/ SomePredicateIsEmpty')
  BY DEF NoLockIsLeftBehind
<1>2. (HasAnd' <=> HasAnd) /\ (SomePredicateIsEmpty' <=> SomePredicateIsEmpty)
  BY TruthStays
<1>3. LockedBy(cells'[r], Me) /\ (LockedByMe(r) <=> LockedBy(cells[r], Me))
  BY <1>1 DEF LockedBy, LockedByMe
<1>4. ASSUME phase = "ended", result' = result, LockedByMe(r)
      PROVE  r \notin result' /\ (HasAnd' \/ SomePredicateIsEmpty')
  BY <1>2, <1>4 DEF NoLockIsLeftBehind
<1>5. CASE UNCHANGED vars
  BY <1>1, <1>3, <1>4, <1>5 DEF vars
<1>6. CASE End
  <2>1. Me \in Subs /\ Quiet(cells[r])
    BY SearchAssumption DEF Sets
  <2>2. r \notin result
    <3>1. CASE r \in result
      <4>1. cells'[r] = CommitCell(cells[r], Me)
        BY <1>6, <3>1 DEF End, ReleasedAtEnd
      <4> QED BY <1>3, <2>1, <4>1, CommitQuiet
    <3> QED BY <3>1
  <2>3. cells'[r] = cells[r] /\ result' = result /\ phase = "selected"
    BY <1>6, <2>2 DEF End, ReleasedAtEnd
  <2>4. LockedByMe(r)
    BY <1>3, <2>3
  <2> QED BY <1>2, <2>2, <2>3, <2>4 DEF Remembered
<1>7. ASSUME NEW q \in Rows, \/ \E lt \in {"READLOCK", "WRITELOCK"} : OtherLocks(q, lt)
                             \/ OtherUnlocks(q)
      PROVE  r \notin result' /\ (HasAnd' \/ SomePredicateIsEmpty')
  <2>1. UNCHANGED <<phase, result>>
    BY <1>7 DEF OtherLocks, OtherUnlocks
  <2>2. LockedBy(cells[r], Me)
    BY <1>3, <1>7, OtherLeavesMine DEF SameFor, LockedBy
  <2> QED BY <1>1, <1>3, <1>4, <2>1, <2>2
<1>8. CASE SearchNext /\ ~End
  BY <1>1, <1>8 DEF SearchNext, StartPredicate, NotFound, NoHits, SelectRows, SelectRowsPending,
     SelectRowsLate, EvaluateAnd, EvaluateOr, Finish
<1> QED BY <1>5, <1>6, <1>7, <1>8 DEF Next

\* When a transaction has ended, no row its statement found is locked by it; and no row
\* at all, unless the expression has an AND or was given up at a predicate that is true
\* of no row: for every tree of AND and OR over indexes that answer their predicates,
\* every table and whatever the other transaction does.
THEOREM LocksAreGivenBack ==
  ASSUME \A q \in Queries : IsTree(q.expr), IndexesAnswer
  PROVE  Spec => []NoLockIsLeftBehind
<1>1. Init => TreeInv
  <2>1. SUFFICES ASSUME Init PROVE TreeInv
    OBVIOUS
  <2>2. query \in Queries /\ phase = "evaluate"
    BY <2>1 DEF Init
  <2>3. PICK h : IsHeight(h, query.expr)
    BY <2>2 DEF IsTree
  <2>4. Shape
    BY <2>2 DEF IsTree, Shape
  <2>5. Sets /\ Position(h) /\ \A r \in Rows : ~LockedByMe(r)
    BY <2>1, <2>3, <2>4, TreeInit
  <2> QED BY <2>2, <2>4, <2>5 DEF TreeInv, Remembered, NoLockIsLeftBehind
<1>2. TreeInv /\ [Next]_vars => TreeInv'
  <2>1. SUFFICES ASSUME TreeInv, [Next]_vars PROVE TreeInv'
    OBVIOUS
  <2>2. Sets /\ Shape /\ Remembered /\ NoLockIsLeftBehind
    BY <2>1 DEF TreeInv
  <2>3. PICK h : Position(h)
    BY <2>1 DEF TreeInv
  <2>4. Sets' /\ Shape' /\ Position(h)'
    BY <2>1, <2>2, <2>3, TreeNext
  <2>5. Remembered'
    BY <2>1, <2>2, <2>3, RememberedNext
  <2>6. NoLockIsLeftBehind'
    BY <2>1, <2>2, LeftBehindNext
  <2> QED BY <2>4, <2>5, <2>6 DEF TreeInv
<1>3. TreeInv => NoLockIsLeftBehind
  BY DEF TreeInv
<1> QED BY <1>1, <1>2, <1>3, PTL DEF Spec

-----------------------------------------------------------------------------
(***************************************************************************)
(* What a statement finds is what its expression is true of.               *)
(***************************************************************************)

\* ref is the evaluation of the expression, node after node: what Matches computes.
IsEvaluation(ref) ==
  /\ ref \in [0 .. Len(query.expr) -> Seq(SUBSET Rows)]
  /\ ref[0] = <<>>
  /\ \A i \in 1 .. Len(query.expr) : ref[i] = Apply(ref[i - 1], query.expr[i])

\* The result is that of the evaluation, or the search was given up, with nothing found,
\* at a predicate that is true of no row.
RightResult(ref) == result = ref[Len(query.expr)][1] \/ (SomePredicateIsEmpty /\ result = {})
ResultIsTheEvaluation == phase = "selected" => \A ref : IsEvaluation(ref) => RightResult(ref)

\* The stack has the results of the evaluation; that of a SELECT, which skips the rows
\* it has locked, has the same rows.
AgreesWith(acc) ==
  /\ Len(acc) = Len(stack)
  /\ query.cmd # "SELECT" => stack = acc
  /\ \A r \in Rows : OnStack(r) <=> \E i \in DOMAIN acc : r \in acc[i]

Agreement(h) ==
  Evaluating => \A ref : IsEvaluation(ref) => \E n : Stands(n, h) /\ AgreesWith(ref[n])

\* While Engines are asked, one answer is missing for each Engine that has rows that were
\* asked for, and every row of the predicate is found, asked for or was found before.
Fetching ==
  phase = "rows" =>
    /\ wait = Cardinality(HomesOf(sent))
    /\ found \cup sent \subseteq RowsWhere(Head(code))
    /\ \A r \in RowsWhere(Head(code)) :
         r \in found \cup sent \/ (query.cmd = "SELECT" /\ OnStack(r))

\* A SELECT without AND, or any UPDATE or DELETE.
NoReadAnd == query.cmd = "SELECT" => ~HasAnd

EvalInv == /\ Sets /\ Shape /\ NoReadAnd
           /\ \E h : Position(h) /\ Agreement(h)
           /\ Remembered /\ Fetching /\ ResultIsTheEvaluation

\* A row that is not granted and not pending is one a SELECT has locked already.
LEMMA RefusedIsMine ==
  ASSUME NEW c, Quiet(c), NEW s \in Subs, NEW lt \in {"READLOCK", "WRITELOCK"},
         NEW reply, reply = SelectReply(c, s, lt), reply # "PENDINGLOCK", ~Granted(reply)
  PROVE  lt = "READLOCK" /\ LockedBy(c, s)
<1> USE DEF Quiet, Cell, LockTypes, WriteLockedBy, LockedBy, Granted
<1>1. CASE lt = "READLOCK"
  BY <1>1 DEF SelectReply, SelectReadlockReply, QueueReply
<1>2. CASE lt = "WRITELOCK"
  BY <1>2 DEF SelectReply, SelectWritelockReply, QueueReply
<1> QED BY <1>1, <1>2

\* An answer is one Engine less to wait for, and the last one is the last.
LEMMA OneHomeLess ==
  ASSUME sent \subseteq Rows, NEW e, SentTo(e) # {}, wait = Cardinality(HomesOf(sent)),
         NEW rest, rest = sent \ SentTo(e)
  PROVE  Cardinality(HomesOf(rest)) = wait - 1 /\ (wait = 1 => rest = {})
<1>1. IsFiniteSet(HomesOf(sent))
  <2>1. HomesOf(sent) \subseteq Engines
    BY SearchAssumption DEF HomesOf
  <2>2. IsFiniteSet(Engines)
    BY SearchAssumption, FS_Interval DEF Engines
  <2> QED BY <2>1, <2>2, FS_Subset
<1>2. e \in HomesOf(sent) /\ HomesOf(rest) = HomesOf(sent) \ {e}
  BY DEF HomesOf, SentTo
<1>3. IsFiniteSet(HomesOf(rest)) /\ Cardinality(HomesOf(rest)) = Cardinality(HomesOf(sent)) - 1
  BY <1>1, <1>2, FS_RemoveElement
<1>4. ASSUME wait = 1 PROVE rest = {}
  <2>1. Cardinality(HomesOf(rest)) = 0
    BY <1>3, <1>4
  <2>2. HomesOf(rest) = {}
    BY <1>3, <2>1, FS_EmptySet
  <2> QED BY <2>2 DEF HomesOf
<1> QED BY <1>3, <1>4

\* The evaluation is the same before and after a step.
LEMMA EvaluationStays ==
  ASSUME Sets, [Next]_vars, NEW ref
  PROVE  IsEvaluation(ref)' <=> IsEvaluation(ref)
<1>1. query' = query /\ \A leaf : RowsWhere(leaf)' = RowsWhere(leaf)
  BY CellsStayQuiet, TruthStays
<1>2. ASSUME NEW acc, NEW node PROVE Apply(acc, node)' = Apply(acc, node)
  BY <1>1 DEF Apply
<1> QED BY <1>1, <1>2 DEF IsEvaluation

\* A predicate that adds its rows to the stack keeps the agreement.
LEMMA AgreePush ==
  ASSUME Sets, Shape, NEW h, Position(h), code # <<>>, IsLeaf(Head(code)), NEW n, Stands(n, h),
         NEW x \in SUBSET Rows, stack' = Append(stack, x), code' = Tail(code), query' = query,
         NEW ref, IsEvaluation(ref), AgreesWith(ref[n]),
         x \subseteq RowsWhere(Head(code)),
         \A r \in RowsWhere(Head(code)) : r \in x \/ (query.cmd = "SELECT" /\ OnStack(r))
  PROVE  Stands(n + 1, h)' /\ AgreesWith(ref[n + 1])'
<1>1. Stands(n + 1, h)'
  BY PushStep
<1>2. n \in Nat /\ n + 1 \in 1 .. Len(query.expr) /\ Head(code) = query.expr[n + 1]
  BY NodeAt
<1> DEFINE acc == ref[n]
           new == ref[n + 1]
           w   == RowsWhere(Head(code))
<1>3. new = Append(acc, w)
  <2>1. ref[n + 1] = Apply(ref[(n + 1) - 1], query.expr[n + 1])
    BY <1>2 DEF IsEvaluation
  <2>2. (n + 1) - 1 = n
    BY <1>2
  <2>3. Apply(acc, Head(code)) = Append(acc, w)
    BY DEF Apply, IsLeaf
  <2> QED BY <1>2, <2>1, <2>2, <2>3
<1>4. acc \in Seq(SUBSET Rows) /\ w \in SUBSET Rows /\ stack \in Seq(SUBSET Rows)
  <2>1. n \in 0 .. Len(query.expr)
    BY DEF Stands
  <2> QED BY <2>1 DEF IsEvaluation, RowsWhere, Sets
<1>5. AgreesWith(acc)
  OBVIOUS
<1> HIDE DEF acc, new, w
<1>6. /\ Len(new) = Len(acc) + 1
      /\ \A i \in DOMAIN new : (i \in DOMAIN acc /\ new[i] = acc[i]) \/ new[i] = w
      /\ \A i \in DOMAIN acc : i \in DOMAIN new /\ new[i] = acc[i]
      /\ Len(new) \in DOMAIN new /\ new[Len(new)] = w
  BY <1>3, <1>4, Push
<1>7. /\ Len(stack') = Len(stack) + 1
      /\ \A i \in DOMAIN stack' : (i \in DOMAIN stack /\ stack'[i] = stack[i]) \/ stack'[i] = x
      /\ \A i \in DOMAIN stack : i \in DOMAIN stack' /\ stack'[i] = stack[i]
      /\ Len(stack') \in DOMAIN stack' /\ stack'[Len(stack')] = x
  BY <1>4, Push
<1>8. Len(new) = Len(stack')
  BY <1>5, <1>6, <1>7 DEF AgreesWith
<1>9. query'.cmd # "SELECT" => stack' = new
  <2>1. query.cmd # "SELECT" => x = w
    BY DEF w
  <2> QED BY <1>3, <1>5, <2>1 DEF AgreesWith
<1>10. \A r \in Rows : OnStack(r)' <=> OnStack(r) \/ r \in x
  BY <1>7 DEF OnStack
<1>11. \A r \in Rows : (\E i \in DOMAIN new : r \in new[i])
                         <=> (\E i \in DOMAIN acc : r \in acc[i]) \/ r \in w
  BY <1>6
<1>12. \A r \in Rows : (OnStack(r) \/ r \in x) <=> (OnStack(r) \/ r \in w)
  BY DEF w
<1>13. \A r \in Rows : OnStack(r)' <=> \E i \in DOMAIN new : r \in new[i]
  BY <1>5, <1>10, <1>11, <1>12 DEF AgreesWith
<1>14. AgreesWith(new)'
  BY <1>8, <1>9, <1>13 DEF AgreesWith
<1> QED BY <1>1, <1>14 DEF new

ButTwo(acc) == SubSeq(acc, 1, Len(acc) - 2)

\* All but the two sets on top.
LEMMA ButTwoIsASeq ==
  ASSUME NEW acc \in Seq(SUBSET Rows), Len(acc) >= 2
  PROVE  /\ ButTwo(acc) \in Seq(SUBSET Rows) /\ Len(ButTwo(acc)) = Len(acc) - 2
         /\ \A i \in 1 .. (Len(acc) - 2) : ButTwo(acc)[i] = acc[i]
<1>1. Len(acc) \in Nat
  OBVIOUS
<1>2. 1 \in Int /\ Len(acc) - 2 \in Int
      /\ \A i \in 1 .. (Len(acc) - 2) : acc[i] \in SUBSET Rows
  BY <1>1
<1>3. /\ ButTwo(acc) \in Seq(SUBSET Rows)
      /\ Len(ButTwo(acc)) = IF 1 <= Len(acc) - 2 THEN (Len(acc) - 2) - 1 + 1 ELSE 0
      /\ \A i \in 1 .. (Len(acc) - 2) - 1 + 1 : ButTwo(acc)[i] = acc[1 + i - 1]
  BY <1>2, SubSeqProperties DEF ButTwo
<1>4. ASSUME NEW k \in Nat, k >= 2
      PROVE  (IF 1 <= k - 2 THEN (k - 2) - 1 + 1 ELSE 0) = k - 2
  BY <1>4
<1>5. ASSUME NEW i \in 1 .. (Len(acc) - 2) PROVE ButTwo(acc)[i] = acc[i]
  <2>1. i \in 1 .. (Len(acc) - 2) - 1 + 1 /\ 1 + i - 1 = i
    BY <1>1
  <2> QED BY <1>3, <2>1
<1> QED BY <1>1, <1>3, <1>4, <1>5

\* Joining the two top sets of a stack keeps what is on it.
LEMMA OrOfTheTopTwo ==
  ASSUME NEW acc \in Seq(SUBSET Rows), Len(acc) >= 2, NEW new,
         new = Append(ButTwo(acc), acc[Len(acc) - 1] \cup acc[Len(acc)])
  PROVE  /\ Len(new) = Len(acc) - 1
         /\ \A r \in Rows : (\E i \in DOMAIN new : r \in new[i]) <=> (\E i \in DOMAIN acc : r \in acc[i])
<1> DEFINE sub == ButTwo(acc)
           x   == acc[Len(acc) - 1] \cup acc[Len(acc)]
<1>1. Len(acc) \in Nat /\ DOMAIN acc = 1 .. Len(acc)
  OBVIOUS
<1>2. /\ sub \in Seq(SUBSET Rows) /\ Len(sub) = Len(acc) - 2
      /\ \A i \in 1 .. (Len(acc) - 2) : sub[i] = acc[i]
  BY ButTwoIsASeq
<1>3. x \in SUBSET Rows /\ Len(acc) - 1 \in DOMAIN acc /\ Len(acc) \in DOMAIN acc
  BY <1>1
<1>4. new = Append(sub, x)
  OBVIOUS
<1> HIDE DEF sub
<1>5. /\ Len(new) = Len(sub) + 1
      /\ \A i \in DOMAIN new : (i \in DOMAIN sub /\ new[i] = sub[i]) \/ new[i] = x
      /\ \A i \in DOMAIN sub : i \in DOMAIN new /\ new[i] = sub[i]
      /\ Len(new) \in DOMAIN new /\ new[Len(new)] = x
  BY <1>2, <1>3, <1>4, Push
<1>6. DOMAIN sub = 1 .. (Len(acc) - 2)
  BY <1>2
<1>7. Len(new) = Len(acc) - 1
  <2>1. Len(new) = (Len(acc) - 2) + 1
    BY <1>2, <1>5
  <2>2. \A k \in Nat : (k - 2) + 1 = k - 1
    OBVIOUS
  <2> QED BY <1>1, <2>1, <2>2
<1>8. ASSUME NEW r \in Rows, NEW i \in DOMAIN new, r \in new[i]
      PROVE  \E j \in DOMAIN acc : r \in acc[j]
  <2>1. CASE i \in DOMAIN sub /\ new[i] = sub[i]
    BY <1>1, <1>2, <1>6, <1>8, <2>1
  <2>2. CASE new[i] = x
    BY <1>3, <1>8, <2>2
  <2> QED BY <1>5, <2>1, <2>2
<1>9. ASSUME NEW r \in Rows, NEW i \in DOMAIN acc, r \in acc[i]
      PROVE  \E j \in DOMAIN new : r \in new[j]
  <2>1. CASE i \in 1 .. (Len(acc) - 2)
    BY <1>2, <1>5, <1>6, <1>9, <2>1
  <2>2. CASE i \notin 1 .. (Len(acc) - 2)
    <3>1. i = Len(acc) - 1 \/ i = Len(acc)
      BY <1>1, <2>2
    <3>2. r \in x
      BY <1>9, <3>1
    <3> QED BY <1>5, <3>2
  <2> QED BY <2>1, <2>2
<1> QED BY <1>7, <1>8, <1>9

\* So does an OR, and an AND of a statement that changes rows.
LEMMA AgreePop ==
  ASSUME Sets, Shape, NEW h, Position(h), Evaluating, code # <<>>, NEW n, Stands(n, h),
         EvaluateOr \/ (EvaluateAnd /\ query.cmd # "SELECT"),
         NEW ref, IsEvaluation(ref), AgreesWith(ref[n])
  PROVE  Stands(n + 1, h)' /\ AgreesWith(ref[n + 1])'
<1>1. n \in Nat /\ n + 1 \in 1 .. Len(query.expr) /\ Head(code) = query.expr[n + 1]
  BY NodeAt
<1>2. ~IsLeaf(Head(code)) /\ code' = Tail(code) /\ query' = query
  BY DEF EvaluateOr, EvaluateAnd, IsLeaf
<1>3. /\ Len(stack) \in Nat /\ Len(stack) >= 2
      /\ Len(stack) - 1 \in DOMAIN stack /\ Len(stack) \in DOMAIN stack
      /\ Top(0) = stack[Len(stack)] /\ Top(1) = stack[Len(stack) - 1]
      /\ Top(0) \in SUBSET Rows /\ Top(1) \in SUBSET Rows
  BY <1>2, TopTwo
<1>4. PICK x \in SUBSET Rows : /\ stack' = Append(Pop2, x)
                               /\ EvaluateOr => x = Top(1) \cup Top(0)
                               /\ EvaluateAnd => x = Top(1) \cap Top(0)
  <2>1. CASE EvaluateOr
    <3>1. ~EvaluateAnd
      BY <2>1 DEF EvaluateOr, EvaluateAnd
    <3> QED BY <1>3, <2>1, <3>1 DEF EvaluateOr
  <2>2. CASE EvaluateAnd
    <3>1. ~EvaluateOr
      BY <2>2 DEF EvaluateOr, EvaluateAnd
    <3> QED BY <1>3, <2>2, <3>1 DEF EvaluateAnd
  <2> QED BY <2>1, <2>2
<1>5. Stands(n + 1, h)'
  BY <1>2, <1>4, PopStep
<1> DEFINE acc == ref[n]
           new == ref[n + 1]
           k   == Len(acc)
<1>6. new = Apply(acc, Head(code))
  <2>1. ref[n + 1] = Apply(ref[(n + 1) - 1], query.expr[n + 1])
    BY <1>1 DEF IsEvaluation
  <2>2. (n + 1) - 1 = n
    BY <1>1
  <2> QED BY <1>1, <2>1, <2>2
<1>7. acc \in Seq(SUBSET Rows) /\ new \in Seq(SUBSET Rows) /\ AgreesWith(acc)
  <2>1. n \in 0 .. Len(query.expr) /\ n + 1 \in 0 .. Len(query.expr)
    BY <1>1 DEF Stands
  <2> QED BY <2>1 DEF IsEvaluation
<1>8. k = Len(stack)
  BY <1>7 DEF AgreesWith
<1>9. CASE query.cmd # "SELECT"
  <2>1. acc = stack
    BY <1>7, <1>9 DEF AgreesWith
  <2> HIDE DEF acc, new
  <2>2. new = Append(Pop2, x)
    <3>1. CASE EvaluateOr
      <4>1. Head(code).op = "OR"
        BY <3>1 DEF EvaluateOr
      <4>2. Apply(acc, Head(code)) = Append(SubSeq(acc, 1, k - 2), acc[k - 1] \cup acc[k])
        BY <1>2, <4>1 DEF Apply
      <4> QED BY <1>3, <1>4, <1>6, <2>1, <3>1, <4>2 DEF Pop2
    <3>2. CASE EvaluateAnd
      <4>1. Head(code).op = "AND"
        BY <3>2 DEF EvaluateAnd
      <4>2. Apply(acc, Head(code)) = Append(SubSeq(acc, 1, k - 2), acc[k - 1] \cap acc[k])
        BY <1>2, <4>1 DEF Apply
      <4> QED BY <1>3, <1>4, <1>6, <2>1, <3>2, <4>2 DEF Pop2
    <3> QED BY <3>1, <3>2
  <2>3. stack' = new
    BY <1>4, <2>2
  <2>4. AgreesWith(new)'
    BY <2>3 DEF AgreesWith, OnStack
  <2> QED BY <1>5, <2>4 DEF new
<1>10. CASE query.cmd = "SELECT"
  <2>1. EvaluateOr /\ Head(code).op = "OR" /\ x = Top(1) \cup Top(0)
    BY <1>4, <1>10 DEF EvaluateOr
  <2>2. new = Append(SubSeq(acc, 1, k - 2), acc[k - 1] \cup acc[k])
    BY <1>2, <1>6, <2>1 DEF Apply
  <2> HIDE DEF acc, new, k
  <2>3. /\ Len(stack') = Len(stack) - 1
        /\ \A r \in Rows : OnStack(r)' <=> OnStack(r)
    <3>1. Len(stack) >= 2 /\ stack \in Seq(SUBSET Rows)
      BY <1>3 DEF Sets
    <3>2. stack' = Append(ButTwo(stack), stack[Len(stack) - 1] \cup stack[Len(stack)])
      BY <1>3, <1>4, <2>1 DEF ButTwo, Pop2
    <3>3. /\ Len(stack') = Len(stack) - 1
          /\ \A r \in Rows : (\E i \in DOMAIN stack' : r \in stack'[i])
                             <=> (\E i \in DOMAIN stack : r \in stack[i])
      BY ONLY <3>1, <3>2, OrOfTheTopTwo
    <3> QED BY <3>3 DEF OnStack
  <2>4. /\ Len(new) = k - 1
        /\ \A r \in Rows : (\E i \in DOMAIN new : r \in new[i]) <=> (\E i \in DOMAIN acc : r \in acc[i])
    <3>1. Len(acc) >= 2 /\ acc \in Seq(SUBSET Rows)
      BY <1>3, <1>7, <1>8 DEF k
    <3>2. new = Append(ButTwo(acc), acc[Len(acc) - 1] \cup acc[Len(acc)])
      BY <2>2 DEF k, ButTwo
    <3>3. /\ Len(new) = Len(acc) - 1
          /\ \A r \in Rows : (\E i \in DOMAIN new : r \in new[i]) <=> (\E i \in DOMAIN acc : r \in acc[i])
      BY ONLY <3>1, <3>2, OrOfTheTopTwo
    <3> QED BY <3>3 DEF k
  <2>5. AgreesWith(new)'
    BY <1>2, <1>7, <1>8, <1>10, <2>3, <2>4 DEF AgreesWith
  <2> QED BY <1>5, <2>5 DEF new
<1> QED BY <1>9, <1>10

\* The rows of the predicate at hand stay the same.
LEMMA PredicateStays ==
  ASSUME Sets, [Next]_vars, code' = code
  PROVE  RowsWhere(Head(code))' = RowsWhere(Head(code))
<1>1. \A r \in Rows : cells'[r].row = cells[r].row
  BY CellsStayQuiet
<1>2. \A r \in Rows : Holds(Head(code'), cells'[r].row[Head(code').field])
                        <=> Holds(Head(code), cells[r].row[Head(code).field])
  BY <1>1
<1> QED BY <1>2 DEF RowsWhere

\* What an Engine grants is found, and what it refuses was found before.
LEMMA Fetched ==
  ASSUME Sets, Remembered, NoReadAnd, Fetching, NEW e \in Engines, SelectRows(e)
  PROVE  /\ found' \cup sent' \subseteq RowsWhere(Head(code))
         /\ \A r \in RowsWhere(Head(code)) :
              r \in found' \cup sent' \/ (query.cmd = "SELECT" /\ OnStack(r))
         /\ wait' = Cardinality(HomesOf(sent')) /\ (wait = 1 => sent' = {})
<1>1. /\ phase = "rows" /\ SentTo(e) # {} /\ wait' = wait - 1 /\ sent' = sent \ SentTo(e)
      /\ \A r \in SentTo(e) : Reply(r) # "PENDINGLOCK"
      /\ found' = found \cup {r \in SentTo(e) : Granted(Reply(r))}
  BY DEF SelectRows
<1>2. /\ wait = Cardinality(HomesOf(sent))
      /\ found \cup sent \subseteq RowsWhere(Head(code))
      /\ \A r \in RowsWhere(Head(code)) :
           r \in found \cup sent \/ (query.cmd = "SELECT" /\ OnStack(r))
  BY <1>1 DEF Fetching
<1>3. sent \subseteq Rows /\ SentTo(e) \subseteq sent
  BY DEF Sets, SentTo
<1>4. wait' = Cardinality(HomesOf(sent')) /\ (wait = 1 => sent' = {})
  <2>1. Cardinality(HomesOf(sent')) = wait - 1 /\ (wait = 1 => sent' = {})
    BY <1>1, <1>2, <1>3, OneHomeLess
  <2> QED BY <1>1, <2>1
<1>5. ASSUME NEW r \in SentTo(e), ~Granted(Reply(r))
      PROVE  query.cmd = "SELECT" /\ (OnStack(r) \/ r \in found)
  <2>1. Me \in Subs /\ Quiet(cells[r]) /\ r \in Rows /\ LockOf(query) \in {"READLOCK", "WRITELOCK"}
    BY <1>3, <1>5, SearchAssumption, LockOfQuery DEF Sets
  <2>2. Reply(r) = SelectReply(cells[r], Me, LockOf(query)) /\ Reply(r) # "PENDINGLOCK"
    BY <1>1, <1>5 DEF Reply
  <2>3. LockOf(query) = "READLOCK" /\ LockedBy(cells[r], Me)
    BY <1>5, <2>1, <2>2, RefusedIsMine
  <2>4. query.cmd = "SELECT"
    BY <2>3 DEF LockOf
  <2>5. LockedByMe(r)
    BY <2>3 DEF LockedBy, LockedByMe
  <2> QED BY <1>1, <2>1, <2>4, <2>5 DEF NoReadAnd, Remembered
<1>6. found' \cup sent' \subseteq RowsWhere(Head(code))
  BY <1>1, <1>2, <1>3
<1>7. ASSUME NEW r \in RowsWhere(Head(code))
      PROVE  r \in found' \cup sent' \/ (query.cmd = "SELECT" /\ OnStack(r))
  <2>1. CASE r \in SentTo(e)
    BY <1>1, <1>5, <2>1
  <2>2. CASE r \notin SentTo(e)
    BY <1>1, <1>2, <1>7, <2>2
  <2> QED BY <2>1, <2>2
<1> QED BY <1>4, <1>6, <1>7

\* Every step keeps count of the Engines and of the rows of the predicate.
LEMMA FetchingNext ==
  ASSUME IndexesAnswer, Sets, Shape, NEW h, Position(h), Remembered, NoReadAnd, Fetching,
         [Next]_vars
  PROVE  Fetching'
<1>1. SUFFICES ASSUME phase' = "rows" PROVE Fetching'
  BY DEF Fetching
<1>2. query' = query
  BY CellsStayQuiet
<1>3. ASSUME UNCHANGED <<code, stack, phase, sent, wait, found>> PROVE Fetching'
  <2>1. RowsWhere(Head(code))' = RowsWhere(Head(code))
    BY <1>3, PredicateStays
  <2>2. HomesOf(sent') = HomesOf(sent)
    BY <1>3
  <2> QED BY <1>2, <1>3, <2>1, <2>2 DEF Fetching, OnStack, HomesOf
<1>4. CASE UNCHANGED vars
  BY <1>3, <1>4 DEF vars
<1>5. CASE StartPredicate
  <2>1. code # <<>> /\ IsLeaf(Head(code)) /\ Evaluating /\ code' = code
    BY <1>5 DEF StartPredicate, Evaluating
  <2>2. IndexHits(Head(code)) = RowsWhere(Head(code))
    BY <2>1, Node, HitsAreTheMatches
  <2>3. RowsWhere(Head(code))' = RowsWhere(Head(code))
    BY <2>1, PredicateStays
  <2>4. found' = {} /\ sent' = RowsWhere(Head(code)) /\ wait' = Cardinality(HomesOf(sent'))
    BY <1>5, <2>2 DEF StartPredicate, WaitFor
  <2> QED BY <2>3, <2>4 DEF Fetching, HomesOf
<1>6. ASSUME NEW e \in Engines, SelectRows(e) PROVE Fetching'
  <2>1. /\ found' \cup sent' \subseteq RowsWhere(Head(code))
        /\ \A r \in RowsWhere(Head(code)) :
             r \in found' \cup sent' \/ (query.cmd = "SELECT" /\ OnStack(r))
        /\ wait' = Cardinality(HomesOf(sent'))
    BY <1>6, Fetched
  <2>2. code' = code /\ stack' = stack
    BY <1>1, <1>6 DEF SelectRows
  <2>3. RowsWhere(Head(code))' = RowsWhere(Head(code))
    BY <2>2, PredicateStays
  <2> QED BY <1>2, <2>1, <2>2, <2>3 DEF Fetching, OnStack, HomesOf
<1>7. CASE \E r \in Rows : \/ \E lt \in {"READLOCK", "WRITELOCK"} : OtherLocks(r, lt)
                           \/ OtherUnlocks(r)
  BY <1>3, <1>7 DEF OtherLocks, OtherUnlocks
<1>8. CASE \/ NotFound \/ NoHits \/ EvaluateAnd \/ EvaluateOr \/ Finish \/ End
           \/ \E e \in Engines : SelectRowsPending(e) \/ SelectRowsLate(e)
  BY <1>1, <1>8 DEF NotFound, NoHits, EvaluateAnd, EvaluateOr, Finish, End, SelectRowsPending,
     SelectRowsLate
<1> QED BY <1>4, <1>5, <1>6, <1>7, <1>8 DEF Next, SearchNext

\* Every step keeps the stack and the evaluation together.
LEMMA AgreementNext ==
  ASSUME IndexesAnswer, Sets, Shape, NEW h, Position(h), Remembered, NoReadAnd, Fetching,
         Agreement(h), [Next]_vars
  PROVE  Agreement(h)'
<1>1. SUFFICES ASSUME Evaluating', NEW ref, IsEvaluation(ref)'
               PROVE  \E n : Stands(n, h)' /\ AgreesWith(ref[n])'
  BY DEF Agreement
<1> DEFINE Goal == \E n : Stands(n, h)' /\ AgreesWith(ref[n])'
<1>2. query' = query /\ IsEvaluation(ref)
  BY <1>1, CellsStayQuiet, EvaluationStays
<1>3. ASSUME Evaluating PROVE \E n : Stands(n, h) /\ AgreesWith(ref[n])
  BY <1>2, <1>3 DEF Agreement
<1>4. ASSUME Evaluating, UNCHANGED <<code, stack>> PROVE Goal
  <2>1. PICK n : Stands(n, h) /\ AgreesWith(ref[n])
    BY <1>3, <1>4
  <2>2. Stands(n, h)' /\ AgreesWith(ref[n])'
    BY <1>2, <1>4, <2>1 DEF Stands, AgreesWith, OnStack
  <2> QED BY <2>2
<1>5. ASSUME Evaluating, code # <<>>, IsLeaf(Head(code)), code' = Tail(code),
             NEW x \in SUBSET Rows, stack' = Append(stack, x), x \subseteq RowsWhere(Head(code)),
             \A r \in RowsWhere(Head(code)) : r \in x \/ (query.cmd = "SELECT" /\ OnStack(r))
      PROVE  Goal
  <2>1. PICK n : Stands(n, h) /\ AgreesWith(ref[n])
    BY <1>3, <1>5
  <2>2. Stands(n + 1, h)' /\ AgreesWith(ref[n + 1])'
    BY <1>2, <1>5, <2>1, AgreePush
  <2> QED BY <2>2
<1>6. CASE UNCHANGED vars
  BY <1>1, <1>4, <1>6 DEF vars, Evaluating
<1>7. CASE StartPredicate
  BY <1>4, <1>7 DEF StartPredicate, Evaluating
<1>8. CASE NotFound
  <2>1. Evaluating /\ code # <<>> /\ IsLeaf(Head(code)) /\ code' = Tail(code)
        /\ IndexHits(Head(code)) = {} /\ stack' = Append(stack, {})
    BY <1>8 DEF NotFound, Evaluating
  <2>2. RowsWhere(Head(code)) = {}
    BY <2>1, Node, HitsAreTheMatches
  <2> QED BY <1>5, <2>1, <2>2
<1>9. ASSUME NEW e \in Engines, SelectRows(e) PROVE Goal
  <2>1. phase = "rows" /\ Evaluating
    BY <1>9 DEF SelectRows, Evaluating
  <2>2. CASE wait = 1
    <3>1. stack' = Append(stack, found') /\ code' = Tail(code)
      BY <1>9, <2>2 DEF SelectRows
    <3>2. code # <<>> /\ IsLeaf(Head(code))
      BY <2>1 DEF Position
    <3>3. /\ found' \cup sent' \subseteq RowsWhere(Head(code)) /\ sent' = {}
          /\ \A r \in RowsWhere(Head(code)) :
               r \in found' \cup sent' \/ (query.cmd = "SELECT" /\ OnStack(r))
      BY <1>9, <2>2, Fetched
    <3>4. PICK x : x = found'
      OBVIOUS
    <3>5. x \in SUBSET Rows /\ x \subseteq RowsWhere(Head(code))
      BY <3>3, <3>4 DEF RowsWhere
    <3>6. \A r \in RowsWhere(Head(code)) : r \in x \/ (query.cmd = "SELECT" /\ OnStack(r))
      BY <3>3, <3>4
    <3> QED BY <1>5, <2>1, <3>1, <3>2, <3>4, <3>5, <3>6
  <2>3. CASE wait # 1
    <3>1. UNCHANGED <<code, stack>>
      BY <1>9, <2>3 DEF SelectRows
    <3> QED BY <1>4, <2>1, <3>1
  <2> QED BY <2>2, <2>3
<1>10. CASE EvaluateAnd \/ EvaluateOr
  <2>1. Evaluating /\ code # <<>>
    BY <1>10 DEF EvaluateAnd, EvaluateOr, Evaluating
  <2>2. EvaluateOr \/ (EvaluateAnd /\ query.cmd # "SELECT")
    BY <1>10, <2>1, Node DEF EvaluateAnd, HasAnd, NoReadAnd
  <2>3. PICK n : Stands(n, h) /\ AgreesWith(ref[n])
    BY <1>3, <2>1
  <2>4. Stands(n + 1, h)' /\ AgreesWith(ref[n + 1])'
    BY <1>2, <2>1, <2>2, <2>3, AgreePop
  <2> QED BY <2>4
<1>11. CASE \E r \in Rows : \/ \E lt \in {"READLOCK", "WRITELOCK"} : OtherLocks(r, lt)
                            \/ OtherUnlocks(r)
  BY <1>1, <1>4, <1>11 DEF OtherLocks, OtherUnlocks, Evaluating
<1>12. CASE \/ NoHits \/ Finish \/ End
            \/ \E e \in Engines : SelectRowsPending(e) \/ SelectRowsLate(e)
  BY <1>1, <1>12 DEF NoHits, Finish, End, SelectRowsPending, SelectRowsLate, Evaluating
<1> QED BY <1>6, <1>7, <1>8, <1>9, <1>10, <1>11, <1>12 DEF Next, SearchNext

\* The result a search ends with is that of the evaluation.
LEMMA ResultNext ==
  ASSUME IndexesAnswer, Sets, Shape, NEW h, Position(h), Agreement(h), ResultIsTheEvaluation,
         [Next]_vars
  PROVE  ResultIsTheEvaluation'
<1>1. SUFFICES ASSUME phase' = "selected", NEW ref, IsEvaluation(ref)'
               PROVE  RightResult(ref)'
  BY DEF ResultIsTheEvaluation
<1>2. query' = query /\ IsEvaluation(ref) /\ (SomePredicateIsEmpty' <=> SomePredicateIsEmpty)
  BY <1>1, CellsStayQuiet, EvaluationStays, TruthStays
<1>3. ASSUME UNCHANGED <<phase, result>> PROVE RightResult(ref)'
  <2>1. RightResult(ref)
    BY <1>1, <1>2, <1>3 DEF ResultIsTheEvaluation
  <2> QED BY <1>2, <1>3, <2>1 DEF RightResult
<1>4. CASE UNCHANGED vars
  BY <1>3, <1>4 DEF vars
<1>5. CASE NoHits
  <2>1. /\ code # <<>> /\ IsLeaf(Head(code)) /\ Evaluating /\ result' = {}
        /\ IndexHits(Head(code)) = {} /\ ~IsSearchReturn1(Head(code))
    BY <1>5 DEF NoHits, Evaluating
  <2>2. SomePredicateIsEmpty
    BY <2>1, Node, HitsAreTheMatches DEF SomePredicateIsEmpty
  <2> QED BY <1>2, <2>1, <2>2 DEF RightResult
<1>6. CASE Finish
  <2>1. Evaluating /\ code = <<>> /\ result' = Top(0)
    BY <1>6 DEF Finish, Evaluating
  <2>2. PICK n : Stands(n, h) /\ AgreesWith(ref[n])
    BY <1>2, <2>1 DEF Agreement
  <2>3. n = Len(query.expr)
    BY <2>1, <2>2, EndFacts DEF Shape
  <2>4. Len(stack) = 1 /\ DOMAIN stack = {1} /\ Top(0) = stack[1] /\ Top(0) \in SUBSET Rows
    BY <2>1, TopOne
  <2>5. ref[n] \in Seq(SUBSET Rows)
    BY <1>2, <2>2 DEF IsEvaluation, Stands
  <2>6. DOMAIN ref[n] = {1} /\ ref[n][1] \in SUBSET Rows
    BY <2>2, <2>4, <2>5 DEF AgreesWith
  <2>7. \A r \in Rows : r \in stack[1] <=> r \in ref[n][1]
    BY <2>2, <2>4, <2>6 DEF AgreesWith, OnStack
  <2>8. result' = ref[n][1]
    BY <2>1, <2>4, <2>6, <2>7
  <2> QED BY <1>2, <2>3, <2>8 DEF RightResult
<1>7. CASE \E r \in Rows : \/ \E lt \in {"READLOCK", "WRITELOCK"} : OtherLocks(r, lt)
                           \/ OtherUnlocks(r)
  BY <1>3, <1>7 DEF OtherLocks, OtherUnlocks
<1>8. CASE \/ StartPredicate \/ NotFound \/ EvaluateAnd \/ EvaluateOr \/ End
           \/ \E e \in Engines : SelectRows(e) \/ SelectRowsPending(e) \/ SelectRowsLate(e)
  BY <1>1, <1>8 DEF StartPredicate, NotFound, EvaluateAnd, EvaluateOr, End, SelectRows,
     SelectRowsPending, SelectRowsLate
<1> QED BY <1>4, <1>5, <1>6, <1>7, <1>8 DEF Next, SearchNext

-----------------------------------------------------------------------------
(***************************************************************************)
(* The evaluation exists, and Matches is its result.                       *)
(***************************************************************************)

\* A set with 0 and the successor of each of its numbers has all of them.
LEMMA NatSetInduction ==
  ASSUME NEW S, 0 \in S, \A n \in Nat : n \in S => n + 1 \in S
  PROVE  Nat \subseteq S
<1> DEFINE R == OpToRel(<, Nat)
           T == {n \in Nat : n \notin S}
<1>1. IsWellFoundedOn(R, Nat)
  BY NatLessThanWellFounded
<1>2. \A m, n \in Nat : m < n => <<m, n>> \in R
  BY DEF OpToRel
<1> HIDE DEF R
<1>3. CASE T # {}
  <2>1. T \subseteq Nat
    OBVIOUS
  <2>2. PICK n \in T : \A y \in T : ~ (<<y, n>> \in R)
    BY <1>1, <1>3, <2>1, WFMin
  <2>3. n # 0 /\ n \in Nat /\ n - 1 \in Nat /\ n - 1 < n /\ (n - 1) + 1 = n
    BY <2>2
  <2>4. n - 1 \in T
    BY <2>2, <2>3
  <2> QED BY <1>2, <2>2, <2>3, <2>4
<1> QED BY <1>3

\* The evaluation of the first n nodes.
EvaluatesFirst(f, n) ==
  /\ f \in [0 .. n -> Seq(SUBSET Rows)]
  /\ f[0] = <<>>
  /\ \A i \in 1 .. n : f[i] = Apply(f[i - 1], query.expr[i])

\* One more node.
LEMMA ApplyOne ==
  ASSUME NEW acc \in Seq(SUBSET Rows), NEW node, ~IsLeaf(node) => Len(acc) >= 2
  PROVE  /\ Apply(acc, node) \in Seq(SUBSET Rows)
         /\ Len(Apply(acc, node)) = IF IsLeaf(node) THEN Len(acc) + 1 ELSE Len(acc) - 1
<1>1. CASE IsLeaf(node)
  <2>1. Apply(acc, node) = Append(acc, RowsWhere(node))
    BY <1>1 DEF Apply, IsLeaf
  <2>2. RowsWhere(node) \in SUBSET Rows
    BY DEF RowsWhere
  <2> QED BY <1>1, <2>1, <2>2, Push
<1>2. CASE ~IsLeaf(node)
  <2>1. Len(acc) \in Nat /\ Len(acc) >= 2
    BY <1>2
  <2>2. PICK x \in SUBSET Rows : Apply(acc, node) = Append(ButTwo(acc), x)
    <3>1. CASE node.op = "AND"
      <4>1. Apply(acc, node) = Append(ButTwo(acc), acc[Len(acc) - 1] \cap acc[Len(acc)])
        BY <1>2, <3>1 DEF Apply, ButTwo
      <4>2. acc[Len(acc) - 1] \cap acc[Len(acc)] \in SUBSET Rows
        BY <2>1
      <4> QED BY <4>1, <4>2
    <3>2. CASE node.op = "OR"
      <4>1. Apply(acc, node) = Append(ButTwo(acc), acc[Len(acc) - 1] \cup acc[Len(acc)])
        BY <1>2, <3>2 DEF Apply, ButTwo
      <4>2. acc[Len(acc) - 1] \cup acc[Len(acc)] \in SUBSET Rows
        BY <2>1
      <4> QED BY <4>1, <4>2
    <3> QED BY <1>2, <3>1, <3>2 DEF IsLeaf
  <2>3. ButTwo(acc) \in Seq(SUBSET Rows) /\ Len(ButTwo(acc)) = Len(acc) - 2
    BY <2>1, ButTwoIsASeq
  <2>4. /\ Append(ButTwo(acc), x) \in Seq(SUBSET Rows)
        /\ Len(Append(ButTwo(acc), x)) = (Len(acc) - 2) + 1
    BY <2>3, Push
  <2>5. \A k \in Nat : (k - 2) + 1 = k - 1
    OBVIOUS
  <2> QED BY <1>2, <2>1, <2>2, <2>4, <2>5
<1> QED BY <1>1, <1>2

\* So every tree has an evaluation.
LEMMA EvaluationExists ==
  ASSUME Shape, NEW h, IsHeight(h, query.expr)
  PROVE  \E ref : IsEvaluation(ref)
<1> DEFINE len == Len(query.expr)
           S   == {n \in Nat : n <= len => \E f : EvaluatesFirst(f, n) /\ Len(f[n]) = h[n]}
<1>1. len \in Nat
  BY DEF Shape
<1>2. /\ h[0] = 0
      /\ \A i \in 1 .. len : IF IsLeaf(query.expr[i]) THEN h[i] = h[i - 1] + 1
                                                      ELSE h[i - 1] >= 2 /\ h[i] = h[i - 1] - 1
  BY DEF IsHeight
<1> HIDE DEF len
<1>3. 0 \in S
  <2> DEFINE f == [i \in 0 .. 0 |-> <<>>]
  <2>1. EvaluatesFirst(f, 0)
    BY DEF EvaluatesFirst
  <2>2. Len(f[0]) = h[0]
    BY <1>2
  <2> QED BY <2>1, <2>2
<1>4. ASSUME NEW n \in Nat, n \in S PROVE n + 1 \in S
  <2>1. SUFFICES ASSUME n + 1 <= len PROVE \E g : EvaluatesFirst(g, n + 1) /\ Len(g[n + 1]) = h[n + 1]
    OBVIOUS
  <2>2. PICK f : EvaluatesFirst(f, n) /\ Len(f[n]) = h[n]
    BY <1>1, <1>4, <2>1
  <2> DEFINE node == query.expr[n + 1]
             new  == Apply(f[n], node)
             g    == [i \in 0 .. (n + 1) |-> IF i = n + 1 THEN new ELSE f[i]]
  <2>3. n + 1 \in 1 .. len /\ (n + 1) - 1 = n
    BY <1>1, <2>1
  <2>4. IF IsLeaf(node) THEN h[n + 1] = h[n] + 1 ELSE h[n] >= 2 /\ h[n + 1] = h[n] - 1
    BY <1>2, <2>3
  <2>5. f[n] \in Seq(SUBSET Rows)
    BY <2>2 DEF EvaluatesFirst
  <2>6. new \in Seq(SUBSET Rows) /\ Len(new) = h[n + 1]
    BY <2>2, <2>4, <2>5, ApplyOne
  <2> HIDE DEF new, node
  <2>7. g \in [0 .. (n + 1) -> Seq(SUBSET Rows)]
    BY <2>2, <2>6 DEF EvaluatesFirst
  <2>8. g[0] = <<>> /\ g[n + 1] = new
    BY <2>2 DEF EvaluatesFirst
  <2>9. ASSUME NEW i \in 1 .. (n + 1) PROVE g[i] = Apply(g[i - 1], query.expr[i])
    <3>1. CASE i = n + 1
      <4>1. g[i - 1] = f[n] /\ g[i] = new
        BY <2>3, <3>1
      <4> QED BY <3>1, <4>1 DEF new, node
    <3>2. CASE i # n + 1
      <4>1. i \in 1 .. n /\ g[i] = f[i] /\ g[i - 1] = f[i - 1]
        BY <3>2
      <4> QED BY <2>2, <4>1 DEF EvaluatesFirst
    <3> QED BY <3>1, <3>2
  <2> HIDE DEF g
  <2>10. EvaluatesFirst(g, n + 1) /\ Len(g[n + 1]) = h[n + 1]
    BY <2>6, <2>7, <2>8, <2>9 DEF EvaluatesFirst
  <2> QED BY <2>10
<1> HIDE DEF S
<1>5. len \in S
  BY <1>1, <1>3, <1>4, NatSetInduction
<1>6. PICK f : EvaluatesFirst(f, len)
  BY <1>1, <1>5 DEF S
<1> QED BY <1>6 DEF IsEvaluation, EvaluatesFirst, len

\* And Matches is its result.
LEMMA MatchesIsTheEvaluation ==
  ASSUME Shape, NEW ref, IsEvaluation(ref)
  PROVE  Matches = ref[Len(query.expr)][1]
<1> DEFINE len == Len(query.expr)
           Body(f) == [n \in 0 .. len |-> IF n = 0 THEN <<>> ELSE Apply(f[n - 1], query.expr[n])]
<1>1. len \in Nat
  BY DEF Shape
<1>2. ref = Body(ref)
  <2>1. ref = [n \in 0 .. len |-> ref[n]]
    BY DEF IsEvaluation
  <2>2. \A n \in 0 .. len : ref[n] = IF n = 0 THEN <<>> ELSE Apply(ref[n - 1], query.expr[n])
    <3>1. ref[0] = <<>> /\ \A n \in 1 .. len : ref[n] = Apply(ref[n - 1], query.expr[n])
      BY DEF IsEvaluation
    <3> HIDE DEF len
    <3>2. \A n \in 0 .. len : n # 0 => n \in 1 .. len
      BY <1>1
    <3> QED BY <3>1, <3>2
  <2> HIDE DEF len
  <2> QED BY <2>1, <2>2
<1>3. Evaluation = CHOOSE f : f = Body(f)
  BY DEF Evaluation
<1> HIDE DEF Body
<1>4. Evaluation = Body(Evaluation)
  BY <1>2, <1>3
<1> DEFINE S == {n \in Nat : n <= len => Evaluation[n] = ref[n]}
<1>5. \A n \in 0 .. len : Evaluation[n] = IF n = 0 THEN <<>> ELSE Apply(Evaluation[n - 1], query.expr[n])
  <2> DEFINE E == Evaluation
  <2>1. E = Body(E)
    BY <1>4
  <2> HIDE DEF E
  <2> QED BY <2>1 DEF Body, E
<1> HIDE DEF len
<1>6. 0 \in S
  BY <1>1, <1>5 DEF IsEvaluation
<1>7. ASSUME NEW n \in Nat, n \in S PROVE n + 1 \in S
  <2>1. SUFFICES ASSUME n + 1 <= len PROVE Evaluation[n + 1] = ref[n + 1]
    OBVIOUS
  <2>2. n + 1 \in 1 .. len /\ n + 1 \in 0 .. len /\ (n + 1) - 1 = n /\ n + 1 # 0
    BY <1>1, <2>1
  <2>3. Evaluation[n] = ref[n]
    BY <1>1, <1>7, <2>1
  <2>4. Evaluation[n + 1] = Apply(Evaluation[n], query.expr[n + 1])
    BY <1>5, <2>2
  <2>5. ref[n + 1] = Apply(ref[n], query.expr[n + 1])
    BY <2>2 DEF IsEvaluation, len
  <2> QED BY <2>3, <2>4, <2>5
<1> HIDE DEF S
<1>8. len \in S
  BY <1>1, <1>6, <1>7, NatSetInduction
<1>9. Evaluation[len] = ref[len]
  BY <1>1, <1>8 DEF S
<1> QED BY <1>9 DEF Matches, len

\* A statement that is an UPDATE or a DELETE, or a SELECT without AND, works on exactly
\* the rows its expression is true of, or has given up, with nothing found, at a
\* predicate that is true of no row: for every tree of AND and OR over indexes that
\* answer their predicates, every table, every spreading over the Engines and whatever
\* the other transaction locks meanwhile.
THEOREM SearchesFindTheMatches ==
  ASSUME \A q \in Queries : IsTree(q.expr), IndexesAnswer,
         \A q \in Queries : q.cmd = "SELECT" => \A node \in Range(q.expr) : node.op # "AND"
  PROVE  Spec => []ResultIsTheMatchesOrGivenUp
<1>1. Init => EvalInv
  <2>1. SUFFICES ASSUME Init PROVE EvalInv
    OBVIOUS
  <2>2. query \in Queries /\ phase = "evaluate" /\ stack = <<>>
    BY <2>1 DEF Init
  <2>3. PICK h : IsHeight(h, query.expr)
    BY <2>2 DEF IsTree
  <2>4. Shape
    BY <2>2 DEF IsTree, Shape
  <2>5. Sets /\ Position(h) /\ \A r \in Rows : ~LockedByMe(r)
    BY <2>1, <2>3, <2>4, TreeInit
  <2>6. Agreement(h)
    <3>1. SUFFICES ASSUME NEW ref, IsEvaluation(ref) PROVE \E n : Stands(n, h) /\ AgreesWith(ref[n])
      BY DEF Agreement
    <3>2. Stands(0, h)
      BY <2>1, <2>3, <2>4, StandsAtFirst
    <3>3. AgreesWith(ref[0])
      BY <2>2, <3>1 DEF IsEvaluation, AgreesWith, OnStack
    <3> QED BY <3>2, <3>3
  <2>7. NoReadAnd
    BY <2>2 DEF NoReadAnd, HasAnd, Nodes
  <2> QED BY <2>2, <2>4, <2>5, <2>6, <2>7
          DEF EvalInv, Remembered, Fetching, ResultIsTheEvaluation
<1>2. EvalInv /\ [Next]_vars => EvalInv'
  <2>1. SUFFICES ASSUME EvalInv, [Next]_vars PROVE EvalInv'
    OBVIOUS
  <2>2. Sets /\ Shape /\ NoReadAnd /\ Remembered /\ Fetching /\ ResultIsTheEvaluation
    BY <2>1 DEF EvalInv
  <2>3. PICK h : Position(h) /\ Agreement(h)
    BY <2>1 DEF EvalInv
  <2>4. Sets' /\ Shape' /\ Position(h)'
    BY <2>1, <2>2, <2>3, TreeNext
  <2>5. Remembered'
    BY <2>1, <2>2, <2>3, RememberedNext
  <2>6. Fetching' /\ Agreement(h)' /\ ResultIsTheEvaluation'
    BY <2>1, <2>2, <2>3, FetchingNext, AgreementNext, ResultNext
  <2>7. NoReadAnd'
    BY <2>1, <2>2, CellsStayQuiet, TruthStays DEF NoReadAnd
  <2> QED BY <2>4, <2>5, <2>6, <2>7 DEF EvalInv
<1>3. EvalInv => ResultIsTheMatchesOrGivenUp
  <2>1. SUFFICES ASSUME EvalInv, phase = "selected"
                 PROVE  result = Matches \/ (SomePredicateIsEmpty /\ result = {})
    BY DEF ResultIsTheMatchesOrGivenUp
  <2>2. Shape /\ ResultIsTheEvaluation /\ \E h : IsHeight(h, query.expr)
    BY <2>1 DEF EvalInv, Position
  <2>3. PICK ref : IsEvaluation(ref)
    BY <2>2, EvaluationExists
  <2>4. RightResult(ref)
    BY <2>1, <2>2, <2>3 DEF ResultIsTheEvaluation
  <2> QED BY <2>2, <2>3, <2>4, MatchesIsTheEvaluation DEF RightResult
<1> QED BY <1>1, <1>2, <1>3, PTL DEF Spec
=============================================================================
