------------------------- MODULE TransactionsProofs -------------------------
(***************************************************************************)
(* Proofs about Transactions: the types of everything an Engine or a       *)
(* Transaction Agent keeps or sends, and that no answer is one too many.   *)
(***************************************************************************)
EXTENDS Transactions, Integers, TLAPS, FiniteSetTheorems, SequenceTheorems

\* A sequence of anything.
IsQueue(q) == q \in Seq(Range(q))

\* The elements of the queues q, one for each Engine, that belong to the command id.
DueIn(q, id) == {p \in UNION {{e} \X DOMAIN q[e] : e \in Engines} : q[p[1]][p[2]].id = id}

-----------------------------------------------------------------------------
(* What an Engine keeps.                                                    *)

Entry == [uur : Uurs, sub : Subs \cup {NoSub}] \cup {NoEntry}

EngineTypes ==
  /\ table \in [Engines -> [Rowids -> Cell]]
  /\ \A e \in Engines, r \in Rowids : WellLocked(table[e][r])
  /\ nextrowid \in [Engines -> Rowids \cup {0}]
  /\ \A e \in Engines, r \in Rowids : r > nextrowid[e] => table[e][r] = AbsentCell
  /\ unique \in [Keys -> Entry]
  /\ nonunique \in [NonuniqueFields -> SUBSET (Vals \X Uurs)]
  /\ DOMAIN owner = Engines /\ DOMAIN live = Engines
  /\ \A e \in Engines : /\ owner[e] \in Seq(Txns) /\ DOMAIN owner[e] \subseteq Subs
                        /\ live[e] \subseteq DOMAIN owner[e]
  /\ crashed \subseteq Engines
  /\ \A e \in Engines, r \in Rowids :
       /\ table[e][r].writelockHolder \in DOMAIN owner[e] \cup {NoSub}
       /\ table[e][r].readlockHolders \subseteq DOMAIN owner[e]

-----------------------------------------------------------------------------
(* What an agent keeps.                                                     *)

NewUurs == Engines \X (Rowids \cup {0})

\* A rowOrField_s.
RofOK(rof) ==
  /\ RofEngine(rof) \in Engines
  /\ \/ rof.kind = "row" /\ rof.uur \in NewUurs
     \/ /\ rof.kind \in {"add", "delete", "replace"}
        /\ rof.field \in Indexed /\ rof.val \in Vals /\ rof.uur \in Uurs
        /\ rof.kind = "replace" => rof.new \in Uurs

StagedOK(sr) ==
  /\ DOMAIN sr = {"cmd", "original", "new", "newuur", "ui"}
  /\ sr.cmd \in {"NOCOMMAND", "INSERT", "UPDATE", "DELETE"}
  /\ sr.original \in Values /\ sr.new \in Values /\ sr.newuur \in NewUurs
  /\ DOMAIN sr.ui \subseteq UniqueFields
  /\ \A n \in DOMAIN sr.ui : sr.ui[n] \in Vals

\* The replacement row of u is asked for and not there yet.
Awaits(x, u) == x.cmd = "REPLACE" /\ x.orig = u /\ x.wait = 0

TxnOK(x) ==
  /\ DOMAIN x = {"phase", "cmd", "id", "left", "stmt", "subs", "staged", "wait", "hits",
                 "results", "todo", "orig", "late"}
  /\ x.phase \in {"idle", "running", "committing", "committed", "rolledback", "abandoned"}
  /\ x.id \in Nat /\ x.wait \in Nat /\ x.left \in 0..MaxStmts
  /\ DOMAIN x.subs = Engines
  /\ DOMAIN x.staged \subseteq Uurs
  /\ \A u \in DOMAIN x.staged : /\ StagedOK(x.staged[u])
                                /\ x.staged[u].newuur \in Uurs \/ Awaits(x, u)
  /\ x.hits \subseteq Uurs
  /\ DOMAIN x.results \subseteq Uurs
  /\ \A u \in DOMAIN x.results : x.results[u] \in Values
  /\ x.todo \subseteq DOMAIN x.results
  /\ \A rof \in x.late : RofOK(rof)

CommandsOf(stmt) ==
  CASE stmt.cmd = "INSERT" -> {"INSERT"}
    [] stmt.cmd = "SELECT" -> {"PREDICATE"}
    [] stmt.cmd = "DELETE" -> {"PREDICATE", "DELETE"}
    [] stmt.cmd = "UPDATE" -> {"PREDICATE", "UPDATE", "REPLACE"}

\* The phases of a transaction.
PhaseOK(x) ==
  /\ x.phase = "idle" => x.cmd = "NOCOMMAND" /\ x.wait = 0 /\ DOMAIN x.results = {}
  /\ x.phase = "running" => x.stmt \in Statements /\ x.cmd \in CommandsOf(x.stmt)
  /\ x.phase = "committing" => x.cmd = "COMMIT"
  /\ x.phase \notin {"idle", "running", "committing"} => x.cmd = "NOCOMMAND"
  /\ x.cmd = "REPLACE" => x.orig \in DOMAIN x.staged
  /\ x.cmd \notin {"UPDATE", "REPLACE"} => x.todo = {}

-----------------------------------------------------------------------------
(* Messages and answers.                                                    *)

\* No subtransaction is named, or one of t in e.
SubOK(t, e, s) == s = 0 \/ (s \in DOMAIN owner[e] /\ owner[e][s] = t)

Body(e, m) ==
  \/ m.cmd = "NEWROW" /\ m.ep = 1 /\ m.arg \in Values
  \/ m.cmd = "UNIQUEINDEX" /\ m.ep \in {1, 2} /\ m.arg.key \in Keys /\ m.arg.uur \in Uurs
  \/ m.cmd = "UPDATEROW" /\ m.ep = 1 /\ m.arg.uur \in Uurs /\ m.arg.uur[1] = e
       /\ m.arg.row \in Values
  \/ m.cmd = "DELETEROW" /\ m.ep = 1 /\ m.arg \in Uurs /\ m.arg[1] = e
  \/ m.cmd = "REPLACEDELETEROW" /\ m.ep = 2 /\ m.arg \in Uurs /\ m.arg[1] = e
  \/ m.cmd = "INDEXSEARCH" /\ m.ep = 1 /\ m.arg.vals \subseteq Vals
  \/ m.cmd = "SELECTROWS" /\ m.ep = 2 /\ m.arg.rowids \subseteq Rowids
       /\ m.arg.lock \in {"READLOCK", "WRITELOCK"}
  \/ m.cmd = "SEARCHRETURN1" /\ m.ep = 2 /\ m.arg.val \in Vals
       /\ m.arg.lock \in {"READLOCK", "WRITELOCK"}
  \/ m.cmd = "COMMIT" /\ m.ep \in {2, 3} /\ \A rof \in m.arg : RofOK(rof)
  \/ m.cmd = "ROLLBACK" /\ \A rof \in m.arg : RofOK(rof)
  \/ m.cmd = "END" /\ m.sub # 0

\* A message of the command that x waits for.
Fits(x, m) ==
  CASE x.cmd = "PREDICATE" -> m.cmd \in {"INDEXSEARCH", "SELECTROWS", "SEARCHRETURN1"}
    [] x.cmd = "INSERT"    -> \/ m.cmd = "NEWROW" /\ x.wait = 0
                              \/ m.cmd = "UNIQUEINDEX" /\ m.ep = 2 /\ x.wait > 0
    [] x.cmd = "REPLACE"   -> \/ m.cmd = "NEWROW" /\ x.wait = 0
                              \/ m.cmd = "UNIQUEINDEX" /\ m.ep = 2 /\ x.wait > 0
                              \/ m.cmd = "REPLACEDELETEROW" /\ x.wait > 0
    [] x.cmd = "UPDATE"    -> m.cmd \in {"UNIQUEINDEX", "UPDATEROW"}
    [] x.cmd = "DELETE"    -> m.cmd = "DELETEROW"
    [] x.cmd = "COMMIT"    -> m.cmd = "COMMIT"
    [] OTHER               -> TRUE

RowReplyOK(e, q) == /\ q.uur \in Uurs /\ q.uur[1] = e
                    /\ Granted(q.lock) => q.row \in Values

\* The answer to one.
Answers(x, e, r) ==
  CASE x.cmd = "PREDICATE" -> \/ r.ep = 1 /\ r.arg \subseteq Uurs
                              \/ r.ep = 2 /\ \A q \in r.arg : RowReplyOK(e, q)
    [] x.cmd \in {"INSERT", "REPLACE"} -> \/ r.ep = 1 /\ x.wait = 0 /\ r.arg \in Rowids
                                          \/ r.ep = 2 /\ x.wait > 0
    [] x.cmd = "DELETE"    -> r.arg \in BOOLEAN
    [] x.cmd = "COMMIT"    -> r.ep \in {2, 3}
    [] OTHER               -> TRUE

Asked(t) == txn[t].phase \in {"running", "committing"}

MailOK(t, e, m) ==
  /\ SubOK(t, e, m.sub) /\ m.id \in Nat /\ Body(e, m)
  /\ ~Ended(t) => m.id <= txn[t].id /\ m.cmd \notin {"ROLLBACK", "END"}
  /\ txn[t].phase \in {"idle", "running"} => m.cmd # "COMMIT"
  /\ Asked(t) /\ m.id = txn[t].id => Fits(txn[t], m)

ReplyOK(t, e, r) ==
  /\ r.sub # 0 /\ SubOK(t, e, r.sub) /\ r.id \in Nat
  /\ ~Ended(t) => r.id <= txn[t].id
  /\ Asked(t) /\ r.id = txn[t].id => Answers(txn[t], e, r)

\* No more answers are on their way than x waits for.
Enough(x, n) == n <= x.wait \/ (n <= 1 /\ x.wait = 0 /\ x.cmd \in {"INSERT", "REPLACE"})

Expected(t) ==
  Asked(t) => Enough(txn[t], Cardinality(DueIn(mail[t], txn[t].id))
                             + Cardinality(DueIn(replies[t], txn[t].id)))

AgentTypes ==
  /\ DOMAIN txn = Txns /\ DOMAIN mail = Txns /\ DOMAIN replies = Txns
  /\ \A t \in Txns :
       /\ TxnOK(txn[t]) /\ PhaseOK(txn[t])
       /\ DOMAIN mail[t] = Engines /\ DOMAIN replies[t] = Engines
       /\ \A e \in Engines :
            /\ SubOK(t, e, txn[t].subs[e])
            /\ IsQueue(mail[t][e]) /\ IsQueue(replies[t][e])
            /\ \A m \in Range(mail[t][e]) : MailOK(t, e, m)
            /\ \A r \in Range(replies[t][e]) : ReplyOK(t, e, r)
       /\ Expected(t)

TypeInv == EngineTypes /\ AgentTypes

-----------------------------------------------------------------------------
(* Locks.                                                                   *)

\* s keeps others from changing the row.
Holds(c, s) == WriteLockedBy(c, s) \/ (c.lock = "READLOCK" /\ s \in c.readlockHolders)

-----------------------------------------------------------------------------
(* Queues.                                                                  *)

\* A queue is a function on its positions, and each element is at one of them.
LEMMA QueueIsFunction ==
  ASSUME NEW q, IsQueue(q)
  PROVE  /\ Len(q) \in Nat /\ DOMAIN q = 1..Len(q) /\ q \in [1..Len(q) -> Range(q)]
         /\ \A i \in 1..Len(q) : q[i] \in Range(q)
         /\ \A m \in Range(q) : \E i \in 1..Len(q) : q[i] = m
<1>1. q \in Seq(Range(q))
  BY DEF IsQueue
<1>2. Len(q) \in Nat /\ DOMAIN q = 1..Len(q) /\ q \in [1..Len(q) -> Range(q)]
  BY <1>1
<1> QED BY <1>2 DEF Range

\* Any set that has the elements will do for a queue's type.
LEMMA QueueOf ==
  ASSUME NEW S, NEW q \in Seq(S)
  PROVE  IsQueue(q) /\ Range(q) \subseteq S
<1>1. DOMAIN q = 1..Len(q) /\ Len(q) \in Nat /\ \A i \in 1..Len(q) : q[i] \in S
  OBVIOUS
<1>2. \A i \in 1..Len(q) : q[i] \in Range(q)
  BY <1>1 DEF Range
<1>3. q = [i \in 1..Len(q) |-> q[i]]
  BY <1>1
<1>4. q \in Seq(Range(q))
  BY <1>1, <1>2, <1>3, IsASeq
<1> QED BY <1>1, <1>4 DEF IsQueue, Range

\* The empty queue.
LEMMA QueueEmpty == IsQueue(<<>>) /\ Range(<<>>) = {} /\ DOMAIN <<>> = {}
<1>1. <<>> \in Seq({})
  OBVIOUS
<1>2. DOMAIN <<>> = {}
  OBVIOUS
<1> QED BY <1>1, <1>2, QueueOf DEF Range

\* push and pop.
LEMMA QueueAppend ==
  ASSUME NEW q, IsQueue(q), NEW m
  PROVE  /\ IsQueue(Append(q, m)) /\ Range(Append(q, m)) = Range(q) \cup {m}
         /\ DOMAIN Append(q, m) = DOMAIN q \cup {Len(q) + 1}
         /\ Append(q, m)[Len(q) + 1] = m
         /\ \A i \in DOMAIN q : Append(q, m)[i] = q[i]
<1> DEFINE S == Range(q) \cup {m}
<1>0. Len(q) \in Nat /\ DOMAIN q = 1..Len(q) /\ \A i \in 1..Len(q) : q[i] \in Range(q)
  BY QueueIsFunction
<1>1. q \in Seq(S)
  <2>1. q = [i \in 1..Len(q) |-> q[i]]
    BY QueueIsFunction
  <2> QED BY <1>0, <2>1, IsASeq
<1>2. Append(q, m) \in Seq(S)
  BY <1>1
<1>3. /\ Len(Append(q, m)) = Len(q) + 1 /\ Append(q, m)[Len(q) + 1] = m
      /\ \A i \in 1..Len(q) : Append(q, m)[i] = q[i]
      /\ DOMAIN Append(q, m) = 1..(Len(q) + 1)
  BY <1>1, <1>0
<1>4. DOMAIN Append(q, m) = DOMAIN q \cup {Len(q) + 1}
  BY <1>0, <1>3
<1>5. Range(Append(q, m)) = S
  <2>1. Range(Append(q, m)) \subseteq S
    BY <1>2, QueueOf
  <2>2. ASSUME NEW x \in Range(q) PROVE x \in Range(Append(q, m))
    <3>1. PICK i \in 1..Len(q) : q[i] = x
      BY QueueIsFunction
    <3> QED BY <3>1, <1>3, <1>4, <1>0 DEF Range
  <2>3. m \in Range(Append(q, m))
    BY <1>3, <1>4 DEF Range
  <2> QED BY <2>1, <2>2, <2>3
<1> QED BY <1>0, <1>2, <1>3, <1>4, <1>5, QueueOf

LEMMA QueueTail ==
  ASSUME NEW q, IsQueue(q), q # <<>>
  PROVE  /\ IsQueue(Tail(q)) /\ Range(Tail(q)) \subseteq Range(q)
         /\ Head(q) \in Range(q) /\ 1 \in DOMAIN q /\ Head(q) = q[1]
         /\ \A i \in DOMAIN Tail(q) : i + 1 \in DOMAIN q /\ i \in Nat /\ i >= 1 /\ Tail(q)[i] = q[i + 1]
<1>1. q \in Seq(Range(q))
  BY DEF IsQueue
<1>2. Tail(q) \in Seq(Range(q))
  BY <1>1
<1>3. Head(q) = q[1] /\ 1 \in DOMAIN q /\ Head(q) \in Range(q)
  BY <1>1
<1>4. \A i \in DOMAIN Tail(q) : i + 1 \in DOMAIN q /\ i \in Nat /\ i >= 1 /\ Tail(q)[i] = q[i + 1]
  BY <1>1, <1>2
<1> QED BY <1>2, <1>3, <1>4, QueueOf

LEMMA QueueConcat ==
  ASSUME NEW a, IsQueue(a), NEW b, IsQueue(b)
  PROVE  /\ IsQueue(a \o b) /\ Range(a \o b) = Range(a) \cup Range(b)
         /\ \A i \in DOMAIN (a \o b) :
              \/ i \in DOMAIN a /\ (a \o b)[i] = a[i]
              \/ i - Len(a) \in DOMAIN b /\ i \in Int /\ (a \o b)[i] = b[i - Len(a)]
         /\ Len(a) \in Nat
<1> DEFINE S == Range(a) \cup Range(b)
<1>a. Len(a) \in Nat /\ DOMAIN a = 1..Len(a) /\ \A i \in 1..Len(a) : a[i] \in Range(a)
  BY QueueIsFunction
<1>b. Len(b) \in Nat /\ DOMAIN b = 1..Len(b) /\ \A i \in 1..Len(b) : b[i] \in Range(b)
  BY QueueIsFunction
<1>1. a \in Seq(S)
  <2>1. a = [i \in 1..Len(a) |-> a[i]]
    BY QueueIsFunction
  <2> QED BY <1>a, <2>1, IsASeq
<1>2. b \in Seq(S)
  <2>1. b = [i \in 1..Len(b) |-> b[i]]
    BY QueueIsFunction
  <2> QED BY <1>b, <2>1, IsASeq
<1>3. a \o b \in Seq(S)
  BY <1>1, <1>2
<1>4. /\ Len(a \o b) = Len(a) + Len(b) /\ DOMAIN (a \o b) = 1..(Len(a) + Len(b))
      /\ \A i \in 1..(Len(a) + Len(b)) :
           (a \o b)[i] = IF i <= Len(a) THEN a[i] ELSE b[i - Len(a)]
  BY <1>1, <1>2, ConcatProperties, <1>3
<1>5. \A i \in DOMAIN (a \o b) :
        \/ i \in DOMAIN a /\ (a \o b)[i] = a[i]
        \/ i - Len(a) \in DOMAIN b /\ i \in Int /\ (a \o b)[i] = b[i - Len(a)]
  BY <1>4, <1>a, <1>b
<1>6. Range(a \o b) \subseteq S
  BY <1>3, QueueOf
<1>7. ASSUME NEW x \in Range(a) PROVE x \in Range(a \o b)
  <2>1. PICK i \in 1..Len(a) : a[i] = x
    BY QueueIsFunction
  <2>2. i \in DOMAIN (a \o b) /\ (a \o b)[i] = x
    BY <2>1, <1>4, <1>a, <1>b
  <2> QED BY <2>2 DEF Range
<1>8. ASSUME NEW x \in Range(b) PROVE x \in Range(a \o b)
  <2>1. PICK i \in 1..Len(b) : b[i] = x
    BY QueueIsFunction
  <2>2. Len(a) + i \in DOMAIN (a \o b) /\ (a \o b)[Len(a) + i] = x
    BY <2>1, <1>4, <1>a, <1>b
  <2> QED BY <2>2 DEF Range
<1> QED BY <1>3, <1>5, <1>6, <1>7, <1>8, <1>a, QueueOf

-----------------------------------------------------------------------------
(* Counting answers.                                                        *)

LEMMA FewerThan ==
  ASSUME NEW S, NEW T, IsFiniteSet(T), NEW f \in [S -> T],
         \A x, y \in S : f[x] = f[y] => x = y
  PROVE  IsFiniteSet(S) /\ Cardinality(S) \in Nat /\ Cardinality(T) \in Nat
         /\ Cardinality(S) <= Cardinality(T)
<1>1. f \in Injection(S, T)
  BY DEF Injection, IsInjective
<1> QED BY <1>1, FS_Injection, FS_CardinalityType

\* What is known of one element of DueIn.
LEMMA DueMember ==
  ASSUME NEW q, NEW id, NEW p
  PROVE  p \in DueIn(q, id) <=> \E e \in Engines : \E i \in DOMAIN q[e] : p = <<e, i>> /\ q[e][i].id = id
<1>1. ASSUME NEW e \in Engines, NEW i \in DOMAIN q[e], p = <<e, i>>, q[e][i].id = id
      PROVE  p \in DueIn(q, id)
  <2>1. p \in {e} \X DOMAIN q[e] /\ p[1] = e /\ p[2] = i
    BY <1>1
  <2>2. p \in UNION {{d} \X DOMAIN q[d] : d \in Engines}
    BY <2>1
  <2> QED BY <2>1, <2>2, <1>1 DEF DueIn
<1>2. ASSUME p \in DueIn(q, id)
      PROVE  \E e \in Engines : \E i \in DOMAIN q[e] : p = <<e, i>> /\ q[e][i].id = id
  <2>1. p \in UNION {{d} \X DOMAIN q[d] : d \in Engines} /\ q[p[1]][p[2]].id = id
    BY <1>2 DEF DueIn
  <2>2. PICK e \in Engines : p \in {e} \X DOMAIN q[e]
    BY <2>1
  <2>3. p[1] = e /\ p[2] \in DOMAIN q[e] /\ p = <<e, p[2]>>
    BY <2>2
  <2> QED BY <2>1, <2>3
<1> QED BY <1>1, <1>2

LEMMA DueFinite ==
  ASSUME NEW q, NEW id, \A e \in Engines : IsQueue(q[e])
  PROVE  IsFiniteSet(DueIn(q, id)) /\ Cardinality(DueIn(q, id)) \in Nat
<1> DEFINE at(e) == {e} \X DOMAIN q[e]
           F == [e \in Engines |-> at(e)]
           S == {at(e) : e \in Engines}
<1>1. IsFiniteSet(S)
  <2>1. F \in Surjection(Engines, S)
    BY DEF Surjection
  <2> QED BY <2>1, FS_Surjection, TransactionsAssumption
<1>2. ASSUME NEW X \in S PROVE IsFiniteSet(X)
  <2>1. PICK e \in Engines : X = at(e)
    OBVIOUS
  <2>2. Len(q[e]) \in Nat /\ DOMAIN q[e] = 1..Len(q[e])
    BY QueueIsFunction
  <2>3. IsFiniteSet(DOMAIN q[e])
    BY <2>2, FS_Interval
  <2>4. IsFiniteSet({e})
    BY FS_Singleton
  <2> QED BY <2>1, <2>3, <2>4, FS_Product
<1>3. IsFiniteSet(UNION S)
  BY <1>1, <1>2, FS_UNION
<1>4. DueIn(q, id) \subseteq UNION S
  BY DEF DueIn
<1> QED BY <1>3, <1>4, FS_Subset, FS_CardinalityType

\* An element is taken off.
LEMMA DueTail ==
  ASSUME NEW q, DOMAIN q = Engines, NEW id, \A d \in Engines : IsQueue(q[d]),
         NEW e \in Engines, q[e] # <<>>,
         NEW r, \A d \in Engines : r[d] = IF d = e THEN Tail(q[e]) ELSE q[d]
  PROVE  LET n == Cardinality(DueIn(q, id))
             k == Cardinality(DueIn(r, id))
         IN  k \in Nat /\ n \in Nat /\ k <= n /\ (Head(q[e]).id = id => k + 1 <= n)
<1> DEFINE S == DueIn(r, id)
           T == DueIn(q, id)
           f == [p \in S |-> IF p[1] = e THEN <<e, p[2] + 1>> ELSE p]
<1>0. /\ IsQueue(Tail(q[e])) /\ Head(q[e]) = q[e][1] /\ 1 \in DOMAIN q[e]
      /\ \A i \in DOMAIN Tail(q[e]) :
           i + 1 \in DOMAIN q[e] /\ i \in Nat /\ i >= 1 /\ Tail(q[e])[i] = q[e][i + 1]
  BY QueueTail
<1>2. IsFiniteSet(T) /\ Cardinality(T) \in Nat
  BY DueFinite
<1>3. ASSUME NEW p \in S
      PROVE  \/ p[1] = e /\ p = <<e, p[2]>> /\ p[2] \in Nat /\ p[2] >= 1 /\ f[p] = <<e, p[2] + 1>>
             \/ p[1] # e /\ f[p] = p
  <2>0. PICK d \in Engines : \E i \in DOMAIN r[d] : p = <<d, i>> /\ r[d][i].id = id
    BY DueMember
  <2>1. PICK i \in DOMAIN r[d] : p = <<d, i>> /\ r[d][i].id = id
    BY <2>0
  <2> QED BY <2>1, <1>0
<1>4. ASSUME NEW p \in S PROVE f[p] \in T /\ f[p] # <<e, 1>>
  <2>0. PICK d \in Engines : \E i \in DOMAIN r[d] : p = <<d, i>> /\ r[d][i].id = id
    BY DueMember
  <2>1. PICK i \in DOMAIN r[d] : p = <<d, i>> /\ r[d][i].id = id
    BY <2>0
  <2>2. CASE d = e
    <3>1. i \in DOMAIN Tail(q[e]) /\ Tail(q[e])[i].id = id
      BY <2>1, <2>2
    <3>2. i + 1 \in DOMAIN q[e] /\ i \in Nat /\ i >= 1 /\ q[e][i + 1].id = id
      BY <3>1, <1>0
    <3>3. f[p] = <<e, i + 1>> /\ <<e, i + 1>> # <<e, 1>>
      BY <2>1, <2>2, <3>2
    <3> QED BY <3>2, <3>3, DueMember
  <2>3. CASE d # e
    <3>1. f[p] = <<d, i>> /\ i \in DOMAIN q[d] /\ q[d][i].id = id
      BY <2>1, <2>3
    <3> QED BY <3>1, <2>3, DueMember
  <2> QED BY <2>2, <2>3
<1> HIDE DEF f
<1>5. \A x, y \in S : f[x] = f[y] => x = y
  <2> SUFFICES ASSUME NEW x \in S, NEW y \in S, f[x] = f[y] PROVE x = y
    OBVIOUS
  <2>1. \/ x[1] = e /\ x = <<e, x[2]>> /\ x[2] \in Nat /\ f[x] = <<e, x[2] + 1>>
        \/ x[1] # e /\ f[x] = x
    BY <1>3
  <2>2. \/ y[1] = e /\ y = <<e, y[2]>> /\ y[2] \in Nat /\ f[y] = <<e, y[2] + 1>>
        \/ y[1] # e /\ f[y] = y
    BY <1>3
  <2> QED BY <2>1, <2>2
<1>6. f \in [S -> T] /\ f \in [S -> T \ {<<e, 1>>}]
  BY <1>4 DEF f
<1>7. Cardinality(S) \in Nat /\ Cardinality(S) <= Cardinality(T)
  BY <1>2, <1>5, <1>6, FewerThan
<1>8. ASSUME Head(q[e]).id = id PROVE Cardinality(S) + 1 <= Cardinality(T)
  <2>1. <<e, 1>> \in T
    BY <1>0, <1>8, DueMember
  <2>2. IsFiniteSet(T \ {<<e, 1>>}) /\ Cardinality(T \ {<<e, 1>>}) = Cardinality(T) - 1
    BY <2>1, <1>2, FS_RemoveElement
  <2>3. Cardinality(S) <= Cardinality(T \ {<<e, 1>>})
    BY <2>2, <1>5, <1>6, FewerThan
  <2> QED BY <2>2, <2>3, <1>2, <1>7
<1> QED BY <1>2, <1>7, <1>8

\* Taking an element of the command.
LEMMA DueHead ==
  ASSUME NEW q, DOMAIN q = Engines, \A d \in Engines : IsQueue(q[d]),
         NEW e \in Engines, q[e] # <<>>,
         NEW r, \A d \in Engines : r[d] = IF d = e THEN Tail(q[e]) ELSE q[d]
  PROVE  LET id == Head(q[e]).id
         IN  /\ Cardinality(DueIn(r, id)) \in Nat /\ Cardinality(DueIn(q, id)) \in Nat
             /\ Cardinality(DueIn(r, id)) + 1 <= Cardinality(DueIn(q, id))
<1> DEFINE id == Head(q[e]).id
           n == Cardinality(DueIn(q, id))
           k == Cardinality(DueIn(r, id))
<1>0. Head(q[e]).id = id
  OBVIOUS
<1> HIDE DEF id
<1>1. k \in Nat /\ n \in Nat /\ k <= n /\ (Head(q[e]).id = id => k + 1 <= n)
  BY DueTail
<1>2. k \in Nat /\ n \in Nat /\ k + 1 <= n
  BY <1>0, <1>1
<1> QED BY <1>2 DEF id

\* One is added.
LEMMA DueAppend ==
  ASSUME NEW q, DOMAIN q = Engines, NEW id, \A d \in Engines : IsQueue(q[d]),
         NEW e \in Engines, NEW m,
         NEW r, \A d \in Engines : r[d] = IF d = e THEN Append(q[e], m) ELSE q[d]
  PROVE  LET n == Cardinality(DueIn(q, id))
             k == Cardinality(DueIn(r, id))
         IN  k \in Nat /\ n \in Nat /\ k <= n + 1 /\ (m.id # id => k <= n)
<1> DEFINE S == DueIn(r, id)
           T == DueIn(q, id)
           last == <<e, Len(q[e]) + 1>>
<1>0. /\ IsQueue(Append(q[e], m)) /\ DOMAIN Append(q[e], m) = DOMAIN q[e] \cup {Len(q[e]) + 1}
      /\ Append(q[e], m)[Len(q[e]) + 1] = m
      /\ \A i \in DOMAIN q[e] : Append(q[e], m)[i] = q[e][i]
  BY QueueAppend
<1>2. IsFiniteSet(T) /\ Cardinality(T) \in Nat /\ IsFiniteSet(S) /\ Cardinality(S) \in Nat
  <2>1. \A d \in Engines : IsQueue(r[d])
    BY <1>0
  <2> QED BY <2>1, DueFinite
<1>3. ASSUME NEW p \in S PROVE p \in T \/ (p = last /\ m.id = id)
  <2>0. PICK d \in Engines : \E i \in DOMAIN r[d] : p = <<d, i>> /\ r[d][i].id = id
    BY DueMember
  <2>1. PICK i \in DOMAIN r[d] : p = <<d, i>> /\ r[d][i].id = id
    BY <2>0
  <2>2. \/ i \in DOMAIN q[d] /\ q[d][i].id = id
        \/ d = e /\ i = Len(q[e]) + 1 /\ m.id = id
    BY <2>1, <1>0
  <2> QED BY <2>1, <2>2, DueMember
<1>4. Cardinality(S) <= Cardinality(T) + 1
  <2>1. S \subseteq T \cup {last}
    BY <1>3
  <2>2. IsFiniteSet(T \cup {last}) /\ Cardinality(T \cup {last}) <= Cardinality(T) + 1
    <3>1. /\ IsFiniteSet(T \cup {last})
          /\ Cardinality(T \cup {last}) = IF last \in T THEN Cardinality(T) ELSE Cardinality(T) + 1
      BY <1>2, FS_AddElement
    <3> QED BY <3>1, <1>2
  <2>3. Cardinality(S) <= Cardinality(T \cup {last}) /\ Cardinality(T \cup {last}) \in Nat
    BY <2>1, <2>2, FS_Subset, FS_CardinalityType
  <2> QED BY <2>2, <2>3, <1>2
<1>5. m.id # id => Cardinality(S) <= Cardinality(T)
  <2>1. m.id # id => S \subseteq T
    BY <1>3
  <2> QED BY <2>1, <1>2, FS_Subset
<1> QED BY <1>2, <1>4, <1>5

\* Messages are added to every queue.
LEMMA DueJoin ==
  ASSUME NEW a, NEW b, NEW id, \A d \in Engines : IsQueue(a[d]) /\ IsQueue(b[d]),
         NEW c, c = Join(a, b)
  PROVE  LET n == Cardinality(DueIn(a, id))
             k == Cardinality(DueIn(b, id))
             j == Cardinality(DueIn(c, id))
         IN  n \in Nat /\ k \in Nat /\ j \in Nat /\ j <= n + k
<1> DEFINE A == DueIn(a, id)
           B == DueIn(b, id)
           C == DueIn(c, id)
           R == C \ A
           f == [p \in R |-> <<p[1], p[2] - Len(a[p[1]])>>]
<1>1. \A d \in Engines : c[d] = a[d] \o b[d]
  BY DEF Join
<1>2. \A d \in Engines :
        /\ IsQueue(c[d]) /\ Len(a[d]) \in Nat
        /\ \A i \in DOMAIN c[d] :
             \/ i \in DOMAIN a[d] /\ c[d][i] = a[d][i]
             \/ i - Len(a[d]) \in DOMAIN b[d] /\ i \in Int /\ c[d][i] = b[d][i - Len(a[d])]
  <2> SUFFICES ASSUME NEW d \in Engines
               PROVE /\ IsQueue(a[d] \o b[d]) /\ Len(a[d]) \in Nat
                     /\ \A i \in DOMAIN (a[d] \o b[d]) :
                          \/ i \in DOMAIN a[d] /\ (a[d] \o b[d])[i] = a[d][i]
                          \/ /\ i - Len(a[d]) \in DOMAIN b[d] /\ i \in Int
                             /\ (a[d] \o b[d])[i] = b[d][i - Len(a[d])]
    BY <1>1
  <2> QED BY QueueConcat
<1>3. /\ IsFiniteSet(A) /\ Cardinality(A) \in Nat /\ IsFiniteSet(B) /\ Cardinality(B) \in Nat
      /\ IsFiniteSet(C) /\ Cardinality(C) \in Nat
  BY <1>2, DueFinite
<1>4. ASSUME NEW p \in R
      PROVE  /\ p[1] \in Engines /\ p = <<p[1], p[2]>> /\ p[2] \in Int
             /\ f[p] = <<p[1], p[2] - Len(a[p[1]])>> /\ f[p] \in B
  <2>0. PICK d \in Engines : \E i \in DOMAIN c[d] : p = <<d, i>> /\ c[d][i].id = id
    BY DueMember
  <2>1. PICK i \in DOMAIN c[d] : p = <<d, i>> /\ c[d][i].id = id
    BY <2>0
  <2>2. ~(i \in DOMAIN a[d] /\ c[d][i] = a[d][i])
    BY <2>1, DueMember
  <2>3. i - Len(a[d]) \in DOMAIN b[d] /\ i \in Int /\ b[d][i - Len(a[d])].id = id
    BY <2>1, <2>2, <1>2
  <2>4. <<d, i - Len(a[d])>> \in B
    BY <2>3, DueMember
  <2> QED BY <2>1, <2>3, <2>4
<1>5. \A x, y \in R : f[x] = f[y] => x = y
  <2> SUFFICES ASSUME NEW x \in R, NEW y \in R, f[x] = f[y] PROVE x = y
    OBVIOUS
  <2>1. /\ x[1] \in Engines /\ x = <<x[1], x[2]>> /\ x[2] \in Int
        /\ f[x] = <<x[1], x[2] - Len(a[x[1]])>>
    BY <1>4
  <2>2. /\ y[1] \in Engines /\ y = <<y[1], y[2]>> /\ y[2] \in Int
        /\ f[y] = <<y[1], y[2] - Len(a[y[1]])>>
    BY <1>4
  <2>3. x[1] = y[1] /\ x[2] - Len(a[x[1]]) = y[2] - Len(a[x[1]]) /\ Len(a[x[1]]) \in Nat
    BY <2>1, <2>2, <1>2
  <2>4. x[2] = y[2]
    BY <2>1, <2>2, <2>3
  <2> QED BY <2>1, <2>2, <2>3, <2>4
<1>6. IsFiniteSet(R) /\ Cardinality(R) \in Nat /\ Cardinality(R) <= Cardinality(B)
  <2>1. f \in [R -> B]
    BY <1>4
  <2> QED BY <2>1, <1>3, <1>5, FewerThan
<1>7. IsFiniteSet(A \cup R) /\ Cardinality(A \cup R) <= Cardinality(A) + Cardinality(R)
  <2>1. Cardinality(A \cap R) \in Nat
    BY <1>3, FS_Intersection, FS_CardinalityType
  <2>2. /\ IsFiniteSet(A \cup R)
        /\ Cardinality(A \cup R) = Cardinality(A) + Cardinality(R) - Cardinality(A \cap R)
    BY <1>3, <1>6, FS_Union
  <2> QED BY <2>1, <2>2, <1>3, <1>6
<1>8. Cardinality(C) <= Cardinality(A \cup R) /\ Cardinality(A \cup R) \in Nat
  <2>1. C \subseteq A \cup R
    OBVIOUS
  <2> QED BY <2>1, <1>7, FS_Subset, FS_CardinalityType
<1> QED BY <1>3, <1>6, <1>7, <1>8

-----------------------------------------------------------------------------
(* Sending.                                                                 *)

\* The order of a hash map: every element once.
LEMMA OrderOfSet ==
  ASSUME NEW S, IsFiniteSet(S)
  PROVE  /\ IsQueue(SetToSeq(S)) /\ Range(SetToSeq(S)) = S
         /\ \A i, j \in DOMAIN SetToSeq(S) : SetToSeq(S)[i] = SetToSeq(S)[j] => i = j
<1> DEFINE n == Cardinality(S)
           q == SetToSeq(S)
<1>1. n \in Nat /\ \E f : f \in Bijection(1..n, S)
  BY FS_CardinalityType DEF ExistsBijection
<1>2. PICK f : f \in Bijection(1..n, S)
  BY <1>1
<1>3. f \in [1..n -> S] /\ IsInjective(f)
  BY <1>2 DEF Bijection, Injection
<1>4. q \in [1..n -> S] /\ IsInjective(q)
  BY <1>3 DEF SetToSeq
<1>5. q \in Seq(S)
  BY <1>1, <1>4
<1>6. q \in Injection(1..n, S)
  BY <1>4 DEF Injection
<1>7. IsFiniteSet(1..n) /\ Cardinality(1..n) = n
  BY <1>1, FS_Interval
<1>8. q \in Surjection(1..n, S)
  BY <1>6, <1>7, FS_Injection
<1>9. Range(q) = S
  BY <1>4, <1>8 DEF Surjection, Range
<1> QED BY <1>4, <1>5, <1>9, QueueOf DEF IsInjective

\* Nothing is sent.
LEMMA QuietDue ==
  /\ DOMAIN Quiet = Engines
  /\ \A e \in Engines : IsQueue(Quiet[e]) /\ Range(Quiet[e]) = {}
  /\ \A id : Cardinality(DueIn(Quiet, id)) = 0
<1>1. /\ DOMAIN Quiet = Engines
      /\ \A e \in Engines : IsQueue(Quiet[e]) /\ Range(Quiet[e]) = {} /\ DOMAIN Quiet[e] = {}
  BY QueueEmpty DEF Quiet
<1>2. ASSUME NEW id PROVE DueIn(Quiet, id) = {}
  BY <1>1, DueMember
<1> QED BY <1>1, <1>2, FS_EmptySet

\* Each engine gets at most one message, and only those in W get one.
LEMMA OneEachDue ==
  ASSUME NEW out, NEW W, IsFiniteSet(W), NEW id,
         \A e \in Engines : out[e] = <<>> \/ (e \in W /\ \E m : out[e] = <<m>>)
  PROVE  /\ \A e \in Engines : IsQueue(out[e])
         /\ Cardinality(DueIn(out, id)) \in Nat
         /\ Cardinality(DueIn(out, id)) <= Cardinality(W)
<1> DEFINE S == DueIn(out, id)
           f == [p \in S |-> p[1]]
<1>1. ASSUME NEW p \in S PROVE p = <<p[1], 1>> /\ p[1] \in W
  <2>0. PICK e \in Engines : \E i \in DOMAIN out[e] : p = <<e, i>> /\ out[e][i].id = id
    BY DueMember
  <2>1. PICK i \in DOMAIN out[e] : p = <<e, i>> /\ out[e][i].id = id
    BY <2>0
  <2>2. out[e] # <<>>
    BY <2>1, QueueEmpty
  <2>3. PICK m : e \in W /\ out[e] = <<m>>
    BY <2>2
  <2>4. i = 1
    BY <2>1, <2>3
  <2> QED BY <2>1, <2>3, <2>4
<1>2. \A x, y \in S : f[x] = f[y] => x = y
  BY <1>1
<1>3. f \in [S -> W]
  BY <1>1
<1>4. ASSUME NEW e \in Engines PROVE IsQueue(out[e])
  <2>1. ASSUME NEW m PROVE IsQueue(<<m>>)
    <3>1. <<m>> \in Seq({m})
      OBVIOUS
    <3> QED BY <3>1, QueueOf
  <2> QED BY <2>1, QueueEmpty
<1> QED BY <1>2, <1>3, <1>4, FewerThan

LEMMA RangeOne ==
  ASSUME NEW m
  PROVE  Range(<<m>>) = {m}
<1>1. DOMAIN <<m>> = {1} /\ <<m>>[1] = m
  OBVIOUS
<1> QED BY <1>1 DEF Range

\* One message.
LEMMA OneDue ==
  ASSUME NEW e \in Engines, NEW m
  PROVE  /\ DOMAIN One(e, m) = Engines
         /\ \A d \in Engines : /\ IsQueue(One(e, m)[d])
                               /\ Range(One(e, m)[d]) = IF d = e THEN {m} ELSE {}
         /\ \A id : Cardinality(DueIn(One(e, m), id)) \in Nat /\ Cardinality(DueIn(One(e, m), id)) <= 1
<1>1. /\ DOMAIN One(e, m) = Engines
      /\ \A d \in Engines : One(e, m)[d] = IF d = e THEN <<m>> ELSE <<>>
  BY DEF One, Quiet
<1>2. ASSUME NEW d \in Engines
      PROVE  Range(One(e, m)[d]) = IF d = e THEN {m} ELSE {}
  BY <1>1, RangeOne, QueueEmpty
<1>3. IsFiniteSet({e}) /\ Cardinality({e}) = 1
  BY FS_Singleton
<1>4. \A d \in Engines : One(e, m)[d] = <<>> \/ (d \in {e} /\ \E x : One(e, m)[d] = <<x>>)
  BY <1>1
<1> QED BY <1>1, <1>2, <1>3, <1>4, OneEachDue

\* sendTransaction in a loop.
LEMMA SendAllDue ==
  ASSUME NEW S, IsFiniteSet(S)
  PROVE  /\ DOMAIN SendAll(S) = Engines
         /\ \A e \in Engines : /\ IsQueue(SendAll(S)[e])
                               /\ Range(SendAll(S)[e]) = {y.msg : y \in {z \in S : z.to = e}}
         /\ \A id : /\ Cardinality(DueIn(SendAll(S), id)) \in Nat
                    /\ Cardinality(DueIn(SendAll(S), id)) <= Cardinality(S)
<1> DEFINE At(e) == {z \in S : z.to = e}
           Msgs(e) == {y.msg : y \in At(e)}
           out == SendAll(S)
<1>1. DOMAIN out = Engines /\ \A e \in Engines : out[e] = SetToSeq(Msgs(e))
  BY DEF SendAll
<1>2. ASSUME NEW e \in Engines PROVE IsFiniteSet(Msgs(e))
  <2>1. IsFiniteSet(At(e))
    BY FS_Subset
  <2>2. [y \in At(e) |-> y.msg] \in Surjection(At(e), Msgs(e))
    BY DEF Surjection
  <2> QED BY <2>1, <2>2, FS_Surjection
<1>3. ASSUME NEW e \in Engines
      PROVE  /\ IsQueue(out[e]) /\ Range(out[e]) = Msgs(e)
             /\ \A i, j \in DOMAIN out[e] : out[e][i] = out[e][j] => i = j
  BY <1>1, <1>2, OrderOfSet
<1>4. ASSUME NEW id
      PROVE  /\ Cardinality(DueIn(out, id)) \in Nat
             /\ Cardinality(DueIn(out, id)) <= Cardinality(S)
  <2> DEFINE D == DueIn(out, id)
             g(p) == CHOOSE y \in S : y.to = p[1] /\ y.msg = out[p[1]][p[2]]
             f == [p \in D |-> g(p)]
  <2>1. ASSUME NEW p \in D
        PROVE  /\ p[1] \in Engines /\ p[2] \in DOMAIN out[p[1]] /\ p = <<p[1], p[2]>>
               /\ g(p) \in S /\ g(p).to = p[1] /\ g(p).msg = out[p[1]][p[2]]
    <3>0. PICK e \in Engines : \E i \in DOMAIN out[e] : p = <<e, i>> /\ out[e][i].id = id
      BY DueMember
    <3>1. PICK i \in DOMAIN out[e] : p = <<e, i>> /\ out[e][i].id = id
      BY <3>0
    <3>2. out[e][i] \in Msgs(e)
      BY <1>3 DEF Range
    <3>3. \E y \in S : y.to = p[1] /\ y.msg = out[p[1]][p[2]]
      BY <3>1, <3>2
    <3> QED BY <3>1, <3>3
  <2> HIDE DEF out, g
  <2>2. \A x, y \in D : f[x] = f[y] => x = y
    <3> SUFFICES ASSUME NEW x \in D, NEW y \in D, f[x] = f[y] PROVE x = y
      OBVIOUS
    <3>1. g(x) = g(y)
      OBVIOUS
    <3>2. x[1] = y[1] /\ out[x[1]][x[2]] = out[y[1]][y[2]]
      BY <3>1, <2>1
    <3>3. x[2] = y[2]
      BY <3>2, <2>1, <1>3
    <3> QED BY <3>2, <3>3, <2>1
  <2>3. f \in [D -> S]
    BY <2>1
  <2> QED BY <2>2, <2>3, FewerThan
<1> QED BY <1>1, <1>3, <1>4

-----------------------------------------------------------------------------
(* What happens to one row.                                                 *)

\* An operation of s on the row c leaves d: the row stays well formed, nobody but s
\* comes to hold it, it is not born and not marked as new.
CellStep(c, d, s) ==
  /\ d \in Cell /\ WellLocked(d)
  /\ c = AbsentCell => d = AbsentCell
  /\ d.writelockHolder \in {c.writelockHolder, s, NoSub}
  /\ d.readlockHolders \subseteq c.readlockHolders \cup {s}
  /\ "INSERT" \in d.flags =>
       "INSERT" \in c.flags /\ d.lock = c.lock /\ d.writelockHolder = c.writelockHolder

\* w goes on holding the row as it did, and sees what it saw.
Kept(c, d, w) ==
  /\ Holds(c, w) => Holds(d, w) /\ Visible(d) = Visible(c)
  /\ WriteLockedBy(c, w) => WriteLockedBy(d, w)

LEMMA AbsentOK == AbsentCell \in Cell /\ WellLocked(AbsentCell)
BY RowOpsAssumption DEF AbsentCell, Cell, WellLocked, Changed, LockTypes

\* Nothing happens.
LEMMA SameCell ==
  ASSUME NEW c \in Cell, WellLocked(c), NEW s
  PROVE  CellStep(c, c, s) /\ (\A w : Kept(c, c, w)) /\ DrainCell(c) = c
BY DEF CellStep, Kept, DrainCell, WellLocked, AbsentCell

\* Table::newrow.
LEMMA NewCellStep ==
  ASSUME NEW s \in Subs, NEW v \in Values
  PROVE  /\ NewCell(s, v) \in Cell /\ WellLocked(NewCell(s, v)) /\ WriteLockedBy(NewCell(s, v), s)
         /\ NewCell(s, v).writelockHolder = s /\ NewCell(s, v).readlockHolders = {}
BY RowOpsAssumption, TransactionsAssumption
   DEF NewCell, AbsentCell, Cell, WellLocked, Changed, LockTypes, RowFlags, WriteLockedBy

\* Table::selectrows: the answer, and the row afterwards.
LEMMA SelectCellStep ==
  ASSUME NEW c \in Cell, WellLocked(c), NEW s \in Subs, NEW l \in {"READLOCK", "WRITELOCK"},
         NEW d, d = SelectCell(c, s, l)
  PROVE  /\ CellStep(c, d, s) /\ \A w : Kept(c, d, w)
         /\ SelectReply(c, s, l) \in {"SKIP", "NOTFOUNDLOCK", "PENDINGLOCK", l}
         /\ SelectReply(c, s, l) = l =>
              /\ Holds(d, s) /\ c.row \in Values
              /\ l = "WRITELOCK" => WriteLockedBy(d, s)
              /\ ~(WriteLockedBy(c, s) /\ "INSERT" \in c.flags) => Visible(d) = c.row
<1> DEFINE reply == SelectReply(c, s, l)
<1>0. s # NoSub
  BY TransactionsAssumption
<1>1. /\ reply \in {"SKIP", "NOTFOUNDLOCK", "PENDINGLOCK", l}
      /\ reply = "READLOCK" => l = "READLOCK" /\ c.lock \in {"NOLOCK", "READLOCK"}
      /\ reply = "WRITELOCK" => l = "WRITELOCK" /\ (c.lock = "NOLOCK" \/ WriteLockedBy(c, s))
      /\ reply = "PENDINGLOCK" => c.lock # "ABSENT" /\ "INSERT" \notin c.flags
  BY DEF SelectReply, SelectReadlockReply, SelectWritelockReply, QueueReply, WellLocked,
         WriteLockedBy, Cell, LockTypes
<1>2. CASE reply = "READLOCK"
  <2>1. d = [c EXCEPT !.lock = "READLOCK", !.readlockHolders = @ \cup {s}]
    BY <1>2 DEF SelectCell
  <2>2. c.lock \in {"NOLOCK", "READLOCK"} /\ l = "READLOCK"
    BY <1>1, <1>2
  <2>3. c.flags = {} /\ c.shadow = NoVal /\ c.row \in Values /\ c # AbsentCell
    BY <2>2 DEF WellLocked, Changed, Cell, AbsentCell
  <2>a. c.readlockHolders \cup {s} # {} /\ c.readlockHolders \cup {s} \in SUBSET Subs
    BY DEF Cell
  <2>4. d \in Cell /\ WellLocked(d)
    BY <2>1, <2>2, <2>3, <2>a, RowOpsAssumption DEF Cell, WellLocked, Changed, LockTypes, AbsentCell
  <2>5. CellStep(c, d, s)
    BY <2>1, <2>3, <2>4 DEF CellStep, Cell
  <2>6. \A w : Kept(c, d, w)
    BY <2>1, <2>2 DEF Kept, Holds, WriteLockedBy, Visible, Cell
  <2>7. Holds(d, s) /\ Visible(d) = c.row
    BY <2>1, <2>3 DEF Holds, Visible, Cell
  <2> QED BY <1>1, <2>2, <2>3, <2>5, <2>6, <2>7
<1>3. CASE reply = "WRITELOCK"
  <2>1. d = [c EXCEPT !.lock = "WRITELOCK", !.writelockHolder = s]
    BY <1>3 DEF SelectCell
  <2>2. (c.lock = "NOLOCK" \/ WriteLockedBy(c, s)) /\ l = "WRITELOCK"
    BY <1>1, <1>3
  <2>3. /\ c.lock = "NOLOCK" => c.flags = {}
        /\ c.row \in Values /\ c # AbsentCell /\ c.readlockHolders = {}
    BY <2>2 DEF WellLocked, Changed, Cell, AbsentCell, WriteLockedBy
  <2>4. d \in Cell /\ WellLocked(d)
    BY <2>1, <2>2, <1>0, RowOpsAssumption
       DEF Cell, WellLocked, Changed, LockTypes, AbsentCell, WriteLockedBy
  <2>5. CellStep(c, d, s)
    BY <2>1, <2>2, <2>3, <2>4 DEF CellStep, Cell, WriteLockedBy
  <2>6. \A w : Kept(c, d, w)
    BY <2>1, <2>2, <2>3 DEF Kept, Holds, WriteLockedBy, Visible, Cell
  <2>7. Holds(d, s) /\ WriteLockedBy(d, s)
    BY <2>1 DEF Holds, WriteLockedBy, Cell
  <2>8. ~(WriteLockedBy(c, s) /\ "INSERT" \in c.flags) => Visible(d) = c.row
    BY <2>1, <2>2, <2>3 DEF Visible, Cell
  <2> QED BY <1>1, <2>2, <2>3, <2>5, <2>6, <2>7, <2>8
<1>4. CASE reply = "PENDINGLOCK"
  <2>1. d = [c EXCEPT !.waiters = @ \cup {s}]
    BY <1>4 DEF SelectCell
  <2>2. c.lock # "ABSENT" /\ "INSERT" \notin c.flags
    BY <1>1, <1>4
  <2>3. d \in Cell /\ WellLocked(d)
    BY <2>1, <2>2 DEF Cell, WellLocked, Changed, LockTypes, AbsentCell
  <2>4. CellStep(c, d, s)
    BY <2>1, <2>2, <2>3 DEF CellStep, Cell, AbsentCell
  <2>5. \A w : Kept(c, d, w)
    BY <2>1 DEF Kept, Holds, WriteLockedBy, Visible, Cell
  <2> QED BY <1>1, <1>4, <2>4, <2>5
<1>5. CASE reply \notin {"READLOCK", "WRITELOCK", "PENDINGLOCK"}
  <2>1. d = c
    BY <1>5 DEF SelectCell
  <2> QED BY <1>1, <1>5, <2>1, SameCell
<1> QED BY <1>2, <1>3, <1>4, <1>5

\* Table::updaterow and both forms of Table::deleterow.
LEMMA ChangeCellStep ==
  ASSUME NEW c \in Cell, WellLocked(c), NEW s \in Subs, NEW v \in Values,
         NEW d, d \in {UpdateCell(c, s, v), DeleteCell(c, s), ReplaceDeleteCell(c, s)}
  PROVE  CellStep(c, d, s) /\ \A w : Kept(c, d, w)
<1>1. CASE ~WriteLockedBy(c, s)
  <2>1. d = c
    BY <1>1 DEF UpdateCell, DeleteCell, ReplaceDeleteCell
  <2> QED BY <2>1, SameCell
<1>2. CASE WriteLockedBy(c, s)
  <2>1. c.lock = "WRITELOCK" /\ c # AbsentCell
    BY <1>2 DEF WriteLockedBy, AbsentCell
  <2>2. CASE d = UpdateCell(c, s, v)
    <3>1. UpdateCell(c, s, v) = [c EXCEPT !.shadow = v, !.shared = FALSE]
      BY <1>2 DEF UpdateCell
    <3>2. UpdateCell(c, s, v) \in Cell /\ WellLocked(UpdateCell(c, s, v))
      BY RowOpsAssumption
         DEF UpdateCell, WriteLockedBy, Cell, WellLocked, Changed, LockTypes, AbsentCell
    <3>3. CellStep(c, UpdateCell(c, s, v), s)
      BY <2>1, <3>1, <3>2 DEF CellStep, Cell
    <3>4. \A w : Kept(c, UpdateCell(c, s, v), w)
      BY <3>1 DEF Kept, Holds, WriteLockedBy, Visible, Cell
    <3> QED BY <2>2, <3>3, <3>4
  <2>3. ASSUME NEW F \in SUBSET {"DELETE", "REPLACEDELETE"}, d = [c EXCEPT !.flags = @ \cup F]
        PROVE  CellStep(c, d, s) /\ \A w : Kept(c, d, w)
    <3> DEFINE x == [c EXCEPT !.flags = @ \cup F]
    <3>0. c.flags \cup F \in SUBSET RowFlags
      BY DEF Cell, RowFlags
    <3>2. x \in Cell /\ WellLocked(x)
      BY <2>1, <3>0, RowOpsAssumption DEF Cell, WellLocked, Changed, LockTypes, AbsentCell
    <3>3. CellStep(c, x, s)
      BY <2>1, <3>2 DEF CellStep, Cell
    <3>4. \A w : Kept(c, x, w)
      BY DEF Kept, Holds, WriteLockedBy, Visible, Cell
    <3> QED BY <2>3, <3>3, <3>4
  <2>4. DeleteCell(c, s) = [c EXCEPT !.flags = @ \cup {"DELETE"}]
    BY <1>2 DEF DeleteCell
  <2>5. ReplaceDeleteCell(c, s) = [c EXCEPT !.flags = @ \cup {"DELETE", "REPLACEDELETE"}]
    BY <1>2 DEF ReplaceDeleteCell, DeleteCell, Cell
  <2>6. {"DELETE"} \in SUBSET {"DELETE", "REPLACEDELETE"} /\ {"DELETE", "REPLACEDELETE"} \in SUBSET {"DELETE", "REPLACEDELETE"}
    OBVIOUS
  <2>7. CASE d = DeleteCell(c, s)
    <3>1. d = [c EXCEPT !.flags = @ \cup {"DELETE"}]
      BY <2>4, <2>7
    <3> QED BY <2>3, <2>6, <3>1
  <2>8. CASE d = ReplaceDeleteCell(c, s)
    <3>1. d = [c EXCEPT !.flags = @ \cup {"DELETE", "REPLACEDELETE"}]
      BY <2>5, <2>8
    <3> QED BY <2>3, <2>6, <3>1
  <2> QED BY <2>2, <2>7, <2>8
<1> QED BY <1>1, <1>2

\* COMMITCMD, and the row's queue drained.
LEMMA CommitCellStep ==
  ASSUME NEW c \in Cell, WellLocked(c), NEW s \in Subs, NEW d, d = DrainCell(CommitCell(c, s))
  PROVE  CellStep(c, d, s) /\ \A w : w # s => Kept(c, d, w)
<1>1. CASE c.lock = "READLOCK" /\ s \in c.readlockHolders
  <2>1. CommitCell(c, s) = ReleaseRead(c, s)
    BY <1>1 DEF CommitCell, WriteLockedBy
  <2>2. ReleaseRead(c, s).lock # "ABSENT"
    BY DEF ReleaseRead, Cell
  <2>3. d = ReleaseRead(c, s)
    BY <2>1, <2>2 DEF DrainCell
  <2>4. c.flags = {} /\ c # AbsentCell
    BY <1>1 DEF WellLocked, Changed, Cell, AbsentCell
  <2>a. c.readlockHolders \ {s} \in SUBSET Subs
    BY DEF Cell
  <2>5. ReleaseRead(c, s) \in Cell /\ WellLocked(ReleaseRead(c, s))
    BY <1>1, <2>a DEF ReleaseRead, Cell, WellLocked, Changed, LockTypes, AbsentCell
  <2>b. /\ ReleaseRead(c, s).writelockHolder = c.writelockHolder /\ ReleaseRead(c, s).flags = c.flags
        /\ ReleaseRead(c, s).readlockHolders \subseteq c.readlockHolders
    BY DEF ReleaseRead, Cell
  <2>6. CellStep(c, d, s)
    BY <2>3, <2>4, <2>5, <2>b DEF CellStep
  <2>7. \A w : w # s => Kept(c, d, w)
    BY <1>1, <2>3 DEF Kept, Holds, WriteLockedBy, Visible, ReleaseRead, Cell
  <2> QED BY <2>6, <2>7
<1>2. CASE WriteLockedBy(c, s)
  <2>1. c.lock = "WRITELOCK" /\ c.writelockHolder = s /\ c # AbsentCell
    BY <1>2 DEF WriteLockedBy, AbsentCell
  <2>2. \A w : w # s => ~Holds(c, w)
    BY <2>1 DEF Holds, WriteLockedBy
  <2>3. \A w : w # s => Kept(c, d, w)
    BY <2>2 DEF Kept, Holds
  <2>4. CASE "DELETE" \in c.flags
    <3>1. CommitCell(c, s) = [AbsentCell EXCEPT !.waiters = c.waiters]
      BY <1>2, <2>1, <2>4 DEF CommitCell
    <3>2. d = AbsentCell
      BY <3>1 DEF DrainCell, AbsentCell
    <3>3. CellStep(c, d, s)
      BY <3>2, AbsentOK DEF CellStep, AbsentCell
    <3> QED BY <2>3, <3>3
  <2>5. CASE "DELETE" \notin c.flags
    <3>1. CommitCell(c, s) = InstallCell(c)
      BY <1>2, <2>1, <2>5 DEF CommitCell
    <3>2. d = InstallCell(c)
      BY <3>1 DEF DrainCell, InstallCell, Cell
    <3>3. d \in Cell /\ WellLocked(d)
      BY <2>1, <3>2, RowOpsAssumption
         DEF InstallCell, Cell, WellLocked, Changed, LockTypes, AbsentCell
    <3>4. CellStep(c, d, s)
      BY <2>1, <3>2, <3>3 DEF CellStep, InstallCell, Cell
    <3> QED BY <2>3, <3>4
  <2> QED BY <2>4, <2>5
<1>3. CASE ~(c.lock = "READLOCK" /\ s \in c.readlockHolders) /\ ~WriteLockedBy(c, s)
  <2>1. CommitCell(c, s) = c
    BY <1>3 DEF CommitCell
  <2> QED BY <2>1, SameCell
<1> QED BY <1>1, <1>2, <1>3

\* ROLLBACKCMD, and the row's queue drained.
LEMMA RollbackCellStep ==
  ASSUME NEW c \in Cell, WellLocked(c), NEW s \in Subs, NEW d, d = DrainCell(RollbackCell(c, s))
  PROVE  CellStep(c, d, s) /\ \A w : w # s => Kept(c, d, w)
<1> DEFINE left == c.readlockHolders \ {s}
           back == [c EXCEPT !.lock = IF left = {} THEN "NOLOCK" ELSE "READLOCK",
                             !.writelockHolder = NoSub,
                             !.readlockHolders = left,
                             !.flags = {},
                             !.shadow = NoVal, !.shared = FALSE]
           others == c.lock = "ABSENT" \/ (c.lock = "WRITELOCK" /\ c.writelockHolder # s)
<1>1. CASE others
  <2>1. RollbackCell(c, s) = c
    BY <1>1 DEF RollbackCell
  <2> QED BY <2>1, SameCell
<1>2. CASE ~others /\ "INSERT" \in c.flags
  <2>1. RollbackCell(c, s) = [AbsentCell EXCEPT !.waiters = c.waiters]
    BY <1>2 DEF RollbackCell
  <2>2. d = AbsentCell
    BY <2>1 DEF DrainCell, AbsentCell
  <2>3. c.lock = "WRITELOCK" /\ c.writelockHolder = s
    BY <1>2 DEF WellLocked, Changed
  <2>4. CellStep(c, d, s)
    BY <2>2, AbsentOK DEF CellStep, AbsentCell
  <2>5. \A w : w # s => Kept(c, d, w)
    BY <2>3 DEF Kept, Holds, WriteLockedBy
  <2> QED BY <2>4, <2>5
<1>3. CASE ~others /\ "INSERT" \notin c.flags
  <2>1. RollbackCell(c, s) = back
    BY <1>3 DEF RollbackCell
  <2>2. d = back
    BY <2>1 DEF DrainCell, Cell
  <2>a. left \in SUBSET Subs
    BY DEF Cell
  <2>3. back \in Cell /\ WellLocked(back)
    BY <1>3, <2>a, RowOpsAssumption DEF Cell, WellLocked, Changed, LockTypes, AbsentCell
  <2>b. back.writelockHolder = NoSub /\ back.readlockHolders = left /\ back.flags = {} /\ c # AbsentCell
    BY <1>3 DEF Cell, AbsentCell
  <2>4. CellStep(c, d, s)
    BY <2>2, <2>3, <2>b DEF CellStep
  <2>5. \A w : w # s => Kept(c, d, w)
    BY <1>3, <2>2 DEF Kept, Holds, WriteLockedBy, Visible, Cell
  <2> QED BY <2>4, <2>5
<1> QED BY <1>1, <1>2, <1>3


-----------------------------------------------------------------------------
(* What an agent does.                                                      *)

Done(x) == x.phase \in {"committed", "rolledback", "abandoned"}
Busy(x) == x.phase \in {"running", "committing"}

\* A message that the transaction sends when it becomes x.
SentOK(t, x, e, m) ==
  /\ SubOK(t, e, m.sub) /\ m.id \in Nat /\ Body(e, m)
  /\ ~Done(x) => /\ m.id = x.id /\ m.cmd \notin {"ROLLBACK", "END"}
                 /\ x.phase = "committing" \/ m.cmd # "COMMIT"
                 /\ Busy(x) => Fits(x, m)

GoodStep(t, s) ==
  /\ TxnOK(s.x) /\ PhaseOK(s.x)
  /\ DOMAIN s.out = Engines
  /\ \A e \in Engines : /\ SubOK(t, e, s.x.subs[e])
                        /\ IsQueue(s.out[e])
                        /\ \A m \in Range(s.out[e]) : SentOK(t, s.x, e, m)

\* The answers it waits for: of a new command, of a new round of the one it had, or
\* n that are left.
Moves(x, n, s) ==
  \/ Done(s.x)
  \/ /\ ~Done(x) /\ s.x.id >= x.id
     /\ s.x.phase = "committing" \/ x.phase # "committing"
     /\ Busy(s.x) =>
          \/ /\ s.x.id > x.id \/ (s.x.id = x.id /\ n = 0)
             /\ Enough(s.x, Cardinality(DueIn(s.out, s.x.id)))
          \/ /\ s.x.id = x.id /\ s.out = Quiet /\ s.x.cmd = x.cmd /\ Busy(x)
             /\ s.x.wait > 0 /\ x.wait > 0 /\ n <= s.x.wait

\* An action of an agent keeps the types, whatever it takes from its mailbox.
LEMMA ApplyStep ==
  ASSUME TypeInv, NEW t \in Txns, NEW s, GoodStep(t, s),
         NEW n \in Nat, Moves(txn[t], n, s), Apply(t, s), UNCHANGED engineVars,
         DOMAIN replies' = Txns, DOMAIN replies'[t] = Engines,
         \A v \in Txns \ {t} : replies'[v] = replies[v],
         \A e \in Engines : /\ IsQueue(replies'[t][e])
                            /\ Range(replies'[t][e]) \subseteq Range(replies[t][e]),
         n = Cardinality(DueIn(mail[t], txn[t].id)) + Cardinality(DueIn(replies'[t], txn[t].id))
  PROVE  TypeInv'
<1>1. EngineTypes'
  BY DEF TypeInv, EngineTypes, engineVars
<1>2. /\ DOMAIN txn = Txns /\ DOMAIN mail = Txns /\ DOMAIN mail[t] = Engines
      /\ \A e \in Engines : IsQueue(mail[t][e])
  BY DEF TypeInv, AgentTypes
<1>3. /\ DOMAIN txn' = Txns /\ DOMAIN mail' = Txns
      /\ txn'[t] = s.x /\ mail'[t] = Join(mail[t], s.out)
      /\ \A v \in Txns \ {t} : txn'[v] = txn[v] /\ mail'[v] = mail[v]
  BY <1>2 DEF Apply
<1>4. \A v \in Txns, e \in Engines : \A k : SubOK(v, e, k)' <=> SubOK(v, e, k)
  BY DEF SubOK, engineVars
<1>5. ASSUME NEW v \in Txns \ {t}
      PROVE  /\ TxnOK(txn[v])' /\ PhaseOK(txn[v])'
             /\ DOMAIN mail'[v] = Engines /\ DOMAIN replies'[v] = Engines
             /\ \A e \in Engines :
                  /\ SubOK(v, e, txn[v].subs[e])'
                  /\ IsQueue(mail'[v][e]) /\ IsQueue(replies'[v][e])
                  /\ \A m \in Range(mail'[v][e]) : MailOK(v, e, m)'
                  /\ \A r \in Range(replies'[v][e]) : ReplyOK(v, e, r)'
             /\ Expected(v)'
  BY <1>3, <1>4 DEF TypeInv, AgentTypes, MailOK, ReplyOK, Expected, Asked, Ended, engineVars
<1>6. /\ TxnOK(txn[t])' /\ PhaseOK(txn[t])'
      /\ DOMAIN mail'[t] = Engines /\ DOMAIN replies'[t] = Engines
      /\ \A e \in Engines : SubOK(t, e, txn[t].subs[e])' /\ IsQueue(replies'[t][e])
  BY <1>3, <1>4 DEF GoodStep, Join
<1>7. ASSUME NEW e \in Engines
      PROVE  IsQueue(mail'[t][e]) /\ Range(mail'[t][e]) = Range(mail[t][e]) \cup Range(s.out[e])
  <2>1. mail'[t][e] = mail[t][e] \o s.out[e]
    BY <1>3 DEF Join
  <2> QED BY <2>1, <1>2, QueueConcat DEF GoodStep
<1>8. /\ \A e \in Engines : \A m \in Range(mail[t][e]) : MailOK(t, e, m)
      /\ \A e \in Engines : \A r \in Range(replies[t][e]) : ReplyOK(t, e, r)
      /\ txn[t].id \in Nat /\ s.x.id \in Nat /\ txn[t].wait \in Nat /\ s.x.wait \in Nat
  BY DEF TypeInv, AgentTypes, GoodStep, TxnOK
<1>9. /\ IsFiniteSet(DueIn(mail[t], txn[t].id)) /\ Cardinality(DueIn(mail[t], txn[t].id)) \in Nat
      /\ IsFiniteSet(DueIn(replies'[t], txn[t].id)) /\ Cardinality(DueIn(replies'[t], txn[t].id)) \in Nat
  BY <1>2, DueFinite
<1>10. ASSUME n = 0, NEW e \in Engines
       PROVE  /\ \A m \in Range(mail[t][e]) : m.id # txn[t].id
              /\ \A r \in Range(replies'[t][e]) : r.id # txn[t].id
  <2>1. DueIn(mail[t], txn[t].id) = {} /\ DueIn(replies'[t], txn[t].id) = {}
    <3>1. Cardinality(DueIn(mail[t], txn[t].id)) = 0 /\ Cardinality(DueIn(replies'[t], txn[t].id)) = 0
      BY <1>9, <1>10
    <3> QED BY <3>1, <1>9, FS_EmptySet
  <2>2. ASSUME NEW m \in Range(mail[t][e]), m.id = txn[t].id PROVE FALSE
    <3>1. PICK i \in 1..Len(mail[t][e]) : mail[t][e][i] = m
      BY <1>2, QueueIsFunction
    <3>2. i \in DOMAIN mail[t][e]
      BY <1>2, QueueIsFunction
    <3>3. <<e, i>> \in DueIn(mail[t], txn[t].id)
      BY <3>1, <3>2, <2>2, DueMember
    <3> QED BY <3>3, <2>1
  <2>3. ASSUME NEW m \in Range(replies'[t][e]), m.id = txn[t].id PROVE FALSE
    <3>1. PICK i \in 1..Len(replies'[t][e]) : replies'[t][e][i] = m
      BY QueueIsFunction
    <3>2. i \in DOMAIN replies'[t][e]
      BY QueueIsFunction
    <3>3. <<e, i>> \in DueIn(replies'[t], txn[t].id)
      BY <3>1, <3>2, <2>3, DueMember
    <3> QED BY <3>3, <2>1
  <2> QED BY <2>2, <2>3
<1>11. ASSUME NEW e \in Engines, NEW m \in Range(s.out[e]) PROVE MailOK(t, e, m)'
  BY <1>3, <1>4, <1>8 DEF GoodStep, SentOK, MailOK, Ended, Done, Asked, Busy, PhaseOK
<1>12. ASSUME NEW e \in Engines, NEW m \in Range(mail[t][e]) PROVE MailOK(t, e, m)'
  <2>1. MailOK(t, e, m) /\ m.id \in Nat
    BY <1>8 DEF MailOK
  <2>2. CASE Done(s.x)
    BY <2>1, <2>2, <1>3, <1>4 DEF MailOK, Ended, Done, Asked
  <2>3. CASE ~Done(s.x) /\ ~Busy(s.x)
    <3>1. s.x.phase = "idle" /\ txn[t].phase \in {"idle", "running"} /\ s.x.id >= txn[t].id
      BY <2>3 DEF Done, Busy, Moves, GoodStep, TypeInv, AgentTypes, TxnOK
    <3>2. m.cmd \notin {"ROLLBACK", "END", "COMMIT"} /\ m.id <= s.x.id
      BY <3>1, <2>1, <1>8 DEF MailOK, Ended
    <3> QED BY <2>1, <3>1, <3>2, <1>3, <1>4 DEF MailOK, Ended, Asked
  <2>4. CASE Busy(s.x)
    <3>1. /\ ~Done(s.x) /\ ~Done(txn[t]) /\ s.x.id >= txn[t].id
          /\ s.x.phase = "committing" \/ txn[t].phase \in {"idle", "running"}
      BY <2>4 DEF Done, Busy, Moves, TypeInv, AgentTypes, TxnOK
    <3>2. ASSUME m.id = s.x.id PROVE Fits(s.x, m)
      <4>1. m.id <= txn[t].id
        BY <2>1, <3>1 DEF MailOK, Ended, Done
      <4>2. m.id = txn[t].id /\ s.x.id = txn[t].id
        BY <4>1, <3>2, <3>1, <2>1, <1>8
      <4>3. s.x.cmd = txn[t].cmd /\ Busy(txn[t]) /\ s.x.wait > 0 /\ txn[t].wait > 0
        BY <4>2, <1>10, <1>8, <2>4, <3>1 DEF Moves
      <4>4. Fits(txn[t], m)
        BY <4>2, <4>3, <2>1 DEF MailOK, Asked, Busy
      <4> QED BY <4>3, <4>4, <1>8 DEF Fits
    <3> QED BY <2>1, <3>1, <3>2, <1>3, <1>4, <1>8 DEF MailOK, Ended, Done, Asked
  <2> QED BY <2>2, <2>3, <2>4
<1>13. ASSUME NEW e \in Engines, NEW r \in Range(replies'[t][e]) PROVE ReplyOK(t, e, r)'
  <2>1. ReplyOK(t, e, r) /\ r.id \in Nat
    BY <1>8 DEF ReplyOK
  <2>2. CASE Done(s.x)
    BY <2>1, <2>2, <1>3, <1>4 DEF ReplyOK, Ended, Done, Asked
  <2>3. CASE ~Done(s.x) /\ ~Busy(s.x)
    BY <2>1, <2>3, <1>3, <1>4, <1>8 DEF ReplyOK, Ended, Done, Asked, Busy, Moves
  <2>4. CASE Busy(s.x)
    <3>1. ~Done(s.x) /\ ~Done(txn[t]) /\ s.x.id >= txn[t].id
      BY <2>4 DEF Done, Busy, Moves
    <3>2. ASSUME r.id = s.x.id PROVE Answers(s.x, e, r)
      <4>1. r.id <= txn[t].id
        BY <2>1, <3>1 DEF ReplyOK, Ended, Done
      <4>2. r.id = txn[t].id /\ s.x.id = txn[t].id
        BY <4>1, <3>2, <3>1, <2>1, <1>8
      <4>3. s.x.cmd = txn[t].cmd /\ Busy(txn[t]) /\ s.x.wait > 0 /\ txn[t].wait > 0
        BY <4>2, <1>10, <1>8, <2>4, <3>1 DEF Moves
      <4>4. Answers(txn[t], e, r)
        BY <4>2, <4>3, <2>1 DEF ReplyOK, Asked, Busy
      <4> QED BY <4>3, <4>4, <1>8 DEF Answers
    <3> QED BY <2>1, <3>1, <3>2, <1>3, <1>4, <1>8 DEF ReplyOK, Ended, Done, Asked
  <2> QED BY <2>2, <2>3, <2>4
<1>14. Expected(t)'
  <2> SUFFICES ASSUME Busy(s.x)
               PROVE  Enough(s.x, Cardinality(DueIn(mail'[t], s.x.id))
                                  + Cardinality(DueIn(replies'[t], s.x.id)))
    BY <1>3 DEF Expected, Asked, Busy
  <2>0. ~Done(txn[t]) /\ s.x.id >= txn[t].id
    BY DEF Done, Busy, Moves
  <2> DEFINE a == Cardinality(DueIn(mail[t], s.x.id))
             b == Cardinality(DueIn(s.out, s.x.id))
             c == Cardinality(DueIn(replies'[t], s.x.id))
             j == Cardinality(DueIn(mail'[t], s.x.id))
  <2>1. a \in Nat /\ b \in Nat /\ j \in Nat /\ j <= a + b
    <3>1. \A d \in Engines : IsQueue(mail[t][d]) /\ IsQueue(s.out[d])
      BY <1>2 DEF GoodStep
    <3> QED BY <3>1, <1>3, DueJoin
  <2>2. c \in Nat
    BY DueFinite
  <2>3. CASE s.x.id > txn[t].id \/ n = 0
    <3>1. \A e \in Engines : /\ \A m \in Range(mail[t][e]) : m.id # s.x.id
                             /\ \A r \in Range(replies'[t][e]) : r.id # s.x.id
      <4>1. CASE s.x.id > txn[t].id
        BY <4>1, <1>8, <2>0 DEF MailOK, ReplyOK, Ended, Done
      <4>2. CASE s.x.id = txn[t].id
        BY <4>2, <2>3, <1>10, <1>8
      <4> QED BY <4>1, <4>2, <2>0, <1>8
    <3>2. DueIn(mail[t], s.x.id) = {}
      <4> SUFFICES ASSUME NEW p \in DueIn(mail[t], s.x.id) PROVE FALSE
        OBVIOUS
      <4>1. PICK e \in Engines : \E i \in DOMAIN mail[t][e] : p = <<e, i>> /\ mail[t][e][i].id = s.x.id
        BY DueMember
      <4>2. PICK i \in DOMAIN mail[t][e] : mail[t][e][i].id = s.x.id
        BY <4>1
      <4> QED BY <4>2, <3>1, <1>2, QueueIsFunction
    <3>3. DueIn(replies'[t], s.x.id) = {}
      <4> SUFFICES ASSUME NEW p \in DueIn(replies'[t], s.x.id) PROVE FALSE
        OBVIOUS
      <4>1. PICK e \in Engines : \E i \in DOMAIN replies'[t][e] : p = <<e, i>> /\ replies'[t][e][i].id = s.x.id
        BY DueMember
      <4>2. PICK i \in DOMAIN replies'[t][e] : replies'[t][e][i].id = s.x.id
        BY <4>1
      <4> QED BY <4>2, <3>1, QueueIsFunction
    <3>4. a = 0 /\ c = 0
      BY <3>2, <3>3, FS_EmptySet
    <3>5. Enough(s.x, b) \/ (b = 0 /\ s.x.wait > 0)
      <4>1. s.out = Quiet => b = 0
        BY QuietDue
      <4> QED BY <4>1 DEF Moves, Done, Busy
    <3> QED BY <3>4, <3>5, <2>1, <1>8 DEF Enough
  <2>4. CASE s.x.id = txn[t].id /\ n # 0
    <3>1. s.out = Quiet /\ n <= s.x.wait
      BY <2>4, <1>8 DEF Moves, Done, Busy
    <3>2. b = 0
      BY <3>1, QuietDue
    <3>3. n = a + c
      BY <2>4
    <3> QED BY <3>1, <3>2, <3>3, <2>1, <2>2, <1>8 DEF Enough
  <2> QED BY <2>3, <2>4, <2>0, <1>8
<1>15. ASSUME NEW e \in Engines
       PROVE  /\ \A m \in Range(mail'[t][e]) : MailOK(t, e, m)'
              /\ \A r \in Range(replies'[t][e]) : ReplyOK(t, e, r)'
  BY <1>7, <1>11, <1>12, <1>13
<1>16. AgentTypes'
  <2>1. \A v \in Txns :
          /\ TxnOK(txn[v])' /\ PhaseOK(txn[v])'
          /\ DOMAIN mail'[v] = Engines /\ DOMAIN replies'[v] = Engines
          /\ \A e \in Engines :
               /\ SubOK(v, e, txn[v].subs[e])'
               /\ IsQueue(mail'[v][e]) /\ IsQueue(replies'[v][e])
               /\ \A m \in Range(mail'[v][e]) : MailOK(v, e, m)'
               /\ \A r \in Range(replies'[v][e]) : ReplyOK(v, e, r)'
          /\ Expected(v)'
    <3> TAKE v \in Txns
    <3>1. CASE v = t
      BY <3>1, <1>6, <1>7, <1>14, <1>15
    <3>2. CASE v # t
      BY <3>2, <1>5
    <3> QED BY <3>1, <3>2
  <2> QED BY <2>1, <1>3 DEF AgentTypes
<1> QED BY <1>1, <1>16 DEF TypeInv


\* What a continuation may rely on.
Ready(t, x) == TxnOK(x) /\ \A e \in Engines : SubOK(t, e, x.subs[e])

\* No replacement row is missing.
Complete(x) == \A u \in DOMAIN x.staged : x.staged[u].newuur \in Uurs

\* A transaction that is over.
LEMMA EndedOK ==
  ASSUME NEW t, NEW o \in {"committed", "rolledback", "abandoned"}
  PROVE  /\ TxnOK(EndedTxn(o)) /\ PhaseOK(EndedTxn(o)) /\ Done(EndedTxn(o))
         /\ \A e \in Engines : SubOK(t, e, EndedTxn(o).subs[e])
         /\ [EndedTxn(o) EXCEPT !.phase = "abandoned"] = EndedTxn("abandoned")
<1> DEFINE none == [e \in Engines |-> 0]
           Ended0(p) == [phase |-> p, cmd |-> "NOCOMMAND", id |-> 0, left |-> 0,
             stmt |-> NoStmt, subs |-> none, staged |-> Nothing,
             wait |-> 0, hits |-> {}, results |-> Nothing, todo |-> {},
             orig |-> NoUur, late |-> {}]
<1>0. FreshTxn = [phase |-> "idle", cmd |-> "NOCOMMAND", id |-> 0, left |-> MaxStmts,
             stmt |-> NoStmt, subs |-> none, staged |-> Nothing,
             wait |-> 0, hits |-> {}, results |-> Nothing, todo |-> {},
             orig |-> NoUur, late |-> {}]
  BY DEF FreshTxn
<1>6. DOMAIN none = Engines /\ \A e \in Engines : none[e] = 0
  OBVIOUS
<1> HIDE DEF none
<1>1. \A p : EndedTxn(p) = Ended0(p)
  <2> TAKE p
  <2> DEFINE fresh == FreshTxn
  <2>1. EndedTxn(p) = [fresh EXCEPT !.phase = p, !.left = 0]
    BY DEF EndedTxn
  <2>2. [fresh EXCEPT !.phase = p, !.left = 0] = [[fresh EXCEPT !.phase = p] EXCEPT !.left = 0]
    BY <1>0
  <2> DEFINE next == [fresh EXCEPT !.phase = p]
  <2>3. next = [phase |-> p, cmd |-> "NOCOMMAND", id |-> 0, left |-> MaxStmts,
             stmt |-> NoStmt, subs |-> none, staged |-> Nothing,
             wait |-> 0, hits |-> {}, results |-> Nothing, todo |-> {},
             orig |-> NoUur, late |-> {}]
    BY <1>0
  <2> HIDE DEF next
  <2>4. [next EXCEPT !.left = 0] = Ended0(p)
    BY <2>3
  <2> USE DEF next
  <2> QED BY <2>1, <2>2, <2>3, <2>4
<1>2. DOMAIN Nothing = {}
  BY DEF Nothing
<1>3. TxnOK(EndedTxn(o))
  BY <1>1, <1>2, <1>6, TransactionsAssumption DEF TxnOK
<1>4. PhaseOK(EndedTxn(o)) /\ Done(EndedTxn(o)) /\ \A e \in Engines : SubOK(t, e, EndedTxn(o).subs[e])
  BY <1>1, <1>6 DEF PhaseOK, Done, SubOK
<1>5. [EndedTxn(o) EXCEPT !.phase = "abandoned"] = EndedTxn("abandoned")
  BY <1>1
<1> QED BY <1>3, <1>4, <1>5

\* TOPIC_ENDSUBTRANSACTION.
LEMMA EndsOK ==
  ASSUME NEW t, NEW x, Ready(t, x)
  PROVE  LET out == EndSubTransactions(x)
         IN  /\ DOMAIN out = Engines
             /\ \A e \in Engines : /\ IsQueue(out[e])
                                   /\ \A m \in Range(out[e]) : SubOK(t, e, m.sub) /\ m.id \in Nat /\ Body(e, m)
<1> DEFINE out == EndSubTransactions(x)
<1>1. ASSUME NEW e \in Engines
      PROVE  /\ IsQueue(out[e])
             /\ \A m \in Range(out[e]) : SubOK(t, e, m.sub) /\ m.id \in Nat /\ Body(e, m)
  <2>1. CASE x.subs[e] = 0
    BY <2>1, QueueEmpty DEF EndSubTransactions
  <2>2. CASE x.subs[e] # 0
    <3> DEFINE m == Msg(x, e, "END", 0, {})
    <3>1. m.sub = x.subs[e] /\ m.id = x.id /\ m.cmd = "END"
      BY DEF Msg
    <3>2. SubOK(t, e, m.sub) /\ m.id \in Nat /\ Body(e, m)
      BY <3>1, <2>2 DEF Ready, TxnOK, Body
    <3>3. out[e] = <<m>>
      BY <2>2 DEF EndSubTransactions
    <3>4. IsQueue(<<m>>) /\ Range(<<m>>) = {m}
      <4> HIDE DEF m
      <4>1. Range(<<m>>) = {m}
        BY RangeOne
      <4> QED BY <4>1 DEF IsQueue
    <3> HIDE DEF m, out
    <3> QED BY <3>2, <3>3, <3>4
  <2> QED BY <2>1, <2>2
<1>2. DOMAIN out = Engines
  BY DEF EndSubTransactions
<1> QED BY <1>1, <1>2

\* The image of a finite set.
LEMMA ImageIsFinite ==
  ASSUME NEW f, f = [x \in DOMAIN f |-> f[x]], IsFiniteSet(DOMAIN f)
  PROVE  /\ IsFiniteSet({f[x] : x \in DOMAIN f})
         /\ Cardinality({f[x] : x \in DOMAIN f}) \in Nat /\ Cardinality(DOMAIN f) \in Nat
         /\ Cardinality({f[x] : x \in DOMAIN f}) <= Cardinality(DOMAIN f)
<1> DEFINE T == {f[x] : x \in DOMAIN f}
<1>1. f \in Surjection(DOMAIN f, T)
  BY DEF Surjection
<1>2. IsFiniteSet(T) /\ Cardinality(T) <= Cardinality(DOMAIN f)
  BY <1>1, FS_Surjection
<1> QED BY <1>2, FS_CardinalityType

\* Sets of rows are finite.
LEMMA RowsAreFinite ==
  ASSUME NEW S, S \subseteq NewUurs
  PROVE  IsFiniteSet(S)
<1>1. IsFiniteSet({0}) /\ IsFiniteSet(Rowids \cup {0})
  BY FS_Singleton, FS_Union, TransactionsAssumption
<1>2. IsFiniteSet(NewUurs)
  BY <1>1, FS_Product, TransactionsAssumption DEF NewUurs
<1> QED BY <1>2, FS_Subset

\* Every value has a home.
LEMMA Homes ==
  /\ \A v \in Vals : Home(v) \in Engines
  /\ \A row \in Values : row \in [Fields -> Vals] /\ \A n \in Fields : row[n] \in Vals /\ Home(row[n]) \in Engines
  /\ UniqueFields \subseteq Fields /\ Indexed \subseteq Fields /\ UniqueFields \subseteq Indexed
  /\ 0 \in Fields /\ Uurs \subseteq NewUurs
  /\ \A u \in NewUurs : u[1] \in Engines /\ u[2] \in Rowids \cup {0} /\ u = <<u[1], u[2]>>
BY TransactionsAssumption DEF Home, Indexed, Uurs, NewUurs

\* A rowOrField_s of each kind.
LEMMA RofsOK ==
  /\ \A u \in NewUurs : RofOK(RowRof(u))
  /\ \A n \in Indexed, v \in Vals, u \in Uurs :
       /\ RofOK(AddRof(n, v, u)) /\ RofOK(DeleteRof(n, v, u))
       /\ \A w \in Uurs : RofOK(ReplaceRof(n, v, u, w))
BY Homes DEF RofOK, RowRof, AddRof, DeleteRof, ReplaceRof, RofEngine

\* Transaction::rollback.
LEMMA RollbackStep ==
  ASSUME NEW t, NEW x, Ready(t, x)
  PROVE  /\ GoodStep(t, Rollback(x)) /\ Done(Rollback(x).x)
         /\ GoodStep(t, [Rollback(x) EXCEPT !.x.phase = "abandoned"])
         /\ Done([Rollback(x) EXCEPT !.x.phase = "abandoned"].x)
         /\ [Rollback(x) EXCEPT !.x.phase = "abandoned"].out = Rollback(x).out
<1> DEFINE S == {To(RofEngine(rof), Msg(x, RofEngine(rof), "ROLLBACK", 0, {rof})) : rof \in RollbackRofs(x)}
           ends == EndSubTransactions(x)
           out == Join(SendAll(S), ends)
           ofRow(u) == LET sr == x.staged[u]
                       IN  {RowRof(u)}
                           \cup (IF Replaced(sr, u) THEN {RowRof(sr.newuur)} ELSE {})
                           \cup {AddRof(n, sr.ui[n], u) : n \in DOMAIN sr.ui}
<1>1. Rollback(x) = [x |-> EndedTxn("rolledback"), out |-> out]
  BY DEF Rollback, Step
<1>2. RollbackRofs(x) = UNION {ofRow(u) : u \in DOMAIN x.staged}
  BY DEF RollbackRofs
<1>3. ASSUME NEW u \in DOMAIN x.staged
      PROVE  IsFiniteSet(ofRow(u)) /\ \A rof \in ofRow(u) : RofOK(rof)
  <2>1. /\ x.staged[u].newuur \in NewUurs /\ u \in Uurs
        /\ DOMAIN x.staged[u].ui \subseteq UniqueFields
        /\ \A n \in DOMAIN x.staged[u].ui : x.staged[u].ui[n] \in Vals
    BY DEF Ready, TxnOK, StagedOK
  <2>2. IsFiniteSet(DOMAIN x.staged[u].ui)
    BY <2>1, Homes, FS_Subset, TransactionsAssumption
  <2>3. IsFiniteSet({AddRof(n, x.staged[u].ui[n], u) : n \in DOMAIN x.staged[u].ui})
    <3> DEFINE f == [n \in DOMAIN x.staged[u].ui |-> AddRof(n, x.staged[u].ui[n], u)]
    <3>1. /\ DOMAIN f = DOMAIN x.staged[u].ui /\ f = [n \in DOMAIN f |-> f[n]]
          /\ {AddRof(n, x.staged[u].ui[n], u) : n \in DOMAIN x.staged[u].ui} = {f[n] : n \in DOMAIN f}
      OBVIOUS
    <3> HIDE DEF f
    <3> QED BY <3>1, <2>2, ImageIsFinite
  <2>4. /\ IsFiniteSet({RowRof(u)})
        /\ IsFiniteSet(IF Replaced(x.staged[u], u) THEN {RowRof(x.staged[u].newuur)} ELSE {})
    BY FS_Singleton, FS_EmptySet
  <2>5. IsFiniteSet(ofRow(u))
    BY <2>3, <2>4, FS_Union
  <2>6. ASSUME NEW rof \in ofRow(u) PROVE RofOK(rof)
    BY <2>1, RofsOK, Homes
  <2> QED BY <2>5, <2>6
<1> HIDE DEF ofRow
<1>4. IsFiniteSet(RollbackRofs(x)) /\ \A rof \in RollbackRofs(x) : RofOK(rof)
  <2>1. DOMAIN x.staged \subseteq NewUurs
    BY Homes DEF Ready, TxnOK
  <2>2. IsFiniteSet({ofRow(u) : u \in DOMAIN x.staged})
    <3> DEFINE f == [u \in DOMAIN x.staged |-> ofRow(u)]
    <3>1. /\ DOMAIN f = DOMAIN x.staged /\ f = [u \in DOMAIN f |-> f[u]]
          /\ {ofRow(u) : u \in DOMAIN x.staged} = {f[u] : u \in DOMAIN f}
      OBVIOUS
    <3>2. IsFiniteSet(DOMAIN f)
      BY <2>1, <3>1, RowsAreFinite
    <3> HIDE DEF f
    <3> QED BY <3>1, <3>2, ImageIsFinite
  <2>3. \A T \in {ofRow(u) : u \in DOMAIN x.staged} : IsFiniteSet(T)
    BY <1>3
  <2>4. IsFiniteSet(UNION {ofRow(u) : u \in DOMAIN x.staged})
    BY <2>2, <2>3, FS_UNION
  <2> QED BY <2>4, <1>2, <1>3
<1>5. IsFiniteSet(S)
  <2> DEFINE f == [rof \in RollbackRofs(x) |->
                    To(RofEngine(rof), Msg(x, RofEngine(rof), "ROLLBACK", 0, {rof}))]
  <2>1. /\ DOMAIN f = RollbackRofs(x) /\ f = [rof \in DOMAIN f |-> f[rof]]
        /\ S = {f[rof] : rof \in DOMAIN f}
    OBVIOUS
  <2> HIDE DEF f, S
  <2> QED BY <2>1, <1>4, ImageIsFinite
<1>6. ASSUME NEW z \in S PROVE SubOK(t, z.to, z.msg.sub) /\ z.msg.id \in Nat /\ Body(z.to, z.msg)
  <2>1. PICK rof \in RollbackRofs(x) : z = To(RofEngine(rof), Msg(x, RofEngine(rof), "ROLLBACK", 0, {rof}))
    OBVIOUS
  <2>2. RofOK(rof) /\ RofEngine(rof) \in Engines
    BY <1>4 DEF RofOK
  <2> QED BY <2>1, <2>2 DEF To, Msg, Body, Ready, TxnOK
<1> HIDE DEF S
<1>7. ASSUME NEW e \in Engines
      PROVE  /\ IsQueue(out[e])
             /\ \A m \in Range(out[e]) : SubOK(t, e, m.sub) /\ m.id \in Nat /\ Body(e, m)
  <2>1. out[e] = SendAll(S)[e] \o ends[e]
    BY DEF Join
  <2>2. IsQueue(SendAll(S)[e]) /\ Range(SendAll(S)[e]) = {y.msg : y \in {z \in S : z.to = e}}
    BY <1>5, SendAllDue
  <2>3. IsQueue(ends[e]) /\ \A m \in Range(ends[e]) : SubOK(t, e, m.sub) /\ m.id \in Nat /\ Body(e, m)
    BY EndsOK
  <2>4. IsQueue(out[e]) /\ Range(out[e]) = Range(SendAll(S)[e]) \cup Range(ends[e])
    BY <2>1, <2>2, <2>3, QueueConcat
  <2> QED BY <2>2, <2>3, <2>4, <1>6
<1>8. DOMAIN out = Engines
  BY DEF Join
<1> HIDE DEF out
<1>9. ASSUME NEW o \in {"committed", "rolledback", "abandoned"}
      PROVE  GoodStep(t, [x |-> EndedTxn(o), out |-> out]) /\ Done(EndedTxn(o))
  BY <1>7, <1>8, EndedOK DEF GoodStep, SentOK
<1>10. [Rollback(x) EXCEPT !.x.phase = "abandoned"] = [x |-> EndedTxn("abandoned"), out |-> out]
  BY <1>1, EndedOK
<1> QED BY <1>1, <1>9, <1>10


\* case 4 of continueCommitTransaction.
LEMMA CommitDoneStep ==
  ASSUME NEW t, NEW x, Ready(t, x)
  PROVE  GoodStep(t, CommitDone(x)) /\ Done(CommitDone(x).x)
<1>1. CommitDone(x) = [x |-> EndedTxn("committed"), out |-> EndSubTransactions(x)]
  BY DEF CommitDone, Step
<1> QED BY <1>1, EndsOK, EndedOK DEF GoodStep, SentOK

\* A round of a commit.
LEMMA CommitMsgsOK ==
  ASSUME NEW t, NEW x, Ready(t, x), NEW rofs, \A rof \in rofs : RofOK(rof), NEW ep \in {2, 3}
  PROVE  LET out == CommitMsgs(x, rofs, ep)
         IN  /\ DOMAIN out = Engines
             /\ \A e \in Engines :
                  /\ IsQueue(out[e])
                  /\ \A m \in Range(out[e]) : /\ SubOK(t, e, m.sub) /\ m.id = x.id /\ m.cmd = "COMMIT"
                                              /\ Body(e, m)
             /\ Cardinality(EnginesOf(rofs)) \in Nat
             /\ \A id : /\ Cardinality(DueIn(out, id)) \in Nat
                        /\ Cardinality(DueIn(out, id)) <= Cardinality(EnginesOf(rofs))
<1> DEFINE out == CommitMsgs(x, rofs, ep)
           W   == EnginesOf(rofs)
           at(e) == {rof \in rofs : RofEngine(rof) = e}
           msg(e) == Msg(x, e, "COMMIT", ep, at(e))
<1>1. DOMAIN out = Engines /\ \A e \in Engines : out[e] = IF at(e) = {} THEN <<>> ELSE <<msg(e)>>
  BY DEF CommitMsgs
<1>2. W \subseteq Engines /\ IsFiniteSet(W) /\ Cardinality(W) \in Nat
  <2>1. W \subseteq Engines
    BY DEF EnginesOf, RofOK
  <2> QED BY <2>1, FS_Subset, FS_CardinalityType, TransactionsAssumption
<1>3. ASSUME NEW e \in Engines, at(e) # {} PROVE e \in W
  BY <1>3 DEF EnginesOf
<1>4. ASSUME NEW e \in Engines
      PROVE  msg(e).sub = x.subs[e] /\ msg(e).id = x.id /\ msg(e).cmd = "COMMIT" /\ Body(e, msg(e))
  BY DEF Msg, Body
<1> HIDE DEF out, W, at, msg
<1>5. \A e \in Engines : out[e] = <<>> \/ (e \in W /\ \E m : out[e] = <<m>>)
  BY <1>1, <1>3
<1>6. /\ \A e \in Engines : IsQueue(out[e])
      /\ \A id : /\ Cardinality(DueIn(out, id)) \in Nat
                 /\ Cardinality(DueIn(out, id)) <= Cardinality(W)
  BY <1>2, <1>5, OneEachDue
<1>7. ASSUME NEW e \in Engines, NEW m \in Range(out[e])
      PROVE  SubOK(t, e, m.sub) /\ m.id = x.id /\ m.cmd = "COMMIT" /\ Body(e, m)
  <2>1. m = msg(e)
    <3>1. Range(<<>>) = {} /\ Range(<<msg(e)>>) = {msg(e)}
      BY QueueEmpty, RangeOne
    <3> QED BY <1>1, <3>1
  <2> QED BY <2>1, <1>4 DEF Ready
<1> QED BY <1>1, <1>2, <1>6, <1>7 DEF out, W

\* What it takes to commit the staged rows.
LEMMA CommitRofsOK ==
  ASSUME NEW t, NEW x, Ready(t, x), Complete(x)
  PROVE  (\A rof \in CommitRofs(x) : RofOK(rof)) /\ (\A rof \in LateRofs(x) : RofOK(rof))
<1>1. ASSUME NEW u \in DOMAIN x.staged, NEW rof \in CommitRofsOf(x.staged[u], u) PROVE RofOK(rof)
  <2> DEFINE sr == x.staged[u]
  <2>1. /\ sr.newuur \in Uurs /\ u \in Uurs
        /\ sr.cmd \in {"NOCOMMAND", "INSERT", "UPDATE", "DELETE"}
        /\ \A n \in Indexed : sr.original[n] \in Vals /\ sr.new[n] \in Vals
    BY Homes DEF Ready, TxnOK, StagedOK, Complete
  <2>2. RofOK(RowRof(u)) /\ RofOK(RowRof(sr.newuur))
    BY <2>1, RofsOK, Homes
  <2>3. \A n \in Indexed : /\ RofOK(AddRof(n, sr.new[n], u)) /\ RofOK(DeleteRof(n, sr.original[n], u))
                           /\ RofOK(AddRof(n, sr.new[n], sr.newuur))
                           /\ RofOK(ReplaceRof(n, sr.original[n], u, sr.newuur))
    BY <2>1, RofsOK
  <2> HIDE DEF sr
  <2>4. \A r \in MoveEntries(sr, u) : RofOK(r)
    BY <2>3 DEF MoveEntries, ChangedFields
  <2>5. \A r \in ReplaceEntries(sr, u) : RofOK(r)
    BY <2>3, <2>4 DEF ReplaceEntries
  <2>6. rof \in CommitRofsOf(sr, u)
    BY DEF sr
  <2>7. CASE sr.cmd = "NOCOMMAND"
    BY <2>7, <2>6, <2>2 DEF CommitRofsOf, Replaced
  <2>8. CASE sr.cmd = "INSERT"
    BY <2>8, <2>6, <2>2, <2>3 DEF CommitRofsOf, Replaced
  <2>9. CASE sr.cmd = "DELETE"
    BY <2>9, <2>6, <2>2, <2>3 DEF CommitRofsOf, Replaced
  <2>10. CASE sr.cmd = "UPDATE" /\ ~Replaced(sr, u)
    BY <2>10, <2>6, <2>2, <2>4 DEF CommitRofsOf
  <2>11. CASE sr.cmd = "UPDATE" /\ Replaced(sr, u)
    BY <2>11, <2>6, <2>2, <2>5 DEF CommitRofsOf
  <2> QED BY <2>1, <2>7, <2>8, <2>9, <2>10, <2>11 DEF sr
<1>2. ASSUME NEW rof \in LateRofs(x) PROVE RofOK(rof)
  BY RofsOK, Homes DEF LateRofs, Ready, TxnOK
<1> QED BY <1>1, <1>2 DEF CommitRofs

\* Transaction::commit.
LEMMA CommitStep ==
  ASSUME NEW t, NEW x, Ready(t, x), Complete(x), x.phase = "idle", x.todo = {}
  PROVE  GoodStep(t, Commit(x)) /\ \A n : Moves(x, n, Commit(x))
<1> DEFINE y == [x EXCEPT !.phase = "committing", !.cmd = "COMMIT", !.id = @ + 1]
           rofs == CommitRofs(y)
           late == LateRofs(y)
           w == Cardinality(EnginesOf(rofs))
           z == [y EXCEPT !.wait = w, !.late = late]
           out == CommitMsgs(y, rofs, 2)
<1>1. /\ y.phase = "committing" /\ y.cmd = "COMMIT" /\ y.id = x.id + 1 /\ y.id \in Nat /\ x.id \in Nat
      /\ y.staged = x.staged /\ y.subs = x.subs /\ y.left = x.left /\ y.wait = x.wait
      /\ DOMAIN y = DOMAIN x
      /\ y.hits = x.hits /\ y.results = x.results /\ y.todo = x.todo /\ y.late = x.late
  BY DEF Ready, TxnOK
<1>2. Ready(t, y) /\ Complete(y)
  <2> HIDE DEF y
  <2>1. \A u \in DOMAIN y.staged : StagedOK(y.staged[u]) /\ y.staged[u].newuur \in Uurs
    BY <1>1 DEF Ready, TxnOK, Complete
  <2>2. TxnOK(y)
    BY <1>1, <2>1 DEF Ready, TxnOK
  <2> QED BY <1>1, <2>1, <2>2 DEF Ready, Complete
<1>3. (\A rof \in rofs : RofOK(rof)) /\ (\A rof \in late : RofOK(rof))
  <2> HIDE DEF y
  <2> QED BY <1>2, CommitRofsOK
<1>4. CASE rofs = {}
  <2>1. Commit(x) = CommitDone(y)
    BY <1>4 DEF Commit
  <2> HIDE DEF y
  <2> QED BY <2>1, <1>2, CommitDoneStep DEF Moves
<1>5. CASE rofs # {}
  <2>1. Commit(x) = [x |-> z, out |-> out]
    BY <1>5 DEF Commit, Step
  <2>2. /\ DOMAIN out = Engines
        /\ \A e \in Engines :
             /\ IsQueue(out[e])
             /\ \A m \in Range(out[e]) : /\ SubOK(t, e, m.sub) /\ m.id = y.id /\ m.cmd = "COMMIT"
                                         /\ Body(e, m)
        /\ w \in Nat
        /\ \A id : /\ Cardinality(DueIn(out, id)) \in Nat
                   /\ Cardinality(DueIn(out, id)) <= w
    <3> HIDE DEF y, rofs
    <3> QED BY <1>2, <1>3, CommitMsgsOK
  <2> HIDE DEF rofs, late, w, out
  <2>3. /\ z.phase = "committing" /\ z.cmd = "COMMIT" /\ z.id = y.id /\ z.left = y.left
        /\ z.staged = y.staged /\ z.subs = y.subs /\ z.wait = w /\ z.late = late
        /\ DOMAIN z = DOMAIN y
        /\ z.hits = y.hits /\ z.results = y.results /\ z.todo = y.todo
    BY <1>1 DEF Ready, TxnOK
  <2> HIDE DEF y, z
  <2>4. TxnOK(z) /\ PhaseOK(z) /\ \A e \in Engines : SubOK(t, e, z.subs[e])
    <3>1. \A u \in DOMAIN z.staged : StagedOK(z.staged[u]) /\ z.staged[u].newuur \in Uurs
      BY <2>3, <1>2 DEF Ready, TxnOK, Complete
    <3>2. TxnOK(z)
      BY <2>3, <3>1, <2>2, <1>1, <1>2, <1>3 DEF Ready, TxnOK
    <3> QED BY <3>2, <2>3, <1>1, <1>2 DEF Ready, PhaseOK
  <2>5. \A e \in Engines : \A m \in Range(out[e]) : SentOK(t, z, e, m)
    BY <2>2, <2>3, <1>1 DEF SentOK, Fits, Done
  <2>6. Enough(z, Cardinality(DueIn(out, z.id)))
    BY <2>2, <2>3 DEF Enough
  <2> QED BY <2>1, <2>2, <2>3, <2>4, <2>5, <2>6, <1>1 DEF GoodStep, Moves, Done
<1> QED BY <1>4, <1>5

\* continueCommitTransaction, case 2 and case 3.
LEMMA ContinueCommitStep ==
  ASSUME NEW t, NEW x, Ready(t, x), PhaseOK(x), x.phase = "committing", NEW ep \in {2, 3},
         NEW n \in Nat, n + 1 <= x.wait
  PROVE  GoodStep(t, ContinueCommit(x, ep)) /\ Moves(x, n, ContinueCommit(x, ep))
<1> DEFINE y == [x EXCEPT !.wait = @ - 1]
           w == Cardinality(EnginesOf(y.late))
           z == [y EXCEPT !.wait = w]
           out == CommitMsgs(y, y.late, 3)
<1>0. x.cmd = "COMMIT" /\ x.wait \in Nat /\ x.id \in Nat
  BY DEF PhaseOK, Ready, TxnOK
<1>1. /\ y.phase = x.phase /\ y.cmd = x.cmd /\ y.id = x.id
      /\ y.staged = x.staged /\ y.subs = x.subs /\ y.left = x.left /\ y.wait = x.wait - 1
      /\ DOMAIN y = DOMAIN x /\ y.wait \in Nat
      /\ y.hits = x.hits /\ y.results = x.results /\ y.todo = x.todo /\ y.late = x.late
  BY DEF Ready, TxnOK
<1> HIDE DEF y
<1>2. /\ Ready(t, y) /\ PhaseOK(y) /\ Complete(y) /\ \A rof \in y.late : RofOK(rof)
  <2>1. \A u \in DOMAIN y.staged : StagedOK(y.staged[u]) /\ y.staged[u].newuur \in Uurs
    BY <1>1, <1>0 DEF Ready, TxnOK, Awaits
  <2>2. TxnOK(y)
    BY <1>1, <2>1 DEF Ready, TxnOK
  <2> QED BY <1>0, <1>1, <2>1, <2>2 DEF Ready, Complete, PhaseOK, TxnOK
<1>3. CASE y.wait > 0
  <2>1. ContinueCommit(x, ep) = [x |-> y, out |-> Quiet]
    BY <1>3 DEF ContinueCommit, Step, y
  <2>2. GoodStep(t, [x |-> y, out |-> Quiet])
    BY <1>2, QuietDue DEF GoodStep, Ready
  <2> QED BY <2>1, <2>2, <1>0, <1>1, <1>3 DEF Moves, Busy, Done
<1>4. CASE y.wait = 0 /\ (ep = 3 \/ y.late = {})
  <2>1. ContinueCommit(x, ep) = CommitDone(y)
    BY <1>4 DEF ContinueCommit, y
  <2> QED BY <2>1, <1>2, CommitDoneStep DEF Moves
<1>5. CASE y.wait = 0 /\ ep = 2 /\ y.late # {}
  <2>1. ContinueCommit(x, ep) = [x |-> z, out |-> out]
    BY <1>5 DEF ContinueCommit, Step, y
  <2>2. /\ DOMAIN out = Engines
        /\ \A e \in Engines :
             /\ IsQueue(out[e])
             /\ \A m \in Range(out[e]) : /\ SubOK(t, e, m.sub) /\ m.id = y.id /\ m.cmd = "COMMIT"
                                         /\ Body(e, m)
        /\ w \in Nat
        /\ \A id : /\ Cardinality(DueIn(out, id)) \in Nat
                   /\ Cardinality(DueIn(out, id)) <= w
    BY <1>2, CommitMsgsOK
  <2> HIDE DEF w, out
  <2>3. /\ z.phase = "committing" /\ z.cmd = "COMMIT" /\ z.id = y.id /\ z.left = y.left
        /\ z.staged = y.staged /\ z.subs = y.subs /\ z.wait = w /\ z.late = y.late
        /\ DOMAIN z = DOMAIN y
        /\ z.hits = y.hits /\ z.results = y.results /\ z.todo = y.todo
    BY <1>1, <1>0, <1>2 DEF Ready, TxnOK
  <2> HIDE DEF z
  <2>4. TxnOK(z) /\ PhaseOK(z) /\ \A e \in Engines : SubOK(t, e, z.subs[e])
    <3>1. \A u \in DOMAIN z.staged : StagedOK(z.staged[u]) /\ z.staged[u].newuur \in Uurs
      BY <2>3, <1>2 DEF Ready, TxnOK, Complete
    <3>2. TxnOK(z)
      BY <2>3, <3>1, <2>2, <1>0, <1>1, <1>2 DEF Ready, TxnOK
    <3> QED BY <3>2, <2>3, <1>0, <1>1, <1>2 DEF Ready, PhaseOK
  <2>5. \A e \in Engines : \A m \in Range(out[e]) : SentOK(t, z, e, m)
    BY <2>2, <2>3, <1>0, <1>1 DEF SentOK, Fits, Done
  <2>6. Enough(z, Cardinality(DueIn(out, z.id)))
    BY <2>2, <2>3 DEF Enough
  <2>7. n = 0
    BY <1>5, <1>1, <1>0
  <2> QED BY <2>1, <2>2, <2>3, <2>4, <2>5, <2>6, <2>7, <1>0, <1>1 DEF GoodStep, Moves, Done
<1>6. y.wait > 0 \/ y.wait = 0
  BY <1>0, <1>1
<1>7. ep = 2 \/ ep = 3
  OBVIOUS
<1> QED BY <1>6, <1>7, <1>3, <1>4, <1>5


-----------------------------------------------------------------------------
(* Statements.                                                              *)

\* In the middle of a statement.
Running(t, x) == Ready(t, x) /\ Complete(x) /\ x.phase = "running" /\ x.stmt \in Statements

\* x is what a handler has made of z.
Follows(z, x) == ~Done(z) /\ z.phase # "committing" /\ z.id \in Nat /\ x.id >= z.id

\* Nothing is asked any more, or a new command is.
Onward(t, x, s) == GoodStep(t, s) /\ \A z, n : Follows(z, x) => Moves(z, n, s)

\* The entries of f before those of g.
LEMMA OverMap ==
  ASSUME NEW f, NEW g
  PROVE  /\ DOMAIN Over(f, g) = DOMAIN f \cup DOMAIN g
         /\ \A i \in DOMAIN f : Over(f, g)[i] = f[i]
         /\ \A i \in DOMAIN g : i \notin DOMAIN f => Over(f, g)[i] = g[i]
BY DEF Over

\* An empty unordered_map.
LEMMA EmptyMap == DOMAIN Nothing = {}
BY DEF Nothing

\* stagedRow_s.
LEMMA StagedRowOK ==
  ASSUME NEW cmd \in {"NOCOMMAND", "INSERT", "UPDATE", "DELETE"}, NEW o \in Values, NEW w \in Values,
         NEW u \in NewUurs, NEW ui, DOMAIN ui \subseteq UniqueFields, \A n \in DOMAIN ui : ui[n] \in Vals
  PROVE  LET sr == Staged(cmd, o, w, u, ui)
         IN  /\ StagedOK(sr)
             /\ sr.cmd = cmd /\ sr.original = o /\ sr.new = w /\ sr.newuur = u /\ sr.ui = ui
BY DEF Staged, StagedOK

\* A staged row that gets another command.
LEMMA RestagedOK ==
  ASSUME NEW sr, StagedOK(sr), NEW o \in Values
  PROVE  LET d == [sr EXCEPT !.cmd = "DELETE", !.original = o]
         IN  /\ StagedOK(d) /\ d.newuur = sr.newuur /\ d.cmd = "DELETE" /\ d.original = o
             /\ d.new = sr.new /\ d.ui = sr.ui
<1> DEFINE d == [sr EXCEPT !.cmd = "DELETE", !.original = o]
<1>1. /\ DOMAIN d = DOMAIN sr /\ d.newuur = sr.newuur /\ d.cmd = "DELETE" /\ d.original = o
      /\ d.new = sr.new /\ d.ui = sr.ui
  BY DEF StagedOK
<1> HIDE DEF d
<1>2. StagedOK(d)
  BY <1>1 DEF StagedOK
<1> QED BY <1>1, <1>2 DEF d

\* Statement::reenter.
LEMMA FinishStep ==
  ASSUME NEW t, NEW x, Ready(t, x), Complete(x), x.todo = {}
  PROVE  Onward(t, x, FinishStatement(x)) /\ FinishStatement(x).x.phase = "idle"
<1> DEFINE y == [x EXCEPT !.phase = "idle", !.cmd = "NOCOMMAND", !.stmt = NoStmt, !.wait = 0,
                          !.hits = {}, !.results = Nothing, !.orig = NoUur]
<1>1. FinishStatement(x) = [x |-> y, out |-> Quiet]
  BY DEF FinishStatement, Step
<1>2. /\ y.phase = "idle" /\ y.cmd = "NOCOMMAND" /\ y.id = x.id /\ y.left = x.left
      /\ y.staged = x.staged /\ y.subs = x.subs /\ y.wait = 0 /\ y.late = x.late
      /\ DOMAIN y = DOMAIN x /\ y.hits = {} /\ y.results = Nothing /\ y.todo = {}
  BY DEF Ready, TxnOK
<1> HIDE DEF y
<1>3. TxnOK(y)
  BY <1>2, EmptyMap DEF Ready, TxnOK, Complete
<1>4. PhaseOK(y) /\ \A e \in Engines : SubOK(t, e, y.subs[e])
  BY <1>2, EmptyMap DEF PhaseOK, Ready
<1>5. GoodStep(t, [x |-> y, out |-> Quiet])
  BY <1>3, <1>4, QuietDue DEF GoodStep
<1>6. \A z, n : Follows(z, x) => Moves(z, n, [x |-> y, out |-> Quiet])
  BY <1>2 DEF Follows, Moves, Busy
<1> QED BY <1>1, <1>2, <1>5, <1>6 DEF Onward

\* Statement::continueSelect.
LEMMA ContinueSelectStep ==
  ASSUME NEW t, NEW x, Running(t, x), x.todo = {}
  PROVE  Onward(t, x, ContinueSelect(x)) /\ ContinueSelect(x).x.phase = "idle"
<1> DEFINE new == DOMAIN x.results \ DOMAIN x.staged
           row(u) == Staged("NOCOMMAND", x.results[u], x.results[u], u, Nothing)
           f == [u \in new |-> row(u)]
           staged == Over(f, x.staged)
           y == [x EXCEPT !.staged = staged]
<1>0. TxnOK(x)
  BY DEF Running, Ready
<1>1. ContinueSelect(x) = FinishStatement(y)
  BY <1>0 DEF ContinueSelect, TxnOK
<1>2. \A u \in new : StagedOK(row(u)) /\ row(u).newuur \in Uurs
  BY <1>0, StagedRowOK, EmptyMap, Homes DEF TxnOK
<1>3. DOMAIN f = new /\ \A u \in new : f[u] = row(u)
  OBVIOUS
<1> HIDE DEF f, row
<1>4. /\ DOMAIN staged = new \cup DOMAIN x.staged
      /\ \A u \in new : staged[u] = row(u)
      /\ \A u \in DOMAIN x.staged : staged[u] = x.staged[u]
  <2> DEFINE g == x.staged
             N == new
  <2>1. staged = Over(f, g) /\ DOMAIN f = N /\ \A u \in N : f[u] = row(u) /\ u \notin DOMAIN g
    BY <1>3
  <2> HIDE DEF g, staged, N
  <2>2. /\ DOMAIN Over(f, g) = DOMAIN f \cup DOMAIN g
        /\ \A w \in DOMAIN f : Over(f, g)[w] = f[w]
        /\ \A w \in DOMAIN g : w \notin DOMAIN f => Over(f, g)[w] = g[w]
    BY OverMap
  <2>3. /\ DOMAIN staged = N \cup DOMAIN g
        /\ \A u \in N : staged[u] = row(u)
        /\ \A u \in DOMAIN g : u \notin N => staged[u] = g[u]
    BY <2>1, <2>2
  <2> QED BY <2>1, <2>3 DEF g, N
<1> HIDE DEF staged
<1>5. /\ y.phase = x.phase /\ y.cmd = x.cmd /\ y.id = x.id /\ y.left = x.left
      /\ y.staged = staged /\ y.subs = x.subs /\ y.wait = x.wait /\ y.late = x.late
      /\ DOMAIN y = DOMAIN x /\ y.hits = x.hits /\ y.results = x.results /\ y.todo = x.todo
  BY <1>0 DEF TxnOK
<1> HIDE DEF y
<1>6. \A u \in DOMAIN y.staged : u \in Uurs /\ StagedOK(y.staged[u]) /\ y.staged[u].newuur \in Uurs
  BY <1>0, <1>2, <1>4, <1>5 DEF TxnOK, Running, Complete
<1>7. TxnOK(y)
  BY <1>0, <1>5, <1>6 DEF TxnOK
<1>8. Ready(t, y) /\ Complete(y) /\ y.todo = {}
  BY <1>5, <1>6, <1>7 DEF Ready, Complete, Running
<1>9. Onward(t, y, FinishStatement(y)) /\ FinishStatement(y).x.phase = "idle"
  BY <1>8, FinishStep
<1> QED BY <1>1, <1>5, <1>9 DEF Onward, Follows


\* Messages sent in the order of a hash map.
LEMMA SendImage ==
  ASSUME NEW f, f = [k \in DOMAIN f |-> f[k]], IsFiniteSet(DOMAIN f)
  PROVE  LET out == SendAll({f[k] : k \in DOMAIN f})
         IN  /\ DOMAIN out = Engines
             /\ \A e \in Engines :
                  /\ IsQueue(out[e])
                  /\ \A m \in Range(out[e]) : \E k \in DOMAIN f : f[k].to = e /\ m = f[k].msg
             /\ Cardinality(DOMAIN f) \in Nat
             /\ \A id : /\ Cardinality(DueIn(out, id)) \in Nat
                        /\ Cardinality(DueIn(out, id)) <= Cardinality(DOMAIN f)
<1> DEFINE S == {f[k] : k \in DOMAIN f}
           out == SendAll(S)
<1>1. /\ IsFiniteSet(S) /\ Cardinality(S) \in Nat /\ Cardinality(DOMAIN f) \in Nat
      /\ Cardinality(S) <= Cardinality(DOMAIN f)
  BY ImageIsFinite
<1>2. ASSUME NEW e \in Engines, NEW m \in {y.msg : y \in {z \in S : z.to = e}}
      PROVE  \E k \in DOMAIN f : f[k].to = e /\ m = f[k].msg
  OBVIOUS
<1> HIDE DEF S
<1>3. /\ DOMAIN out = Engines
      /\ \A e \in Engines : IsQueue(out[e]) /\ Range(out[e]) = {y.msg : y \in {z \in S : z.to = e}}
      /\ \A id : Cardinality(DueIn(out, id)) \in Nat /\ Cardinality(DueIn(out, id)) <= Cardinality(S)
  BY <1>1, SendAllDue
<1> HIDE DEF out
<1>4. \A id : Cardinality(DueIn(out, id)) <= Cardinality(DOMAIN f)
  <2> TAKE id
  <2> DEFINE a == Cardinality(DueIn(out, id))
             b == Cardinality(S)
             c == Cardinality(DOMAIN f)
  <2>1. a \in Nat /\ b \in Nat /\ c \in Nat /\ a <= b /\ b <= c
    BY <1>1, <1>3
  <2> HIDE DEF a, b, c
  <2>2. a <= c
    BY <2>1
  <2> QED BY <2>2 DEF a, c
<1> QED BY <1>1, <1>2, <1>3, <1>4 DEF out, S

\* UNIQUEINDEX for each field of ui.
LEMMA UniqueMsgs ==
  ASSUME NEW t, NEW x, Ready(t, x), NEW ui, DOMAIN ui \subseteq UniqueFields,
         \A n \in DOMAIN ui : ui[n] \in Vals, NEW u \in Uurs, NEW ep \in {1, 2}
  PROVE  LET out == UniqueIndexMsgs(x, ui, u, ep)
         IN  /\ DOMAIN out = Engines
             /\ \A e \in Engines :
                  /\ IsQueue(out[e])
                  /\ \A m \in Range(out[e]) : /\ SubOK(t, e, m.sub) /\ m.id = x.id
                                              /\ m.cmd = "UNIQUEINDEX" /\ m.ep = ep /\ Body(e, m)
             /\ Cardinality(DOMAIN ui) \in Nat
             /\ \A id : /\ Cardinality(DueIn(out, id)) \in Nat
                        /\ Cardinality(DueIn(out, id)) <= Cardinality(DOMAIN ui)
<1> DEFINE f == [n \in DOMAIN ui |->
                   To(Home(ui[n]), Msg(x, Home(ui[n]), "UNIQUEINDEX", ep, [key |-> <<n, ui[n]>>, uur |-> u]))]
           out == UniqueIndexMsgs(x, ui, u, ep)
<1>1. out = SendAll({f[n] : n \in DOMAIN f})
  BY DEF UniqueIndexMsgs
<1>2. DOMAIN f = DOMAIN ui /\ f = [n \in DOMAIN f |-> f[n]]
  OBVIOUS
<1>3. IsFiniteSet(DOMAIN f)
  BY <1>2, Homes, FS_Subset, TransactionsAssumption
<1>4. ASSUME NEW n \in DOMAIN f
      PROVE  LET m == f[n].msg
                 e == f[n].to
             IN  SubOK(t, e, m.sub) /\ m.id = x.id /\ m.cmd = "UNIQUEINDEX" /\ m.ep = ep /\ Body(e, m)
  <2>1. n \in UniqueFields /\ ui[n] \in Vals /\ Home(ui[n]) \in Engines /\ <<n, ui[n]>> \in Keys
    BY Homes DEF Keys
  <2>2. f[n].to = Home(ui[n]) /\ f[n].msg = Msg(x, Home(ui[n]), "UNIQUEINDEX", ep, [key |-> <<n, ui[n]>>, uur |-> u])
    BY DEF To
  <2> DEFINE h == Home(ui[n])
             m == Msg(x, h, "UNIQUEINDEX", ep, [key |-> <<n, ui[n]>>, uur |-> u])
  <2>3. /\ m.cmd = "UNIQUEINDEX" /\ m.ep = ep /\ m.id = x.id /\ m.sub = x.subs[h]
        /\ m.arg.key = <<n, ui[n]>> /\ m.arg.uur = u
    BY DEF Msg
  <2>4. SubOK(t, h, m.sub)
    <3> HIDE DEF h, m
    <3>1. h \in Engines
      BY <2>1 DEF h
    <3> QED BY <2>3, <3>1 DEF Ready
  <2> HIDE DEF h, m, f
  <2>5. Body(h, m)
    BY <2>1, <2>3 DEF Body
  <2> QED BY <2>2, <2>3, <2>4, <2>5 DEF h, m
<1> HIDE DEF f, out
<1> DEFINE sent == SendAll({f[n] : n \in DOMAIN f})
<1>5. /\ DOMAIN sent = Engines
      /\ \A e \in Engines :
           /\ IsQueue(sent[e])
           /\ \A m \in Range(sent[e]) : \E k \in DOMAIN f : f[k].to = e /\ m = f[k].msg
      /\ Cardinality(DOMAIN f) \in Nat
      /\ \A id : /\ Cardinality(DueIn(sent, id)) \in Nat
                 /\ Cardinality(DueIn(sent, id)) <= Cardinality(DOMAIN f)
  BY <1>2, <1>3, SendImage
<1> HIDE DEF sent
<1>6. out = sent
  BY <1>1 DEF sent
<1> QED BY <1>2, <1>4, <1>5, <1>6 DEF out

\* A command of a statement that waits for answers.
LEMMA AskStep ==
  ASSUME NEW t, NEW y, NEW out, Ready(t, y), PhaseOK(y), y.phase = "running", DOMAIN out = Engines,
         \A e \in Engines :
           /\ IsQueue(out[e])
           /\ \A m \in Range(out[e]) : /\ SubOK(t, e, m.sub) /\ m.id = y.id /\ Body(e, m) /\ Fits(y, m)
                                       /\ m.cmd \notin {"ROLLBACK", "END", "COMMIT"}
  PROVE  GoodStep(t, [x |-> y, out |-> out])
BY DEF GoodStep, SentOK, Ready, TxnOK

\* One that is new.
LEMMA NewCommand ==
  ASSUME NEW t, NEW x, NEW y, NEW out, GoodStep(t, [x |-> y, out |-> out]), y.phase = "running",
         x.id \in Nat, y.id = x.id + 1, Enough(y, Cardinality(DueIn(out, y.id)))
  PROVE  Onward(t, x, [x |-> y, out |-> out])
BY DEF Onward, Follows, Moves

\* Statement::continueDelete.
LEMMA ContinueDeleteStep ==
  ASSUME NEW t, NEW x, Running(t, x), x.stmt.cmd = "DELETE", x.todo = {}
  PROVE  Onward(t, x, ContinueDelete(x))
<1> DEFINE S == DOMAIN x.results
           y == Pending(x, "DELETE")
           row(u) == IF u \in DOMAIN y.staged
                       THEN [y.staged[u] EXCEPT !.cmd = "DELETE", !.original = y.results[u]]
                       ELSE Staged("DELETE", y.results[u], y.results[u], u, Nothing)
           f == [u \in S |-> row(u)]
           g == y.staged
           staged == Over(f, g)
           w == Cardinality(S)
           z == [y EXCEPT !.wait = w, !.staged = staged]
           h == [u \in S |-> To(u[1], Msg(y, u[1], "DELETEROW", 1, u))]
           out == SendAll({h[u] : u \in DOMAIN h})
<1>0. TxnOK(x) /\ x.id \in Nat
  BY DEF Running, Ready, TxnOK
<1>1. /\ y.phase = x.phase /\ y.cmd = "DELETE" /\ y.id = x.id + 1 /\ y.left = x.left
      /\ y.staged = x.staged /\ y.subs = x.subs /\ y.wait = x.wait /\ y.late = x.late
      /\ DOMAIN y = DOMAIN x /\ y.hits = x.hits /\ y.results = x.results /\ y.todo = x.todo
      /\ y.stmt = x.stmt /\ y.orig = x.orig
  BY <1>0 DEF TxnOK, Pending
<1>2. ContinueDelete(x) = [x |-> z, out |-> out]
  BY <1>0, <1>1 DEF ContinueDelete, Step
<1> HIDE DEF y
<1>3. /\ z.phase = x.phase /\ z.cmd = "DELETE" /\ z.id = x.id + 1 /\ z.left = x.left
      /\ z.staged = staged /\ z.subs = x.subs /\ z.wait = w /\ z.late = x.late
      /\ DOMAIN z = DOMAIN x /\ z.hits = x.hits /\ z.results = x.results /\ z.todo = x.todo
      /\ z.stmt = x.stmt
  BY <1>0, <1>1 DEF TxnOK
<1>4. S \subseteq Uurs /\ IsFiniteSet(S) /\ w \in Nat
  BY <1>0, Homes, RowsAreFinite, FS_CardinalityType DEF TxnOK
<1>5. \A u \in S : StagedOK(row(u)) /\ row(u).newuur \in Uurs
  <2> TAKE u \in S
  <2>1. x.results[u] \in Values /\ u \in NewUurs /\ y.results[u] = x.results[u]
    BY <1>0, <1>1, <1>4, Homes DEF TxnOK
  <2>2. CASE u \in DOMAIN y.staged
    <3> DEFINE sr == y.staged[u]
    <3>1. StagedOK(sr) /\ sr.newuur \in Uurs
      BY <1>0, <1>1, <2>2 DEF TxnOK, Running, Complete
    <3> HIDE DEF sr
    <3>2. StagedOK([sr EXCEPT !.cmd = "DELETE", !.original = y.results[u]])
          /\ [sr EXCEPT !.cmd = "DELETE", !.original = y.results[u]].newuur \in Uurs
      BY <2>1, <3>1, RestagedOK
    <3> QED BY <2>2, <3>2 DEF sr
  <2>3. CASE u \notin DOMAIN y.staged
    BY <2>1, <2>3, <1>4, StagedRowOK, EmptyMap
  <2> QED BY <2>2, <2>3
<1>6. DOMAIN f = S /\ \A u \in S : f[u] = row(u)
  OBVIOUS
<1>7. /\ DOMAIN h = S /\ h = [u \in DOMAIN h |-> h[u]]
      /\ \A u \in S : h[u].to = u[1] /\ h[u].msg = Msg(y, u[1], "DELETEROW", 1, u)
  BY DEF To
<1> HIDE DEF f, row, g, h, S
<1>8. /\ DOMAIN staged = DOMAIN f \cup DOMAIN g
      /\ \A u \in DOMAIN f : staged[u] = f[u]
      /\ \A u \in DOMAIN g : u \notin DOMAIN f => staged[u] = g[u]
  BY OverMap
<1>9. /\ DOMAIN out = Engines
      /\ \A e \in Engines :
           /\ IsQueue(out[e])
           /\ \A m \in Range(out[e]) : \E k \in DOMAIN h : h[k].to = e /\ m = h[k].msg
      /\ \A id : Cardinality(DueIn(out, id)) \in Nat /\ Cardinality(DueIn(out, id)) <= w
  <2>1. IsFiniteSet(DOMAIN h) /\ w = Cardinality(DOMAIN h) /\ h = [u \in DOMAIN h |-> h[u]]
    BY <1>4, <1>7
  <2>2. /\ DOMAIN out = Engines
        /\ \A e \in Engines :
             /\ IsQueue(out[e])
             /\ \A m \in Range(out[e]) : \E k \in DOMAIN h : h[k].to = e /\ m = h[k].msg
        /\ \A id : /\ Cardinality(DueIn(out, id)) \in Nat
                   /\ Cardinality(DueIn(out, id)) <= Cardinality(DOMAIN h)
    BY <2>1, SendImage
  <2> HIDE DEF w, out
  <2> QED BY <2>1, <2>2
<1> HIDE DEF staged, out, w, z
<1>10. \A u \in DOMAIN z.staged : u \in Uurs /\ StagedOK(z.staged[u]) /\ z.staged[u].newuur \in Uurs
  <2> TAKE u \in DOMAIN z.staged
  <2>1. CASE u \in DOMAIN f
    BY <2>1, <1>3, <1>4, <1>5, <1>6, <1>8
  <2>2. CASE u \notin DOMAIN f
    BY <2>2, <1>0, <1>1, <1>3, <1>8 DEF TxnOK, Running, Complete, g
  <2> QED BY <2>1, <2>2
<1>11. TxnOK(z)
  BY <1>0, <1>3, <1>4, <1>10 DEF TxnOK, Running
<1>12. Ready(t, z) /\ PhaseOK(z) /\ z.phase = "running"
  BY <1>3, <1>11 DEF Ready, PhaseOK, Running, CommandsOf
<1>13. ASSUME NEW e \in Engines, NEW m \in Range(out[e])
       PROVE  /\ SubOK(t, e, m.sub) /\ m.id = z.id /\ Body(e, m) /\ Fits(z, m)
              /\ m.cmd \notin {"ROLLBACK", "END", "COMMIT"}
  <2>1. PICK u \in S : e = u[1] /\ m = Msg(y, e, "DELETEROW", 1, u)
    BY <1>7, <1>9
  <2>2. m.cmd = "DELETEROW" /\ m.ep = 1 /\ m.id = y.id /\ m.sub = y.subs[e] /\ m.arg = u
    BY <2>1 DEF Msg
  <2> QED BY <2>1, <2>2, <1>1, <1>3, <1>4 DEF Running, Ready, Body, Fits
<1>14. GoodStep(t, [x |-> z, out |-> out])
  BY <1>9, <1>12, <1>13, AskStep
<1>15. Enough(z, Cardinality(DueIn(out, z.id)))
  BY <1>3, <1>9 DEF Enough
<1> QED BY <1>0, <1>2, <1>3, <1>12, <1>14, <1>15, NewCommand


\* A new pendingcmdid.
LEMMA PendingOK ==
  ASSUME NEW t, NEW x, Running(t, x), NEW cmd
  PROVE  LET y == Pending(x, cmd)
         IN  /\ y.phase = x.phase /\ y.cmd = cmd /\ y.id = x.id + 1 /\ y.left = x.left
             /\ y.staged = x.staged /\ y.subs = x.subs /\ y.wait = x.wait /\ y.late = x.late
             /\ DOMAIN y = DOMAIN x /\ y.hits = x.hits /\ y.results = x.results /\ y.todo = x.todo
             /\ y.stmt = x.stmt /\ y.orig = x.orig
             /\ Running(t, y)
<1> DEFINE y == Pending(x, cmd)
<1>0. TxnOK(x) /\ x.id \in Nat
  BY DEF Running, Ready, TxnOK
<1>1. /\ y.phase = x.phase /\ y.cmd = cmd /\ y.id = x.id + 1 /\ y.left = x.left
      /\ y.staged = x.staged /\ y.subs = x.subs /\ y.wait = x.wait /\ y.late = x.late
      /\ DOMAIN y = DOMAIN x /\ y.hits = x.hits /\ y.results = x.results /\ y.todo = x.todo
      /\ y.stmt = x.stmt /\ y.orig = x.orig
  BY <1>0 DEF TxnOK, Pending
<1> HIDE DEF y
<1>2. Complete(y)
  BY <1>1 DEF Running, Complete
<1>3. TxnOK(y)
  BY <1>0, <1>1, <1>2 DEF TxnOK, Complete
<1>4. Running(t, y)
  BY <1>1, <1>2, <1>3 DEF Running, Ready
<1> QED BY <1>1, <1>4 DEF y

\* The row that an UPDATE makes of another, and the values it asks locks for.
LEMMA AssignedOK ==
  ASSUME NEW t, NEW x, Running(t, x), x.stmt.cmd = "UPDATE", NEW u \in DOMAIN x.results
  PROVE  /\ Assigned(x, u) \in Values
         /\ DOMAIN SetUnique(x) \subseteq UniqueFields /\ \A n \in DOMAIN SetUnique(x) : SetUnique(x)[n] \in Vals
<1>1. DOMAIN x.stmt.set \subseteq Fields /\ \A n \in DOMAIN x.stmt.set : x.stmt.set[n] \in Vals
  BY StatementsAssumption DEF Running
<1>2. x.results[u] \in Values
  BY DEF Running, Ready, TxnOK
<1>3. Assigned(x, u) \in [Fields -> Vals]
  BY <1>1, <1>2, Homes DEF Assigned
<1>4. Assigned(x, u) \in Values
  BY <1>3, TransactionsAssumption
<1>5. DOMAIN SetUnique(x) \subseteq UniqueFields /\ \A n \in DOMAIN SetUnique(x) : SetUnique(x)[n] \in Vals
  BY <1>1 DEF SetUnique
<1> QED BY <1>4, <1>5

\* The messages of both.
LEMMA JoinSent ==
  ASSUME NEW a, NEW b, NEW A \in Nat, NEW B \in Nat,
         \A e \in Engines : IsQueue(a[e]) /\ IsQueue(b[e]),
         \A id : Cardinality(DueIn(a, id)) <= A /\ Cardinality(DueIn(b, id)) <= B
  PROVE  /\ DOMAIN Join(a, b) = Engines
         /\ \A e \in Engines : /\ IsQueue(Join(a, b)[e])
                               /\ Range(Join(a, b)[e]) = Range(a[e]) \cup Range(b[e])
         /\ \A id : /\ Cardinality(DueIn(Join(a, b), id)) \in Nat
                    /\ Cardinality(DueIn(Join(a, b), id)) <= A + B
<1> DEFINE c == Join(a, b)
<1>1. DOMAIN c = Engines /\ \A e \in Engines : c[e] = a[e] \o b[e]
  BY DEF Join
<1>2. \A e \in Engines : IsQueue(c[e]) /\ Range(c[e]) = Range(a[e]) \cup Range(b[e])
  <2> TAKE e \in Engines
  <2>1. IsQueue(a[e]) /\ IsQueue(b[e])
    OBVIOUS
  <2>2. IsQueue(a[e] \o b[e]) /\ Range(a[e] \o b[e]) = Range(a[e]) \cup Range(b[e])
    BY <2>1, QueueConcat
  <2> HIDE DEF c
  <2> QED BY <2>2, <1>1
<1>3. ASSUME NEW id PROVE Cardinality(DueIn(c, id)) \in Nat /\ Cardinality(DueIn(c, id)) <= A + B
  <2> DEFINE n == Cardinality(DueIn(a, id))
             k == Cardinality(DueIn(b, id))
             j == Cardinality(DueIn(c, id))
  <2>0. \A e \in Engines : IsQueue(a[e]) /\ IsQueue(b[e])
    OBVIOUS
  <2>1. n \in Nat /\ k \in Nat /\ j \in Nat /\ j <= n + k
    BY <2>0, DueJoin
  <2>2. n <= A /\ k <= B
    OBVIOUS
  <2> HIDE DEF n, k, j
  <2>3. j \in Nat /\ j <= A + B
    BY <2>1, <2>2
  <2> QED BY <2>3 DEF j
<1> QED BY <1>1, <1>2, <1>3

\* continueUpdate, field 0 not assigned.
LEMMA UpdateInPlaceStep ==
  ASSUME NEW t, NEW x, Running(t, x), x.stmt.cmd = "UPDATE", NEW u \in x.todo
  PROVE  Onward(t, x, UpdateInPlace(x, u))
<1> DEFINE y == Pending(x, "UPDATE")
           ui == SetUnique(y)
           new == Assigned(y, u)
           row == Staged("UPDATE", y.results[u], new, u, ui)
           g == y.staged
           staged == With(g, u, row)
           k == Cardinality(DOMAIN ui)
           w == 1 + k
           z == [y EXCEPT !.todo = @ \ {u}, !.wait = w, !.staged = staged]
           msg == Msg(y, u[1], "UPDATEROW", 1, [uur |-> u, row |-> new])
           a == UniqueIndexMsgs(y, ui, u, 1)
           b == One(u[1], msg)
           out == Join(a, b)
<1>0. TxnOK(x) /\ x.id \in Nat /\ u \in DOMAIN x.results /\ u \in Uurs
  BY DEF Running, Ready, TxnOK
<1>1. /\ y.phase = x.phase /\ y.cmd = "UPDATE" /\ y.id = x.id + 1 /\ y.left = x.left
      /\ y.staged = x.staged /\ y.subs = x.subs /\ y.wait = x.wait /\ y.late = x.late
      /\ DOMAIN y = DOMAIN x /\ y.hits = x.hits /\ y.results = x.results /\ y.todo = x.todo
      /\ y.stmt = x.stmt /\ y.orig = x.orig
      /\ Running(t, y)
  BY PendingOK
<1> HIDE DEF y
<1>2. UpdateInPlace(x, u) = [x |-> z, out |-> out]
  BY <1>1, <1>0 DEF UpdateInPlace, Step, y, TxnOK
<1>3. /\ new \in Values /\ DOMAIN ui \subseteq UniqueFields /\ \A n \in DOMAIN ui : ui[n] \in Vals
      /\ y.results[u] \in Values /\ u \in NewUurs /\ u[1] \in Engines
  <2>1. y.stmt.cmd = "UPDATE" /\ u \in DOMAIN y.results
    BY <1>0, <1>1
  <2>2. new \in Values /\ DOMAIN ui \subseteq UniqueFields /\ \A n \in DOMAIN ui : ui[n] \in Vals
    BY <2>1, <1>1, AssignedOK
  <2> QED BY <2>2, <1>0, <1>1, Homes DEF TxnOK
<1>4. /\ DOMAIN a = Engines
      /\ \A e \in Engines :
           /\ IsQueue(a[e])
           /\ \A m \in Range(a[e]) : /\ SubOK(t, e, m.sub) /\ m.id = y.id
                                     /\ m.cmd = "UNIQUEINDEX" /\ m.ep = 1 /\ Body(e, m)
      /\ k \in Nat
      /\ \A id : Cardinality(DueIn(a, id)) \in Nat /\ Cardinality(DueIn(a, id)) <= k
  <2>1. Ready(t, y)
    BY <1>1 DEF Running
  <2> HIDE DEF ui
  <2> QED BY <2>1, <1>0, <1>3, UniqueMsgs
<1>5. /\ msg.cmd = "UPDATEROW" /\ msg.ep = 1 /\ msg.id = y.id /\ msg.sub = y.subs[u[1]]
      /\ msg.arg.uur = u /\ msg.arg.row = new
  BY DEF Msg
<1> HIDE DEF msg, new
<1>6. /\ \A e \in Engines : IsQueue(b[e]) /\ Range(b[e]) = IF e = u[1] THEN {msg} ELSE {}
      /\ \A id : Cardinality(DueIn(b, id)) \in Nat /\ Cardinality(DueIn(b, id)) <= 1
  BY <1>3, OneDue
<1>7. StagedOK(row) /\ row.newuur = u
  <2> HIDE DEF ui
  <2> QED BY <1>3, StagedRowOK
<1> HIDE DEF row, g, ui, a, b, k
<1>8. /\ DOMAIN staged = DOMAIN g \cup {u} /\ staged[u] = row
      /\ \A v \in DOMAIN g : v # u => staged[v] = g[v]
  <2>1. staged = With(g, u, row)
    OBVIOUS
  <2> HIDE DEF staged
  <2> QED BY <2>1 DEF With
<1> HIDE DEF staged
<1>9. /\ z.phase = y.phase /\ z.cmd = y.cmd /\ z.id = y.id /\ z.left = y.left
      /\ z.staged = staged /\ z.subs = y.subs /\ z.wait = w /\ z.late = y.late
      /\ DOMAIN z = DOMAIN y /\ z.hits = y.hits /\ z.results = y.results /\ z.todo = y.todo \ {u}
      /\ z.stmt = y.stmt
  BY <1>1, <1>0 DEF TxnOK
<1> HIDE DEF z
<1>10. \A v \in DOMAIN z.staged : v \in Uurs /\ StagedOK(z.staged[v]) /\ z.staged[v].newuur \in Uurs
  <2> TAKE v \in DOMAIN z.staged
  <2>1. CASE v = u
    BY <2>1, <1>0, <1>7, <1>8, <1>9
  <2>2. CASE v # u
    <3>1. v \in DOMAIN g /\ z.staged[v] = g[v]
      BY <2>2, <1>8, <1>9
    <3> QED BY <3>1, <1>0, <1>1 DEF TxnOK, Running, Complete, g
  <2> QED BY <2>1, <2>2
<1>11. TxnOK(z)
  BY <1>0, <1>1, <1>4, <1>9, <1>10 DEF TxnOK
<1>12. Ready(t, z) /\ PhaseOK(z) /\ z.phase = "running"
  BY <1>1, <1>9, <1>11 DEF Ready, PhaseOK, Running, CommandsOf
<1>13. /\ DOMAIN out = Engines
       /\ \A e \in Engines : IsQueue(out[e]) /\ Range(out[e]) = Range(a[e]) \cup Range(b[e])
       /\ \A id : Cardinality(DueIn(out, id)) \in Nat /\ Cardinality(DueIn(out, id)) <= k + 1
  <2>1. 1 \in Nat
    OBVIOUS
  <2> QED BY <2>1, <1>4, <1>6, JoinSent
<1> HIDE DEF out
<1>14. ASSUME NEW e \in Engines, NEW m \in Range(out[e])
       PROVE  /\ SubOK(t, e, m.sub) /\ m.id = z.id /\ Body(e, m) /\ Fits(z, m)
              /\ m.cmd \notin {"ROLLBACK", "END", "COMMIT"}
  <2>1. CASE m \in Range(a[e])
    BY <2>1, <1>1, <1>4, <1>9 DEF Fits
  <2>2. CASE m \in Range(b[e])
    <3>1. e = u[1] /\ m = msg
      BY <2>2, <1>6
    <3> QED BY <3>1, <1>0, <1>1, <1>3, <1>5, <1>9 DEF Fits, Body, Running, Ready
  <2> QED BY <2>1, <2>2, <1>13
<1>15. GoodStep(t, [x |-> z, out |-> out])
  BY <1>12, <1>13, <1>14, AskStep
<1>16. Enough(z, Cardinality(DueIn(out, z.id)))
  BY <1>4, <1>9, <1>13 DEF Enough
<1> QED BY <1>0, <1>1, <1>2, <1>9, <1>12, <1>15, <1>16, NewCommand


\* continueUpdate, field 0 assigned: the row is asked for, its rowid is not known yet.
LEMMA UpdateReplaceStep ==
  ASSUME NEW t, NEW x, Running(t, x), x.stmt.cmd = "UPDATE", NEW u \in x.todo
  PROVE  Onward(t, x, UpdateReplace(x, u))
<1> DEFINE y == Pending(x, "REPLACE")
           new == Assigned(y, u)
           h == Home(new[0])
           g == y.staged
           old == IF u \in DOMAIN g THEN g[u] ELSE Staged("UPDATE", new, new, <<h, 0>>, Nothing)
           row == [old EXCEPT !.cmd = "UPDATE", !.original = y.results[u], !.new = new,
                              !.newuur = <<h, old.newuur[2]>>]
           staged == With(g, u, row)
           z == [y EXCEPT !.todo = @ \ {u}, !.orig = u, !.wait = 0, !.staged = staged]
           msg == Msg(y, h, "NEWROW", 1, new)
           out == One(h, msg)
<1>0. TxnOK(x) /\ x.id \in Nat /\ u \in DOMAIN x.results /\ u \in Uurs
  BY DEF Running, Ready, TxnOK
<1>1. /\ y.phase = x.phase /\ y.cmd = "REPLACE" /\ y.id = x.id + 1 /\ y.left = x.left
      /\ y.staged = x.staged /\ y.subs = x.subs /\ y.wait = x.wait /\ y.late = x.late
      /\ DOMAIN y = DOMAIN x /\ y.hits = x.hits /\ y.results = x.results /\ y.todo = x.todo
      /\ y.stmt = x.stmt /\ y.orig = x.orig
      /\ Running(t, y)
  BY PendingOK
<1> HIDE DEF y
<1>2. UpdateReplace(x, u) = [x |-> z, out |-> out]
  BY <1>1, <1>0 DEF UpdateReplace, Step, y, TxnOK
<1>3. new \in Values /\ y.results[u] \in Values /\ h \in Engines /\ <<h, 0>> \in NewUurs
  <2>1. y.stmt.cmd = "UPDATE" /\ u \in DOMAIN y.results
    BY <1>0, <1>1
  <2>2. new \in Values
    BY <2>1, <1>1, AssignedOK
  <2> QED BY <2>2, <1>0, <1>1, Homes DEF TxnOK, NewUurs
<1>4. StagedOK(old)
  <2>1. CASE u \in DOMAIN g
    BY <2>1, <1>0, <1>1 DEF TxnOK
  <2>2. CASE u \notin DOMAIN g
    <3> HIDE DEF new, h, g
    <3> QED BY <2>2, <1>3, StagedRowOK, EmptyMap
  <2> QED BY <2>1, <2>2
<1>5. /\ msg.cmd = "NEWROW" /\ msg.ep = 1 /\ msg.id = y.id /\ msg.sub = y.subs[h] /\ msg.arg = new
  BY DEF Msg
<1> HIDE DEF msg, new, h
<1>6. /\ DOMAIN out = Engines
      /\ \A e \in Engines : IsQueue(out[e]) /\ Range(out[e]) = IF e = h THEN {msg} ELSE {}
      /\ \A id : Cardinality(DueIn(out, id)) \in Nat /\ Cardinality(DueIn(out, id)) <= 1
  BY <1>3, OneDue
<1>7. StagedOK(row)
  <2> HIDE DEF old
  <2>1. <<h, old.newuur[2]>> \in NewUurs
    BY <1>3, <1>4 DEF StagedOK, NewUurs
  <2>2. /\ DOMAIN row = DOMAIN old /\ row.cmd = "UPDATE" /\ row.original = y.results[u]
        /\ row.new = new /\ row.newuur = <<h, old.newuur[2]>> /\ row.ui = old.ui
    BY <1>4 DEF StagedOK
  <2> HIDE DEF row
  <2> QED BY <2>1, <2>2, <1>3, <1>4 DEF StagedOK
<1> HIDE DEF row, g, old, out
<1>8. /\ DOMAIN staged = DOMAIN g \cup {u} /\ staged[u] = row
      /\ \A v \in DOMAIN g : v # u => staged[v] = g[v]
  <2>1. staged = With(g, u, row)
    OBVIOUS
  <2> HIDE DEF staged
  <2> QED BY <2>1 DEF With
<1> HIDE DEF staged
<1>9. /\ z.phase = y.phase /\ z.cmd = y.cmd /\ z.id = y.id /\ z.left = y.left
      /\ z.staged = staged /\ z.subs = y.subs /\ z.wait = 0 /\ z.late = y.late
      /\ DOMAIN z = DOMAIN y /\ z.hits = y.hits /\ z.results = y.results /\ z.todo = y.todo \ {u}
      /\ z.stmt = y.stmt /\ z.orig = u
  BY <1>1, <1>0 DEF TxnOK
<1> HIDE DEF z
<1>10. \A v \in DOMAIN z.staged : /\ v \in Uurs /\ StagedOK(z.staged[v])
                                  /\ z.staged[v].newuur \in Uurs \/ Awaits(z, v)
  <2> TAKE v \in DOMAIN z.staged
  <2>1. CASE v = u
    BY <2>1, <1>0, <1>1, <1>7, <1>8, <1>9 DEF Awaits
  <2>2. CASE v # u
    <3>1. v \in DOMAIN g /\ z.staged[v] = g[v]
      BY <2>2, <1>8, <1>9
    <3> QED BY <3>1, <1>0, <1>1 DEF TxnOK, Running, Complete, g
  <2> QED BY <2>1, <2>2
<1>11. TxnOK(z)
  BY <1>0, <1>1, <1>9, <1>10 DEF TxnOK
<1>12. Ready(t, z) /\ PhaseOK(z) /\ z.phase = "running"
  BY <1>1, <1>8, <1>9, <1>11 DEF Ready, PhaseOK, Running, CommandsOf
<1>14. ASSUME NEW e \in Engines, NEW m \in Range(out[e])
       PROVE  /\ SubOK(t, e, m.sub) /\ m.id = z.id /\ Body(e, m) /\ Fits(z, m)
              /\ m.cmd \notin {"ROLLBACK", "END", "COMMIT"}
  <2>1. e = h /\ m = msg
    BY <1>6
  <2> QED BY <2>1, <1>1, <1>3, <1>5, <1>9 DEF Fits, Body, Running, Ready
<1>15. GoodStep(t, [x |-> z, out |-> out])
  BY <1>6, <1>12, <1>14, AskStep
<1>16. Enough(z, Cardinality(DueIn(out, z.id)))
  BY <1>1, <1>6, <1>9 DEF Enough
<1> QED BY <1>0, <1>1, <1>2, <1>9, <1>12, <1>15, <1>16, NewCommand

\* Statement::continueUpdate(2).
LEMMA NextUpdateStep ==
  ASSUME NEW t, NEW x, Running(t, x), x.stmt.cmd = "UPDATE", NEW s \in NextUpdate(x)
  PROVE  Onward(t, x, s)
<1>1. CASE x.todo = {}
  <2>1. s = FinishStatement(x)
    BY <1>1 DEF NextUpdate
  <2> QED BY <2>1, <1>1, FinishStep DEF Running
<1>2. CASE x.todo # {}
  <2>1. PICK u \in x.todo : s = IF 0 \in DOMAIN x.stmt.set THEN UpdateReplace(x, u) ELSE UpdateInPlace(x, u)
    BY <1>2 DEF NextUpdate
  <2> QED BY <2>1, UpdateReplaceStep, UpdateInPlaceStep
<1> QED BY <1>1, <1>2

\* branchtotype once the rows are known.
LEMMA WithRowsStep ==
  ASSUME NEW t, NEW x, Running(t, x), x.stmt.cmd # "INSERT", x.todo = {}, NEW s \in WithRows(x)
  PROVE  Onward(t, x, s)
<1>0. x.stmt.cmd \in {"SELECT", "UPDATE", "DELETE"}
  BY StatementsAssumption DEF Running
<1>1. CASE x.stmt.cmd = "SELECT"
  BY <1>1, ContinueSelectStep DEF WithRows
<1>2. CASE x.stmt.cmd = "DELETE"
  BY <1>2, ContinueDeleteStep DEF WithRows
<1>3. CASE x.stmt.cmd = "UPDATE"
  <2> DEFINE y == [x EXCEPT !.todo = DOMAIN x.results]
  <2>0. TxnOK(x)
    BY DEF Running, Ready
  <2>1. s \in NextUpdate(y)
    BY <1>3 DEF WithRows
  <2>2. /\ y.phase = x.phase /\ y.cmd = x.cmd /\ y.id = x.id /\ y.left = x.left
        /\ y.staged = x.staged /\ y.subs = x.subs /\ y.wait = x.wait /\ y.late = x.late
        /\ DOMAIN y = DOMAIN x /\ y.hits = x.hits /\ y.results = x.results /\ y.todo = DOMAIN x.results
        /\ y.stmt = x.stmt /\ y.orig = x.orig
    BY <2>0 DEF TxnOK
  <2> HIDE DEF y
  <2>3. Complete(y)
    BY <2>2 DEF Running, Complete
  <2>4. TxnOK(y)
    BY <2>0, <2>2, <2>3 DEF TxnOK, Complete
  <2>5. Running(t, y)
    BY <2>2, <2>3, <2>4 DEF Running, Ready
  <2>6. Onward(t, y, s)
    BY <2>1, <2>2, <2>5, <1>3, NextUpdateStep
  <2> QED BY <2>2, <2>6 DEF Onward, Follows
<1> QED BY <1>0, <1>1, <1>2, <1>3


\* stagedRow2ReturnRow.
LEMMA StagedRowsOK ==
  ASSUME NEW t, NEW x, Running(t, x)
  PROVE  /\ DOMAIN StagedRows(x) = DOMAIN x.staged /\ DOMAIN x.staged \subseteq Uurs
         /\ \A u \in DOMAIN x.staged : StagedRows(x)[u] \in Values
         /\ StagedHits(x) \subseteq DOMAIN x.staged
BY DEF Running, Ready, TxnOK, StagedOK, StagedRows, ReturnRow, StagedHits

\* One message of a search.
LEMMA SearchMsg ==
  ASSUME NEW t, NEW x, Running(t, x), x.cmd = "PREDICATE", NEW e \in Engines,
         NEW cmd, NEW ep, NEW arg,
         \/ cmd = "INDEXSEARCH" /\ ep = 1 /\ arg.vals \subseteq Vals
         \/ /\ cmd = "SELECTROWS" /\ ep = 2 /\ arg.rowids \subseteq Rowids
            /\ arg.lock \in {"READLOCK", "WRITELOCK"}
         \/ /\ cmd = "SEARCHRETURN1" /\ ep = 2 /\ arg.val \in Vals
            /\ arg.lock \in {"READLOCK", "WRITELOCK"}
  PROVE  LET m == Msg(x, e, cmd, ep, arg)
         IN  /\ SubOK(t, e, m.sub) /\ m.id = x.id /\ Body(e, m) /\ Fits(x, m)
             /\ m.cmd \notin {"ROLLBACK", "END", "COMMIT"}
<1> DEFINE m == Msg(x, e, cmd, ep, arg)
<1>1. m.cmd = cmd /\ m.ep = ep /\ m.id = x.id /\ m.sub = x.subs[e] /\ m.arg = arg
  BY DEF Msg
<1> HIDE DEF m
<1>2. SubOK(t, e, m.sub) /\ m.id = x.id
  BY <1>1 DEF Running, Ready
<1>3. Body(e, m) /\ m.cmd \notin {"ROLLBACK", "END", "COMMIT"}
  BY <1>1 DEF Body
<1>4. Fits(x, m)
  BY <1>1 DEF Fits
<1> QED BY <1>2, <1>3, <1>4 DEF m

\* Ast::evaluate and sqlPredicate.
LEMMA SearchEqualStep ==
  ASSUME NEW t, NEW x, Running(t, x), x.stmt.cmd # "INSERT", x.stmt.where = "EQUAL", x.todo = {},
         DOMAIN x.results = {}, NEW s \in SearchEqual(x)
  PROVE  Onward(t, x, s)
<1>0. TxnOK(x) /\ x.id \in Nat /\ x.stmt \in Statements
  BY DEF Running, Ready, TxnOK
<1>1. CASE StagedHits(x) # {}
  <2> DEFINE found == [u \in StagedHits(x) |-> StagedRows(x)[u]]
             y == [x EXCEPT !.results = found]
  <2>1. s \in WithRows(y)
    BY <1>1 DEF SearchEqual
  <2>2. DOMAIN found \subseteq Uurs /\ \A u \in DOMAIN found : found[u] \in Values
    BY StagedRowsOK
  <2> HIDE DEF found
  <2>3. /\ y.phase = x.phase /\ y.cmd = x.cmd /\ y.id = x.id /\ y.left = x.left
        /\ y.staged = x.staged /\ y.subs = x.subs /\ y.wait = x.wait /\ y.late = x.late
        /\ DOMAIN y = DOMAIN x /\ y.hits = x.hits /\ y.results = found /\ y.todo = x.todo
        /\ y.stmt = x.stmt /\ y.orig = x.orig
    BY <1>0 DEF TxnOK
  <2> HIDE DEF y
  <2>4. Complete(y)
    BY <2>3 DEF Running, Complete
  <2>5. TxnOK(y)
    BY <1>0, <2>2, <2>3, <2>4 DEF TxnOK, Complete
  <2>6. Running(t, y) /\ y.todo = {} /\ y.stmt.cmd # "INSERT"
    BY <2>3, <2>4, <2>5 DEF Running, Ready
  <2>7. Onward(t, y, s)
    BY <2>1, <2>6, WithRowsStep
  <2> QED BY <2>3, <2>7 DEF Onward, Follows
<1>2. CASE StagedHits(x) = {}
  <2> DEFINE y == Pending(x, "PREDICATE")
             z == [y EXCEPT !.wait = 1]
             h == Home(x.stmt.val)
             msg == IF x.stmt.field = 0 /\ 0 \in UniqueFields
                      THEN Msg(y, h, "SEARCHRETURN1", 2, [val |-> x.stmt.val, lock |-> LockOf(x.stmt)])
                      ELSE Msg(y, h, "INDEXSEARCH", 1, [field |-> x.stmt.field, vals |-> {x.stmt.val}])
             out == One(h, msg)
  <2>1. /\ y.phase = x.phase /\ y.cmd = "PREDICATE" /\ y.id = x.id + 1 /\ y.left = x.left
        /\ y.staged = x.staged /\ y.subs = x.subs /\ y.wait = x.wait /\ y.late = x.late
        /\ DOMAIN y = DOMAIN x /\ y.hits = x.hits /\ y.results = x.results /\ y.todo = x.todo
        /\ y.stmt = x.stmt /\ y.orig = x.orig
        /\ Running(t, y)
    BY PendingOK
  <2> HIDE DEF y
  <2>2. s = [x |-> z, out |-> out]
    BY <1>2, <2>1 DEF SearchEqual, Step, y
  <2>3. h \in Engines
    BY <1>0, StatementsAssumption, Homes
  <2> HIDE DEF h
  <2>4. /\ SubOK(t, h, msg.sub) /\ msg.id = y.id /\ Body(h, msg) /\ Fits(y, msg)
        /\ msg.cmd \notin {"ROLLBACK", "END", "COMMIT"}
    <3> DEFINE arg == [val |-> x.stmt.val, lock |-> LockOf(x.stmt)]
    <3>1. arg.lock \in {"READLOCK", "WRITELOCK"} /\ arg.val = x.stmt.val
      BY DEF LockOf
    <3>4. x.stmt.val \in Vals
      BY <1>0, StatementsAssumption
    <3> HIDE DEF arg
    <3>2. CASE x.stmt.field = 0 /\ 0 \in UniqueFields
      <4>1. msg = Msg(y, h, "SEARCHRETURN1", 2, arg)
        BY <3>2 DEF arg
      <4> HIDE DEF msg
      <4> QED BY <4>1, <3>1, <3>4, <2>1, <2>3, SearchMsg
    <3>3. CASE ~(x.stmt.field = 0 /\ 0 \in UniqueFields)
      <4> DEFINE a == [field |-> x.stmt.field, vals |-> {x.stmt.val}]
      <4>1. msg = Msg(y, h, "INDEXSEARCH", 1, a)
        BY <3>3
      <4>2. a.vals \subseteq Vals
        BY <3>4
      <4> HIDE DEF msg, a
      <4> QED BY <4>1, <4>2, <2>1, <2>3, SearchMsg
    <3> QED BY <3>2, <3>3
  <2> HIDE DEF msg
  <2>5. /\ DOMAIN out = Engines
        /\ \A e \in Engines : IsQueue(out[e]) /\ Range(out[e]) = IF e = h THEN {msg} ELSE {}
        /\ \A id : Cardinality(DueIn(out, id)) \in Nat /\ Cardinality(DueIn(out, id)) <= 1
    BY <2>3, OneDue
  <2> HIDE DEF out
  <2>6. /\ z.phase = y.phase /\ z.cmd = y.cmd /\ z.id = y.id /\ z.left = y.left
        /\ z.staged = y.staged /\ z.subs = y.subs /\ z.wait = 1 /\ z.late = y.late
        /\ DOMAIN z = DOMAIN y /\ z.hits = y.hits /\ z.results = y.results /\ z.todo = y.todo
        /\ z.stmt = y.stmt
    BY <1>0, <2>1 DEF TxnOK
  <2> HIDE DEF z
  <2>7. TxnOK(z)
    BY <1>0, <2>1, <2>6 DEF TxnOK, Running, Complete
  <2>8. Ready(t, z) /\ PhaseOK(z) /\ z.phase = "running"
    <3>1. x.stmt.cmd \in {"SELECT", "UPDATE", "DELETE"}
      BY <1>0, StatementsAssumption
    <3> QED BY <3>1, <2>1, <2>6, <2>7 DEF Ready, PhaseOK, Running, CommandsOf
  <2>9. ASSUME NEW e \in Engines, NEW m \in Range(out[e])
        PROVE  /\ SubOK(t, e, m.sub) /\ m.id = z.id /\ Body(e, m) /\ Fits(z, m)
               /\ m.cmd \notin {"ROLLBACK", "END", "COMMIT"}
    <3>1. e = h /\ m = msg
      BY <2>5
    <3> QED BY <3>1, <2>1, <2>4, <2>6 DEF Fits
  <2>10. GoodStep(t, [x |-> z, out |-> out])
    BY <2>5, <2>8, <2>9, AskStep
  <2>11. Enough(z, Cardinality(DueIn(out, z.id)))
    BY <2>5, <2>6 DEF Enough
  <2> QED BY <1>0, <2>1, <2>2, <2>6, <2>8, <2>10, <2>11, NewCommand
<1> QED BY <1>1, <1>2

\* sqlSelectAll.
LEMMA SearchAllStep ==
  ASSUME NEW t, NEW x, Running(t, x), x.stmt.cmd # "INSERT", x.todo = {}, NEW s \in SearchAll(x)
  PROVE  Onward(t, x, s)
<1> DEFINE y == Pending(x, "PREDICATE")
           w == Cardinality(Engines)
           rows == StagedRows(x)
           z == [y EXCEPT !.wait = w, !.results = rows]
           msg(e) == Msg(y, e, "INDEXSEARCH", 1, [field |-> 0, vals |-> Vals])
           out == [e \in Engines |-> <<msg(e)>>]
<1>0. TxnOK(x) /\ x.id \in Nat /\ x.stmt \in Statements
  BY DEF Running, Ready, TxnOK
<1>1. /\ y.phase = x.phase /\ y.cmd = "PREDICATE" /\ y.id = x.id + 1 /\ y.left = x.left
      /\ y.staged = x.staged /\ y.subs = x.subs /\ y.wait = x.wait /\ y.late = x.late
      /\ DOMAIN y = DOMAIN x /\ y.hits = x.hits /\ y.results = x.results /\ y.todo = x.todo
      /\ y.stmt = x.stmt /\ y.orig = x.orig
      /\ Running(t, y)
  BY PendingOK
<1> HIDE DEF y
<1>2. s = [x |-> z, out |-> out]
  BY <1>1 DEF SearchAll, Step, y
<1>3. DOMAIN rows \subseteq Uurs /\ \A u \in DOMAIN rows : rows[u] \in Values
  BY StagedRowsOK
<1>4. \A e \in Engines :
        /\ SubOK(t, e, msg(e).sub) /\ msg(e).id = y.id /\ Body(e, msg(e)) /\ Fits(y, msg(e))
        /\ msg(e).cmd \notin {"ROLLBACK", "END", "COMMIT"}
  <2> DEFINE a == [field |-> 0, vals |-> Vals]
  <2>2. a.vals \subseteq Vals
    OBVIOUS
  <2> HIDE DEF a
  <2>1. \A e \in Engines :
          /\ SubOK(t, e, Msg(y, e, "INDEXSEARCH", 1, a).sub) /\ Msg(y, e, "INDEXSEARCH", 1, a).id = y.id
          /\ Body(e, Msg(y, e, "INDEXSEARCH", 1, a)) /\ Fits(y, Msg(y, e, "INDEXSEARCH", 1, a))
          /\ Msg(y, e, "INDEXSEARCH", 1, a).cmd \notin {"ROLLBACK", "END", "COMMIT"}
    BY <1>1, <2>2, SearchMsg
  <2> QED BY <2>1 DEF a
<1>5. DOMAIN out = Engines /\ \A e \in Engines : out[e] = <<msg(e)>>
  OBVIOUS
<1> HIDE DEF msg, out, rows
<1>6. /\ \A e \in Engines : IsQueue(out[e])
      /\ \A id : Cardinality(DueIn(out, id)) \in Nat /\ Cardinality(DueIn(out, id)) <= w
  <2>1. \A e \in Engines : out[e] = <<>> \/ (e \in Engines /\ \E m : out[e] = <<m>>)
    BY <1>5
  <2> QED BY <2>1, OneEachDue, TransactionsAssumption
<1>7. w \in Nat
  BY FS_CardinalityType, TransactionsAssumption
<1> HIDE DEF w
<1>8. /\ z.phase = y.phase /\ z.cmd = y.cmd /\ z.id = y.id /\ z.left = y.left
      /\ z.staged = y.staged /\ z.subs = y.subs /\ z.wait = w /\ z.late = y.late
      /\ DOMAIN z = DOMAIN y /\ z.hits = y.hits /\ z.results = rows /\ z.todo = y.todo
      /\ z.stmt = y.stmt
  BY <1>0, <1>1 DEF TxnOK
<1> HIDE DEF z
<1>9. TxnOK(z)
  BY <1>0, <1>1, <1>3, <1>7, <1>8 DEF TxnOK, Running, Complete
<1>10. Ready(t, z) /\ PhaseOK(z) /\ z.phase = "running"
  <2>1. x.stmt.cmd \in {"SELECT", "UPDATE", "DELETE"}
    BY <1>0, StatementsAssumption
  <2> QED BY <2>1, <1>1, <1>8, <1>9 DEF Ready, PhaseOK, Running, CommandsOf
<1>11. ASSUME NEW e \in Engines, NEW m \in Range(out[e])
       PROVE  /\ SubOK(t, e, m.sub) /\ m.id = z.id /\ Body(e, m) /\ Fits(z, m)
              /\ m.cmd \notin {"ROLLBACK", "END", "COMMIT"}
  <2>1. m = msg(e)
    BY <1>5, RangeOne
  <2> QED BY <2>1, <1>1, <1>4, <1>8 DEF Fits
<1>12. GoodStep(t, [x |-> z, out |-> out])
  BY <1>5, <1>6, <1>10, <1>11, AskStep
<1>13. Enough(z, Cardinality(DueIn(out, z.id)))
  BY <1>6, <1>8 DEF Enough
<1> QED BY <1>0, <1>1, <1>2, <1>8, <1>10, <1>12, <1>13, NewCommand

\* branchtotype, CMD_INSERT.
LEMMA InsertStep ==
  ASSUME NEW t, NEW x, Running(t, x), x.stmt.cmd = "INSERT", x.todo = {}, x.wait = 0, NEW s \in Insert(x)
  PROVE  Onward(t, x, s)
<1> DEFINE y == Pending(x, "INSERT")
           row == y.stmt.row
           h == Home(row[0])
           msg == Msg(y, h, "NEWROW", 1, row)
           out == One(h, msg)
<1>0. TxnOK(x) /\ x.id \in Nat /\ x.stmt \in Statements
  BY DEF Running, Ready, TxnOK
<1>1. /\ y.phase = x.phase /\ y.cmd = "INSERT" /\ y.id = x.id + 1 /\ y.wait = x.wait
      /\ y.stmt = x.stmt /\ y.todo = x.todo /\ Running(t, y)
  BY PendingOK
<1> HIDE DEF y
<1>2. s = [x |-> y, out |-> out]
  BY <1>1 DEF Insert, Step, y
<1>3. row \in Values /\ h \in Engines
  BY <1>0, <1>1, StatementsAssumption, Homes
<1>4. msg.cmd = "NEWROW" /\ msg.ep = 1 /\ msg.id = y.id /\ msg.sub = y.subs[h] /\ msg.arg = row
  BY DEF Msg
<1> HIDE DEF msg, row, h
<1>5. /\ DOMAIN out = Engines
      /\ \A e \in Engines : IsQueue(out[e]) /\ Range(out[e]) = IF e = h THEN {msg} ELSE {}
      /\ \A id : Cardinality(DueIn(out, id)) \in Nat /\ Cardinality(DueIn(out, id)) <= 1
  BY <1>3, OneDue
<1> HIDE DEF out
<1>6. Ready(t, y) /\ PhaseOK(y) /\ y.phase = "running"
  BY <1>1 DEF Ready, PhaseOK, Running, CommandsOf
<1>7. ASSUME NEW e \in Engines, NEW m \in Range(out[e])
      PROVE  /\ SubOK(t, e, m.sub) /\ m.id = y.id /\ Body(e, m) /\ Fits(y, m)
             /\ m.cmd \notin {"ROLLBACK", "END", "COMMIT"}
  <2>1. e = h /\ m = msg
    BY <1>5
  <2> QED BY <2>1, <1>1, <1>3, <1>4 DEF Fits, Body, Running, Ready
<1>8. GoodStep(t, [x |-> y, out |-> out])
  BY <1>5, <1>6, <1>7, AskStep
<1>9. Enough(y, Cardinality(DueIn(out, y.id)))
  BY <1>1, <1>5 DEF Enough
<1> QED BY <1>0, <1>1, <1>2, <1>6, <1>8, <1>9, NewCommand

\* Statement::execute.
LEMMA ExecuteStep ==
  ASSUME NEW t, NEW x, Ready(t, x), PhaseOK(x), x.phase = "idle", x.left > 0, NEW q \in Statements,
         NEW s \in Execute(x, q)
  PROVE  GoodStep(t, s) /\ \A n : Moves(x, n, s)
<1> DEFINE y == [x EXCEPT !.phase = "running", !.stmt = q, !.left = @ - 1]
<1>0. TxnOK(x) /\ x.id \in Nat /\ x.cmd = "NOCOMMAND" /\ x.wait = 0 /\ DOMAIN x.results = {} /\ x.todo = {}
      /\ x.left \in 1..MaxStmts
  BY TransactionsAssumption DEF Ready, TxnOK, PhaseOK
<1>1. /\ y.phase = "running" /\ y.cmd = x.cmd /\ y.id = x.id /\ y.left = x.left - 1
      /\ y.staged = x.staged /\ y.subs = x.subs /\ y.wait = x.wait /\ y.late = x.late
      /\ DOMAIN y = DOMAIN x /\ y.hits = x.hits /\ y.results = x.results /\ y.todo = x.todo
      /\ y.stmt = q /\ y.orig = x.orig
  BY <1>0 DEF TxnOK
<1>2. \/ q.cmd = "INSERT" /\ s \in Insert(y)
      \/ q.cmd # "INSERT" /\ q.where = "EQUAL" /\ s \in SearchEqual(y)
      \/ q.cmd # "INSERT" /\ q.where = "ALL" /\ s \in SearchAll(y)
  BY StatementsAssumption DEF Execute
<1> HIDE DEF y
<1>3. Complete(y)
  BY <1>0, <1>1 DEF TxnOK, Complete, Awaits
<1>4. TxnOK(y)
  BY <1>0, <1>1, <1>3, TransactionsAssumption DEF TxnOK, Complete
<1>5. Running(t, y)
  BY <1>1, <1>3, <1>4 DEF Running, Ready
<1>6. Onward(t, y, s)
  BY <1>0, <1>1, <1>2, <1>5, InsertStep, SearchEqualStep, SearchAllStep
<1>7. Follows(x, y)
  BY <1>0, <1>1 DEF Follows, Done
<1> QED BY <1>6, <1>7 DEF Onward


-----------------------------------------------------------------------------
(* The continuations of answers.                                            *)

\* One answer less.
LEMMA OneLess ==
  ASSUME NEW t, NEW x, Running(t, x), PhaseOK(x), x.wait > 0
  PROVE  LET y == [x EXCEPT !.wait = @ - 1]
         IN  /\ y.phase = x.phase /\ y.cmd = x.cmd /\ y.id = x.id /\ y.left = x.left
             /\ y.staged = x.staged /\ y.subs = x.subs /\ y.wait = x.wait - 1 /\ y.late = x.late
             /\ DOMAIN y = DOMAIN x /\ y.hits = x.hits /\ y.results = x.results /\ y.todo = x.todo
             /\ y.stmt = x.stmt /\ y.orig = x.orig
             /\ Running(t, y) /\ PhaseOK(y) /\ y.wait \in Nat
<1> DEFINE y == [x EXCEPT !.wait = @ - 1]
<1>0. TxnOK(x) /\ x.wait \in Nat
  BY DEF Running, Ready, TxnOK
<1>1. /\ y.phase = x.phase /\ y.cmd = x.cmd /\ y.id = x.id /\ y.left = x.left
      /\ y.staged = x.staged /\ y.subs = x.subs /\ y.wait = x.wait - 1 /\ y.late = x.late
      /\ DOMAIN y = DOMAIN x /\ y.hits = x.hits /\ y.results = x.results /\ y.todo = x.todo
      /\ y.stmt = x.stmt /\ y.orig = x.orig
  BY <1>0 DEF TxnOK
<1> HIDE DEF y
<1>2. y.wait \in Nat
  BY <1>0, <1>1
<1>3. Complete(y)
  BY <1>1 DEF Running, Complete
<1>4. TxnOK(y)
  BY <1>0, <1>1, <1>2, <1>3 DEF TxnOK, Complete
<1>5. Running(t, y) /\ PhaseOK(y)
  BY <1>1, <1>3, <1>4 DEF Running, Ready, PhaseOK
<1> QED BY <1>1, <1>2, <1>5 DEF y

\* More to come.
LEMMA WaitStep ==
  ASSUME NEW t, NEW x, NEW y, Running(t, x), Running(t, y), PhaseOK(y),
         y.id = x.id, y.cmd = x.cmd, y.wait > 0, y.wait = x.wait - 1,
         NEW n \in Nat, n + 1 <= x.wait
  PROVE  GoodStep(t, Step(y, Quiet)) /\ Moves(x, n, Step(y, Quiet))
<1>1. GoodStep(t, [x |-> y, out |-> Quiet])
  BY QuietDue DEF GoodStep, Running, Ready
<1>2. x.wait \in Nat /\ x.id \in Nat
  BY DEF Running, Ready, TxnOK
<1>3. Moves(x, n, [x |-> y, out |-> Quiet])
  BY <1>2 DEF Moves, Running, Busy, Done
<1> QED BY <1>1, <1>3 DEF Step

\* A transaction in the middle of a statement may go on.
LEMMA OnwardStep ==
  ASSUME NEW t, NEW x, Running(t, x), NEW y, y.id = x.id, NEW s, Onward(t, y, s)
  PROVE  GoodStep(t, s) /\ \A n : Moves(x, n, s)
<1>1. Follows(x, y)
  BY DEF Follows, Running, Ready, TxnOK, Done
<1> QED BY <1>1 DEF Onward

\* continueSqlPredicate, case 1.
LEMMA OnHitsStep ==
  ASSUME NEW t, NEW x, Running(t, x), PhaseOK(x), x.cmd = "PREDICATE", NEW hits \in SUBSET Uurs,
         NEW n \in Nat, n + 1 <= x.wait, NEW s \in OnHits(x, hits)
  PROVE  GoodStep(t, s) /\ Moves(x, n, s)
<1> DEFINE y == [x EXCEPT !.hits = @ \cup hits, !.wait = @ - 1]
           where == {u[1] : u \in y.hits}
<1>0. TxnOK(x) /\ x.wait \in Nat /\ x.wait > 0
  BY DEF Running, Ready, TxnOK
<1>1. /\ y.phase = x.phase /\ y.cmd = x.cmd /\ y.id = x.id /\ y.left = x.left
      /\ y.staged = x.staged /\ y.subs = x.subs /\ y.wait = x.wait - 1 /\ y.late = x.late
      /\ DOMAIN y = DOMAIN x /\ y.hits = x.hits \cup hits /\ y.results = x.results /\ y.todo = x.todo
      /\ y.stmt = x.stmt /\ y.orig = x.orig
  BY <1>0 DEF TxnOK
<1>2. OnHits(x, hits) =
        CASE y.wait > 0                  -> {Step(y, Quiet)}
          [] y.wait = 0 /\ y.hits = {}   -> {ContinueSelect(y)}
          [] y.wait = 0 /\ y.hits # {}   ->
             {Step([y EXCEPT !.wait = Cardinality(where)],
                   [e \in Engines |->
                      IF e \in where
                        THEN <<Msg(y, e, "SELECTROWS", 2,
                                   [rowids |-> {u[2] : u \in {h \in y.hits : h[1] = e}},
                                    lock |-> LockOf(y.stmt)])>>
                        ELSE <<>>])}
  BY DEF OnHits
<1> HIDE DEF y
<1>3. y.wait \in Nat /\ y.hits \subseteq Uurs /\ Complete(y)
  BY <1>0, <1>1 DEF TxnOK, Running, Complete
<1>4. TxnOK(y)
  BY <1>0, <1>1, <1>3 DEF TxnOK, Complete
<1>5. Running(t, y) /\ PhaseOK(y) /\ y.todo = {}
  BY <1>1, <1>3, <1>4 DEF Running, Ready, PhaseOK
<1>6. CASE y.wait > 0
  <2>1. s = Step(y, Quiet)
    BY <1>2, <1>6
  <2> QED BY <2>1, <1>1, <1>5, <1>6, WaitStep
<1>7. CASE y.wait = 0 /\ y.hits = {}
  <2>1. s = ContinueSelect(y)
    BY <1>2, <1>7
  <2> QED BY <2>1, <1>1, <1>5, ContinueSelectStep, OnwardStep
<1>8. CASE y.wait = 0 /\ y.hits # {}
  <2> DEFINE w == Cardinality(where)
             z == [y EXCEPT !.wait = w]
             arg(e) == [rowids |-> {u[2] : u \in {h \in y.hits : h[1] = e}}, lock |-> LockOf(y.stmt)]
             msg(e) == Msg(y, e, "SELECTROWS", 2, arg(e))
             out == [e \in Engines |-> IF e \in where THEN <<msg(e)>> ELSE <<>>]
  <2>1. s = [x |-> z, out |-> out]
    BY <1>2, <1>8 DEF Step
  <2>2. IsFiniteSet(where) /\ w \in Nat
    <3>1. where \subseteq Engines
      BY <1>3, Homes
    <3> QED BY <3>1, FS_Subset, FS_CardinalityType, TransactionsAssumption
  <2>3. \A e \in Engines : arg(e).rowids \subseteq Rowids /\ arg(e).lock \in {"READLOCK", "WRITELOCK"}
    BY <1>3 DEF Uurs, LockOf
  <2> HIDE DEF where, w, arg
  <2>4. \A e \in Engines :
          /\ SubOK(t, e, msg(e).sub) /\ msg(e).id = y.id /\ Body(e, msg(e)) /\ Fits(y, msg(e))
          /\ msg(e).cmd \notin {"ROLLBACK", "END", "COMMIT"}
    BY <1>1, <1>5, <2>3, SearchMsg
  <2> HIDE DEF msg
  <2>5. DOMAIN out = Engines /\ \A e \in Engines : out[e] = IF e \in where THEN <<msg(e)>> ELSE <<>>
    OBVIOUS
  <2> HIDE DEF out
  <2>6. /\ \A e \in Engines : IsQueue(out[e])
        /\ \A id : Cardinality(DueIn(out, id)) \in Nat /\ Cardinality(DueIn(out, id)) <= w
    <3>1. \A e \in Engines : out[e] = <<>> \/ (e \in where /\ \E m : out[e] = <<m>>)
      BY <2>5
    <3> QED BY <3>1, <2>2, OneEachDue DEF w
  <2>7. /\ z.phase = y.phase /\ z.cmd = y.cmd /\ z.id = y.id /\ z.left = y.left
        /\ z.staged = y.staged /\ z.subs = y.subs /\ z.wait = w /\ z.late = y.late
        /\ DOMAIN z = DOMAIN y /\ z.hits = y.hits /\ z.results = y.results /\ z.todo = y.todo
        /\ z.stmt = y.stmt
    BY <1>4 DEF TxnOK
  <2> HIDE DEF z
  <2>8. TxnOK(z)
    BY <1>3, <1>4, <2>2, <2>7 DEF TxnOK, Complete
  <2>9. Ready(t, z) /\ PhaseOK(z) /\ z.phase = "running"
    BY <1>1, <1>5, <2>7, <2>8 DEF Ready, PhaseOK, Running
  <2>10. ASSUME NEW e \in Engines, NEW m \in Range(out[e])
         PROVE  /\ SubOK(t, e, m.sub) /\ m.id = z.id /\ Body(e, m) /\ Fits(z, m)
                /\ m.cmd \notin {"ROLLBACK", "END", "COMMIT"}
    <3>1. m = msg(e)
      BY <2>5, RangeOne, QueueEmpty
    <3> QED BY <3>1, <1>1, <2>4, <2>7 DEF Fits
  <2>11. GoodStep(t, [x |-> z, out |-> out])
    BY <2>5, <2>6, <2>9, <2>10, AskStep
  <2>12. Enough(z, Cardinality(DueIn(out, z.id)))
    BY <2>6, <2>7 DEF Enough
  <2>13. n = 0 /\ z.id = x.id /\ z.phase = x.phase /\ ~Done(x) /\ x.phase # "committing" /\ x.id \in Nat
    BY <1>0, <1>1, <1>8, <2>7 DEF Running, Done, TxnOK
  <2> QED BY <2>1, <2>11, <2>12, <2>13 DEF Moves
<1> QED BY <1>3, <1>6, <1>7, <1>8

\* continueSqlPredicate, case 2.
LEMMA OnRowsStep ==
  ASSUME NEW t, NEW x, Running(t, x), PhaseOK(x), x.cmd = "PREDICATE",
         NEW e, NEW rows, \A q \in rows : RowReplyOK(e, q),
         NEW n \in Nat, n + 1 <= x.wait, NEW s \in OnRows(x, rows)
  PROVE  GoodStep(t, s) /\ Moves(x, n, s)
<1> DEFINE found == {r \in rows : Granted(r.lock)}
           got   == [u \in {r.uur : r \in found} |-> (CHOOSE r \in found : r.uur = u).row]
           g     == x.results
           all   == Over(got, g)
           y     == [x EXCEPT !.wait = @ - 1, !.results = all]
<1>0. TxnOK(x) /\ x.wait \in Nat /\ x.wait > 0
  BY DEF Running, Ready, TxnOK
<1>1. CASE \E r \in rows : r.lock = "PENDINGLOCK"
  <2>1. s = Rollback(x)
    BY <1>1 DEF OnRows, AbortQuery
  <2> QED BY <2>1, RollbackStep DEF Running, Moves
<1>2. CASE \A r \in rows : r.lock # "PENDINGLOCK"
  <2>1. IF y.wait > 0 THEN s = Step(y, Quiet) ELSE s \in WithRows(y)
    BY <1>0, <1>2 DEF OnRows, TxnOK
  <2>2. \A u \in DOMAIN got : u \in Uurs /\ got[u] \in Values
    <3> TAKE u \in DOMAIN got
    <3>1. \E r \in found : r.uur = u
      OBVIOUS
    <3> DEFINE r == CHOOSE q \in found : q.uur = u
    <3>2. r \in found /\ r.uur = u
      BY <3>1
    <3>3. got[u] = r.row
      OBVIOUS
    <3> HIDE DEF r
    <3> QED BY <3>2, <3>3 DEF RowReplyOK
  <2> HIDE DEF got
  <2>3. /\ DOMAIN all = DOMAIN got \cup DOMAIN g
        /\ \A i \in DOMAIN got : all[i] = got[i]
        /\ \A i \in DOMAIN g : i \notin DOMAIN got => all[i] = g[i]
    <3> HIDE DEF g
    <3> QED BY OverMap
  <2>4. /\ \A u \in DOMAIN all : u \in Uurs /\ all[u] \in Values
        /\ DOMAIN x.results \subseteq DOMAIN all
    BY <2>2, <2>3, <1>0 DEF TxnOK
  <2> HIDE DEF all
  <2>5. /\ y.phase = x.phase /\ y.cmd = x.cmd /\ y.id = x.id /\ y.left = x.left
        /\ y.staged = x.staged /\ y.subs = x.subs /\ y.wait = x.wait - 1 /\ y.late = x.late
        /\ DOMAIN y = DOMAIN x /\ y.hits = x.hits /\ y.results = all /\ y.todo = x.todo
        /\ y.stmt = x.stmt /\ y.orig = x.orig
    BY <1>0 DEF TxnOK
  <2> HIDE DEF y
  <2>6. y.wait \in Nat /\ Complete(y)
    BY <1>0, <2>5 DEF Running, Complete
  <2>7. TxnOK(y)
    BY <1>0, <2>4, <2>5, <2>6 DEF TxnOK, Complete
  <2>8. Running(t, y) /\ PhaseOK(y) /\ y.todo = {} /\ y.stmt.cmd # "INSERT"
    BY <2>5, <2>6, <2>7 DEF Running, Ready, PhaseOK, CommandsOf
  <2>9. CASE y.wait > 0
    BY <2>1, <2>5, <2>8, <2>9, WaitStep
  <2>10. CASE ~(y.wait > 0)
    <3>1. Onward(t, y, s)
      BY <2>1, <2>8, <2>10, WithRowsStep
    <3> QED BY <3>1, <2>5, OnwardStep
  <2> QED BY <2>9, <2>10
<1> QED BY <1>1, <1>2


\* continueSqlInsert, case 1.
LEMMA OnNewRowStep ==
  ASSUME NEW t, NEW x, Running(t, x), PhaseOK(x), x.cmd = "INSERT", x.wait = 0, NEW rowid \in Rowids,
         NEW s \in OnNewRow(x, rowid)
  PROVE  GoodStep(t, s) /\ Moves(x, 0, s)
<1> DEFINE row == x.stmt.row
           h   == Home(row[0])
           u   == <<h, rowid>>
           ui  == [n \in UniqueFields |-> row[n]]
           g   == x.staged
           sr  == Staged("INSERT", row, row, u, ui)
           staged == With(g, u, sr)
           w   == Cardinality(UniqueFields)
           y   == [x EXCEPT !.wait = w, !.staged = staged]
           out == UniqueIndexMsgs(y, ui, u, 2)
<1>0. TxnOK(x) /\ x.stmt \in Statements /\ x.stmt.cmd = "INSERT" /\ x.todo = {}
  <2>1. x.stmt.cmd \in {"INSERT", "SELECT", "UPDATE", "DELETE"}
    BY StatementsAssumption DEF Running
  <2> QED BY <2>1 DEF Running, Ready, PhaseOK, CommandsOf
<1>1. /\ UniqueFields = {} => s = FinishStatement(y)
      /\ UniqueFields # {} => s = [x |-> y, out |-> out]
  BY DEF OnNewRow, Step
<1>2. row \in Values /\ h \in Engines /\ \A n \in Fields : row[n] \in Vals
  BY <1>0, StatementsAssumption, Homes
<1> HIDE DEF h, row
<1>3. u \in Uurs /\ u \in NewUurs
  BY <1>2, Homes DEF Uurs
<1>4. DOMAIN ui = UniqueFields /\ \A n \in DOMAIN ui : ui[n] \in Vals
  BY <1>2, Homes
<1> HIDE DEF u, ui
<1>5. StagedOK(sr) /\ sr.newuur = u
  BY <1>2, <1>3, <1>4, StagedRowOK
<1> HIDE DEF sr, g
<1>6. /\ DOMAIN staged = DOMAIN g \cup {u} /\ staged[u] = sr
      /\ \A v \in DOMAIN g : v # u => staged[v] = g[v]
  <2>1. staged = With(g, u, sr)
    OBVIOUS
  <2> HIDE DEF staged
  <2> QED BY <2>1 DEF With
<1>7. w \in Nat /\ (UniqueFields # {} => w > 0)
  <2>1. IsFiniteSet(UniqueFields)
    BY FS_Subset, TransactionsAssumption
  <2> QED BY <2>1, FS_CardinalityType, FS_EmptySet
<1> HIDE DEF staged, w
<1>8. /\ y.phase = x.phase /\ y.cmd = x.cmd /\ y.id = x.id /\ y.left = x.left
      /\ y.staged = staged /\ y.subs = x.subs /\ y.wait = w /\ y.late = x.late
      /\ DOMAIN y = DOMAIN x /\ y.hits = x.hits /\ y.results = x.results /\ y.todo = x.todo
      /\ y.stmt = x.stmt /\ y.orig = x.orig
  BY <1>0 DEF TxnOK
<1> HIDE DEF y
<1>9. \A v \in DOMAIN y.staged : v \in Uurs /\ StagedOK(y.staged[v]) /\ y.staged[v].newuur \in Uurs
  <2> TAKE v \in DOMAIN y.staged
  <2>1. CASE v = u
    BY <2>1, <1>3, <1>5, <1>6, <1>8
  <2>2. CASE v # u
    <3>1. v \in DOMAIN g /\ y.staged[v] = g[v]
      BY <2>2, <1>6, <1>8
    <3> QED BY <3>1, <1>0 DEF TxnOK, Running, Complete, g
  <2> QED BY <2>1, <2>2
<1>10. TxnOK(y) /\ Complete(y)
  BY <1>0, <1>7, <1>8, <1>9 DEF TxnOK, Complete
<1>11. Ready(t, y) /\ PhaseOK(y) /\ y.phase = "running" /\ y.todo = {}
  BY <1>0, <1>8, <1>10 DEF Ready, PhaseOK, Running
<1>12. CASE UniqueFields = {}
  <2>1. Onward(t, y, s)
    BY <1>1, <1>10, <1>11, <1>12, FinishStep
  <2> QED BY <2>1, <1>8, OnwardStep
<1>13. CASE UniqueFields # {}
  <2>1. /\ DOMAIN out = Engines
        /\ \A e \in Engines :
             /\ IsQueue(out[e])
             /\ \A m \in Range(out[e]) : /\ SubOK(t, e, m.sub) /\ m.id = y.id
                                         /\ m.cmd = "UNIQUEINDEX" /\ m.ep = 2 /\ Body(e, m)
        /\ \A id : Cardinality(DueIn(out, id)) \in Nat /\ Cardinality(DueIn(out, id)) <= w
    <3>1. w = Cardinality(DOMAIN ui) /\ DOMAIN ui \subseteq UniqueFields
      BY <1>4 DEF w
    <3> QED BY <3>1, <1>3, <1>4, <1>11, UniqueMsgs
  <2> HIDE DEF out
  <2>2. \A e \in Engines : \A m \in Range(out[e]) :
          /\ SubOK(t, e, m.sub) /\ m.id = y.id /\ Body(e, m) /\ Fits(y, m)
          /\ m.cmd \notin {"ROLLBACK", "END", "COMMIT"}
    BY <2>1, <1>7, <1>8, <1>13 DEF Fits
  <2>3. GoodStep(t, [x |-> y, out |-> out])
    BY <2>1, <2>2, <1>11, AskStep
  <2>4. Enough(y, Cardinality(DueIn(out, y.id)))
    BY <2>1, <1>8 DEF Enough
  <2>5. ~Done(x) /\ x.phase # "committing" /\ x.id \in Nat
    BY <1>0 DEF Running, Done, TxnOK
  <2> QED BY <2>3, <2>4, <2>5, <1>1, <1>8, <1>13 DEF Moves
<1> QED BY <1>12, <1>13

\* continueSqlReplace, case 1.
LEMMA OnReplacementStep ==
  ASSUME NEW t, NEW x, Ready(t, x), x.phase = "running", x.stmt \in Statements,
         PhaseOK(x), x.cmd = "REPLACE", x.wait = 0, NEW rowid \in Rowids,
         NEW s \in OnReplacement(x, rowid)
  PROVE  GoodStep(t, s) /\ Moves(x, 0, s)
<1> DEFINE u   == x.orig
           g   == x.staged
           old == g[u]
           new == <<old.newuur[1], rowid>>
           ui  == SetUnique(x)
           oui == old.ui
           all == Over(ui, oui)
           sr  == [old EXCEPT !.newuur = new, !.ui = all]
           staged == With(g, u, sr)
           k   == Cardinality(DOMAIN ui)
           w   == 1 + k
           y   == [x EXCEPT !.wait = w, !.staged = staged]
           msg == Msg(y, u[1], "REPLACEDELETEROW", 2, u)
           a   == One(u[1], msg)
           b   == UniqueIndexMsgs(y, ui, new, 2)
           out == Join(a, b)
<1>0. /\ TxnOK(x) /\ x.stmt.cmd = "UPDATE" /\ u \in DOMAIN g /\ u \in Uurs /\ u[1] \in Engines
      /\ StagedOK(old) /\ x.id \in Nat
  <2>1. x.stmt.cmd \in {"INSERT", "SELECT", "UPDATE", "DELETE"}
    BY StatementsAssumption
  <2>2. x.stmt.cmd = "UPDATE"
    BY <2>1 DEF PhaseOK, CommandsOf
  <2>3. TxnOK(x) /\ u \in DOMAIN g
    BY DEF Ready, PhaseOK
  <2> QED BY <2>2, <2>3, Homes DEF TxnOK
<1>1. s = [x |-> y, out |-> out]
  BY <1>0 DEF OnReplacement, Step, StagedOK
<1>2. new \in Uurs /\ new \in NewUurs
  BY <1>0 DEF StagedOK, NewUurs, Uurs
<1>3. DOMAIN ui \subseteq UniqueFields /\ \A n \in DOMAIN ui : ui[n] \in Vals
  <2>1. DOMAIN x.stmt.set \subseteq Fields /\ \A n \in DOMAIN x.stmt.set : x.stmt.set[n] \in Vals
    BY <1>0, StatementsAssumption
  <2> QED BY <2>1 DEF SetUnique
<1>4. DOMAIN oui \subseteq UniqueFields /\ \A n \in DOMAIN oui : oui[n] \in Vals
  BY <1>0 DEF StagedOK
<1> HIDE DEF u, ui, oui, new
<1>5. DOMAIN all \subseteq UniqueFields /\ \A n \in DOMAIN all : all[n] \in Vals
  <2>1. /\ DOMAIN all = DOMAIN ui \cup DOMAIN oui
        /\ \A i \in DOMAIN ui : all[i] = ui[i]
        /\ \A i \in DOMAIN oui : i \notin DOMAIN ui => all[i] = oui[i]
    BY OverMap
  <2> HIDE DEF all
  <2> QED BY <2>1, <1>3, <1>4
<1> HIDE DEF all, old
<1>6. StagedOK(sr) /\ sr.newuur = new
  <2>1. /\ DOMAIN sr = DOMAIN old /\ sr.cmd = old.cmd /\ sr.original = old.original
        /\ sr.new = old.new /\ sr.newuur = new /\ sr.ui = all
    BY <1>0 DEF StagedOK
  <2> HIDE DEF sr
  <2> QED BY <2>1, <1>0, <1>2, <1>5 DEF StagedOK
<1> HIDE DEF sr, g
<1>7. /\ DOMAIN staged = DOMAIN g \cup {u} /\ staged[u] = sr
      /\ \A v \in DOMAIN g : v # u => staged[v] = g[v]
  <2>1. staged = With(g, u, sr)
    OBVIOUS
  <2> HIDE DEF staged
  <2> QED BY <2>1 DEF With
<1>8. k \in Nat
  <2>1. IsFiniteSet(DOMAIN ui)
    BY <1>3, Homes, FS_Subset, TransactionsAssumption
  <2> QED BY <2>1, FS_CardinalityType
<1> HIDE DEF staged, k
<1>9. /\ y.phase = x.phase /\ y.cmd = x.cmd /\ y.id = x.id /\ y.left = x.left
      /\ y.staged = staged /\ y.subs = x.subs /\ y.wait = w /\ y.late = x.late
      /\ DOMAIN y = DOMAIN x /\ y.hits = x.hits /\ y.results = x.results /\ y.todo = x.todo
      /\ y.stmt = x.stmt /\ y.orig = x.orig
  BY <1>0 DEF TxnOK
<1> HIDE DEF y
<1>10. \A v \in DOMAIN y.staged : v \in Uurs /\ StagedOK(y.staged[v]) /\ y.staged[v].newuur \in Uurs
  <2> TAKE v \in DOMAIN y.staged
  <2>1. CASE v = u
    BY <2>1, <1>0, <1>2, <1>6, <1>7, <1>9
  <2>2. CASE v # u
    <3>1. v \in DOMAIN g /\ y.staged[v] = g[v]
      BY <2>2, <1>7, <1>9
    <3> QED BY <3>1, <2>2, <1>0 DEF TxnOK, Awaits, g, u
  <2> QED BY <2>1, <2>2
<1>11. TxnOK(y)
  BY <1>0, <1>8, <1>9, <1>10 DEF TxnOK
<1>12. Ready(t, y) /\ PhaseOK(y) /\ y.phase = "running"
  BY <1>0, <1>7, <1>9, <1>11 DEF Ready, PhaseOK, u, g
<1>13. /\ msg.cmd = "REPLACEDELETEROW" /\ msg.ep = 2 /\ msg.id = y.id /\ msg.sub = y.subs[u[1]] /\ msg.arg = u
  BY DEF Msg
<1> HIDE DEF msg
<1>14. /\ \A e \in Engines : IsQueue(a[e]) /\ Range(a[e]) = IF e = u[1] THEN {msg} ELSE {}
       /\ \A id : Cardinality(DueIn(a, id)) \in Nat /\ Cardinality(DueIn(a, id)) <= 1
  BY <1>0, OneDue
<1>15. /\ \A e \in Engines :
            /\ IsQueue(b[e])
            /\ \A m \in Range(b[e]) : /\ SubOK(t, e, m.sub) /\ m.id = y.id
                                      /\ m.cmd = "UNIQUEINDEX" /\ m.ep = 2 /\ Body(e, m)
       /\ \A id : Cardinality(DueIn(b, id)) \in Nat /\ Cardinality(DueIn(b, id)) <= k
  BY <1>2, <1>3, <1>12, UniqueMsgs DEF k
<1> HIDE DEF a, b
<1>16. /\ DOMAIN out = Engines
       /\ \A e \in Engines : IsQueue(out[e]) /\ Range(out[e]) = Range(a[e]) \cup Range(b[e])
       /\ \A id : Cardinality(DueIn(out, id)) \in Nat /\ Cardinality(DueIn(out, id)) <= 1 + k
  <2>1. 1 \in Nat
    OBVIOUS
  <2> QED BY <2>1, <1>8, <1>14, <1>15, JoinSent
<1> HIDE DEF out
<1>17. ASSUME NEW e \in Engines, NEW m \in Range(out[e])
       PROVE  /\ SubOK(t, e, m.sub) /\ m.id = y.id /\ Body(e, m) /\ Fits(y, m)
              /\ m.cmd \notin {"ROLLBACK", "END", "COMMIT"}
  <2>1. CASE m \in Range(b[e])
    BY <2>1, <1>8, <1>9, <1>15 DEF Fits
  <2>2. CASE m \in Range(a[e])
    <3>1. e = u[1] /\ m = msg
      BY <2>2, <1>14
    <3> QED BY <3>1, <1>0, <1>8, <1>9, <1>12, <1>13 DEF Fits, Body, Ready
  <2> QED BY <2>1, <2>2, <1>16
<1>18. GoodStep(t, [x |-> y, out |-> out])
  BY <1>12, <1>16, <1>17, AskStep
<1>19. Enough(y, Cardinality(DueIn(out, y.id)))
  BY <1>8, <1>9, <1>16 DEF Enough
<1> QED BY <1>0, <1>1, <1>9, <1>18, <1>19 DEF Moves, Done

\* continueSqlInsert case 2, continueSqlUpdate, continueSqlReplace case 2.
LEMMA OnLockStep ==
  ASSUME NEW t, NEW x, Running(t, x), PhaseOK(x), x.cmd \in {"INSERT", "UPDATE", "REPLACE"},
         NEW lock, NEW n \in Nat, n + 1 <= x.wait, NEW s \in OnLock(x, lock)
  PROVE  GoodStep(t, s) /\ Moves(x, n, s)
<1> DEFINE y == [x EXCEPT !.wait = @ - 1]
<1>0. x.wait \in Nat /\ x.wait > 0
  BY DEF Running, Ready, TxnOK
<1>1. /\ y.phase = x.phase /\ y.cmd = x.cmd /\ y.id = x.id /\ y.wait = x.wait - 1
      /\ y.stmt = x.stmt /\ y.todo = x.todo
      /\ Running(t, y) /\ PhaseOK(y) /\ y.wait \in Nat
  BY <1>0, OneLess
<1>2. OnLock(x, lock) =
        CASE lock \notin {"WRITELOCK", "INDEXLOCK"} -> {AbortQuery(x)}
          [] lock \in {"WRITELOCK", "INDEXLOCK"} /\ y.wait > 0 -> {Step(y, Quiet)}
          [] lock \in {"WRITELOCK", "INDEXLOCK"} /\ y.wait = 0 ->
               IF y.cmd = "INSERT" THEN {FinishStatement(y)} ELSE NextUpdate(y)
  BY DEF OnLock
<1> HIDE DEF y
<1>3. CASE lock \notin {"WRITELOCK", "INDEXLOCK"}
  <2>1. s = Rollback(x)
    BY <1>2, <1>3 DEF AbortQuery
  <2> QED BY <2>1, RollbackStep DEF Running, Moves
<1>4. CASE lock \in {"WRITELOCK", "INDEXLOCK"} /\ y.wait > 0
  <2>1. s = Step(y, Quiet)
    BY <1>2, <1>4
  <2> QED BY <2>1, <1>1, <1>4, WaitStep
<1>5. CASE lock \in {"WRITELOCK", "INDEXLOCK"} /\ y.wait = 0
  <2>1. IF y.cmd = "INSERT" THEN s = FinishStatement(y) ELSE s \in NextUpdate(y)
    BY <1>2, <1>5
  <2>2. y.cmd = "INSERT" => y.todo = {}
    BY <1>1 DEF PhaseOK
  <2>3. y.cmd # "INSERT" => y.stmt.cmd = "UPDATE"
    <3>1. x.stmt.cmd \in {"INSERT", "SELECT", "UPDATE", "DELETE"}
      BY StatementsAssumption DEF Running
    <3> QED BY <3>1, <1>1 DEF Running, PhaseOK, CommandsOf
  <2>4. Onward(t, y, s)
    BY <2>1, <2>2, <2>3, <1>1, FinishStep, NextUpdateStep DEF Running
  <2> QED BY <2>4, <1>1, OnwardStep
<1>6. y.wait > 0 \/ y.wait = 0
  BY <1>0, <1>1
<1> QED BY <1>6, <1>3, <1>4, <1>5

\* continueSqlDelete.
LEMMA OnDeletedStep ==
  ASSUME NEW t, NEW x, Running(t, x), PhaseOK(x), x.cmd = "DELETE",
         NEW ok \in BOOLEAN, NEW n \in Nat, n + 1 <= x.wait, NEW s \in OnDeleted(x, ok)
  PROVE  GoodStep(t, s) /\ Moves(x, n, s)
<1> DEFINE y == [x EXCEPT !.wait = @ - 1]
<1>0. x.wait \in Nat /\ x.wait > 0
  BY DEF Running, Ready, TxnOK
<1>1. /\ y.phase = x.phase /\ y.cmd = x.cmd /\ y.id = x.id /\ y.wait = x.wait - 1
      /\ y.stmt = x.stmt /\ y.todo = x.todo
      /\ Running(t, y) /\ PhaseOK(y) /\ y.wait \in Nat
  BY <1>0, OneLess
<1>2. OnDeleted(x, ok) =
        CASE ~ok              -> {AbortQuery(y)}
          [] ok /\ y.wait > 0 -> {Step(y, Quiet)}
          [] ok /\ y.wait = 0 -> {FinishStatement(y)}
  BY DEF OnDeleted
<1> HIDE DEF y
<1>3. CASE ~ok
  <2>1. s = Rollback(y)
    BY <1>2, <1>3 DEF AbortQuery
  <2> QED BY <2>1, <1>1, RollbackStep DEF Running, Moves
<1>4. CASE ok /\ y.wait > 0
  <2>1. s = Step(y, Quiet)
    BY <1>2, <1>4
  <2> QED BY <2>1, <1>1, <1>4, WaitStep
<1>5. CASE ok /\ y.wait = 0
  <2>1. s = FinishStatement(y)
    BY <1>2, <1>5
  <2>2. y.todo = {}
    BY <1>1 DEF PhaseOK
  <2>3. Onward(t, y, s)
    BY <2>1, <2>2, <1>1, FinishStep DEF Running
  <2> QED BY <2>3, <1>1, OnwardStep
<1>6. y.wait > 0 \/ y.wait = 0
  BY <1>0, <1>1
<1> QED BY <1>6, <1>3, <1>4, <1>5


\* Transaction::processTransactionMessage.
LEMMA OnReplyStep ==
  ASSUME NEW t, NEW x, Ready(t, x), PhaseOK(x), Busy(x), NEW e, NEW m, Answers(x, e, m),
         NEW n \in Nat,
         \/ n + 1 <= x.wait
         \/ n = 0 /\ x.wait = 0 /\ x.cmd \in {"INSERT", "REPLACE"},
         NEW s \in OnReply(x, m)
  PROVE  GoodStep(t, s) /\ Moves(x, n, s)
<1>0. x.wait \in Nat /\ TxnOK(x)
  BY DEF Ready, TxnOK
<1>1. CASE x.phase = "committing"
  <2>1. x.cmd = "COMMIT" /\ m.ep \in {2, 3}
    BY <1>1 DEF PhaseOK, Answers
  <2>2. s = ContinueCommit(x, m.ep)
    BY <2>1 DEF OnReply
  <2> QED BY <2>1, <2>2, <1>1, ContinueCommitStep
<1>2. CASE x.phase = "running"
  <2>1. x.stmt \in Statements /\ x.cmd \in CommandsOf(x.stmt)
    BY <1>2 DEF PhaseOK
  <2>2. x.cmd \in {"PREDICATE", "INSERT", "UPDATE", "REPLACE", "DELETE"}
    BY <2>1, StatementsAssumption DEF CommandsOf
  <2>3. CASE x.cmd = "PREDICATE"
    <3>1. Running(t, x)
      BY <2>1, <2>3, <1>0, <1>2 DEF Running, Complete, TxnOK, Awaits
    <3>2. CASE m.ep = 1 /\ m.arg \subseteq Uurs
      <4>1. s \in OnHits(x, m.arg)
        BY <2>3, <3>2 DEF OnReply
      <4> QED BY <2>3, <3>1, <3>2, <4>1, OnHitsStep
    <3>3. CASE m.ep = 2 /\ \A q \in m.arg : RowReplyOK(e, q)
      <4>1. s \in OnRows(x, m.arg)
        BY <2>3, <3>3 DEF OnReply
      <4> QED BY <2>3, <3>1, <3>3, <4>1, OnRowsStep
    <3> QED BY <2>3, <3>2, <3>3 DEF Answers
  <2>4. CASE x.cmd = "INSERT"
    <3>1. Running(t, x)
      BY <2>1, <2>4, <1>0, <1>2 DEF Running, Complete, TxnOK, Awaits
    <3>2. CASE m.ep = 1 /\ x.wait = 0 /\ m.arg \in Rowids
      <4>1. s \in OnNewRow(x, m.arg)
        BY <2>4, <3>2 DEF OnReply
      <4> QED BY <2>4, <3>1, <3>2, <4>1, OnNewRowStep
    <3>3. CASE m.ep = 2 /\ x.wait > 0
      <4>1. s \in OnLock(x, m.arg)
        BY <2>4, <3>3 DEF OnReply
      <4> QED BY <2>4, <3>1, <3>3, <4>1, OnLockStep
    <3> QED BY <2>4, <3>2, <3>3 DEF Answers
  <2>5. CASE x.cmd = "REPLACE"
    <3>1. CASE m.ep = 1 /\ x.wait = 0 /\ m.arg \in Rowids
      <4>1. s \in OnReplacement(x, m.arg)
        BY <2>5, <3>1 DEF OnReply
      <4> QED BY <2>1, <2>5, <3>1, <4>1, <1>2, OnReplacementStep
    <3>2. CASE m.ep = 2 /\ x.wait > 0
      <4>1. s \in OnLock(x, m.arg)
        BY <2>5, <3>2 DEF OnReply
      <4>2. Running(t, x)
        BY <2>1, <2>5, <3>2, <1>0, <1>2 DEF Running, Complete, TxnOK, Awaits
      <4> QED BY <2>5, <3>2, <4>1, <4>2, OnLockStep
    <3> QED BY <2>5, <3>1, <3>2 DEF Answers
  <2>6. CASE x.cmd = "UPDATE"
    <3>1. Running(t, x)
      BY <2>1, <2>6, <1>0, <1>2 DEF Running, Complete, TxnOK, Awaits
    <3>2. s \in OnLock(x, m.arg)
      BY <2>6 DEF OnReply
    <3> QED BY <2>6, <3>1, <3>2, OnLockStep
  <2>7. CASE x.cmd = "DELETE"
    <3>1. Running(t, x)
      BY <2>1, <2>7, <1>0, <1>2 DEF Running, Complete, TxnOK, Awaits
    <3>2. s \in OnDeleted(x, m.arg) /\ m.arg \in BOOLEAN
      BY <2>7 DEF OnReply, Answers
    <3> QED BY <2>7, <3>1, <3>2, OnDeletedStep
  <2> QED BY <2>2, <2>3, <2>4, <2>5, <2>6, <2>7
<1> QED BY <1>1, <1>2 DEF Busy

\* The subtransactionid that an answer tells.
LEMMA LearnOK ==
  ASSUME NEW t, NEW x, Ready(t, x), NEW e \in Engines, NEW m, SubOK(t, e, m.sub)
  PROVE  LET y == Learn(x, e, m)
         IN  /\ Ready(t, y) /\ DOMAIN y = DOMAIN x
             /\ y.phase = x.phase /\ y.cmd = x.cmd /\ y.id = x.id /\ y.left = x.left
             /\ y.staged = x.staged /\ y.wait = x.wait /\ y.late = x.late
             /\ y.hits = x.hits /\ y.results = x.results /\ y.todo = x.todo
             /\ y.stmt = x.stmt /\ y.orig = x.orig
<1>1. CASE x.subs[e] # 0
  BY <1>1 DEF Learn
<1>2. CASE x.subs[e] = 0
  <2> DEFINE y == [x EXCEPT !.subs[e] = m.sub]
  <2>0. TxnOK(x) /\ \A d \in Engines : SubOK(t, d, x.subs[d])
    BY DEF Ready
  <2>1. /\ DOMAIN y = DOMAIN x
        /\ y.phase = x.phase /\ y.cmd = x.cmd /\ y.id = x.id /\ y.left = x.left
        /\ y.staged = x.staged /\ y.wait = x.wait /\ y.late = x.late
        /\ y.hits = x.hits /\ y.results = x.results /\ y.todo = x.todo
        /\ y.stmt = x.stmt /\ y.orig = x.orig
        /\ y.subs = [x.subs EXCEPT ![e] = m.sub]
    BY <2>0 DEF TxnOK
  <2> HIDE DEF y
  <2>2. DOMAIN y.subs = Engines /\ \A d \in Engines : y.subs[d] = IF d = e THEN m.sub ELSE x.subs[d]
    BY <2>0, <2>1 DEF TxnOK
  <2>3. TxnOK(y)
    BY <2>0, <2>1, <2>2 DEF TxnOK, Awaits
  <2>4. Ready(t, y)
    BY <2>0, <2>2, <2>3 DEF Ready
  <2>5. Learn(x, e, m) = y
    BY <1>2 DEF Learn, y
  <2> QED BY <2>1, <2>4, <2>5
<1> QED BY <1>1, <1>2

\* Each transaction in a state of the right types.
LEMMA AgentReady ==
  ASSUME TypeInv, NEW t \in Txns
  PROVE  /\ Ready(t, txn[t]) /\ PhaseOK(txn[t]) /\ Expected(t)
         /\ DOMAIN mail = Txns /\ DOMAIN replies = Txns
         /\ DOMAIN mail[t] = Engines /\ DOMAIN replies[t] = Engines
         /\ \A e \in Engines : /\ IsQueue(mail[t][e]) /\ IsQueue(replies[t][e])
                               /\ \A m \in Range(mail[t][e]) : MailOK(t, e, m)
                               /\ \A r \in Range(replies[t][e]) : ReplyOK(t, e, r)
BY DEF TypeInv, AgentTypes, Ready

\* An action that takes no answer.
LEMMA AskingTypes ==
  ASSUME TypeInv, NEW t \in Txns, NEW s, GoodStep(t, s), \A n : Moves(txn[t], n, s),
         Apply(t, s), UNCHANGED <<engineVars, replies>>
  PROVE  TypeInv'
<1> DEFINE n == Cardinality(DueIn(mail[t], txn[t].id)) + Cardinality(DueIn(replies'[t], txn[t].id))
<1>1. /\ DOMAIN replies' = Txns /\ DOMAIN replies'[t] = Engines
      /\ \A v \in Txns \ {t} : replies'[v] = replies[v]
      /\ \A e \in Engines : /\ IsQueue(mail[t][e]) /\ IsQueue(replies'[t][e])
                            /\ Range(replies'[t][e]) \subseteq Range(replies[t][e])
  BY AgentReady
<1>2. n \in Nat
  <2>1. /\ Cardinality(DueIn(mail[t], txn[t].id)) \in Nat
        /\ Cardinality(DueIn(replies'[t], txn[t].id)) \in Nat
    BY <1>1, DueFinite
  <2> QED BY <2>1
<1>3. Moves(txn[t], n, s)
  OBVIOUS
<1>4. n = Cardinality(DueIn(mail[t], txn[t].id)) + Cardinality(DueIn(replies'[t], txn[t].id))
  OBVIOUS
<1> HIDE DEF n
<1> QED BY <1>1, <1>2, <1>3, <1>4, ApplyStep

\* An action that takes one.
LEMMA ReceiveTypes ==
  ASSUME TypeInv, NEW t \in Txns, NEW e \in Engines, Receive(t, e)
  PROVE  TypeInv'
<1> DEFINE m == Head(replies[t][e])
           x == txn[t]
           y == Learn(x, e, m)
           A == Cardinality(DueIn(mail[t], x.id))
           B == Cardinality(DueIn(replies[t], x.id))
           k == Cardinality(DueIn(replies'[t], x.id))
           n == A + k
<1>1. PICK s \in OnReply(y, m) : Apply(t, s)
  BY DEF Receive
<1>2. /\ replies[t][e] # <<>> /\ x.cmd # "NOCOMMAND" /\ m.id = x.id
      /\ replies' = [replies EXCEPT ![t][e] = Tail(@)] /\ UNCHANGED engineVars
  BY DEF Receive
<1>3. /\ Ready(t, x) /\ PhaseOK(x) /\ Expected(t)
      /\ DOMAIN mail = Txns /\ DOMAIN replies = Txns
      /\ DOMAIN mail[t] = Engines /\ DOMAIN replies[t] = Engines
      /\ \A d \in Engines : /\ IsQueue(mail[t][d]) /\ IsQueue(replies[t][d])
                            /\ \A r \in Range(replies[t][d]) : ReplyOK(t, d, r)
  BY AgentReady
<1>4. /\ DOMAIN replies' = Txns /\ DOMAIN replies'[t] = Engines
      /\ \A v \in Txns \ {t} : replies'[v] = replies[v]
      /\ \A d \in Engines : replies'[t][d] = IF d = e THEN Tail(replies[t][e]) ELSE replies[t][d]
  BY <1>2, <1>3
<1>5. \A d \in Engines : /\ IsQueue(replies'[t][d])
                         /\ Range(replies'[t][d]) \subseteq Range(replies[t][d])
  <2> TAKE d \in Engines
  <2>1. CASE d = e
    BY <2>1, <1>2, <1>3, <1>4, QueueTail
  <2>2. CASE d # e
    BY <2>2, <1>3, <1>4
  <2> QED BY <2>1, <2>2
<1>6. k \in Nat /\ B \in Nat /\ k + 1 <= B /\ A \in Nat
  <2>1. k \in Nat /\ B \in Nat /\ k + 1 <= B
    <3> DEFINE q == replies[t]
               r == replies'[t]
    <3>1. /\ DOMAIN q = Engines /\ (\A d \in Engines : IsQueue(q[d])) /\ q[e] # <<>>
          /\ (\A d \in Engines : r[d] = IF d = e THEN Tail(q[e]) ELSE q[d])
      BY <1>2, <1>3, <1>4
    <3> HIDE DEF q, r
    <3>2. LET id == Head(q[e]).id
          IN  /\ Cardinality(DueIn(r, id)) \in Nat /\ Cardinality(DueIn(q, id)) \in Nat
              /\ Cardinality(DueIn(r, id)) + 1 <= Cardinality(DueIn(q, id))
      BY <3>1, DueHead
    <3>3. Head(q[e]).id = x.id
      BY <1>2 DEF q
    <3> QED BY <3>2, <3>3 DEF q, r
  <2>2. A \in Nat
    BY <1>3, DueFinite
  <2> QED BY <2>1, <2>2
<1>7. Busy(x)
  BY <1>2, <1>3 DEF PhaseOK, Busy
<1>8. Enough(x, A + B)
  BY <1>3, <1>7 DEF Expected, Asked, Busy
<1>9. m \in Range(replies[t][e])
  BY <1>2, <1>3, QueueTail
<1>10. SubOK(t, e, m.sub) /\ Answers(x, e, m)
  BY <1>2, <1>3, <1>7, <1>9 DEF ReplyOK, Asked, Busy
<1>11. x.wait \in Nat
  BY <1>3 DEF Ready, TxnOK
<1> HIDE DEF m, x, A, B, k
<1>12. /\ n \in Nat
       /\ n + 1 <= x.wait \/ (n = 0 /\ x.wait = 0 /\ x.cmd \in {"INSERT", "REPLACE"})
  BY <1>6, <1>8, <1>11 DEF Enough
<1> HIDE DEF n
<1>13. /\ Ready(t, y) /\ y.phase = x.phase /\ y.cmd = x.cmd /\ y.id = x.id /\ y.wait = x.wait
       /\ y.staged = x.staged /\ y.results = x.results /\ y.todo = x.todo /\ y.stmt = x.stmt
       /\ y.orig = x.orig
  BY <1>3, <1>10, LearnOK
<1> HIDE DEF y
<1>14. PhaseOK(y) /\ Busy(y) /\ Answers(y, e, m)
  BY <1>3, <1>7, <1>10, <1>13 DEF PhaseOK, Busy, Answers
<1>15. GoodStep(t, s) /\ Moves(y, n, s)
  <2>1. n + 1 <= y.wait \/ (n = 0 /\ y.wait = 0 /\ y.cmd \in {"INSERT", "REPLACE"})
    BY <1>12, <1>13
  <2> QED BY <2>1, <1>1, <1>12, <1>13, <1>14, OnReplyStep
<1>16. Moves(x, n, s)
  BY <1>13, <1>15 DEF Moves, Done, Busy
<1>17. n = Cardinality(DueIn(mail[t], txn[t].id)) + Cardinality(DueIn(replies'[t], txn[t].id))
  BY DEF n, A, k, x
<1>18. Moves(txn[t], n, s)
  BY <1>16 DEF x
<1>19. n \in Nat /\ GoodStep(t, s) /\ Apply(t, s) /\ UNCHANGED engineVars
  BY <1>1, <1>2, <1>12, <1>15
<1> HIDE DEF y
<1> QED BY <1>4, <1>5, <1>17, <1>18, <1>19, ApplyStep

\* badMessageHandler.
LEMMA DropTypes ==
  ASSUME TypeInv, NEW t \in Txns, NEW e \in Engines, DropReply(t, e)
  PROVE  TypeInv'
<1> DEFINE x == txn[t]
<1>1. /\ replies[t][e] # <<>> /\ replies' = [replies EXCEPT ![t][e] = Tail(@)]
      /\ UNCHANGED <<engineVars, mail, txn>>
  BY DEF DropReply
<1>2. /\ Expected(t) /\ DOMAIN replies = Txns /\ DOMAIN replies[t] = Engines
      /\ \A d \in Engines : /\ IsQueue(mail[t][d]) /\ IsQueue(replies[t][d])
                            /\ \A r \in Range(replies[t][d]) : ReplyOK(t, d, r)
  BY AgentReady
<1>3. /\ DOMAIN replies' = Txns /\ DOMAIN replies'[t] = Engines
      /\ \A v \in Txns \ {t} : replies'[v] = replies[v]
      /\ \A d \in Engines : replies'[t][d] = IF d = e THEN Tail(replies[t][e]) ELSE replies[t][d]
  BY <1>1, <1>2
<1>4. \A d \in Engines : /\ IsQueue(replies'[t][d])
                         /\ Range(replies'[t][d]) \subseteq Range(replies[t][d])
  <2> TAKE d \in Engines
  <2>1. CASE d = e
    BY <2>1, <1>1, <1>2, <1>3, QueueTail
  <2>2. CASE d # e
    BY <2>2, <1>2, <1>3
  <2> QED BY <2>1, <2>2
<1>5. Expected(t)'
  <2> DEFINE A == Cardinality(DueIn(mail[t], x.id))
             B == Cardinality(DueIn(replies[t], x.id))
             k == Cardinality(DueIn(replies'[t], x.id))
  <2>1. k \in Nat /\ B \in Nat /\ k <= B
    <3> DEFINE q  == replies[t]
               r  == replies'[t]
               id == x.id
    <3>1. /\ DOMAIN q = Engines /\ (\A d \in Engines : IsQueue(q[d])) /\ q[e] # <<>>
          /\ (\A d \in Engines : r[d] = IF d = e THEN Tail(q[e]) ELSE q[d])
      BY <1>1, <1>2, <1>3
    <3> HIDE DEF q, r, id
    <3>2. /\ Cardinality(DueIn(r, id)) \in Nat /\ Cardinality(DueIn(q, id)) \in Nat
          /\ Cardinality(DueIn(r, id)) <= Cardinality(DueIn(q, id))
      BY <3>1, DueTail
    <3> QED BY <3>2 DEF q, r, id
  <2>2. A \in Nat
    BY <1>2, DueFinite
  <2>3. x.wait \in Nat
    BY DEF TypeInv, AgentTypes, TxnOK
  <2>4. Asked(t) => Enough(x, A + B)
    BY <1>2 DEF Expected
  <2>5. Asked(t)' <=> Asked(t)
    BY <1>1 DEF Asked
  <2>6. Asked(t) => Enough(x, A + k)
    <3> HIDE DEF A, B, k, x
    <3> QED BY <2>1, <2>2, <2>3, <2>4 DEF Enough
  <2>7. txn' = txn /\ mail' = mail
    BY <1>1
  <2> QED BY <2>5, <2>6, <2>7 DEF Expected
<1>6. EngineTypes'
  BY <1>1 DEF TypeInv, EngineTypes, engineVars
<1>7. \A v \in Txns : v # t => Expected(v)'
  BY <1>1, <1>3 DEF TypeInv, AgentTypes, Expected, Asked
<1>8. ASSUME NEW v \in Txns, NEW d \in Engines
      PROVE  /\ DOMAIN replies'[v] = Engines
             /\ IsQueue(replies'[v][d]) /\ Range(replies'[v][d]) \subseteq Range(replies[v][d])
  <2>1. CASE v = t
    BY <2>1, <1>3, <1>4
  <2>2. CASE v # t
    BY <2>2, <1>3 DEF TypeInv, AgentTypes
  <2> QED BY <2>1, <2>2
<1>9. \A v \in Txns, d \in Engines : /\ \A k : SubOK(v, d, k)' <=> SubOK(v, d, k)
                                     /\ \A r : MailOK(v, d, r)' <=> MailOK(v, d, r)
                                     /\ \A r : ReplyOK(v, d, r)' <=> ReplyOK(v, d, r)
  BY <1>1 DEF SubOK, MailOK, ReplyOK, Ended, Asked, engineVars
<1>10. AgentTypes'
  <2>1. /\ DOMAIN txn' = Txns /\ DOMAIN mail' = Txns /\ txn' = txn /\ mail' = mail
    BY <1>1 DEF TypeInv, AgentTypes
  <2>2. ASSUME NEW v \in Txns
        PROVE  /\ TxnOK(txn[v])' /\ PhaseOK(txn[v])'
               /\ DOMAIN mail'[v] = Engines /\ DOMAIN replies'[v] = Engines
               /\ \A d \in Engines :
                    /\ SubOK(v, d, txn[v].subs[d])'
                    /\ IsQueue(mail'[v][d]) /\ IsQueue(replies'[v][d])
                    /\ \A m \in Range(mail'[v][d]) : MailOK(v, d, m)'
                    /\ \A r \in Range(replies'[v][d]) : ReplyOK(v, d, r)'
               /\ Expected(v)'
    <3>1. DOMAIN replies'[v] = Engines
      BY <1>3 DEF TypeInv, AgentTypes
    <3>2. TxnOK(txn[v])' /\ PhaseOK(txn[v])' /\ DOMAIN mail'[v] = Engines
      BY <2>1 DEF TypeInv, AgentTypes
    <3>3. Expected(v)'
      BY <1>5, <1>7
    <3>4. ASSUME NEW d \in Engines
          PROVE  /\ SubOK(v, d, txn[v].subs[d])'
                 /\ IsQueue(mail'[v][d]) /\ IsQueue(replies'[v][d])
                 /\ \A m \in Range(mail'[v][d]) : MailOK(v, d, m)'
                 /\ \A r \in Range(replies'[v][d]) : ReplyOK(v, d, r)'
      <4>1. SubOK(v, d, txn[v].subs[d])' /\ IsQueue(mail'[v][d])
        BY <2>1, <1>9 DEF TypeInv, AgentTypes
      <4>2. \A m \in Range(mail'[v][d]) : MailOK(v, d, m)'
        BY <2>1, <1>9 DEF TypeInv, AgentTypes
      <4>3. IsQueue(replies'[v][d]) /\ \A r \in Range(replies'[v][d]) : ReplyOK(v, d, r)'
        BY <1>8, <1>9 DEF TypeInv, AgentTypes
      <4> QED BY <4>1, <4>2, <4>3
    <3> QED BY <3>1, <3>2, <3>3, <3>4
  <2> QED BY <2>1, <2>2, <1>3 DEF AgentTypes
<1> QED BY <1>6, <1>10 DEF TypeInv

\* What a Transaction Agent does keeps the types.
LEMMA AgentStepTypes ==
  ASSUME TypeInv, NEW t \in Txns,
         \/ \E q \in Statements : StartStatement(t, q)
         \/ ClientCommit(t) \/ ClientRollback(t) \/ HangUp(t)
         \/ \E e \in Engines : Receive(t, e) \/ DropReply(t, e)
  PROVE  TypeInv'
<1>0. Ready(t, txn[t]) /\ PhaseOK(txn[t])
  BY AgentReady
<1>1. ASSUME NEW q \in Statements, StartStatement(t, q) PROVE TypeInv'
  <2>1. PICK s \in Execute(txn[t], q) : Apply(t, s)
    BY <1>1 DEF StartStatement
  <2>2. txn[t].phase = "idle" /\ txn[t].left > 0 /\ UNCHANGED <<engineVars, replies>>
    BY <1>1 DEF StartStatement
  <2>3. GoodStep(t, s) /\ \A n : Moves(txn[t], n, s)
    BY <1>0, <2>1, <2>2, ExecuteStep
  <2> QED BY <2>1, <2>2, <2>3, AskingTypes
<1>2. CASE ClientCommit(t)
  <2>1. txn[t].phase = "idle" /\ Apply(t, Commit(txn[t])) /\ UNCHANGED <<engineVars, replies>>
    BY <1>2 DEF ClientCommit
  <2>2. Complete(txn[t]) /\ txn[t].todo = {}
    BY <1>0, <2>1 DEF Ready, TxnOK, PhaseOK, Complete, Awaits
  <2>3. GoodStep(t, Commit(txn[t])) /\ \A n : Moves(txn[t], n, Commit(txn[t]))
    BY <1>0, <2>1, <2>2, CommitStep
  <2> QED BY <2>1, <2>3, AskingTypes
<1>3. CASE ClientRollback(t)
  <2>1. Apply(t, Rollback(txn[t])) /\ UNCHANGED <<engineVars, replies>>
    BY <1>3 DEF ClientRollback
  <2>2. GoodStep(t, Rollback(txn[t])) /\ \A n : Moves(txn[t], n, Rollback(txn[t]))
    BY <1>0, RollbackStep DEF Moves
  <2> QED BY <2>1, <2>2, AskingTypes
<1>4. CASE HangUp(t)
  <2> DEFINE r == Rollback(txn[t])
             s == IF txn[t].phase = "committing" THEN [r EXCEPT !.x.phase = "abandoned"] ELSE r
  <2>1. Apply(t, s) /\ UNCHANGED <<engineVars, replies>>
    BY <1>4 DEF HangUp
  <2>2. GoodStep(t, s) /\ \A n : Moves(txn[t], n, s)
    BY <1>0, RollbackStep DEF Moves
  <2> HIDE DEF s
  <2> QED BY <2>1, <2>2, AskingTypes
<1> QED BY <1>1, <1>2, <1>3, <1>4, ReceiveTypes, DropTypes


-----------------------------------------------------------------------------
(* What an Engine does.                                                     *)

\* The subtransactions once s of t has handled a message in e: s may be a new one,
\* the others are whose they were.
OwnerGrows(t, e, s) ==
  /\ DOMAIN owner' = Engines /\ DOMAIN live' = Engines
  /\ s \in DOMAIN owner'[e] /\ owner'[e][s] = t
  /\ \A d \in Engines :
       /\ owner'[d] \in Seq(Txns) /\ DOMAIN owner'[d] \subseteq Subs
       /\ live'[d] \subseteq DOMAIN owner'[d]
       /\ \A w \in DOMAIN owner[d] : w \in DOMAIN owner'[d] /\ owner'[d][w] = owner[d][w]
       /\ \A w \in DOMAIN owner'[d] : w \in DOMAIN owner[d] \/ (d = e /\ w = s)

\* The message at the head of a mailbox.
LEMMA ArrivedMail ==
  ASSUME TypeInv, NEW t \in Txns, NEW e \in Engines, mail[t][e] # <<>>
  PROVE  MailOK(t, e, Head(mail[t][e])) /\ Head(mail[t][e]) \in Range(mail[t][e])
<1>1. IsQueue(mail[t][e]) /\ \A m \in Range(mail[t][e]) : MailOK(t, e, m)
  BY DEF TypeInv, AgentTypes
<1>2. Head(mail[t][e]) \in Range(mail[t][e])
  BY <1>1, QueueTail
<1> QED BY <1>1, <1>2

\* Engine::Engine, TOPIC_TRANSACTION: a subtransaction for the message.
LEMMA HandledOwner ==
  ASSUME TypeInv, NEW t \in Txns, NEW e \in Engines, mail[t][e] # <<>>,
         Handled(t, e, Head(mail[t][e]))
  PROVE  LET s == SubFor(e, Head(mail[t][e]))
         IN  OwnerGrows(t, e, s) /\ s \in Subs /\ s # 0
<1> DEFINE m == Head(mail[t][e])
           s == SubFor(e, m)
<1>1. /\ DOMAIN owner = Engines /\ DOMAIN live = Engines
      /\ \A d \in Engines : /\ owner[d] \in Seq(Txns) /\ DOMAIN owner[d] \subseteq Subs
                            /\ live[d] \subseteq DOMAIN owner[d]
  BY DEF TypeInv, EngineTypes
<1>2. SubOK(t, e, m.sub)
  BY ArrivedMail DEF MailOK
<1>3. /\ m.sub = 0 \/ m.sub \in live[e]
      /\ s \in Subs
      /\ owner' = [owner EXCEPT ![e] = IF m.sub = 0 THEN Append(@, t) ELSE @]
      /\ live'  = [live EXCEPT ![e] = @ \cup {s}]
  BY DEF Handled
<1>4. s = IF m.sub = 0 THEN Len(owner[e]) + 1 ELSE m.sub
  BY DEF SubFor
<1>5. s # 0
  BY <1>3, TransactionsAssumption
<1> HIDE DEF m, s
<1>6. /\ DOMAIN owner' = Engines /\ DOMAIN live' = Engines
      /\ owner'[e] = IF m.sub = 0 THEN Append(owner[e], t) ELSE owner[e]
      /\ live'[e] = live[e] \cup {s}
      /\ \A d \in Engines \ {e} : owner'[d] = owner[d] /\ live'[d] = live[d]
  BY <1>1, <1>3
<1>7. CASE m.sub = 0
  <2>1. /\ owner'[e] = Append(owner[e], t) /\ s = Len(owner[e]) + 1
    BY <1>4, <1>6, <1>7
  <2>2. /\ owner[e] \in Seq(Txns) /\ Len(owner[e]) \in Nat /\ DOMAIN owner[e] = 1..Len(owner[e])
    BY <1>1
  <2>3. /\ owner'[e] \in Seq(Txns) /\ DOMAIN owner'[e] = 1..(Len(owner[e]) + 1)
        /\ owner'[e][Len(owner[e]) + 1] = t
        /\ \A w \in 1..Len(owner[e]) : owner'[e][w] = owner[e][w]
    BY <2>1, <2>2
  <2>4. /\ DOMAIN owner'[e] = DOMAIN owner[e] \cup {s} /\ owner'[e][s] = t
        /\ \A w \in DOMAIN owner[e] : owner'[e][w] = owner[e][w]
    BY <2>1, <2>2, <2>3
  <2> QED BY <1>1, <1>3, <1>5, <1>6, <2>3, <2>4 DEF OwnerGrows, m, s
<1>8. CASE m.sub # 0
  <2>1. owner'[e] = owner[e] /\ s = m.sub /\ s \in DOMAIN owner[e] /\ owner[e][s] = t
    BY <1>2, <1>4, <1>6, <1>8 DEF SubOK
  <2> QED BY <1>1, <1>3, <1>5, <1>6, <2>1 DEF OwnerGrows, m, s
<1> QED BY <1>7, <1>8

\* A name for a subtransaction stays good.
LEMMA GrowsSubOK ==
  ASSUME NEW t, NEW e, NEW s, OwnerGrows(t, e, s)
  PROVE  \A v \in Txns, d \in Engines : \A k : SubOK(v, d, k) => SubOK(v, d, k)'
BY DEF OwnerGrows, SubOK

\* Taking a message, with or without an answer to it.
LEMMA ServeAgents ==
  ASSUME TypeInv, NEW t \in Txns, NEW e \in Engines, mail[t][e] # <<>>,
         mail' = [mail EXCEPT ![t][e] = Tail(@)], txn' = txn,
         \A v \in Txns, d \in Engines : \A k : SubOK(v, d, k) => SubOK(v, d, k)',
         \/ replies' = replies
         \/ \E r : /\ replies' = [replies EXCEPT ![t][e] = Append(@, r)]
                   /\ r.id = Head(mail[t][e]).id /\ r.sub # 0 /\ SubOK(t, e, r.sub)'
                   /\ Asked(t) /\ r.id = txn[t].id => Answers(txn[t], e, r)
  PROVE  AgentTypes'
<1> DEFINE x == txn[t]
           m == Head(mail[t][e])
<1>1. /\ Expected(t) /\ DOMAIN replies = Txns /\ DOMAIN replies[t] = Engines
      /\ DOMAIN mail = Txns /\ DOMAIN mail[t] = Engines
      /\ \A d \in Engines : IsQueue(mail[t][d]) /\ IsQueue(replies[t][d])
  BY AgentReady
<1>2. MailOK(t, e, m)
  BY ArrivedMail
<1>3. /\ DOMAIN mail' = Txns /\ DOMAIN mail'[t] = Engines
      /\ \A v \in Txns \ {t} : mail'[v] = mail[v]
      /\ \A d \in Engines : mail'[t][d] = IF d = e THEN Tail(mail[t][e]) ELSE mail[t][d]
  BY <1>1
<1>4. \A d \in Engines : IsQueue(mail'[t][d]) /\ Range(mail'[t][d]) \subseteq Range(mail[t][d])
  <2> TAKE d \in Engines
  <2>1. CASE d = e
    BY <2>1, <1>1, <1>3, QueueTail
  <2>2. CASE d # e
    BY <2>2, <1>1, <1>3
  <2> QED BY <2>1, <2>2
<1>5. ASSUME replies' # replies
      PROVE  \E r : /\ DOMAIN replies' = Txns /\ DOMAIN replies'[t] = Engines
                    /\ \A v \in Txns \ {t} : replies'[v] = replies[v]
                    /\ \A d \in Engines : replies'[t][d] = IF d = e THEN Append(replies[t][e], r)
                                                                     ELSE replies[t][d]
                    /\ r.id = m.id /\ r.sub # 0 /\ SubOK(t, e, r.sub)'
                    /\ Asked(t) /\ r.id = txn[t].id => Answers(txn[t], e, r)
  <2>1. PICK r : /\ replies' = [replies EXCEPT ![t][e] = Append(@, r)]
                 /\ r.id = Head(mail[t][e]).id /\ r.sub # 0 /\ SubOK(t, e, r.sub)'
                 /\ Asked(t) /\ r.id = txn[t].id => Answers(txn[t], e, r)
    BY <1>5
  <2> QED BY <2>1, <1>1
<1>6. ASSUME NEW v \in Txns, NEW d \in Engines
      PROVE  /\ \A y : MailOK(v, d, y) => MailOK(v, d, y)'
             /\ \A y : ReplyOK(v, d, y) => ReplyOK(v, d, y)'
  BY DEF MailOK, ReplyOK, Ended, Asked
<1>7. \A d \in Engines : IsQueue(replies'[t][d]) /\ \A r \in Range(replies'[t][d]) : ReplyOK(t, d, r)'
  <2> TAKE d \in Engines
  <2>1. \A r \in Range(replies[t][d]) : ReplyOK(t, d, r)'
    BY <1>6, AgentReady
  <2>2. CASE replies' = replies \/ d # e
    <3>1. replies'[t][d] = replies[t][d]
      BY <2>2, <1>5
    <3> QED BY <2>1, <3>1, <1>1
  <2>3. CASE replies' # replies /\ d = e
    <3>1. PICK r : /\ replies'[t][e] = Append(replies[t][e], r)
                   /\ r.id = m.id /\ r.sub # 0 /\ SubOK(t, e, r.sub)'
                   /\ Asked(t) /\ r.id = txn[t].id => Answers(txn[t], e, r)
      BY <2>3, <1>5
    <3>2. /\ IsQueue(Append(replies[t][e], r))
          /\ Range(Append(replies[t][e], r)) = Range(replies[t][e]) \cup {r}
      BY <1>1, QueueAppend
    <3>3. ReplyOK(t, e, r)'
      BY <3>1, <1>2 DEF ReplyOK, MailOK, Ended, Asked
    <3> QED BY <2>1, <2>3, <3>1, <3>2, <3>3
  <2> QED BY <2>2, <2>3
<1>8. Expected(t)'
  <2> DEFINE A  == Cardinality(DueIn(mail[t], x.id))
             A2 == Cardinality(DueIn(mail'[t], x.id))
             B  == Cardinality(DueIn(replies[t], x.id))
             B2 == Cardinality(DueIn(replies'[t], x.id))
  <2>1. A2 \in Nat /\ A \in Nat /\ A2 <= A /\ (m.id = x.id => A2 + 1 <= A)
    <3> DEFINE q  == mail[t]
               r  == mail'[t]
               id == x.id
    <3>1. /\ DOMAIN q = Engines /\ (\A d \in Engines : IsQueue(q[d])) /\ q[e] # <<>>
          /\ (\A d \in Engines : r[d] = IF d = e THEN Tail(q[e]) ELSE q[d])
      BY <1>1, <1>3
    <3> HIDE DEF q, r, id
    <3>2. /\ Cardinality(DueIn(r, id)) \in Nat /\ Cardinality(DueIn(q, id)) \in Nat
          /\ Cardinality(DueIn(r, id)) <= Cardinality(DueIn(q, id))
      BY <3>1, DueTail
    <3> DEFINE h == Head(q[e]).id
    <3>3. Cardinality(DueIn(r, h)) + 1 <= Cardinality(DueIn(q, h))
      BY <3>1, DueHead
    <3>4. h = m.id
      BY DEF q
    <3> HIDE DEF h, m
    <3> QED BY <3>2, <3>3, <3>4 DEF q, r, id
  <2>2. B \in Nat
    BY <1>1, DueFinite
  <2>3. B2 \in Nat /\ B2 <= B + 1 /\ (m.id # x.id => B2 <= B)
    <3>1. CASE replies' = replies
      BY <3>1, <2>2
    <3>2. CASE replies' # replies
      <4>1. PICK y : /\ \A d \in Engines : replies'[t][d] = IF d = e THEN Append(replies[t][e], y)
                                                                     ELSE replies[t][d]
                     /\ y.id = m.id
        BY <3>2, <1>5
      <4> DEFINE q  == replies[t]
                 r  == replies'[t]
                 id == x.id
      <4>2. /\ DOMAIN q = Engines /\ (\A d \in Engines : IsQueue(q[d]))
            /\ (\A d \in Engines : r[d] = IF d = e THEN Append(q[e], y) ELSE q[d])
        BY <1>1, <4>1
      <4> HIDE DEF q, r, id
      <4>3. LET n == Cardinality(DueIn(q, id))
                k == Cardinality(DueIn(r, id))
            IN  k \in Nat /\ n \in Nat /\ k <= n + 1 /\ (y.id # id => k <= n)
        BY <4>2, DueAppend
      <4> QED BY <4>1, <4>3 DEF q, r, id
    <3> QED BY <3>1, <3>2
  <2>4. x.wait \in Nat
    BY DEF TypeInv, AgentTypes, TxnOK
  <2>5. Asked(t) => Enough(x, A + B)
    BY <1>1 DEF Expected
  <2>6. Asked(t)' <=> Asked(t)
    BY DEF Asked
  <2>7. Asked(t) => Enough(x, A2 + B2)
    <3>1. A2 + B2 <= A + B /\ A2 + B2 \in Nat
      <4> HIDE DEF A, B, A2, B2, x, m
      <4>1. CASE m.id = x.id
        BY <4>1, <2>1, <2>2, <2>3
      <4>2. CASE m.id # x.id
        BY <4>2, <2>1, <2>2, <2>3
      <4> QED BY <4>1, <4>2
    <3> HIDE DEF A, B, A2, B2, x
    <3> QED BY <3>1, <2>1, <2>2, <2>4, <2>5 DEF Enough
  <2> QED BY <2>6, <2>7 DEF Expected
<1>9. \A v \in Txns \ {t} : mail'[v] = mail[v] /\ replies'[v] = replies[v]
  BY <1>3, <1>5
<1>10. DOMAIN replies' = Txns /\ DOMAIN replies'[t] = Engines
  BY <1>1, <1>5
<1>11. ASSUME NEW v \in Txns
       PROVE  /\ TxnOK(txn[v])' /\ PhaseOK(txn[v])'
              /\ DOMAIN mail'[v] = Engines /\ DOMAIN replies'[v] = Engines
              /\ \A d \in Engines :
                   /\ SubOK(v, d, txn[v].subs[d])'
                   /\ IsQueue(mail'[v][d]) /\ IsQueue(replies'[v][d])
                   /\ \A y \in Range(mail'[v][d]) : MailOK(v, d, y)'
                   /\ \A r \in Range(replies'[v][d]) : ReplyOK(v, d, r)'
              /\ Expected(v)'
  <2>1. /\ TxnOK(txn[v])' /\ PhaseOK(txn[v])'
        /\ DOMAIN mail'[v] = Engines /\ DOMAIN replies'[v] = Engines
    BY <1>3, <1>9, <1>10 DEF TypeInv, AgentTypes
  <2>2. Expected(v)'
    BY <1>8, <1>9 DEF TypeInv, AgentTypes, Expected, Asked
  <2>3. ASSUME NEW d \in Engines
        PROVE  /\ SubOK(v, d, txn[v].subs[d])'
               /\ IsQueue(mail'[v][d]) /\ \A y \in Range(mail'[v][d]) : MailOK(v, d, y)'
    <3>1. SubOK(v, d, txn[v].subs[d])
      BY DEF TypeInv, AgentTypes
    <3>2. IsQueue(mail'[v][d]) /\ Range(mail'[v][d]) \subseteq Range(mail[v][d])
      <4>1. CASE v = t
        BY <4>1, <1>4
      <4>2. CASE v # t
        BY <4>2, <1>9 DEF TypeInv, AgentTypes
      <4> QED BY <4>1, <4>2
    <3>3. \A y \in Range(mail[v][d]) : MailOK(v, d, y)
      BY DEF TypeInv, AgentTypes
    <3>4. SubOK(v, d, txn[v].subs[d])'
      BY <3>1
    <3> QED BY <3>2, <3>3, <3>4, <1>6
  <2>4. ASSUME NEW d \in Engines
        PROVE  IsQueue(replies'[v][d]) /\ \A r \in Range(replies'[v][d]) : ReplyOK(v, d, r)'
    <3>1. CASE v = t
      BY <3>1, <1>7
    <3>2. CASE v # t
      BY <3>2, <1>6, <1>9 DEF TypeInv, AgentTypes
    <3> QED BY <3>1, <3>2
  <2> QED BY <2>1, <2>2, <2>3, <2>4
<1> QED BY <1>3, <1>10, <1>11 DEF TypeInv, AgentTypes

\* A row that s has been given.
FreshRow(c, s) == WellLocked(c) /\ c.writelockHolder = s /\ c.readlockHolders = {}

\* The rows of e after an operation of s.
LEMMA RowsStep ==
  ASSUME TypeInv, NEW t \in Txns, NEW e \in Engines, NEW s \in Subs, OwnerGrows(t, e, s),
         table' \in [Engines -> [Rowids -> Cell]],
         \A d \in Engines, r \in Rowids :
           \/ table'[d][r] = table[d][r]
           \/ d = e /\ CellStep(table[d][r], table'[d][r], s)
           \/ d = e /\ r <= nextrowid'[e] /\ FreshRow(table'[d][r], s),
         nextrowid' \in [Engines -> Rowids \cup {0}],
         \A d \in Engines : nextrowid[d] <= nextrowid'[d],
         unique' \in [Keys -> Entry],
         nonunique' \in [NonuniqueFields -> SUBSET (Vals \X Uurs)],
         crashed' \subseteq Engines
  PROVE  EngineTypes'
<1>1. \A d \in Engines, r \in Rowids : WellLocked(table'[d][r])
  BY DEF TypeInv, EngineTypes, CellStep, FreshRow
<1>2. \A d \in Engines, r \in Rowids : r > nextrowid'[d] => table'[d][r] = AbsentCell
  <2> SUFFICES ASSUME NEW d \in Engines, NEW r \in Rowids, r > nextrowid'[d]
               PROVE  table'[d][r] = AbsentCell
    OBVIOUS
  <2>a. Rowids \subseteq Nat /\ r \in Nat
    BY TransactionsAssumption
  <2>b. nextrowid[d] \in Rowids \cup {0} /\ nextrowid'[d] \in Rowids \cup {0}
    BY DEF TypeInv, EngineTypes
  <2>c. Rowids \cup {0} \subseteq Nat
    BY <2>a
  <2>d. nextrowid[d] <= nextrowid'[d]
    OBVIOUS
  <2>1. r \in Nat /\ nextrowid'[d] \in Nat /\ nextrowid[d] \in Nat /\ nextrowid[d] <= nextrowid'[d]
    BY ONLY <2>a, <2>b, <2>c, <2>d
  <2>2. r > nextrowid[d] /\ ~(r <= nextrowid'[d])
    BY <2>1
  <2>3. table[d][r] = AbsentCell
    BY <2>2 DEF TypeInv, EngineTypes
  <2> QED BY <2>2, <2>3 DEF CellStep
<1>3. /\ DOMAIN owner' = Engines /\ DOMAIN live' = Engines
      /\ \A d \in Engines : /\ owner'[d] \in Seq(Txns) /\ DOMAIN owner'[d] \subseteq Subs
                            /\ live'[d] \subseteq DOMAIN owner'[d]
      /\ s \in DOMAIN owner'[e]
      /\ \A d \in Engines : DOMAIN owner[d] \subseteq DOMAIN owner'[d]
  BY DEF OwnerGrows
<1>4. ASSUME NEW d \in Engines, NEW r \in Rowids
      PROVE  /\ table'[d][r].writelockHolder \in DOMAIN owner'[d] \cup {NoSub}
             /\ table'[d][r].readlockHolders \subseteq DOMAIN owner'[d]
  <2>1. /\ table[d][r].writelockHolder \in DOMAIN owner[d] \cup {NoSub}
        /\ table[d][r].readlockHolders \subseteq DOMAIN owner[d]
    BY DEF TypeInv, EngineTypes
  <2>2. CASE table'[d][r] = table[d][r]
    BY <2>1, <2>2, <1>3
  <2>3. CASE d = e /\ CellStep(table[d][r], table'[d][r], s)
    BY <2>1, <2>3, <1>3 DEF CellStep
  <2>4. CASE d = e /\ r <= nextrowid'[e] /\ FreshRow(table'[d][r], s)
    BY <2>4, <1>3 DEF FreshRow
  <2> QED BY <2>2, <2>3, <2>4
<1> QED BY <1>1, <1>2, <1>3, <1>4 DEF EngineTypes

\* An action of an Engine that takes a message as Handled does.
LEMMA ServeTypes ==
  ASSUME TypeInv, NEW t \in Txns, NEW e \in Engines, mail[t][e] # <<>>,
         Handled(t, e, Head(mail[t][e])), txn' = txn,
         EngineTypes',
         \/ replies' = replies
         \/ \E arg : LET m == Head(mail[t][e])
                     IN  /\ Reply(t, e, m, arg)
                         /\ Asked(t) /\ m.id = txn[t].id =>
                              Answers(txn[t], e, [ep |-> m.ep, id |-> m.id, sub |-> SubFor(e, m),
                                                  arg |-> arg])
  PROVE  TypeInv'
<1> DEFINE m == Head(mail[t][e])
<1>0. PICK s : s = SubFor(e, m)
  OBVIOUS
<1>1. OwnerGrows(t, e, s) /\ s # 0
  BY <1>0, HandledOwner
<1>2. SubOK(t, e, s)'
  BY <1>1 DEF OwnerGrows, SubOK
<1>3. \A v \in Txns, d \in Engines : \A k : SubOK(v, d, k) => SubOK(v, d, k)'
  BY <1>1, GrowsSubOK
<1>4. mail' = [mail EXCEPT ![t][e] = Tail(@)]
  BY DEF Handled
<1>5. \/ replies' = replies
      \/ \E r : /\ replies' = [replies EXCEPT ![t][e] = Append(@, r)]
                /\ r.id = Head(mail[t][e]).id /\ r.sub # 0 /\ SubOK(t, e, r.sub)'
                /\ Asked(t) /\ r.id = txn[t].id => Answers(txn[t], e, r)
  <2>1. ASSUME NEW arg, Reply(t, e, m, arg),
               Asked(t) /\ m.id = txn[t].id =>
                 Answers(txn[t], e, [ep |-> m.ep, id |-> m.id, sub |-> s, arg |-> arg])
        PROVE  \E r : /\ replies' = [replies EXCEPT ![t][e] = Append(@, r)]
                      /\ r.id = Head(mail[t][e]).id /\ r.sub # 0 /\ SubOK(t, e, r.sub)'
                      /\ Asked(t) /\ r.id = txn[t].id => Answers(txn[t], e, r)
    <3>0. PICK r : r = [ep |-> m.ep, id |-> m.id, sub |-> s, arg |-> arg]
      OBVIOUS
    <3>1. replies' = [replies EXCEPT ![t][e] = Append(@, r)]
      BY <1>0, <2>1, <3>0 DEF Reply
    <3>2. r.id = m.id /\ r.sub = s
      BY <3>0
    <3>3. r.sub # 0 /\ SubOK(t, e, r.sub)'
      BY <3>2, <1>1, <1>2
    <3>4. Asked(t) /\ r.id = txn[t].id => Answers(txn[t], e, r)
      BY <3>0, <3>2, <2>1
    <3> QED BY <3>1, <3>2, <3>3, <3>4
  <2> QED BY <1>0, <2>1
<1>6. AgentTypes'
  BY <1>3, <1>4, <1>5, ServeAgents
<1> QED BY <1>6 DEF TypeInv

\* The subtransaction, the body of the message and the command it is for.
LEMMA Serving ==
  ASSUME TypeInv, NEW t \in Txns, NEW e \in Engines, mail[t][e] # <<>>,
         Handled(t, e, Head(mail[t][e]))
  PROVE  LET m == Head(mail[t][e])
             s == SubFor(e, m)
         IN  /\ s \in Subs /\ s # 0 /\ OwnerGrows(t, e, s) /\ Body(e, m)
             /\ Asked(t) /\ m.id = txn[t].id => Fits(txn[t], m)
<1>1. MailOK(t, e, Head(mail[t][e]))
  BY ArrivedMail
<1>2. LET s == SubFor(e, Head(mail[t][e])) IN OwnerGrows(t, e, s) /\ s \in Subs /\ s # 0
  BY HandledOwner
<1> QED BY <1>1, <1>2 DEF MailOK

\* Rows that an action leaves alone.
LEMMA SameRows ==
  ASSUME TypeInv, NEW t \in Txns, NEW e \in Engines, NEW s \in Subs, OwnerGrows(t, e, s),
         UNCHANGED <<table, nextrowid, nonunique, crashed>>, unique' \in [Keys -> Entry]
  PROVE  EngineTypes'
<1>1. /\ table' \in [Engines -> [Rowids -> Cell]]
      /\ \A d \in Engines, r \in Rowids : table'[d][r] = table[d][r]
      /\ nextrowid' \in [Engines -> Rowids \cup {0}] /\ nextrowid' = nextrowid
      /\ nonunique' \in [NonuniqueFields -> SUBSET (Vals \X Uurs)]
      /\ crashed' \subseteq Engines
  BY DEF TypeInv, EngineTypes
<1>2. \A d \in Engines : nextrowid[d] <= nextrowid'[d]
  <2>1. Rowids \cup {0} \subseteq Nat
    BY TransactionsAssumption
  <2>2. nextrowid \in [Engines -> Rowids \cup {0}]
    BY DEF TypeInv, EngineTypes
  <2>3. nextrowid' = nextrowid
    OBVIOUS
  <2>4. \A d \in Engines : nextrowid[d] \in Nat
    BY ONLY <2>1, <2>2
  <2> QED BY ONLY <2>3, <2>4
<1> QED BY <1>1, <1>2, RowsStep

\* One row of an Engine changes.
LEMMA OneRowTypes ==
  ASSUME TypeInv, NEW t \in Txns, NEW e \in Engines, NEW s \in Subs, OwnerGrows(t, e, s),
         NEW i \in Rowids, NEW c, CellStep(table[e][i], c, s),
         table' = [table EXCEPT ![e][i] = c],
         UNCHANGED <<nextrowid, unique, nonunique, crashed>>
  PROVE  EngineTypes'
<1>0. table \in [Engines -> [Rowids -> Cell]] /\ c \in Cell
  BY DEF TypeInv, EngineTypes, CellStep
<1>1. /\ table' \in [Engines -> [Rowids -> Cell]]
      /\ \A d \in Engines, r \in Rowids : table'[d][r] = IF d = e /\ r = i THEN c ELSE table[d][r]
  BY <1>0
<1>2. \A d \in Engines, r \in Rowids :
        \/ table'[d][r] = table[d][r]
        \/ d = e /\ CellStep(table[d][r], table'[d][r], s)
  BY <1>1
<1>3. /\ nextrowid' \in [Engines -> Rowids \cup {0}] /\ nextrowid' = nextrowid
      /\ nonunique' \in [NonuniqueFields -> SUBSET (Vals \X Uurs)]
      /\ unique' \in [Keys -> Entry]
      /\ crashed' \subseteq Engines
  BY DEF TypeInv, EngineTypes
<1>4. \A d \in Engines : nextrowid[d] <= nextrowid'[d]
  <2>1. Rowids \cup {0} \subseteq Nat
    BY TransactionsAssumption
  <2>2. nextrowid \in [Engines -> Rowids \cup {0}]
    BY DEF TypeInv, EngineTypes
  <2>3. nextrowid' = nextrowid
    OBVIOUS
  <2>4. \A d \in Engines : nextrowid[d] \in Nat
    BY ONLY <2>1, <2>2
  <2> QED BY ONLY <2>3, <2>4
<1> QED BY <1>1, <1>2, <1>3, <1>4, RowsStep

\* Table::newrow.
LEMMA NewRowTypes ==
  ASSUME TypeInv, NEW t \in Txns, NEW e \in Engines, NewRow(t, e)
  PROVE  TypeInv'
<1> DEFINE m == Head(mail[t][e])
           r == nextrowid[e] + 1
<1>0. PICK s : s = SubFor(e, m)
  OBVIOUS
<1>1. /\ mail[t][e] # <<>> /\ m.cmd = "NEWROW" /\ r \in Rowids
      /\ Handled(t, e, m) /\ Reply(t, e, m, r)
      /\ nextrowid' = [nextrowid EXCEPT ![e] = r]
      /\ table' = [table EXCEPT ![e][r] = NewCell(s, m.arg)]
      /\ UNCHANGED <<unique, nonunique, crashed, txn>>
  BY <1>0 DEF NewRow, Arrived
<1>2. /\ s \in Subs /\ OwnerGrows(t, e, s) /\ Body(e, m)
      /\ Asked(t) /\ m.id = txn[t].id => Fits(txn[t], m)
  BY <1>0, <1>1, Serving
<1>3. m.ep = 1 /\ m.arg \in Values
  BY <1>1, <1>2 DEF Body
<1> DEFINE c == NewCell(s, m.arg)
<1>4. c \in Cell /\ FreshRow(c, s)
  BY <1>2, <1>3, NewCellStep DEF FreshRow
<1> HIDE DEF c
<1>5. /\ table \in [Engines -> [Rowids -> Cell]] /\ nextrowid \in [Engines -> Rowids \cup {0}]
      /\ unique' \in [Keys -> Entry] /\ nonunique' \in [NonuniqueFields -> SUBSET (Vals \X Uurs)]
      /\ crashed' \subseteq Engines
  BY <1>1 DEF TypeInv, EngineTypes
<1>6. /\ table' \in [Engines -> [Rowids -> Cell]]
      /\ \A d \in Engines, i \in Rowids : table'[d][i] = IF d = e /\ i = r THEN c ELSE table[d][i]
  <2> HIDE DEF r
  <2>1. table' = [table EXCEPT ![e][r] = c] /\ r \in Rowids
    BY <1>1 DEF c
  <2> QED BY <2>1, <1>4, <1>5
<1>7. nextrowid' \in [Engines -> Rowids \cup {0}] /\ nextrowid'[e] = r
      /\ \A d \in Engines : nextrowid[d] \in Nat /\ nextrowid[d] <= nextrowid'[d]
  <2>1. Rowids \cup {0} \subseteq Nat
    BY TransactionsAssumption
  <2>2. \A d \in Engines : nextrowid[d] \in Nat
    BY ONLY <2>1, <1>5
  <2>3. \A d \in Engines : nextrowid'[d] = IF d = e THEN r ELSE nextrowid[d]
    BY <1>1, <1>5
  <2>4. \A d \in Engines : nextrowid[d] <= nextrowid'[d]
    BY ONLY <2>2, <2>3
  <2>5. nextrowid' \in [Engines -> Rowids \cup {0}]
    <3> HIDE DEF r
    <3> QED BY <1>1, <1>5
  <2> QED BY <2>2, <2>3, <2>4, <2>5
<1>8. r <= r
  BY <1>7
<1>9. \A d \in Engines, i \in Rowids :
        \/ table'[d][i] = table[d][i]
        \/ d = e /\ CellStep(table[d][i], table'[d][i], s)
        \/ d = e /\ i <= nextrowid'[e] /\ FreshRow(table'[d][i], s)
  <2> HIDE DEF r
  <2> QED BY <1>4, <1>6, <1>7, <1>8
<1>10. EngineTypes'
  BY <1>2, <1>5, <1>6, <1>7, <1>9, RowsStep
<1>11. Asked(t) /\ m.id = txn[t].id =>
         Answers(txn[t], e, [ep |-> m.ep, id |-> m.id, sub |-> SubFor(e, m), arg |-> r])
  <2> HIDE DEF r
  <2> QED BY <1>1, <1>2, <1>3 DEF Fits, Answers
<1> HIDE DEF r
<1> QED BY <1>1, <1>10, <1>11, ServeTypes

\* UNIQUEINDEX.
LEMMA UniqueIndexTypes ==
  ASSUME TypeInv, NEW t \in Txns, NEW e \in Engines, UniqueIndex(t, e)
  PROVE  TypeInv'
<1> DEFINE m == Head(mail[t][e])
           y == unique[m.arg.key]
<1>0. PICK s : s = SubFor(e, m)
  OBVIOUS
<1>1. /\ mail[t][e] # <<>> /\ m.cmd = "UNIQUEINDEX"
      /\ Handled(t, e, m) /\ Reply(t, e, m, UniqueIndexReply(y))
      /\ unique' = [unique EXCEPT ![m.arg.key] = UniqueIndexEntry(y, m.arg.uur, s)]
      /\ UNCHANGED <<table, nextrowid, nonunique, crashed, txn>>
  BY <1>0 DEF UniqueIndex, Arrived
<1>2. /\ s \in Subs /\ OwnerGrows(t, e, s) /\ Body(e, m)
      /\ Asked(t) /\ m.id = txn[t].id => Fits(txn[t], m)
  BY <1>0, <1>1, Serving
<1>3. m.ep \in {1, 2} /\ m.arg.key \in Keys /\ m.arg.uur \in Uurs
  BY <1>1, <1>2 DEF Body
<1>4. unique \in [Keys -> Entry]
  BY DEF TypeInv, EngineTypes
<1>5. UniqueIndexEntry(y, m.arg.uur, s) \in Entry
  BY <1>2, <1>3, <1>4 DEF UniqueIndexEntry, Entry
<1>6. unique' \in [Keys -> Entry]
  BY <1>1, <1>3, <1>4, <1>5
<1>7. EngineTypes'
  BY <1>1, <1>2, <1>6, SameRows
<1>8. Asked(t) /\ m.id = txn[t].id =>
        Answers(txn[t], e, [ep |-> m.ep, id |-> m.id, sub |-> SubFor(e, m),
                            arg |-> UniqueIndexReply(y)])
  <2> HIDE DEF y
  <2> QED BY <1>1, <1>2, <1>3 DEF Fits, Answers
<1> HIDE DEF y
<1> QED BY <1>1, <1>7, <1>8, ServeTypes

\* What is known of a row that a message names.
LEMMA NamedRow ==
  ASSUME TypeInv, NEW e \in Engines, NEW u \in Uurs, u[1] = e
  PROVE  u[2] \in Rowids /\ table[e][u[2]] \in Cell /\ WellLocked(table[e][u[2]])
<1>1. u[2] \in Rowids
  BY DEF Uurs
<1> QED BY <1>1 DEF TypeInv, EngineTypes

\* UPDATEROW.
LEMMA UpdateRowTypes ==
  ASSUME TypeInv, NEW t \in Txns, NEW e \in Engines, UpdateRow(t, e)
  PROVE  TypeInv'
<1> DEFINE m == Head(mail[t][e])
           i == m.arg.uur[2]
<1>0. PICK s : s = SubFor(e, m)
  OBVIOUS
<1>1. /\ mail[t][e] # <<>> /\ m.cmd = "UPDATEROW"
      /\ Handled(t, e, m) /\ Reply(t, e, m, "WRITELOCK")
      /\ table' = [table EXCEPT ![e][i] = UpdateCell(@, s, m.arg.row)]
      /\ UNCHANGED <<nextrowid, unique, nonunique, crashed, txn>>
  BY <1>0 DEF UpdateRow, Arrived
<1>2. /\ s \in Subs /\ OwnerGrows(t, e, s) /\ Body(e, m)
      /\ Asked(t) /\ m.id = txn[t].id => Fits(txn[t], m)
  BY <1>0, <1>1, Serving
<1>3. m.arg.uur \in Uurs /\ m.arg.uur[1] = e /\ m.arg.row \in Values
  BY <1>1, <1>2 DEF Body
<1>4. i \in Rowids /\ table[e][i] \in Cell /\ WellLocked(table[e][i])
  BY <1>3, NamedRow
<1> DEFINE c == UpdateCell(table[e][i], s, m.arg.row)
<1>5. CellStep(table[e][i], c, s)
  BY <1>2, <1>3, <1>4, ChangeCellStep
<1>6. table' = [table EXCEPT ![e][i] = c]
  BY <1>1
<1> HIDE DEF c, i
<1>7. EngineTypes'
  BY <1>1, <1>2, <1>4, <1>5, <1>6, OneRowTypes
<1>8. Asked(t) /\ m.id = txn[t].id =>
        Answers(txn[t], e, [ep |-> m.ep, id |-> m.id, sub |-> SubFor(e, m), arg |-> "WRITELOCK"])
  BY <1>1, <1>2 DEF Fits, Answers
<1> QED BY <1>1, <1>7, <1>8, ServeTypes

\* DELETEROW.
LEMMA DeleteRowTypes ==
  ASSUME TypeInv, NEW t \in Txns, NEW e \in Engines, DeleteRow(t, e)
  PROVE  TypeInv'
<1> DEFINE m == Head(mail[t][e])
           i == m.arg[2]
           ok == WriteLockedBy(table[e][i], SubFor(e, m))
<1>0. PICK s : s = SubFor(e, m)
  OBVIOUS
<1>1. /\ mail[t][e] # <<>> /\ m.cmd = "DELETEROW"
      /\ Handled(t, e, m) /\ Reply(t, e, m, ok)
      /\ table' = [table EXCEPT ![e][i] = DeleteCell(@, s)]
      /\ UNCHANGED <<nextrowid, unique, nonunique, crashed, txn>>
  BY <1>0 DEF DeleteRow, Arrived
<1>2. /\ s \in Subs /\ OwnerGrows(t, e, s) /\ Body(e, m)
      /\ Asked(t) /\ m.id = txn[t].id => Fits(txn[t], m)
  BY <1>0, <1>1, Serving
<1>3. m.arg \in Uurs /\ m.arg[1] = e
  BY <1>1, <1>2 DEF Body
<1>4. i \in Rowids /\ table[e][i] \in Cell /\ WellLocked(table[e][i])
  BY <1>3, NamedRow
<1> DEFINE c == DeleteCell(table[e][i], s)
<1>5. CellStep(table[e][i], c, s)
  <2>2. CASE WriteLockedBy(table[e][i], s)
    <3>1. table[e][i].row \in Values
      BY <1>4, <2>2 DEF WriteLockedBy, WellLocked, Cell
    <3> QED BY <1>2, <1>4, <3>1, ChangeCellStep
  <2>3. CASE ~WriteLockedBy(table[e][i], s)
    <3>1. c = table[e][i]
      BY <2>3 DEF DeleteCell
    <3> QED BY <1>2, <1>4, <3>1, SameCell
  <2> QED BY <2>2, <2>3
<1>6. table' = [table EXCEPT ![e][i] = c]
  BY <1>1
<1> HIDE DEF c
<1>7. EngineTypes'
  <2> HIDE DEF i, ok
  <2> QED BY <1>1, <1>2, <1>4, <1>5, <1>6, OneRowTypes
<1>8. ok \in BOOLEAN
  BY DEF WriteLockedBy
<1>9. Asked(t) /\ m.id = txn[t].id =>
        Answers(txn[t], e, [ep |-> m.ep, id |-> m.id, sub |-> SubFor(e, m), arg |-> ok])
  <2> HIDE DEF ok
  <2> QED BY <1>1, <1>2, <1>8 DEF Fits, Answers
<1> HIDE DEF ok
<1> QED BY <1>1, <1>7, <1>9, ServeTypes

\* REPLACEDELETEROW.
LEMMA ReplaceDeleteRowTypes ==
  ASSUME TypeInv, NEW t \in Txns, NEW e \in Engines, ReplaceDeleteRow(t, e)
  PROVE  TypeInv'
<1> DEFINE m == Head(mail[t][e])
           i == m.arg[2]
<1>0. PICK s : s = SubFor(e, m)
  OBVIOUS
<1>1. /\ mail[t][e] # <<>> /\ m.cmd = "REPLACEDELETEROW"
      /\ Handled(t, e, m) /\ Reply(t, e, m, "WRITELOCK")
      /\ table' = [table EXCEPT ![e][i] = ReplaceDeleteCell(@, s)]
      /\ UNCHANGED <<nextrowid, unique, nonunique, crashed, txn>>
  BY <1>0 DEF ReplaceDeleteRow, Arrived
<1>2. /\ s \in Subs /\ OwnerGrows(t, e, s) /\ Body(e, m)
      /\ Asked(t) /\ m.id = txn[t].id => Fits(txn[t], m)
  BY <1>0, <1>1, Serving
<1>3. m.ep = 2 /\ m.arg \in Uurs /\ m.arg[1] = e
  BY <1>1, <1>2 DEF Body
<1>4. i \in Rowids /\ table[e][i] \in Cell /\ WellLocked(table[e][i])
  BY <1>3, NamedRow
<1> DEFINE c == ReplaceDeleteCell(table[e][i], s)
<1>5. CellStep(table[e][i], c, s)
  <2>2. CASE WriteLockedBy(table[e][i], s)
    <3>1. table[e][i].row \in Values
      BY <1>4, <2>2 DEF WriteLockedBy, WellLocked, Cell
    <3> QED BY <1>2, <1>4, <3>1, ChangeCellStep
  <2>3. CASE ~WriteLockedBy(table[e][i], s)
    <3>1. c = table[e][i]
      BY <2>3 DEF ReplaceDeleteCell
    <3> QED BY <1>2, <1>4, <3>1, SameCell
  <2> QED BY <2>2, <2>3
<1>6. table' = [table EXCEPT ![e][i] = c]
  BY <1>1
<1> HIDE DEF c, i
<1>7. EngineTypes'
  BY <1>1, <1>2, <1>4, <1>5, <1>6, OneRowTypes
<1>8. Asked(t) /\ m.id = txn[t].id =>
        Answers(txn[t], e, [ep |-> m.ep, id |-> m.id, sub |-> SubFor(e, m), arg |-> "WRITELOCK"])
  BY <1>1, <1>2, <1>3 DEF Fits, Answers
<1> QED BY <1>1, <1>7, <1>8, ServeTypes

\* SubTransaction::indexSearch finds rows.
LEMMA HitsAreRows ==
  ASSUME TypeInv, NEW e \in Engines, NEW n, NEW W \in SUBSET Vals
  PROVE  IndexHits(e, n, W) \subseteq Uurs
<1>1. CASE n \in UniqueFields
  <2>1. IndexHits(e, n, W) = {unique[<<n, v>>].uur :
                                v \in {w \in W : Home(w) = e /\ unique[<<n, w>>] # NoEntry}}
    BY <1>1 DEF IndexHits
  <2>2. ASSUME NEW v \in W, unique[<<n, v>>] # NoEntry PROVE unique[<<n, v>>].uur \in Uurs
    <3>1. <<n, v>> \in Keys
      BY <1>1 DEF Keys
    <3>2. unique[<<n, v>>] \in Entry
      BY <3>1 DEF TypeInv, EngineTypes
    <3> QED BY <2>2, <3>2 DEF Entry
  <2> QED BY <2>1, <2>2
<1>2. CASE n \notin UniqueFields /\ n \in NonuniqueFields
  <2>1. IndexHits(e, n, W) = {p[2] : p \in {q \in nonunique[n] : q[1] \in W /\ Home(q[1]) = e}}
    BY <1>2 DEF IndexHits
  <2>2. nonunique[n] \subseteq Vals \X Uurs
    BY <1>2 DEF TypeInv, EngineTypes
  <2> QED BY <2>1, <2>2
<1>3. CASE n \notin UniqueFields /\ n \notin NonuniqueFields
  BY <1>3 DEF IndexHits
<1> QED BY <1>1, <1>2, <1>3

\* INDEXSEARCH.
LEMMA IndexSearchTypes ==
  ASSUME TypeInv, NEW t \in Txns, NEW e \in Engines, IndexSearch(t, e)
  PROVE  TypeInv'
<1> DEFINE m == Head(mail[t][e])
           H == IndexHits(e, m.arg.field, m.arg.vals)
<1>0. PICK s : s = SubFor(e, m)
  OBVIOUS
<1>1. /\ mail[t][e] # <<>> /\ m.cmd = "INDEXSEARCH"
      /\ Handled(t, e, m) /\ Reply(t, e, m, H)
      /\ UNCHANGED <<table, nextrowid, unique, nonunique, crashed, txn>>
  BY <1>0 DEF IndexSearch, Arrived
<1>2. /\ s \in Subs /\ OwnerGrows(t, e, s) /\ Body(e, m)
      /\ Asked(t) /\ m.id = txn[t].id => Fits(txn[t], m)
  BY <1>0, <1>1, Serving
<1>3. m.ep = 1 /\ m.arg.vals \subseteq Vals
  BY <1>1, <1>2 DEF Body
<1>4. H \subseteq Uurs
  BY <1>3, HitsAreRows
<1>5. unique' \in [Keys -> Entry]
  BY <1>1 DEF TypeInv, EngineTypes
<1>6. EngineTypes'
  BY <1>1, <1>2, <1>5, SameRows
<1>7. Asked(t) /\ m.id = txn[t].id =>
        Answers(txn[t], e, [ep |-> m.ep, id |-> m.id, sub |-> SubFor(e, m), arg |-> H])
  <2> HIDE DEF H
  <2> QED BY <1>1, <1>2, <1>3, <1>4 DEF Fits, Answers
<1> HIDE DEF H
<1> QED BY <1>1, <1>6, <1>7, ServeTypes

\* Rows of an Engine change, nothing else but entries of its indices.
LEMMA RowsTypes ==
  ASSUME TypeInv, NEW t \in Txns, NEW e \in Engines, NEW s \in Subs, OwnerGrows(t, e, s),
         NEW F, \A r \in Rowids : CellStep(table[e][r], F[r], s),
         table' = [table EXCEPT ![e] = [r \in Rowids |-> F[r]]],
         unique' \in [Keys -> Entry],
         nonunique' \in [NonuniqueFields -> SUBSET (Vals \X Uurs)],
         UNCHANGED <<nextrowid, crashed>>
  PROVE  EngineTypes'
<1>0. table \in [Engines -> [Rowids -> Cell]] /\ \A r \in Rowids : F[r] \in Cell
  BY DEF TypeInv, EngineTypes, CellStep
<1>1. /\ table' \in [Engines -> [Rowids -> Cell]]
      /\ \A d \in Engines, r \in Rowids : table'[d][r] = IF d = e THEN F[r] ELSE table[d][r]
  BY <1>0
<1>2. \A d \in Engines, r \in Rowids :
        \/ table'[d][r] = table[d][r]
        \/ d = e /\ CellStep(table[d][r], table'[d][r], s)
  BY <1>1
<1>3. /\ nextrowid' \in [Engines -> Rowids \cup {0}] /\ nextrowid' = nextrowid
      /\ crashed' \subseteq Engines
  BY DEF TypeInv, EngineTypes
<1>4. \A d \in Engines : nextrowid[d] <= nextrowid'[d]
  <2>1. Rowids \cup {0} \subseteq Nat
    BY TransactionsAssumption
  <2>2. nextrowid \in [Engines -> Rowids \cup {0}]
    BY DEF TypeInv, EngineTypes
  <2>3. nextrowid' = nextrowid
    OBVIOUS
  <2>4. \A d \in Engines : nextrowid[d] \in Nat
    BY ONLY <2>1, <2>2
  <2> QED BY ONLY <2>3, <2>4
<1> QED BY <1>1, <1>2, <1>3, <1>4, RowsStep

\* Table::selectrows.
LEMMA SelectTypes ==
  ASSUME TypeInv, NEW t \in Txns, NEW e \in Engines, mail[t][e] # <<>>,
         Head(mail[t][e]).cmd \in {"SELECTROWS", "SEARCHRETURN1"}, Head(mail[t][e]).ep = 2,
         NEW R \in SUBSET Rowids, NEW l \in {"READLOCK", "WRITELOCK"}, Select(t, e, R, l)
  PROVE  TypeInv'
<1> DEFINE m == Head(mail[t][e])
<1>0. PICK s : s = SubFor(e, m)
  OBVIOUS
<1> DEFINE F == [r \in Rowids |-> IF r \in R THEN SelectCell(table[e][r], s, l) ELSE table[e][r]]
           rows == ReturnRows(e, R, s, l)
<1>1. /\ Handled(t, e, m) /\ Reply(t, e, m, rows)
      /\ table' = [table EXCEPT ![e] =
                     [r \in Rowids |-> IF r \in R THEN SelectCell(table[e][r], s, l) ELSE table[e][r]]]
      /\ UNCHANGED <<nextrowid, unique, nonunique, crashed, txn>>
  BY <1>0 DEF Select
<1>2. /\ s \in Subs /\ OwnerGrows(t, e, s)
      /\ Asked(t) /\ m.id = txn[t].id => Fits(txn[t], m)
  BY <1>0, <1>1, Serving
<1>3. \A r \in Rowids : table[e][r] \in Cell /\ WellLocked(table[e][r])
  BY DEF TypeInv, EngineTypes
<1>4. ASSUME NEW r \in Rowids PROVE CellStep(table[e][r], F[r], s)
  <2>1. CASE r \in R
    <3>1. CellStep(table[e][r], SelectCell(table[e][r], s, l), s)
      BY <1>2, <1>3, SelectCellStep
    <3> QED BY <2>1, <3>1
  <2>2. CASE r \notin R
    BY <2>2, <1>3, SameCell
  <2> QED BY <2>1, <2>2
<1>5. \A q \in rows : RowReplyOK(e, q)
  <2> SUFFICES ASSUME NEW q \in rows PROVE RowReplyOK(e, q)
    OBVIOUS
  <2>1. PICK r \in R : q = [uur |-> <<e, r>>, lock |-> SelectReply(table[e][r], s, l),
                            row |-> table[e][r].row]
    BY DEF ReturnRows
  <2>2. /\ SelectReply(table[e][r], s, l) \in {"SKIP", "NOTFOUNDLOCK", "PENDINGLOCK", l}
        /\ SelectReply(table[e][r], s, l) = l => table[e][r].row \in Values
    BY <1>2, <1>3, SelectCellStep
  <2>3. q.uur = <<e, r>> /\ q.lock = SelectReply(table[e][r], s, l) /\ q.row = table[e][r].row
    BY <2>1
  <2>4. q.uur \in Uurs /\ q.uur[1] = e
    BY <2>3 DEF Uurs
  <2>5. Granted(q.lock) => q.row \in Values
    BY <2>2, <2>3 DEF Granted, LockTypes
  <2> QED BY <2>4, <2>5 DEF RowReplyOK
<1>6. EngineTypes'
  <2>1. table' = [table EXCEPT ![e] = [r \in Rowids |-> F[r]]]
    BY <1>1
  <2>2. unique' \in [Keys -> Entry] /\ nonunique' \in [NonuniqueFields -> SUBSET (Vals \X Uurs)]
    BY <1>1 DEF TypeInv, EngineTypes
  <2> HIDE DEF F
  <2> QED BY <1>1, <1>2, <1>4, <2>1, <2>2, RowsTypes
<1> HIDE DEF rows
<1>7. Asked(t) /\ m.id = txn[t].id =>
        Answers(txn[t], e, [ep |-> m.ep, id |-> m.id, sub |-> SubFor(e, m), arg |-> rows])
  BY <1>2, <1>5 DEF Fits, Answers
<1> QED BY <1>1, <1>6, <1>7, ServeTypes

\* SELECTROWS and SubTransaction::searchReturn1.
LEMMA SelectRowsTypes ==
  ASSUME TypeInv, NEW t \in Txns, NEW e \in Engines, SelectRows(t, e) \/ SearchReturn1(t, e)
  PROVE  TypeInv'
<1> DEFINE m == Head(mail[t][e])
           H == IndexHits(e, 0, {m.arg.val})
           R == {u[2] : u \in H}
<1>1. CASE SelectRows(t, e)
  <2>1. mail[t][e] # <<>> /\ m.cmd = "SELECTROWS" /\ Select(t, e, m.arg.rowids, m.arg.lock)
    BY <1>1 DEF SelectRows, Arrived
  <2>2. Body(e, m)
    BY <2>1, ArrivedMail DEF MailOK
  <2>3. m.ep = 2 /\ m.arg.rowids \in SUBSET Rowids /\ m.arg.lock \in {"READLOCK", "WRITELOCK"}
    BY <2>1, <2>2 DEF Body
  <2> QED BY <2>1, <2>3, SelectTypes
<1>2. CASE SearchReturn1(t, e)
  <2>1. mail[t][e] # <<>> /\ m.cmd = "SEARCHRETURN1" /\ Select(t, e, R, m.arg.lock)
    BY <1>2 DEF SearchReturn1, Arrived
  <2>2. Body(e, m)
    BY <2>1, ArrivedMail DEF MailOK
  <2>3. m.ep = 2 /\ m.arg.val \in Vals /\ m.arg.lock \in {"READLOCK", "WRITELOCK"}
    BY <2>1, <2>2 DEF Body
  <2>4. H \subseteq Uurs
    BY <2>3, HitsAreRows
  <2>5. R \in SUBSET Rowids
    <3> HIDE DEF H
    <3> QED BY <2>4 DEF Uurs
  <2> HIDE DEF R
  <2> QED BY <2>1, <2>3, <2>5, SelectTypes
<1> QED BY <1>1, <1>2

\* An Engine stops.
LEMMA CrashTypes ==
  ASSUME TypeInv, NEW e \in Engines, Crash(e)
  PROVE  TypeInv'
<1>1. /\ crashed' = crashed \cup {e}
      /\ UNCHANGED <<table, nextrowid, unique, nonunique, live, owner, mail, replies, txn>>
  BY DEF Crash
<1>2. EngineTypes'
  BY <1>1 DEF TypeInv, EngineTypes
<1>3. AgentTypes'
  <2>1. \A v \in Txns : Expected(v)' <=> Expected(v)
    BY <1>1 DEF Expected, Asked
  <2>2. \A v \in Txns, d \in Engines :
          /\ \A k : SubOK(v, d, k)' <=> SubOK(v, d, k)
          /\ \A r : MailOK(v, d, r)' <=> MailOK(v, d, r)
          /\ \A r : ReplyOK(v, d, r)' <=> ReplyOK(v, d, r)
    BY <1>1 DEF SubOK, MailOK, ReplyOK, Ended, Asked
  <2> QED BY <1>1, <2>1, <2>2 DEF TypeInv, AgentTypes
<1> QED BY <1>2, <1>3 DEF TypeInv

\* TOPIC_ENDSUBTRANSACTION.
LEMMA EndSubTransactionTypes ==
  ASSUME TypeInv, NEW t \in Txns, NEW e \in Engines, EndSubTransaction(t, e)
  PROVE  TypeInv'
<1> DEFINE m == Head(mail[t][e])
<1>1. /\ mail[t][e] # <<>>
      /\ live' = [live EXCEPT ![e] = @ \ {m.sub}]
      /\ mail' = [mail EXCEPT ![t][e] = Tail(@)]
      /\ UNCHANGED <<table, nextrowid, unique, nonunique, owner, crashed, replies, txn>>
  BY DEF EndSubTransaction, Arrived
<1>2. /\ DOMAIN live' = Engines
      /\ \A d \in Engines : live'[d] \subseteq live[d]
  BY <1>1 DEF TypeInv, EngineTypes
<1>3. EngineTypes'
  BY <1>1, <1>2 DEF TypeInv, EngineTypes
<1>4. \A v \in Txns, d \in Engines : \A k : SubOK(v, d, k) => SubOK(v, d, k)'
  BY <1>1 DEF SubOK
<1>5. AgentTypes'
  BY <1>1, <1>4, ServeAgents
<1> QED BY <1>3, <1>5 DEF TypeInv

\* The entries of the indices after a COMMITCMD.
LEMMA CommittedIndexes ==
  ASSUME TypeInv, NEW X, \A rof \in X : RofOK(rof), NEW s \in Subs
  PROVE  /\ \A n \in UniqueFields, v \in Vals : CommittedEntry(X, n, v, s) \in Entry
         /\ \A n \in NonuniqueFields : CommittedPairs(X, n) \subseteq Vals \X Uurs
<1>1. ASSUME NEW n \in UniqueFields, NEW v \in Vals PROVE CommittedEntry(X, n, v, s) \in Entry
  <2> DEFINE replace == RofsOf(X, "replace", n, v)
             y == unique[<<n, v>>]
  <2>1. y \in Entry
    <3>1. <<n, v>> \in Keys
      BY DEF Keys
    <3> QED BY <3>1 DEF TypeInv, EngineTypes
  <2>2. CommitEntry(y, s) \in Entry
    <3> HIDE DEF y
    <3> QED BY <2>1, TransactionsAssumption DEF CommitEntry, EntryLockedBy, Entry
  <2>3. \A rof \in replace : rof.new \in Uurs
    BY DEF RofsOf, RofOK
  <2>4. replace # {} => ReplaceUnique((CHOOSE rof \in replace : TRUE).new) \in Entry
    <3> HIDE DEF replace
    <3> QED BY <2>3 DEF ReplaceUnique, Entry
  <2>5. NoEntry \in Entry
    BY DEF Entry
  <2> QED BY <2>1, <2>2, <2>4, <2>5 DEF CommittedEntry
<1>2. ASSUME NEW n \in NonuniqueFields PROVE CommittedPairs(X, n) \subseteq Vals \X Uurs
  <2> DEFINE on(kind) == {rof \in X : rof.kind = kind /\ rof.field = n}
             kept  == nonunique[n] \ {<<rof.val, rof.uur>> : rof \in on("delete")}
             new(p) == (CHOOSE rof \in on("replace") : p = <<rof.val, rof.uur>>).new
             other(p) == IF \E rof \in on("replace") : p = <<rof.val, rof.uur>>
                           THEN <<p[1], new(p)>> ELSE p
             moved == {other(p) : p \in kept}
             added == {<<rof.val, rof.uur>> : rof \in on("add")}
  <2>1. CommittedPairs(X, n) = moved \cup added
    BY DEF CommittedPairs
  <2>2. kept \subseteq Vals \X Uurs
    BY DEF TypeInv, EngineTypes
  <2>3. \A rof \in on("add") : rof.val \in Vals /\ rof.uur \in Uurs
    BY DEF RofOK
  <2>4. \A rof \in on("replace") : rof.new \in Uurs
    BY DEF RofOK
  <2>5. added \subseteq Vals \X Uurs
    BY <2>3
  <2>6. ASSUME NEW p \in kept PROVE other(p) \in Vals \X Uurs
    <3>1. p \in Vals \X Uurs
      BY <2>2
    <3>2. CASE \E rof \in on("replace") : p = <<rof.val, rof.uur>>
      <4>1. (CHOOSE rof \in on("replace") : p = <<rof.val, rof.uur>>) \in on("replace")
        BY <3>2
      <4>2. new(p) \in Uurs
        BY <4>1, <2>4
      <4>3. other(p) = <<p[1], new(p)>>
        BY <3>2
      <4> HIDE DEF new, other
      <4> QED BY <3>1, <4>2, <4>3
    <3>3. CASE ~\E rof \in on("replace") : p = <<rof.val, rof.uur>>
      BY <3>1, <3>3
    <3> QED BY <3>2, <3>3
  <2> HIDE DEF kept, added, other
  <2> QED BY <2>1, <2>5, <2>6
<1> QED BY <1>1, <1>2

\* PAYLOADCOMMITROLLBACK with COMMITCMD.
LEMMA CommitRofsAtTypes ==
  ASSUME TypeInv, NEW t \in Txns, NEW e \in Engines, CommitRofsAt(t, e)
  PROVE  TypeInv'
<1> DEFINE m == Head(mail[t][e])
           R == RowsIn(m.arg)
           keys == {<<rof.field, rof.val>> : rof \in {x \in m.arg : x.kind # "row"}}
<1>0. PICK s : s = SubFor(e, m)
  OBVIOUS
<1>1. mail[t][e] # <<>> /\ m.cmd = "COMMIT"
  BY DEF CommitRofsAt, Arrived
<1>2. CASE Crash(e)
  BY <1>2, CrashTypes
<1>3. CASE ~Crash(e)
  <2> DEFINE done == [r \in R |-> CommitCell(table[e][r], s)]
             F == [r \in Rowids |-> IF r \in R THEN DrainCell(CommitCell(table[e][r], s)) ELSE table[e][r]]
  <2>1. /\ Handled(t, e, m) /\ Reply(t, e, m, {})
        /\ table' = [table EXCEPT ![e] = Settled(e, done)]
        /\ unique' = [k \in Keys |-> IF k \in keys
                        THEN CommittedEntry(m.arg, k[1], k[2], s) ELSE unique[k]]
        /\ nonunique' = [n \in NonuniqueFields |-> CommittedPairs(m.arg, n)]
        /\ UNCHANGED <<nextrowid, crashed, txn>>
    BY <1>0, <1>3 DEF CommitRofsAt
  <2>2. /\ s \in Subs /\ OwnerGrows(t, e, s) /\ Body(e, m)
        /\ Asked(t) /\ m.id = txn[t].id => Fits(txn[t], m)
    BY <1>0, <1>1, <2>1, Serving
  <2>3. m.ep \in {2, 3} /\ \A rof \in m.arg : RofOK(rof)
    BY <1>1, <2>2 DEF Body
  <2>4. \A r \in Rowids : table[e][r] \in Cell /\ WellLocked(table[e][r])
    BY DEF TypeInv, EngineTypes
  <2>5. ASSUME NEW r \in Rowids PROVE CellStep(table[e][r], F[r], s)
    <3>1. CASE r \in R
      <4>1. CellStep(table[e][r], DrainCell(CommitCell(table[e][r], s)), s)
        BY <2>2, <2>4, CommitCellStep
      <4> QED BY <3>1, <4>1
    <3>2. CASE r \notin R
      BY <3>2, <2>4, SameCell
    <3> QED BY <3>1, <3>2
  <2>6. Settled(e, done) = [r \in Rowids |-> F[r]]
    BY DEF Settled
  <2>7. unique' \in [Keys -> Entry]
    <3>1. ASSUME NEW k \in Keys PROVE CommittedEntry(m.arg, k[1], k[2], s) \in Entry
      <4>1. k[1] \in UniqueFields /\ k[2] \in Vals
        BY DEF Keys
      <4> QED BY <4>1, <2>2, <2>3, CommittedIndexes
    <3>2. unique \in [Keys -> Entry]
      BY DEF TypeInv, EngineTypes
    <3> HIDE DEF keys
    <3> QED BY <2>1, <3>1, <3>2
  <2>8. nonunique' \in [NonuniqueFields -> SUBSET (Vals \X Uurs)]
    <3>1. \A n \in NonuniqueFields : CommittedPairs(m.arg, n) \subseteq Vals \X Uurs
      BY <2>2, <2>3, CommittedIndexes
    <3> QED BY <2>1, <3>1
  <2>9. EngineTypes'
    <3>1. table' = [table EXCEPT ![e] = [r \in Rowids |-> F[r]]]
      BY <2>1, <2>6
    <3>2. UNCHANGED <<nextrowid, crashed>>
      BY <2>1
    <3> HIDE DEF F
    <3> QED BY <2>2, <2>5, <2>7, <2>8, <3>1, <3>2, RowsTypes
  <2>10. Asked(t) /\ m.id = txn[t].id =>
           Answers(txn[t], e, [ep |-> m.ep, id |-> m.id, sub |-> SubFor(e, m), arg |-> {}])
    BY <1>1, <2>2, <2>3 DEF Fits, Answers
  <2> QED BY <1>1, <2>1, <2>9, <2>10, ServeTypes
<1> QED BY <1>2, <1>3

\* PAYLOADCOMMITROLLBACK with ROLLBACKCMD.
LEMMA RollbackRofAtTypes ==
  ASSUME TypeInv, NEW t \in Txns, NEW e \in Engines, RollbackRofAt(t, e)
  PROVE  TypeInv'
<1> DEFINE m == Head(mail[t][e])
           R == RowsIn(m.arg) \cap Rowids
           keys == {<<rof.field, rof.val>> : rof \in {x \in m.arg : x.kind = "add"}}
<1>0. PICK s : s = SubFor(e, m)
  OBVIOUS
<1>1. mail[t][e] # <<>> /\ m.cmd = "ROLLBACK"
  BY DEF RollbackRofAt, Arrived
<1>2. CASE Crash(e)
  BY <1>2, CrashTypes
<1>3. CASE ~Crash(e)
  <2> DEFINE done == [r \in R |-> RollbackCell(table[e][r], s)]
             F == [r \in Rowids |-> IF r \in R THEN DrainCell(RollbackCell(table[e][r], s)) ELSE table[e][r]]
  <2>1. /\ Handled(t, e, m)
        /\ table' = [table EXCEPT ![e] = Settled(e, done)]
        /\ unique' = [k \in Keys |-> IF k \in keys THEN RollbackEntry(unique[k], s) ELSE unique[k]]
        /\ UNCHANGED <<nextrowid, nonunique, crashed, replies, txn>>
    BY <1>0, <1>3 DEF RollbackRofAt
  <2>2. s \in Subs /\ OwnerGrows(t, e, s)
    BY <1>0, <1>1, <2>1, Serving
  <2>4. \A r \in Rowids : table[e][r] \in Cell /\ WellLocked(table[e][r])
    BY DEF TypeInv, EngineTypes
  <2>5. ASSUME NEW r \in Rowids PROVE CellStep(table[e][r], F[r], s)
    <3>1. CASE r \in R
      <4>1. CellStep(table[e][r], DrainCell(RollbackCell(table[e][r], s)), s)
        BY <2>2, <2>4, RollbackCellStep
      <4> QED BY <3>1, <4>1
    <3>2. CASE r \notin R
      BY <3>2, <2>4, SameCell
    <3> QED BY <3>1, <3>2
  <2>6. Settled(e, done) = [r \in Rowids |-> F[r]]
    BY DEF Settled
  <2>7. unique' \in [Keys -> Entry]
    <3>1. unique \in [Keys -> Entry]
      BY DEF TypeInv, EngineTypes
    <3>2. \A k \in Keys : RollbackEntry(unique[k], s) \in Entry
      BY <3>1 DEF RollbackEntry, Entry
    <3> HIDE DEF keys
    <3> QED BY <2>1, <3>1, <3>2
  <2>8. nonunique' \in [NonuniqueFields -> SUBSET (Vals \X Uurs)]
    BY <2>1 DEF TypeInv, EngineTypes
  <2>9. EngineTypes'
    <3>1. table' = [table EXCEPT ![e] = [r \in Rowids |-> F[r]]]
      BY <2>1, <2>6
    <3>2. UNCHANGED <<nextrowid, crashed>>
      BY <2>1
    <3> HIDE DEF F
    <3> QED BY <2>2, <2>5, <2>7, <2>8, <3>1, <3>2, RowsTypes
  <2> QED BY <1>1, <2>1, <2>9, ServeTypes
<1> QED BY <1>2, <1>3

\* What an Engine does keeps the types.
LEMMA EngineStepTypes ==
  ASSUME TypeInv, NEW t \in Txns, NEW e \in Engines, Serve(t, e)
  PROVE  TypeInv'
BY NewRowTypes, UniqueIndexTypes, UpdateRowTypes, DeleteRowTypes, ReplaceDeleteRowTypes,
   IndexSearchTypes, SelectRowsTypes, CommitRofsAtTypes, RollbackRofAtTypes,
   EndSubTransactionTypes DEF Serve


-----------------------------------------------------------------------------
(* Type correctness.                                                        *)

\* The rowids that the loaded rows of an Engine have used up.
LEMMA LoadedRowids ==
  ASSUME NEW e \in Engines
  PROVE  LET n == Cardinality({u \in DOMAIN Loaded : u[1] = e})
         IN  /\ n \in Nat /\ n \in Rowids \cup {0}
             /\ \A r \in Rowids : r > n => <<e, r>> \notin DOMAIN Loaded
<1> DEFINE rows == {u \in DOMAIN Loaded : u[1] = e}
           n == Cardinality(rows)
<1>1. IsFiniteSet(Engines \X Rowids) /\ DOMAIN Loaded \subseteq Engines \X Rowids
  BY TransactionsAssumption, FS_Product
<1>2. IsFiniteSet(rows) /\ n \in Nat
  <2>1. rows \subseteq Engines \X Rowids
    BY <1>1
  <2> QED BY <1>1, <2>1, FS_Subset, FS_CardinalityType
<1>3. {u[2] : u \in rows} = 1..n
  BY LoadedAssumption
<1>4. \A u \in rows : u[2] \in Rowids
  BY <1>1
<1>5. n \in Rowids \cup {0}
  <2>1. CASE n = 0
    BY <2>1
  <2>2. CASE n # 0
    <3> HIDE DEF n, rows
    <3>1. n \in 1..n
      BY <1>2, <2>2
    <3>2. PICK u \in rows : u[2] = n
      BY <3>1, <1>3
    <3> QED BY <3>2, <1>4
  <2> QED BY <2>1, <2>2
<1>6. ASSUME NEW r \in Rowids, r > n, <<e, r>> \in DOMAIN Loaded PROVE FALSE
  <2>1. <<e, r>> \in rows
    BY <1>6
  <2>2. r \in {u[2] : u \in rows}
    BY <2>1
  <2>3. r \in 1..n
    BY <2>2, <1>3
  <2> HIDE DEF n
  <2> QED BY <2>3, <1>2, <1>6
<1> QED BY <1>2, <1>5, <1>6

\* A committed row.
LEMMA LoadedCell ==
  ASSUME NEW v \in Values
  PROVE  LET c == [AbsentCell EXCEPT !.lock = "NOLOCK", !.row = v]
         IN  c \in Cell /\ WellLocked(c) /\ c.writelockHolder = NoSub /\ c.readlockHolders = {}
BY RowOpsAssumption DEF AbsentCell, Cell, WellLocked, Changed, LockTypes

LEMMA InitEngineTypes ==
  ASSUME Init
  PROVE  EngineTypes
<1>1. DOMAIN Loaded \subseteq Uurs /\ \A u \in DOMAIN Loaded : Loaded[u] \in [Fields -> Vals]
  BY TransactionsAssumption DEF Uurs
<1>2. /\ table \in [Engines -> [Rowids -> Cell]]
      /\ \A e \in Engines, r \in Rowids :
           /\ WellLocked(table[e][r])
           /\ table[e][r].writelockHolder = NoSub /\ table[e][r].readlockHolders = {}
           /\ <<e, r>> \notin DOMAIN Loaded => table[e][r] = AbsentCell
  <2>1. table = [e \in Engines |-> [r \in Rowids |->
                   IF <<e, r>> \in DOMAIN Loaded
                     THEN [AbsentCell EXCEPT !.lock = "NOLOCK", !.row = Loaded[<<e, r>>]]
                     ELSE AbsentCell]]
    BY DEF Init
  <2>2. ASSUME NEW e \in Engines, NEW r \in Rowids
        PROVE  /\ table[e][r] \in Cell /\ WellLocked(table[e][r])
               /\ table[e][r].writelockHolder = NoSub /\ table[e][r].readlockHolders = {}
               /\ <<e, r>> \notin DOMAIN Loaded => table[e][r] = AbsentCell
    <3>1. CASE <<e, r>> \in DOMAIN Loaded
      <4>1. table[e][r] = [AbsentCell EXCEPT !.lock = "NOLOCK", !.row = Loaded[<<e, r>>]]
        BY <2>1, <3>1
      <4>2. Loaded[<<e, r>>] \in Values
        BY <1>1, <3>1, TransactionsAssumption
      <4> QED BY <3>1, <4>1, <4>2, LoadedCell
    <3>2. CASE <<e, r>> \notin DOMAIN Loaded
      <4>1. table[e][r] = AbsentCell
        BY <2>1, <3>2
      <4>2. AbsentCell.writelockHolder = NoSub /\ AbsentCell.readlockHolders = {}
        BY DEF AbsentCell
      <4> QED BY <4>1, <4>2, AbsentOK
    <3> QED BY <3>1, <3>2
  <2>3. table \in [Engines -> [Rowids -> Cell]]
    BY <2>1, <2>2
  <2> QED BY <2>2, <2>3
<1>3. /\ nextrowid \in [Engines -> Rowids \cup {0}]
      /\ \A e \in Engines, r \in Rowids : r > nextrowid[e] => <<e, r>> \notin DOMAIN Loaded
  <2>1. nextrowid = [e \in Engines |-> Cardinality({u \in DOMAIN Loaded : u[1] = e})]
    BY DEF Init
  <2> QED BY <2>1, LoadedRowids
<1>4. unique \in [Keys -> Entry]
  <2>1. ASSUME NEW n, NEW v PROVE LoadedEntry(n, v) \in Entry
    <3> DEFINE rows == {u \in DOMAIN Loaded : Loaded[u][n] = v}
    <3>1. rows # {} => (CHOOSE u \in rows : TRUE) \in Uurs
      BY <1>1
    <3>2. LoadedEntry(n, v) = IF rows = {} THEN NoEntry
                              ELSE [uur |-> CHOOSE u \in rows : TRUE, sub |-> NoSub]
      BY DEF LoadedEntry
    <3> HIDE DEF rows
    <3> QED BY <3>1, <3>2 DEF Entry
  <2> QED BY <2>1 DEF Init
<1>5. nonunique \in [NonuniqueFields -> SUBSET (Vals \X Uurs)]
  <2>1. ASSUME NEW n \in NonuniqueFields
        PROVE  {<<Loaded[u][n], u>> : u \in DOMAIN Loaded} \subseteq Vals \X Uurs
    <3>1. n \in Fields
      BY TransactionsAssumption
    <3> QED BY <1>1, <3>1
  <2> QED BY <2>1 DEF Init
<1>6. /\ owner = [e \in Engines |-> <<>>] /\ live = [e \in Engines |-> {}] /\ crashed = {}
  BY DEF Init
<1>7. /\ DOMAIN owner = Engines /\ DOMAIN live = Engines
      /\ \A e \in Engines : /\ owner[e] \in Seq(Txns) /\ DOMAIN owner[e] \subseteq Subs
                            /\ live[e] \subseteq DOMAIN owner[e]
  BY <1>6
<1> QED BY <1>2, <1>3, <1>4, <1>5, <1>6, <1>7 DEF EngineTypes

LEMMA InitAgentTypes ==
  ASSUME Init
  PROVE  AgentTypes
<1>1. /\ mail = [t \in Txns |-> Quiet] /\ replies = [t \in Txns |-> Quiet]
      /\ txn = [t \in Txns |-> FreshTxn]
  BY DEF Init
<1>2. TxnOK(FreshTxn) /\ PhaseOK(FreshTxn)
  BY TransactionsAssumption DEF FreshTxn, TxnOK, PhaseOK, Nothing, NoStmt
<1>3. FreshTxn.phase = "idle" /\ \A e \in Engines : FreshTxn.subs[e] = 0
  BY DEF FreshTxn
<1>4. DOMAIN Quiet = Engines /\ \A e \in Engines : Quiet[e] = <<>>
  BY DEF Quiet
<1> HIDE DEF Quiet
<1>5. ASSUME NEW t \in Txns
      PROVE  /\ TxnOK(txn[t]) /\ PhaseOK(txn[t])
             /\ DOMAIN mail[t] = Engines /\ DOMAIN replies[t] = Engines
             /\ \A e \in Engines : SubOK(t, e, txn[t].subs[e])
             /\ \A e \in Engines : mail[t][e] = <<>> /\ replies[t][e] = <<>>
             /\ Expected(t)
  <2>1. txn[t] = FreshTxn /\ mail[t] = Quiet /\ replies[t] = Quiet
    BY <1>1
  <2> QED BY <1>2, <1>3, <1>4, <2>1 DEF SubOK, Expected, Asked
<1> QED BY <1>1, <1>5, QueueEmpty DEF AgentTypes

\* Nothing changes.
LEMMA StutterTypes ==
  ASSUME TypeInv, UNCHANGED vars
  PROVE  TypeInv'
<1>1. UNCHANGED <<table, nextrowid, unique, nonunique, live, owner, crashed, mail, replies, txn>>
  BY DEF vars
<1>2. EngineTypes'
  BY <1>1 DEF TypeInv, EngineTypes
<1>3. AgentTypes'
  <2>1. \A v \in Txns : Expected(v)' <=> Expected(v)
    BY <1>1 DEF Expected, Asked
  <2>2. \A v \in Txns, d \in Engines :
          /\ \A k : SubOK(v, d, k)' <=> SubOK(v, d, k)
          /\ \A r : MailOK(v, d, r)' <=> MailOK(v, d, r)
          /\ \A r : ReplyOK(v, d, r)' <=> ReplyOK(v, d, r)
    BY <1>1 DEF SubOK, MailOK, ReplyOK, Ended, Asked
  <2> QED BY <1>1, <2>1, <2>2 DEF TypeInv, AgentTypes
<1> QED BY <1>2, <1>3 DEF TypeInv

\* Everything that agents and Engines keep and send is what it is meant to be, and no
\* more answers arrive than a transaction waits for.
LEMMA TypesKept == Spec => []TypeInv
<1>1. Init => TypeInv
  BY InitEngineTypes, InitAgentTypes DEF TypeInv
<1>2. TypeInv /\ [Next]_vars => TypeInv'
  <2> SUFFICES ASSUME TypeInv, [Next]_vars PROVE TypeInv'
    OBVIOUS
  <2>1. CASE UNCHANGED vars
    BY <2>1, StutterTypes
  <2>2. CASE Next
    <3>1. PICK t \in Txns :
            \/ \E q \in Statements : StartStatement(t, q)
            \/ ClientCommit(t) \/ ClientRollback(t) \/ HangUp(t)
            \/ \E e \in Engines : Receive(t, e) \/ DropReply(t, e) \/ Serve(t, e)
      BY <2>2 DEF Next
    <3> QED BY <3>1, AgentStepTypes, EngineStepTypes
  <2> QED BY <2>1, <2>2
<1> QED BY <1>1, <1>2, PTL DEF Spec

\* The rows, the indices, the subtransactions and the transactions keep their types:
\* a row that is not there stays out of reach, an index entry names a row, and no
\* answer takes pendingcmd's count below zero.
THEOREM TypeCorrect == Spec => []TypeOK
<1>1. TypeInv => TypeOK
  <2> SUFFICES ASSUME TypeInv PROVE TypeOK
    OBVIOUS
  <2>1. /\ table \in [Engines -> [Rowids -> Cell]]
        /\ nextrowid \in [Engines -> Rowids \cup {0}]
        /\ unique \in [Keys -> [uur : Uurs, sub : Subs \cup {NoSub}] \cup {NoEntry}]
        /\ nonunique \in [NonuniqueFields -> SUBSET (Vals \X Uurs)]
        /\ \A e \in Engines : owner[e] \in Seq(Txns) /\ live[e] \subseteq DOMAIN owner[e]
        /\ crashed \subseteq Engines
    BY DEF TypeInv, EngineTypes, Entry
  <2>2. \A t \in Txns : /\ txn[t].phase \in {"idle", "running", "committing",
                                             "committed", "rolledback", "abandoned"}
                        /\ txn[t].wait \in Nat
                        /\ DOMAIN txn[t].staged \subseteq Uurs
    BY DEF TypeInv, AgentTypes, TxnOK
  <2> QED BY <2>1, <2>2 DEF TypeOK
<1> QED BY <1>1, TypesKept, PTL
=============================================================================
