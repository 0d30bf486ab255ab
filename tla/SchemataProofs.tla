------------------------- MODULE SchemataProofs -------------------------
(***************************************************************************)
(* Proofs about Schemata.  For clients that wait for the schema and use    *)
(* the tables they made: the copies of the schema follow the User and      *)
(* schema manager, what a client is told holds in every copy, and names    *)
(* and statements are resolved to what the manager's numbers mean.  For    *)
(* every client: types, and that no copy, name or statement has anything   *)
(* the manager has not made.                                               *)
(*                                                                         *)
(* The inductive invariant of the first part, CoreInv, speaks of two       *)
(* functions that no variable holds but every state determines: own, the   *)
(* client that made a table, and job, what the manager answered to a       *)
(* client's command.  That of the second, Honest, says of every message    *)
(* that what it states is the manager's, or that its operation no longer   *)
(* heeds it.                                                               *)
(***************************************************************************)
EXTENDS Schemata, TLAPS, FiniteSetTheorems, SequenceTheorems

-----------------------------------------------------------------------------
(* Types.                                                                  *)

Partial(S, T)  == UNION {[D -> T] : D \in SUBSET S}
SchemaCommands == {"createschema", "createtable", "addcolumn", "deletetable"}
OpId            == Clients \X Nat
AnyName        == TableNames \cup Columns \cup {NoName}

UsmRequest == {r \in [cmd : SchemaCommands, op : OpId, table : TableNames \cup Nat, column : AnyName] :
                 /\ r.cmd = "createtable" => r.table \in TableNames
                 /\ r.cmd = "addcolumn" => r.table \in Nat /\ r.column \in Columns}
ReplyMsg   == [topic : {"SCHEMAREPLY"}, op : OpId, ok : BOOLEAN, tableid : Nat, fieldid : Nat,
               name : AnyName]
RequestMsg == [topic : {"SCHEMAREQUEST"}, op : OpId, cmd : SchemaCommands, tableid : Nat,
               column : AnyName]
NameMsg    == [topic : {"TABLENAME", "FIELDNAME"}, tableid : Nat, fieldid : Nat, name : AnyName]
CompileMsg == [topic : {"COMPILE"}, table : TableNames, column : Columns]
ProcMsg    == [topic : {"PROCEDURE1", "PROCEDURE2"}, proc : Procedures]
Msg        == ReplyMsg \cup RequestMsg \cup NameMsg \cup CompileMsg \cup ProcMsg
Operation  == [cmd : SchemaCommands, state : {"usm", "tasengines"}, msgwaits : Int]
Told       == [client : Clients, cmd : SchemaCommands, ok : BOOLEAN,
               state : {"usm", "tasengines"}, tableid : Nat, fieldid : Nat]
Job        == [tableid : Nat, fieldid : Nat, name : AnyName]

Shape ==
  /\ manager \in [schema : BOOLEAN, tables : Seq(TableNames), fields : Seq(Seq(Columns))]
  /\ Len(manager.fields) = Len(manager.tables)
  /\ copy \in [Actors -> [schema : {"none", "null", "made"}, fields : Partial(Nat, Seq(AnyName))]]
  /\ names \in [Agents -> [tables : Partial(AnyName, Nat), fields : Partial(Nat \X AnyName, Nat)]]
  /\ statements \in [Agents -> Partial(TableNames \X Columns, Int \X Int)]
  /\ procedures \in [Agents -> SUBSET Procedures]
  /\ operations \in Partial(OpId, Operation)
  /\ usmMbox \in Seq(UsmRequest)
  /\ mbox \in [Actors -> Seq(Msg)]
  /\ sending \in [Agents -> Seq([to : Actors, m : Msg])]
  /\ waiting \in [Clients -> BOOLEAN]
  /\ issued \in 0 .. MaxOps
  /\ answers \in SUBSET Told
  /\ up \in BOOLEAN

-----------------------------------------------------------------------------
(* Where an operation is.                                                  *)

Agent(op)        == AgentOf[op[1]]
IsReply(m, op)   == m.topic = "SCHEMAREPLY" /\ m.op = op
IsRequest(m, op) == m.topic = "SCHEMAREQUEST" /\ m.op = op

Replies(op)   == {i \in DOMAIN mbox[Agent(op)] : IsReply(mbox[Agent(op)][i], op)}
Posted(x, op) == \E i \in DOMAIN mbox[x] : IsRequest(mbox[x][i], op)
Unsent(x, op) == \E i \in DOMAIN sending[Agent(op)] :
                   sending[Agent(op)][i].to = x /\ IsRequest(sending[Agent(op)][i].m, op)
Due(x, op)    == Posted(x, op) \/ Unsent(x, op)

\* The manager has accepted the command and its answer is still on its way.
Granted(op)  == operations[op].state = "usm" /\ \E i \in Replies(op) : mbox[Agent(op)][i].ok
Accepted(op) == operations[op].state = "tasengines" \/ Granted(op)

\* The change of op has not been made at x yet.
Lags(x, op) == Granted(op) \/ Due(x, op)

\* A client that is not waiting has no operation, and one that is has one.
OneEach ==
  /\ \A op \in DOMAIN operations : waiting[op[1]]
  /\ \A op, op2 \in DOMAIN operations : op[1] = op2[1] => op = op2
  /\ \A op \in DOMAIN operations : operations[op].cmd # "createschema" => ToldSchema

\* A request the manager has not read.
AtManager(r) ==
  /\ r.op \in DOMAIN operations
  /\ operations[r.op].state = "usm" /\ operations[r.op].cmd = r.cmd
  /\ Replies(r.op) = {}
  /\ r.cmd = "addcolumn" => r.table \in TablesOf(r.op[1])

UsmInv ==
  /\ \A i \in DOMAIN usmMbox : AtManager(usmMbox[i])
  /\ \A i, j \in DOMAIN usmMbox : i # j => usmMbox[i].op # usmMbox[j].op

\* Agents broadcast no replies.
NoReplySent ==
  \A a \in Agents : \A i \in DOMAIN sending[a] : sending[a][i].m.topic # "SCHEMAREPLY"

\* Replies go to the operation's agent; the manager gives one, that is the job.
GoodReply(x, i, m, job) ==
  /\ x = Agent(m.op) /\ m.op \in DOMAIN operations
  /\ operations[m.op].state = "usm" =>
       /\ \A j \in DOMAIN mbox[x] : IsReply(mbox[x][j], m.op) => j = i
       /\ ~m.ok => m.tableid = 0 /\ m.fieldid = 0 /\ m.name = NoName
       /\ m.ok => /\ m.tableid = job[m.op[1]].tableid /\ m.fieldid = job[m.op[1]].fieldid
                  /\ m.name = job[m.op[1]].name
  /\ operations[m.op].state = "tasengines" =>
       /\ m.ok /\ m.tableid = job[m.op[1]].tableid
       /\ operations[m.op].cmd = "addcolumn" => m.fieldid = job[m.op[1]].fieldid

RepliesOk(op, job) ==
  \A x \in Actors : \A i \in DOMAIN mbox[x] :
    IsReply(mbox[x][i], op) => GoodReply(x, i, mbox[x][i], job)

\* Requests are about the job of an operation that is with the agents and the Engines.
GoodRequest(m, job) ==
  /\ m.op \in DOMAIN operations
  /\ operations[m.op].state = "tasengines" /\ operations[m.op].cmd = m.cmd
  /\ m.tableid = job[m.op[1]].tableid /\ m.column = job[m.op[1]].name

PostedOk(op, job) ==
  \A x \in Actors : \A i \in DOMAIN mbox[x] :
    IsRequest(mbox[x][i], op) =>
      /\ GoodRequest(mbox[x][i], job)
      /\ \A j \in DOMAIN mbox[x] : IsRequest(mbox[x][j], op) => j = i

UnsentOk(op, job) ==
  \A a \in Agents : \A i \in DOMAIN sending[a] :
    IsRequest(sending[a][i].m, op) =>
      /\ GoodRequest(sending[a][i].m, job)
      /\ Agent(op) = a
      /\ ~Posted(sending[a][i].to, op)
      /\ \A j \in DOMAIN sending[a] :
           IsRequest(sending[a][j].m, op) /\ sending[a][j].to = sending[a][i].to => j = i

\* The replies that are counted are those that will come.
CountOk(op) ==
  op \in DOMAIN operations /\ operations[op].state = "tasengines" =>
    operations[op].msgwaits = Cardinality({x \in Actors : Due(x, op)}) + Cardinality(Replies(op))

OpInv(op, job) == RepliesOk(op, job) /\ PostedOk(op, job) /\ UnsentOk(op, job) /\ CountOk(op)

-----------------------------------------------------------------------------
(* What the operations have done.                                          *)

JobDone(op, own, job) ==
  LET id == job[op[1]].tableid IN
  /\ operations[op].cmd = "createschema" => manager.schema
  /\ operations[op].cmd = "createtable" =>
       /\ id \in DOMAIN manager.tables /\ own[id] = op[1]
       /\ manager.tables[id] = job[op[1]].name /\ manager.fields[id] = <<>>
  /\ operations[op].cmd = "addcolumn" =>
       /\ id \in TablesOf(op[1]) /\ id \in DOMAIN manager.fields
       /\ job[op[1]].fieldid + 1 = Len(manager.fields[id])
       /\ manager.fields[id][job[op[1]].fieldid + 1] = job[op[1]].name

\* What x has of an operation that has not got to it.
NotYet(x, op, job) ==
  LET id == job[op[1]].tableid IN
  /\ operations[op].cmd = "createschema" => copy[x].schema = "none"
  /\ operations[op].cmd = "createtable" => id \notin DOMAIN copy[x].fields
  /\ operations[op].cmd = "addcolumn" =>
       /\ id \in DOMAIN copy[x].fields
       /\ manager.fields[id] = Append(copy[x].fields[id], job[op[1]].name)

Already(x, op, job) ==
  /\ operations[op].cmd = "createschema" => copy[x].schema = "made"
  /\ operations[op].cmd = "createtable" => job[op[1]].tableid \in DOMAIN copy[x].fields

DoneOp(op, own, job) ==
  Accepted(op) =>
    /\ JobDone(op, own, job)
    /\ \A x \in Actors : /\ Lags(x, op) => NotYet(x, op, job)
                         /\ ~Lags(x, op) => Already(x, op, job)

Adding(x, op, id, job) ==
  operations[op].cmd = "addcolumn" /\ Lags(x, op) /\ job[op[1]].tableid = id

CopyInv(job) ==
  \A x \in Actors : \A id \in DOMAIN copy[x].fields :
    /\ id \in DOMAIN manager.fields
    /\ \/ copy[x].fields[id] = manager.fields[id]
       \/ \E op \in DOMAIN operations : Adding(x, op, id, job)

SchemaInv ==
  /\ up
  /\ ~manager.schema => \A x \in Actors : copy[x].schema = "none"
  /\ \A x \in Actors : copy[x].schema # "null"
  /\ \A op, op2 \in DOMAIN operations :
       /\ operations[op].cmd = "createschema" /\ Accepted(op)
       /\ operations[op2].cmd = "createschema" /\ Accepted(op2)
       => op = op2
  /\ \A i, j \in DOMAIN manager.tables : manager.tables[i] = manager.tables[j] => i = j

AnswersInv(own) ==
  /\ AnswersAreTrue
  /\ \A an \in answers : an.ok /\ an.cmd = "createtable" => own[an.tableid] = an.client

-----------------------------------------------------------------------------
Operational(job) == /\ OneEach /\ UsmInv /\ NoReplySent
                    /\ \A op \in OpId : OpInv(op, job)
Done(own, job)   == /\ \A op \in DOMAIN operations : DoneOp(op, own, job)
                    /\ CopyInv(job) /\ SchemaInv /\ AnswersInv(own)

-----------------------------------------------------------------------------
(* Functions with a domain that grows and shrinks.                         *)

LEMMA PartialFun ==
  ASSUME NEW S, NEW T, NEW f \in Partial(S, T)
  PROVE  /\ DOMAIN f \subseteq S /\ \A z \in DOMAIN f : f[z] \in T
         /\ f = [z \in DOMAIN f |-> f[z]]
  BY DEF Partial

LEMMA FunPartial ==
  ASSUME NEW S, NEW T, NEW D \in SUBSET S, NEW f \in [D -> T]
  PROVE  f \in Partial(S, T)
  BY DEF Partial

LEMMA WithFun ==
  ASSUME NEW S, NEW T, NEW f \in Partial(S, T), NEW x \in S, NEW y \in T
  PROVE  With(f, x, y) \in Partial(S, T)
<1>1. With(f, x, y) \in [DOMAIN f \cup {x} -> T]
  BY PartialFun DEF With
<1>2. DOMAIN f \cup {x} \in SUBSET S
  BY PartialFun
<1>3. QED
  BY <1>1, <1>2, FunPartial

\* g is f with y at x.
Extended(g, f, x, y) ==
  /\ DOMAIN g = DOMAIN f \cup {x} /\ g[x] = y
  /\ \A z \in DOMAIN f : z # x => g[z] = f[z]

LEMMA WithDom ==
  ASSUME NEW f, NEW x, NEW y
  PROVE  Extended(With(f, x, y), f, x, y)
  BY DEF With, Extended

LEMMA WithoutFun ==
  ASSUME NEW S, NEW T, NEW f \in Partial(S, T), NEW x
  PROVE  /\ Without(f, x) \in Partial(S, T)
         /\ DOMAIN Without(f, x) = DOMAIN f \ {x}
         /\ \A z \in DOMAIN f : z # x => Without(f, x)[z] = f[z]
<1>1. Without(f, x) \in [DOMAIN f \ {x} -> T]
  BY PartialFun DEF Without, Restrict
<1>2. DOMAIN f \ {x} \in SUBSET S
  BY PartialFun
<1>3. Without(f, x) \in Partial(S, T)
  BY <1>1, <1>2, FunPartial
<1>4. QED
  BY <1>3 DEF Without, Restrict

LEMMA ChangedFun ==
  ASSUME NEW S, NEW T, NEW f \in Partial(S, T), NEW x \in DOMAIN f, NEW y \in T
  PROVE  /\ [f EXCEPT ![x] = y] \in Partial(S, T)
         /\ DOMAIN [f EXCEPT ![x] = y] = DOMAIN f
         /\ [f EXCEPT ![x] = y][x] = y
         /\ \A z \in DOMAIN f : z # x => [f EXCEPT ![x] = y][z] = f[z]
<1>1. f \in [DOMAIN f -> T] /\ DOMAIN f \in SUBSET S
  BY PartialFun
<1>2. [f EXCEPT ![x] = y] \in [DOMAIN f -> T]
  BY <1>1
<1>3. [f EXCEPT ![x] = y] \in Partial(S, T)
  BY <1>1, <1>2, FunPartial
<1>4. QED
  BY <1>1, <1>2, <1>3

LEMMA EmptyFun ==
  ASSUME NEW S, NEW T
  PROVE  Nothing \in Partial(S, T) /\ DOMAIN Nothing = {}
<1>1. Nothing \in [{} -> T]
  BY DEF Nothing
<1>2. QED
  BY <1>1, FunPartial DEF Nothing

-----------------------------------------------------------------------------
(* Messages.                                                               *)

LEMMA Topics ==
  ASSUME NEW m \in Msg
  PROVE  /\ m.topic = "SCHEMAREPLY" => m \in ReplyMsg
         /\ m.topic = "SCHEMAREQUEST" => m \in RequestMsg
         /\ m.topic \in {"TABLENAME", "FIELDNAME"} => m \in NameMsg
         /\ m.topic = "COMPILE" => m \in CompileMsg
         /\ m.topic \in {"PROCEDURE1", "PROCEDURE2"} => m \in ProcMsg
         /\ m.topic \in {"SCHEMAREPLY", "SCHEMAREQUEST", "TABLENAME", "FIELDNAME", "COMPILE",
                         "PROCEDURE1", "PROCEDURE2"}
  BY DEF Msg, ReplyMsg, RequestMsg, NameMsg, CompileMsg, ProcMsg

LEMMA IsMsg ==
  ReplyMsg \subseteq Msg /\ RequestMsg \subseteq Msg /\ NameMsg \subseteq Msg
  /\ CompileMsg \subseteq Msg /\ ProcMsg \subseteq Msg
  BY DEF Msg

-----------------------------------------------------------------------------
(* What toAllOfType sends.                                                 *)

LEMMA SeqOfSet ==
  ASSUME NEW S, IsFiniteSet(S)
  PROVE  /\ Cardinality(S) \in Nat
         /\ SetToSeq(S) \in [1 .. Cardinality(S) -> S]
         /\ \A i, j \in 1 .. Cardinality(S) : SetToSeq(S)[i] = SetToSeq(S)[j] => i = j
         /\ \A x \in S : \E i \in 1 .. Cardinality(S) : SetToSeq(S)[i] = x
<1>1. Cardinality(S) \in Nat /\ ExistsBijection(1 .. Cardinality(S), S)
  BY FS_CardinalityType
<1>2. PICK g \in Bijection(1 .. Cardinality(S), S) : TRUE
  BY <1>1 DEF ExistsBijection
<1>3. g \in [1 .. Cardinality(S) -> S] /\ IsInjective(g)
  BY <1>2 DEF Bijection, Injection
<1>4. SetToSeq(S) \in [1 .. Cardinality(S) -> S] /\ IsInjective(SetToSeq(S))
  BY <1>3, Zenon DEF SetToSeq
<1>5. SetToSeq(S) \in Injection(1 .. Cardinality(S), S)
  BY <1>4 DEF Injection
<1>6. Cardinality(1 .. Cardinality(S)) = Cardinality(S)
  BY <1>1, FS_CountingElements, FS_Interval
<1>7. SetToSeq(S) \in Surjection(1 .. Cardinality(S), S)
  BY <1>5, <1>6, FS_Injection
<1>8. QED
  BY <1>1, <1>4, <1>7 DEF Surjection, IsInjective

LEMMA SameInterval ==
  ASSUME NEW a \in Nat, NEW b \in Nat, 1 .. a = 1 .. b
  PROVE  a = b
<1>1. a \in 1 .. a => a \in 1 .. b
  OBVIOUS
<1>2. b \in 1 .. b => b \in 1 .. a
  OBVIOUS
<1>3. QED
  BY <1>1, <1>2

\* Every member of S is sent m once by s.
SentTo(S, m, s) ==
  /\ Len(s) \in Nat /\ DOMAIN s = 1 .. Len(s)
  /\ s \in Seq([to : S, m : {m}])
  /\ \A i \in 1 .. Len(s) : s[i].to \in S /\ s[i].m = m
  /\ \A i, j \in 1 .. Len(s) : s[i].to = s[j].to => i = j
  /\ \A x \in S : \E i \in 1 .. Len(s) : s[i].to = x

LEMMA ToAllSeq ==
  ASSUME NEW S, IsFiniteSet(S), NEW m
  PROVE  SentTo(S, m, ToAll(S, m))
<1> DEFINE n == Cardinality(S)
           f == SetToSeq(S)
           s == ToAll(S, m)
<1>1. n \in Nat /\ f \in [1 .. n -> S]
  BY SeqOfSet
<1>2. s = [i \in 1 .. n |-> [to |-> f[i], m |-> m]]
  BY <1>1 DEF ToAll
<1> HIDE DEF f, n, s
<1>3. s \in [1 .. n -> [to : S, m : {m}]]
  BY <1>1, <1>2
<1>4. s \in Seq([to : S, m : {m}]) /\ Len(s) = n /\ DOMAIN s = 1 .. n
  <2>0. s \in UNION {[1 .. k -> [to : S, m : {m}]] : k \in Nat}
    BY <1>1, <1>3
  <2>1. s \in Seq([to : S, m : {m}])
    BY <2>0, SeqDef, Zenon
  <2>2. DOMAIN s = 1 .. Len(s) /\ Len(s) \in Nat /\ DOMAIN s = 1 .. n
    BY <2>1, <1>3, LenProperties
  <2>3. Len(s) = n
    BY <2>2, <1>1, SameInterval
  <2>4. QED
    BY <2>1, <2>2, <2>3
<1>5. \A i \in 1 .. n : s[i].to = f[i] /\ s[i].m = m
  BY <1>2
<1>6. \A i, j \in 1 .. n : f[i] = f[j] => i = j
  BY SeqOfSet DEF f, n
<1>7. \A x \in S : \E i \in 1 .. n : f[i] = x
  BY SeqOfSet DEF f, n
<1>8. s \in Seq([to : S, m : {m}])
  BY <1>4
<1>9. \A i \in 1 .. n : s[i].to \in S /\ s[i].m = m
  BY <1>1, <1>5
<1>10. \A i, j \in 1 .. n : s[i].to = s[j].to => i = j
  BY <1>5, <1>6
<1>11. \A x \in S : \E i \in 1 .. n : s[i].to = x
  BY <1>5, <1>7
<1>12. Len(s) = n /\ Len(s) \in Nat /\ DOMAIN s = 1 .. Len(s)
  BY <1>1, <1>4
<1>13. SentTo(S, m, s)
  BY <1>8, <1>9, <1>10, <1>11, <1>12 DEF SentTo
<1>14. QED
  BY <1>13 DEF s

\* The message of the second round.
NameOf(m, cmd) == [topic |-> IF cmd = "createtable" THEN "TABLENAME" ELSE "FIELDNAME",
                   tableid |-> m.tableid, fieldid |-> m.fieldid, name |-> m.name]

Named(cmd) == cmd \in {"createtable", "addcolumn"}

LEMMA ActorsFinite == IsFiniteSet(Agents) /\ IsFiniteSet(Engines) /\ IsFiniteSet(Actors)
  BY SchemataAssumption, FS_Union DEF Actors

LEMMA NamesTooSeq ==
  ASSUME NEW m, NEW cmd
  PROVE  LET q == NameOf(m, cmd)
             s == NamesToo(m, cmd) IN
         /\ s \in Seq([to : Agents, m : {q}])
         /\ ~Named(cmd) => s = <<>>
         /\ \A i \in DOMAIN s : s[i].m = q /\ s[i].to \in Agents
         /\ Named(cmd) => \A x \in Agents : \E i \in DOMAIN s : s[i].to = x
<1> DEFINE q == NameOf(m, cmd)
           s == NamesToo(m, cmd)
<1>1. CASE Named(cmd)
  <2>1. s = ToAll(Agents, q)
    BY <1>1 DEF NamesToo, NameOf, Named
  <2> HIDE DEF s
  <2>2. SentTo(Agents, q, s)
    BY <2>1, ToAllSeq, ActorsFinite
  <2>3. QED
    BY <1>1, <2>2 DEF s, SentTo
<1>2. CASE ~Named(cmd)
  <2>1. s = <<>>
    BY <1>2 DEF NamesToo, Named
  <2>2. <<>> \in Seq([to : Agents, m : {q}]) /\ DOMAIN <<>> = {}
    OBVIOUS
  <2>3. QED
    BY <1>2, <2>1, <2>2
<1>3. QED
  BY <1>1, <1>2

LEMMA ThreeParts ==
  ASSUME NEW S, NEW s1 \in Seq(S), NEW s2 \in Seq(S), NEW s3 \in Seq(S),
         NEW s, s = s1 \o s2 \o s3
  PROVE  /\ s \in Seq(S)
         /\ Len(s) = Len(s1) + Len(s2) + Len(s3)
         /\ \A i \in 1 .. Len(s1) : s[i] = s1[i]
         /\ \A i \in 1 .. Len(s2) : s[Len(s1) + i] = s2[i]
         /\ \A i \in 1 .. Len(s3) : s[Len(s1) + Len(s2) + i] = s3[i]
         /\ \A i \in 1 .. Len(s) :
              \/ i \in 1 .. Len(s1)
              \/ i - Len(s1) \in 1 .. Len(s2)
              \/ i - Len(s1) - Len(s2) \in 1 .. Len(s3)
  OBVIOUS

Broadcast(s, p, q, cmd) ==
  /\ s \in Seq([to : Actors, m : {p, q}])
  /\ \A i \in DOMAIN s : s[i].m = q => Named(cmd) /\ s[i].to \in Agents
  /\ \A x \in Actors : \E i \in DOMAIN s : s[i].to = x /\ s[i].m = p
  /\ \A i, j \in DOMAIN s : s[i].m = p /\ s[j].m = p /\ s[i].to = s[j].to => i = j
  /\ Named(cmd) => \A x \in Agents : \E i \in DOMAIN s : s[i].to = x /\ s[i].m = q
  /\ \A i, j \in DOMAIN s : s[i].m = q /\ s[j].m = p => j < i

LEMMA PassOnSeq ==
  ASSUME NEW m, NEW cmd
  PROVE  Broadcast(PassOn(m, cmd), Passes(m, cmd), NameOf(m, cmd), cmd)
<1> DEFINE p == Passes(m, cmd)
           q == NameOf(m, cmd)
           M == [to : Actors, m : {p, q}]
           s1 == ToAll(Agents, p)
           s2 == ToAll(Engines, p)
           s3 == NamesToo(m, cmd)
           s == PassOn(m, cmd)
<1>0. p # q
  <2>1. p.topic = "SCHEMAREQUEST"
    BY DEF Passes
  <2>2. q.topic # "SCHEMAREQUEST"
    BY DEF NameOf
  <2>3. QED
    BY <2>1, <2>2
<1>1. /\ s1 \in Seq(M) /\ DOMAIN s1 = 1 .. Len(s1) /\ Len(s1) \in Nat
      /\ \A i \in 1 .. Len(s1) : s1[i].to \in Agents /\ s1[i].m = p
      /\ \A i, j \in 1 .. Len(s1) : s1[i].to = s1[j].to => i = j
      /\ \A x \in Agents : \E i \in 1 .. Len(s1) : s1[i].to = x
  <2>0. SentTo(Agents, p, s1)
    BY ToAllSeq, ActorsFinite
  <2> HIDE DEF s1, p, q
  <2>1. s1 \in Seq([to : Agents, m : {p}]) /\ [to : Agents, m : {p}] \subseteq M
    BY <2>0 DEF Actors, SentTo
  <2>2. s1 \in Seq(M)
    BY <2>1, SeqMonotonic
  <2>3. QED
    BY <2>0, <2>2 DEF SentTo
<1>2. /\ s2 \in Seq(M) /\ DOMAIN s2 = 1 .. Len(s2) /\ Len(s2) \in Nat
      /\ \A i \in 1 .. Len(s2) : s2[i].to \in Engines /\ s2[i].m = p
      /\ \A i, j \in 1 .. Len(s2) : s2[i].to = s2[j].to => i = j
      /\ \A x \in Engines : \E i \in 1 .. Len(s2) : s2[i].to = x
  <2>0. SentTo(Engines, p, s2)
    BY ToAllSeq, ActorsFinite
  <2> HIDE DEF s2, p, q
  <2>1. s2 \in Seq([to : Engines, m : {p}]) /\ [to : Engines, m : {p}] \subseteq M
    BY <2>0 DEF Actors, SentTo
  <2>2. s2 \in Seq(M)
    BY <2>1, SeqMonotonic
  <2>3. QED
    BY <2>0, <2>2 DEF SentTo
<1>3. /\ s3 \in Seq(M) /\ DOMAIN s3 = 1 .. Len(s3) /\ Len(s3) \in Nat
      /\ \A i \in 1 .. Len(s3) : s3[i].to \in Agents /\ s3[i].m = q /\ Named(cmd)
      /\ Named(cmd) => \A x \in Agents : \E i \in 1 .. Len(s3) : s3[i].to = x
  <2>1. s3 \in Seq([to : Agents, m : {q}]) /\ [to : Agents, m : {q}] \subseteq M
    BY NamesTooSeq DEF Actors
  <2>2. s3 \in Seq(M)
    BY <2>1, SeqMonotonic
  <2>3. DOMAIN s3 = 1 .. Len(s3) /\ Len(s3) \in Nat
    BY <2>2
  <2>4. ~Named(cmd) => s3 = <<>>
    BY NamesTooSeq
  <2>5. ~Named(cmd) => Len(s3) = 0
    BY <2>4
  <2>6. /\ \A i \in DOMAIN s3 : s3[i].m = q /\ s3[i].to \in Agents
        /\ Named(cmd) => \A x \in Agents : \E i \in DOMAIN s3 : s3[i].to = x
    BY NamesTooSeq
  <2> HIDE DEF s3, q
  <2>7. QED
    BY <2>2, <2>3, <2>5, <2>6
<1>4. s = s1 \o s2 \o s3
  BY DEF PassOn
<1>5. \A x \in Actors : x \in Agents \/ x \in Engines
  BY DEF Actors
<1>6. Agents \cap Engines = {}
  BY SchemataAssumption
<1> HIDE DEF p, q, s1, s2, s3, s
<1>7. /\ s \in Seq(M) /\ Len(s) = Len(s1) + Len(s2) + Len(s3)
      /\ \A i \in 1 .. Len(s1) : s[i] = s1[i]
      /\ \A i \in 1 .. Len(s2) : s[Len(s1) + i] = s2[i]
      /\ \A i \in 1 .. Len(s3) : s[Len(s1) + Len(s2) + i] = s3[i]
      /\ \A i \in 1 .. Len(s) : \/ i \in 1 .. Len(s1)
                                \/ i - Len(s1) \in 1 .. Len(s2)
                                \/ i - Len(s1) - Len(s2) \in 1 .. Len(s3)
  BY ONLY <1>1, <1>2, <1>3, <1>4, ThreeParts
<1>8. DOMAIN s = 1 .. Len(s) /\ Len(s) \in Nat
  BY <1>7
<1> DEFINE First(i)  == i \in 1 .. Len(s1) /\ s[i].m = p /\ s[i].to \in Agents
           Second(i) == i - Len(s1) \in 1 .. Len(s2) /\ s[i].m = p /\ s[i].to \in Engines
                        /\ s[i] = s2[i - Len(s1)]
           Third(i)  == i - Len(s1) - Len(s2) \in 1 .. Len(s3) /\ s[i].m = q
                        /\ s[i].to \in Agents /\ Named(cmd)
<1>9. \A i \in 1 .. Len(s) : First(i) \/ Second(i) \/ Third(i)
  <2> SUFFICES ASSUME NEW i \in 1 .. Len(s) PROVE First(i) \/ Second(i) \/ Third(i)
    OBVIOUS
  <2>1. CASE i \in 1 .. Len(s1)
    BY <2>1, <1>1, <1>7
  <2>2. CASE i - Len(s1) \in 1 .. Len(s2)
    <3>1. s[Len(s1) + (i - Len(s1))] = s2[i - Len(s1)] /\ Len(s1) + (i - Len(s1)) = i
      BY <2>2, <1>7, <1>1, <1>8
    <3>2. QED
      BY <3>1, <2>2, <1>2
  <2>3. CASE i - Len(s1) - Len(s2) \in 1 .. Len(s3)
    <3> DEFINE k == i - Len(s1) - Len(s2)
    <3>1. s[Len(s1) + Len(s2) + k] = s3[k] /\ Len(s1) + Len(s2) + k = i
      BY <2>3, <1>7, <1>1, <1>2, <1>8
    <3>2. QED
      BY <3>1, <2>3, <1>3
  <2>4. QED
    BY <2>1, <2>2, <2>3, <1>7
<1>10. \A i \in DOMAIN s : s[i].m = q => Named(cmd) /\ s[i].to \in Agents
  BY <1>0, <1>8, <1>9
<1>11. \A x \in Actors : \E i \in DOMAIN s : s[i].to = x /\ s[i].m = p
  <2>1. ASSUME NEW x \in Agents PROVE \E i \in DOMAIN s : s[i].to = x /\ s[i].m = p
    <3>1. PICK i \in 1 .. Len(s1) : s1[i].to = x
      BY <1>1
    <3>2. i \in DOMAIN s
      BY <1>1, <1>2, <1>3, <1>7, <1>8
    <3>3. QED
      BY <3>1, <3>2, <1>1, <1>7
  <2>2. ASSUME NEW x \in Engines PROVE \E i \in DOMAIN s : s[i].to = x /\ s[i].m = p
    <3>1. PICK i \in 1 .. Len(s2) : s2[i].to = x
      BY <1>2
    <3>2. Len(s1) + i \in DOMAIN s
      BY <1>1, <1>2, <1>3, <1>7, <1>8
    <3>3. QED
      BY <3>1, <3>2, <1>2, <1>7
  <2>3. QED
    BY <2>1, <2>2, <1>5
<1>12. \A i, j \in DOMAIN s : s[i].m = p /\ s[j].m = p /\ s[i].to = s[j].to => i = j
  <2> SUFFICES ASSUME NEW i \in 1 .. Len(s), NEW j \in 1 .. Len(s),
                      s[i].m = p, s[j].m = p, s[i].to = s[j].to
               PROVE  i = j
    BY <1>8
  <2>1. (First(i) \/ Second(i)) /\ (First(j) \/ Second(j))
    BY <1>0, <1>9
  <2>2. CASE First(i) /\ First(j)
    <3>1. s[i] = s1[i] /\ s[j] = s1[j]
      BY <2>2, <1>7
    <3>2. QED
      BY <2>2, <3>1, <1>1
  <2>3. CASE Second(i) /\ Second(j)
    <3>1. s2[i - Len(s1)].to = s2[j - Len(s1)].to
      BY <2>3
    <3>2. i - Len(s1) = j - Len(s1)
      BY <2>3, <3>1, <1>2
    <3>3. QED
      BY <3>2, <1>1
  <2>4. CASE First(i) /\ Second(j)
    BY <2>4, <1>6
  <2>5. CASE Second(i) /\ First(j)
    BY <2>5, <1>6
  <2>6. QED
    BY <2>1, <2>2, <2>3, <2>4, <2>5
<1>13. Named(cmd) => \A x \in Agents : \E i \in DOMAIN s : s[i].to = x /\ s[i].m = q
  <2> SUFFICES ASSUME Named(cmd), NEW x \in Agents
               PROVE  \E i \in DOMAIN s : s[i].to = x /\ s[i].m = q
    OBVIOUS
  <2>1. PICK i \in 1 .. Len(s3) : s3[i].to = x
    BY <1>3
  <2>2. Len(s1) + Len(s2) + i \in DOMAIN s
    BY <1>1, <1>2, <1>3, <1>7, <1>8
  <2>3. QED
    BY <2>1, <2>2, <1>3, <1>7
<1>14. \A i, j \in DOMAIN s : s[i].m = q /\ s[j].m = p => j < i
  <2> SUFFICES ASSUME NEW i \in 1 .. Len(s), NEW j \in 1 .. Len(s), s[i].m = q, s[j].m = p
               PROVE  j < i
    BY <1>8
  <2>1. Third(i) /\ (First(j) \/ Second(j))
    BY <1>0, <1>9
  <2>2. QED
    BY <2>1, <1>1, <1>2, <1>3
<1>15. QED
  BY <1>7, <1>10, <1>11, <1>12, <1>13, <1>14 DEF Broadcast, p, q, s

-----------------------------------------------------------------------------
(* Every variable keeps its type.                                          *)

LEMMA ShapeInit == Init => Shape
<1> SUFFICES ASSUME Init PROVE Shape
  OBVIOUS
<1>1. /\ manager \in [schema : BOOLEAN, tables : Seq(TableNames), fields : Seq(Seq(Columns))]
      /\ Len(manager.fields) = Len(manager.tables)
  BY DEF Init
<1>2. copy \in [Actors -> [schema : {"none", "null", "made"}, fields : Partial(Nat, Seq(AnyName))]]
  BY EmptyFun DEF Init
<1>3. names \in [Agents -> [tables : Partial(AnyName, Nat), fields : Partial(Nat \X AnyName, Nat)]]
  BY EmptyFun DEF Init
<1>4. statements \in [Agents -> Partial(TableNames \X Columns, Int \X Int)]
  BY EmptyFun DEF Init
<1>5. operations \in Partial(OpId, Operation)
  BY EmptyFun DEF Init
<1>6. <<>> \in Seq(Msg) /\ <<>> \in Seq([to : Actors, m : Msg]) /\ <<>> \in Seq(UsmRequest)
  BY EmptySeq
<1>7. usmMbox \in Seq(UsmRequest) /\ mbox \in [Actors -> Seq(Msg)]
      /\ sending \in [Agents -> Seq([to : Actors, m : Msg])]
  BY <1>6 DEF Init
<1>8. /\ procedures \in [Agents -> SUBSET Procedures]
      /\ waiting \in [Clients -> BOOLEAN] /\ issued \in 0 .. MaxOps
      /\ answers \in SUBSET Told /\ up \in BOOLEAN
  <2>1. MaxOps \in Nat
    BY SchemataAssumption
  <2>2. issued = 0 /\ up = TRUE /\ answers = {} /\ waiting = [c \in Clients |-> FALSE]
        /\ procedures = [a \in Agents |-> {}]
    BY DEF Init
  <2>3. QED
    BY <2>1, <2>2
<1>9. QED
  BY <1>1, <1>2, <1>3, <1>4, <1>5, <1>7, <1>8 DEF Shape

LEMMA ToAllType ==
  ASSUME NEW S \in SUBSET Actors, IsFiniteSet(S), NEW m \in Msg
  PROVE  ToAll(S, m) \in Seq([to : Actors, m : Msg])
<1> DEFINE M == [to : S, m : {m}]
           N == [to : Actors, m : Msg]
<1>1. ToAll(S, m) \in Seq(M)
  BY ToAllSeq DEF SentTo
<1>2. M \subseteq N
  OBVIOUS
<1> HIDE DEF M, N
<1>3. ToAll(S, m) \in Seq(N)
  BY <1>1, <1>2, SeqMonotonic
<1>4. QED
  BY <1>3 DEF N

LEMMA PassOnType ==
  ASSUME NEW m \in ReplyMsg, NEW cmd \in SchemaCommands
  PROVE  /\ Passes(m, cmd) \in RequestMsg /\ NameOf(m, cmd) \in NameMsg
         /\ PassOn(m, cmd) \in Seq([to : Actors, m : Msg])
         /\ NamesToo(m, cmd) \in Seq([to : Actors, m : Msg])
<1>1. Passes(m, cmd) \in RequestMsg
  BY DEF Passes, RequestMsg, ReplyMsg
<1>2. NameOf(m, cmd) \in NameMsg
  BY DEF NameOf, NameMsg, ReplyMsg
<1>3. Passes(m, cmd) \in Msg /\ NameOf(m, cmd) \in Msg
  BY <1>1, <1>2, IsMsg
<1> DEFINE M1 == [to : Actors, m : {Passes(m, cmd), NameOf(m, cmd)}]
           M2 == [to : Agents, m : {NameOf(m, cmd)}]
           N  == [to : Actors, m : Msg]
<1>4. PassOn(m, cmd) \in Seq(M1)
  BY PassOnSeq DEF Broadcast
<1>5. NamesToo(m, cmd) \in Seq(M2)
  BY NamesTooSeq
<1>6. M1 \subseteq N /\ M2 \subseteq N
  BY <1>3 DEF Actors
<1> HIDE DEF M1, M2, N
<1>7. PassOn(m, cmd) \in Seq(N) /\ NamesToo(m, cmd) \in Seq(N)
  BY <1>4, <1>5, <1>6, SeqMonotonic
<1>8. QED
  BY <1>1, <1>2, <1>7 DEF N

LEMMA AgentIn ==
  ASSUME NEW op \in OpId
  PROVE  op[1] \in Clients /\ Agent(op) \in Agents /\ Agent(op) \in Actors
  BY SchemataAssumption DEF OpId, Agent, Actors

LEMMA SentOne ==
  ASSUME Shape, NEW c, NEW cmd, Sends(c, cmd)
  PROVE  issued' \in 0 .. MaxOps /\ issued' \in Nat /\ issued' = issued + 1
<1>1. issued < MaxOps /\ issued' = issued + 1
  BY DEF Sends
<1>2. MaxOps \in Nat /\ issued \in 0 .. MaxOps
  BY SchemataAssumption DEF Shape
<1>3. QED
  BY <1>1, <1>2

LEMMA ShapeStart ==
  ASSUME Shape, NEW c \in Clients, NEW cmd \in SchemaCommands, NEW table \in TableNames \cup Nat,
         NEW column \in AnyName, Start(c, cmd, table, column),
         cmd = "createtable" => table \in TableNames,
         cmd = "addcolumn" => table \in Nat /\ column \in Columns
  PROVE  Shape'
<1> DEFINE op == <<c, issued'>>
           o == [cmd |-> cmd, state |-> "usm", msgwaits |-> 0]
           r == [cmd |-> cmd, op |-> op, table |-> table, column |-> column]
<1>1. issued' \in 0 .. MaxOps /\ issued' \in Nat
  BY SentOne DEF Start
<1>2. op \in OpId /\ o \in Operation
  BY <1>1 DEF OpId, Operation
<1>3. r \in UsmRequest
  BY <1>2 DEF UsmRequest
<1>4. operations' = With(operations, op, o) /\ usmMbox' = Append(usmMbox, r)
  BY DEF Start
<1> HIDE DEF op, o, r
<1>5. operations' \in Partial(OpId, Operation)
  BY <1>2, <1>4, WithFun DEF Shape
<1>6. usmMbox' \in Seq(UsmRequest)
  BY <1>3, <1>4 DEF Shape
<1>7. waiting' \in [Clients -> BOOLEAN]
  BY DEF Start, Shape
<1>8. UNCHANGED <<manager, copy, names, statements, procedures, mbox, sending, answers, up>>
  BY DEF Start, managerVars, copyVars
<1>9. QED
  BY <1>1, <1>5, <1>6, <1>7, <1>8 DEF Shape

LEMMA MailType ==
  ASSUME Shape, NEW x \in Actors, NEW m \in Msg
  PROVE  /\ [mbox EXCEPT ![x] = Append(@, m)] \in [Actors -> Seq(Msg)]
  BY DEF Shape

LEMMA HeadType ==
  ASSUME Shape, NEW x \in Actors, mbox[x] # <<>>
  PROVE  /\ Head(mbox[x]) \in Msg
         /\ [mbox EXCEPT ![x] = Tail(@)] \in [Actors -> Seq(Msg)]
  BY DEF Shape

LEMMA ReplyType ==
  ASSUME Shape, NEW r \in UsmRequest, NEW ok \in BOOLEAN, NEW id \in Nat, NEW fid \in Nat,
         NEW name \in AnyName, Reply(r, ok, id, fid, name)
  PROVE  mbox' \in [Actors -> Seq(Msg)]
<1> DEFINE m == [topic |-> "SCHEMAREPLY", op |-> r.op, ok |-> ok,
                 tableid |-> id, fieldid |-> fid, name |-> name]
<1>1. r.op \in OpId
  BY DEF UsmRequest
<1>2. m \in ReplyMsg
  BY <1>1 DEF ReplyMsg
<1>3. m \in Msg /\ Agent(r.op) \in Actors
  BY <1>1, <1>2, IsMsg, AgentIn
<1>4. mbox' = [mbox EXCEPT ![Agent(r.op)] = Append(@, m)]
  BY DEF Reply, Agent
<1> HIDE DEF m
<1>5. QED
  BY <1>3, <1>4, MailType

ManagerType == [schema : BOOLEAN, tables : Seq(TableNames), fields : Seq(Seq(Columns))]

LEMMA ShapeManager ==
  ASSUME Shape, UserSchemaMgr
  PROVE  Shape'
<1> DEFINE r == Head(usmMbox)
<1>1. /\ usmMbox # <<>> /\ usmMbox' = Tail(usmMbox)
      /\ UNCHANGED <<copy, names, statements, procedures, operations, sending, waiting, issued,
                     answers, up>>
  BY DEF UserSchemaMgr, copyVars
<1>2. r \in UsmRequest /\ usmMbox' \in Seq(UsmRequest)
  BY <1>1 DEF Shape
<1>3. manager \in ManagerType /\ Len(manager.fields) = Len(manager.tables)
  BY DEF Shape, ManagerType
<1>4. 0 \in Nat /\ NoName \in AnyName
  BY DEF AnyName
<1>5. /\ mbox' \in [Actors -> Seq(Msg)]
      /\ manager' \in ManagerType /\ Len(manager'.fields) = Len(manager'.tables)
  <2>1. CASE \E ok \in BOOLEAN : Reply(r, ok, 0, 0, NoName) /\ manager' = manager
    BY <2>1, <1>2, <1>3, <1>4, ReplyType
  <2>2. CASE r.cmd = "createschema" /\ createschema(r)
    <3>1. CASE Refuse(r)
      BY <3>1, <2>1 DEF Refuse
    <3>2. CASE manager' = [manager EXCEPT !.schema = TRUE] /\ Reply(r, TRUE, 0, 0, NoName)
      <4>1. manager' \in ManagerType /\ manager'.tables = manager.tables
            /\ manager'.fields = manager.fields
        BY <3>2, <1>3 DEF ManagerType
      <4>2. QED
        BY <3>2, <4>1, <1>2, <1>3, <1>4, ReplyType
    <3>3. QED
      BY <2>2, <3>1, <3>2 DEF createschema
  <2>3. CASE r.cmd = "createtable" /\ createtable(r)
    <3>1. CASE Refuse(r)
      BY <3>1, <2>1 DEF Refuse
    <3>2. CASE /\ manager' = [manager EXCEPT !.tables = Append(@, r.table), !.fields = Append(@, <<>>)]
               /\ Reply(r, TRUE, Len(manager'.tables), 0, r.table)
      <4>1. r.table \in TableNames /\ r.table \in AnyName
        BY <2>3, <1>2 DEF UsmRequest, AnyName
      <4>2. manager.tables \in Seq(TableNames) /\ manager.fields \in Seq(Seq(Columns))
            /\ manager.schema \in BOOLEAN
        BY <1>3 DEF ManagerType
      <4>3. manager' = [schema |-> manager.schema, tables |-> Append(manager.tables, r.table),
                        fields |-> Append(manager.fields, <<>>)]
        BY <3>2, <1>3 DEF ManagerType
      <4>4. <<>> \in Seq(Columns)
        BY EmptySeq
      <4>5. /\ Append(manager.tables, r.table) \in Seq(TableNames)
            /\ Append(manager.fields, <<>>) \in Seq(Seq(Columns))
            /\ Len(Append(manager.tables, r.table)) = Len(manager.tables) + 1
            /\ Len(Append(manager.fields, <<>>)) = Len(manager.fields) + 1
        BY <4>1, <4>2, <4>4, AppendProperties
      <4>6. manager' \in ManagerType /\ Len(manager'.fields) = Len(manager'.tables)
            /\ Len(manager'.tables) \in Nat
        BY <4>2, <4>3, <4>5, <1>3 DEF ManagerType
      <4>7. QED
        BY <3>2, <4>1, <4>6, <1>2, <1>4, ReplyType
    <3>3. QED
      BY <2>3, <3>1, <3>2 DEF createtable
  <2>4. CASE r.cmd = "addcolumn" /\ addcolumn(r)
    <3>1. CASE Refuse(r)
      BY <3>1, <2>1 DEF Refuse
    <3>2. CASE /\ r.table \in DOMAIN manager.fields
               /\ manager' = [manager EXCEPT !.fields[r.table] = Append(@, r.column)]
               /\ Reply(r, TRUE, r.table, Len(manager.fields[r.table]), r.column)
      <4>1. r.table \in Nat /\ r.column \in Columns /\ r.column \in AnyName
        BY <2>4, <1>2 DEF UsmRequest, AnyName
      <4>2. manager.tables \in Seq(TableNames) /\ manager.fields \in Seq(Seq(Columns))
            /\ manager.schema \in BOOLEAN
        BY <1>3 DEF ManagerType
      <4> DEFINE fs == [manager.fields EXCEPT ![r.table] = Append(@, r.column)]
      <4>3. manager' = [schema |-> manager.schema, tables |-> manager.tables, fields |-> fs]
        BY <3>2, <1>3 DEF ManagerType
      <4>4. manager.fields[r.table] \in Seq(Columns)
        BY <3>2, <4>2
      <4>5. Append(manager.fields[r.table], r.column) \in Seq(Columns)
            /\ Len(manager.fields[r.table]) \in Nat
        BY <4>1, <4>4
      <4>6. fs \in Seq(Seq(Columns)) /\ Len(fs) = Len(manager.fields)
        BY <4>2, <4>5, <3>2, ExceptSeq
      <4> HIDE DEF fs
      <4>7. manager' \in ManagerType /\ Len(manager'.fields) = Len(manager'.tables)
        BY <4>2, <4>3, <4>6, <1>3 DEF ManagerType
      <4>8. QED
        BY <3>2, <4>1, <4>5, <4>7, <1>2, ReplyType
    <3>3. QED
      BY <2>4, <3>1, <3>2 DEF addcolumn
  <2>5. CASE r.cmd = "deletetable" /\ deletetable(r)
    BY <2>5, <2>1 DEF deletetable
  <2>6. QED
    BY <2>2, <2>3, <2>4, <2>5 DEF UserSchemaMgr
<1>6. QED
  BY <1>1, <1>2, <1>5 DEF Shape, ManagerType

LEMMA SendType ==
  ASSUME Shape, NEW a \in Agents, NEW s \in Seq([to : Actors, m : Msg])
  PROVE  [sending EXCEPT ![a] = s] \in [Agents -> Seq([to : Actors, m : Msg])]
  BY DEF Shape

LEMMA ShapeSendOne ==
  ASSUME Shape, NEW a \in Agents, SendOne(a)
  PROVE  Shape'
<1> DEFINE s == Head(sending[a])
           M == [to : Actors, m : Msg]
<1>1. sending[a] # <<>> /\ sending[a] \in Seq(M)
  BY DEF SendOne, Shape
<1>2. s \in [to : Actors, m : Msg] /\ Tail(sending[a]) \in Seq([to : Actors, m : Msg])
  <2> HIDE DEF M
  <2>1. Head(sending[a]) \in M /\ Tail(sending[a]) \in Seq(M)
    BY <1>1, HeadTailProperties
  <2>2. QED
    BY <2>1 DEF M
<1>3. mbox' = [mbox EXCEPT ![s.to] = Append(@, s.m)] /\ sending' = [sending EXCEPT ![a] = Tail(@)]
  BY DEF SendOne
<1> HIDE DEF s
<1>4. mbox' \in [Actors -> Seq(Msg)]
  BY <1>2, <1>3, MailType
<1>5. sending' \in [Agents -> Seq([to : Actors, m : Msg])]
  BY <1>2, <1>3, SendType
<1>6. UNCHANGED <<manager, copy, names, statements, procedures, operations, usmMbox, waiting, issued,
                  answers, up>>
  BY DEF SendOne, managerVars, copyVars
<1>7. QED
  BY <1>4, <1>5, <1>6 DEF Shape

LEMMA AckType ==
  ASSUME Shape, NEW x \in Actors, mbox[x] # <<>>, NEW m \in RequestMsg, NEW ok \in BOOLEAN,
         NEW fid \in Nat, Acknowledge(x, m, ok, fid)
  PROVE  mbox' \in [Actors -> Seq(Msg)]
<1> DEFINE k == [topic |-> "SCHEMAREPLY", op |-> m.op, ok |-> ok,
                 tableid |-> m.tableid, fieldid |-> fid, name |-> NoName]
           rest == [mbox EXCEPT ![x] = Tail(@)]
<1>1. m.op \in OpId /\ m.tableid \in Nat /\ NoName \in AnyName
  BY DEF RequestMsg, AnyName
<1>2. k \in ReplyMsg
  BY <1>1 DEF ReplyMsg
<1>3. k \in Msg /\ Agent(m.op) \in Actors
  BY <1>1, <1>2, IsMsg, AgentIn
<1>4. mbox' = [rest EXCEPT ![Agent(m.op)] = Append(@, k)]
  BY DEF Acknowledge, Agent
<1>5. rest \in [Actors -> Seq(Msg)]
  BY DEF Shape
<1> HIDE DEF k, rest
<1>6. QED
  BY <1>3, <1>4, <1>5

CopyType == [schema : {"none", "null", "made"}, fields : Partial(Nat, Seq(AnyName))]

LEMMA ShapeRequest ==
  ASSUME Shape, NEW x \in Actors, SchemaRequest(x)
  PROVE  Shape'
<1> DEFINE m == Head(mbox[x])
<1>1. mbox[x] # <<>> /\ m.topic = "SCHEMAREQUEST"
      /\ UNCHANGED <<manager, names, statements, operations, usmMbox, sending, waiting, issued, answers>>
  BY DEF SchemaRequest, Receives, managerVars
<1>2. m \in RequestMsg
  BY <1>1, HeadType, Topics
<1>3. m.tableid \in Nat /\ m.column \in AnyName
  BY <1>2 DEF RequestMsg
<1>4. copy \in [Actors -> CopyType] /\ mbox \in [Actors -> Seq(Msg)] /\ up \in BOOLEAN
      /\ procedures \in [Agents -> SUBSET Procedures]
  BY DEF Shape, CopyType
<1>5. copy[x].schema \in {"none", "null", "made"} /\ copy[x].fields \in Partial(Nat, Seq(AnyName))
  BY <1>4 DEF CopyType
<1>6. 0 \in Nat
  OBVIOUS
<1>7. mbox' \in [Actors -> Seq(Msg)] /\ copy' \in [Actors -> CopyType] /\ up' \in BOOLEAN
      /\ procedures' \in [Agents -> SUBSET Procedures]
  <2>1. CASE m.cmd = "createschema" /\ CopyCreateSchema(x, m)
    <3>1. up' = up /\ procedures' \in [Agents -> SUBSET Procedures]
      BY <2>1, <1>4 DEF CopyCreateSchema
    <3>2. \E ok \in BOOLEAN : Acknowledge(x, m, ok, 0)
      BY <2>1 DEF CopyCreateSchema
    <3>3. copy' = copy \/ copy' = [copy EXCEPT ![x].schema = "made"]
      BY <2>1 DEF CopyCreateSchema
    <3>4. copy' \in [Actors -> CopyType]
      BY <3>3, <1>4 DEF CopyType
    <3>5. mbox' \in [Actors -> Seq(Msg)]
      BY <3>2, <1>1, <1>2, <1>6, AckType
    <3>6. QED
      BY <3>1, <3>4, <3>5, <1>4
  <2>2. CASE m.cmd = "createtable" /\ CopyCreateTable(x, m)
    <3>1. CASE copy[x].schema # "made"
      BY <2>2, <3>1, <1>4 DEF CopyCreateTable
    <3>2. CASE copy[x].schema = "made"
      <4> DEFINE fs == IF m.tableid \in DOMAIN copy[x].fields THEN copy[x].fields
                       ELSE With(copy[x].fields, m.tableid, <<>>)
      <4>1. /\ copy' = [copy EXCEPT ![x].fields = fs]
            /\ Acknowledge(x, m, m.tableid \notin DOMAIN copy[x].fields, 0)
            /\ UNCHANGED <<up, procedures>>
        BY <2>2, <3>2, <1>4 DEF CopyCreateTable
      <4>2. <<>> \in Seq(AnyName)
        BY EmptySeq
      <4>3. fs \in Partial(Nat, Seq(AnyName))
        BY <4>2, <1>3, <1>5, WithFun
      <4> HIDE DEF fs
      <4>4. copy' \in [Actors -> CopyType]
        BY <4>1, <4>3, <1>4 DEF CopyType
      <4>5. mbox' \in [Actors -> Seq(Msg)]
        BY <4>1, <1>1, <1>2, <1>6, AckType
      <4>6. QED
        BY <4>1, <4>4, <4>5, <1>4
    <3>3. QED
      BY <3>1, <3>2
  <2>3. CASE m.cmd = "addcolumn" /\ CopyAddColumn(x, m)
    <3>1. CASE ~(copy[x].schema = "made" /\ m.tableid \in DOMAIN copy[x].fields)
      BY <2>3, <3>1, <1>4 DEF CopyAddColumn
    <3>2. CASE copy[x].schema = "made" /\ m.tableid \in DOMAIN copy[x].fields
      <4> DEFINE fs == [copy[x].fields EXCEPT ![m.tableid] = Append(copy[x].fields[m.tableid], m.column)]
      <4>1. /\ copy' = [copy EXCEPT ![x].fields = fs]
            /\ Acknowledge(x, m, TRUE, Len(copy[x].fields[m.tableid]))
            /\ UNCHANGED <<up, procedures>>
        BY <2>3, <3>2, <1>4 DEF CopyAddColumn, addfield
      <4>2. copy[x].fields[m.tableid] \in Seq(AnyName)
        BY <3>2, <1>5, PartialFun
      <4>3. Append(copy[x].fields[m.tableid], m.column) \in Seq(AnyName)
            /\ Len(copy[x].fields[m.tableid]) \in Nat
        <5>1. PICK f, c : f = copy[x].fields[m.tableid] /\ c = m.column
          OBVIOUS
        <5>2. f \in Seq(AnyName) /\ c \in AnyName
          BY <5>1, <4>2, <1>3
        <5>3. Append(f, c) \in Seq(AnyName) /\ Len(f) \in Nat
          BY ONLY <5>2
        <5>4. QED
          BY <5>1, <5>3
      <4>4. fs \in Partial(Nat, Seq(AnyName))
        <5>1. PICK g, t, y : g = copy[x].fields /\ t = m.tableid
                             /\ y = Append(copy[x].fields[m.tableid], m.column)
          OBVIOUS
        <5>2. g \in Partial(Nat, Seq(AnyName)) /\ t \in DOMAIN g /\ y \in Seq(AnyName)
          BY <5>1, <4>3, <3>2, <1>5
        <5>3. [g EXCEPT ![t] = y] \in Partial(Nat, Seq(AnyName))
          BY ONLY <5>2, ChangedFun
        <5>4. QED
          BY <5>1, <5>3
      <4> HIDE DEF fs
      <4>5. copy' \in [Actors -> CopyType]
        BY <4>1, <4>4, <1>4 DEF CopyType
      <4>6. mbox' \in [Actors -> Seq(Msg)]
        BY <4>1, <4>3, <1>1, <1>2, AckType
      <4>7. QED
        BY <4>1, <4>5, <4>6, <1>4
    <3>3. QED
      BY <3>1, <3>2
  <2>4. CASE m.cmd = "deletetable" /\ CopyDelete(x, m)
    <3>1. Acknowledge(x, m, TRUE, 0) /\ UNCHANGED <<copy, procedures, up>>
      BY <2>4 DEF CopyDelete
    <3>2. mbox' \in [Actors -> Seq(Msg)]
      BY <3>1, <1>1, <1>2, <1>6, AckType
    <3>3. QED
      BY <3>1, <3>2, <1>4
  <2>5. QED
    BY <2>1, <2>2, <2>3, <2>4 DEF SchemaRequest
<1>8. QED
  BY <1>1, <1>7 DEF Shape, CopyType

LEMMA AnswerType ==
  ASSUME Shape, NEW m \in ReplyMsg, m.op \in DOMAIN operations, NEW ok \in BOOLEAN, Answer(m, ok)
  PROVE  /\ operations' \in Partial(OpId, Operation) /\ answers' \in SUBSET Told
         /\ waiting' \in [Clients -> BOOLEAN]
<1> DEFINE o == operations[m.op]
           an == [client |-> m.op[1], cmd |-> o.cmd, ok |-> ok, state |-> o.state,
                  tableid |-> m.tableid, fieldid |-> m.fieldid]
<1>1. m.op \in OpId /\ m.tableid \in Nat /\ m.fieldid \in Nat
  BY DEF ReplyMsg
<1>2. operations \in Partial(OpId, Operation) /\ waiting \in [Clients -> BOOLEAN]
      /\ answers \in SUBSET Told
  BY DEF Shape
<1>3. o \in Operation
  BY <1>2, PartialFun
<1>4. m.op[1] \in Clients
  BY <1>1, AgentIn
<1>5. an \in Told
  BY <1>1, <1>3, <1>4 DEF Told, Operation
<1>6. /\ answers' = answers \cup {an} /\ operations' = Without(operations, m.op)
      /\ waiting' = [waiting EXCEPT ![m.op[1]] = FALSE]
  BY DEF Answer
<1> HIDE DEF o, an
<1>7. operations' \in Partial(OpId, Operation)
  BY <1>2, <1>6, WithoutFun
<1>8. QED
  BY <1>2, <1>5, <1>6, <1>7

LEMMA ShapeReply ==
  ASSUME Shape, NEW a \in Agents, SchemaReply(a)
  PROVE  Shape'
<1> DEFINE m == Head(mbox[a])
<1>0. a \in Actors
  BY DEF Actors
<1>1. /\ mbox[a] # <<>> /\ m.topic = "SCHEMAREPLY" /\ mbox' = [mbox EXCEPT ![a] = Tail(@)]
      /\ UNCHANGED <<manager, copy, names, statements, procedures, usmMbox, issued, up>>
  BY DEF SchemaReply, Receives, managerVars, copyVars
<1>2. m \in ReplyMsg /\ mbox' \in [Actors -> Seq(Msg)]
  BY <1>0, <1>1, HeadType, Topics
<1>3. m.op \in OpId
  BY <1>2 DEF ReplyMsg
<1>4. operations \in Partial(OpId, Operation) /\ waiting \in [Clients -> BOOLEAN]
      /\ answers \in SUBSET Told /\ sending \in [Agents -> Seq([to : Actors, m : Msg])]
  BY DEF Shape
<1>5. /\ operations' \in Partial(OpId, Operation) /\ answers' \in SUBSET Told
      /\ waiting' \in [Clients -> BOOLEAN] /\ sending' \in [Agents -> Seq([to : Actors, m : Msg])]
  <2>1. CASE m.op \notin DOMAIN operations
    BY <2>1, <1>4 DEF SchemaReply
  <2>2. CASE m.op \in DOMAIN operations
    <3>1. operations[m.op] \in Operation
      BY <2>2, <1>4, PartialFun
    <3>2. operations[m.op].cmd \in SchemaCommands /\ operations[m.op].msgwaits \in Int
      BY <3>1 DEF Operation
    <3> DEFINE o == operations[m.op]
    <3>3. ASSUME NEW y \in Operation, operations' = [operations EXCEPT ![m.op] = y]
          PROVE  operations' \in Partial(OpId, Operation)
      <4>1. PICK k : k = m.op
        OBVIOUS
      <4>2. k \in DOMAIN operations
        BY <4>1, <2>2
      <4>3. [operations EXCEPT ![k] = y] \in Partial(OpId, Operation)
        BY ONLY <4>2, <1>4, <3>3, ChangedFun
      <4>4. QED
        BY <4>1, <4>3, <3>3
    <3>4. CASE UsmResponse(a, m) /\ ~m.ok
      <4>1. Answer(m, FALSE) /\ sending' = [sending EXCEPT ![a] = NamesToo(m, o.cmd)]
        BY <3>4 DEF UsmResponse
      <4>2. NamesToo(m, o.cmd) \in Seq([to : Actors, m : Msg])
        BY <1>2, <3>2, PassOnType
      <4>3. sending' \in [Agents -> Seq([to : Actors, m : Msg])]
        BY <4>1, <4>2, SendType
      <4>4. QED
        BY <4>1, <4>3, <2>2, <1>2, AnswerType
    <3>5. CASE UsmResponse(a, m) /\ m.ok
      <4> DEFINE y == [o EXCEPT !.state = "tasengines", !.msgwaits = Msgwaits]
      <4>1. sending' = [sending EXCEPT ![a] = PassOn(m, o.cmd)] /\ UNCHANGED <<waiting, answers>>
        BY <3>5 DEF UsmResponse
      <4>2. PassOn(m, o.cmd) \in Seq([to : Actors, m : Msg])
        BY <1>2, <3>2, PassOnType
      <4>3. sending' \in [Agents -> Seq([to : Actors, m : Msg])]
        BY <4>1, <4>2, SendType
      <4>4. operations' = [operations EXCEPT ![m.op] = y]
        BY <3>5, <3>1, <2>2 DEF UsmResponse, Operation
      <4>5. Msgwaits \in Int
        BY FS_CardinalityType, ActorsFinite DEF Msgwaits
      <4>6. y \in Operation
        BY <3>1, <4>5 DEF Operation
      <4> HIDE DEF y
      <4>7. operations' \in Partial(OpId, Operation)
        BY <4>4, <4>6, <3>3
      <4>8. QED
        BY <4>1, <4>3, <4>7, <1>4
    <3>6. CASE TasEnginesResponse(a, m)
      <4>1. sending' = sending
        BY <3>6 DEF TasEnginesResponse
      <4>2. CASE \E ok \in BOOLEAN : Answer(m, ok)
        BY <4>1, <4>2, <2>2, <1>2, <1>4, AnswerType
      <4>3. CASE /\ operations' = [operations EXCEPT ![m.op].msgwaits = @ - 1]
                 /\ UNCHANGED <<waiting, answers>>
        <5> DEFINE y == [o EXCEPT !.msgwaits = @ - 1]
        <5>1. operations' = [operations EXCEPT ![m.op] = y]
          BY <4>3, <2>2
        <5>2. y \in Operation
          BY <3>1, <3>2 DEF Operation
        <5> HIDE DEF y
        <5>3. operations' \in Partial(OpId, Operation)
          BY <5>1, <5>2, <3>3
        <5>4. QED
          BY <4>1, <4>3, <5>3, <1>4
      <4>4. QED
        BY <3>6, <4>2, <4>3 DEF TasEnginesResponse
    <3>7. UsmResponse(a, m) \/ TasEnginesResponse(a, m)
      BY <2>2 DEF SchemaReply
    <3>8. QED
      BY <3>4, <3>5, <3>6, <3>7
  <2>3. QED
    BY <2>1, <2>2
<1>6. QED
  BY <1>1, <1>2, <1>5 DEF Shape

NamesType == [tables : Partial(AnyName, Nat), fields : Partial(Nat \X AnyName, Nat)]

LEMMA ShapeName ==
  ASSUME Shape, NEW a \in Agents, NEW topic \in {"TABLENAME", "FIELDNAME"}, Name(a, topic)
  PROVE  Shape'
<1> DEFINE m == Head(mbox[a])
<1>0. a \in Actors
  BY DEF Actors
<1>1. /\ mbox[a] # <<>> /\ m.topic = topic
      /\ UNCHANGED <<manager, copy, statements, procedures, operations, usmMbox, sending, waiting,
                     issued, answers>>
  BY DEF Name, Receives, managerVars
<1>2. m \in NameMsg /\ [mbox EXCEPT ![a] = Tail(@)] \in [Actors -> Seq(Msg)]
  BY <1>0, <1>1, HeadType, Topics
<1>3. m.name \in AnyName /\ m.tableid \in Nat /\ m.fieldid \in Nat
  BY <1>2 DEF NameMsg
<1>4. names \in [Agents -> NamesType] /\ mbox \in [Actors -> Seq(Msg)] /\ up \in BOOLEAN
  BY DEF Shape, NamesType
<1>5. names[a].tables \in Partial(AnyName, Nat) /\ names[a].fields \in Partial(Nat \X AnyName, Nat)
  BY <1>4 DEF NamesType
<1>6. CASE copy[a].schema # "made"
  <2>1. up' = FALSE /\ UNCHANGED <<names, mbox>>
    BY <1>6 DEF Name
  <2>2. QED
    BY <2>1, <1>1 DEF Shape
<1>7. CASE copy[a].schema = "made"
  <2>1. mbox' = [mbox EXCEPT ![a] = Tail(@)] /\ up' = up
    BY <1>7 DEF Name
  <2>2. names' \in [Agents -> NamesType]
    <3>1. CASE topic = "TABLENAME"
      <4> DEFINE f == With(names[a].tables, m.name, m.tableid)
      <4>1. names' = [names EXCEPT ![a].tables = f]
        BY <1>7, <3>1, <1>4 DEF Name
      <4>2. f \in Partial(AnyName, Nat)
        BY <1>3, <1>5, WithFun
      <4> HIDE DEF f
      <4>3. QED
        BY <4>1, <4>2, <1>4 DEF NamesType
    <3>2. CASE topic = "FIELDNAME"
      <4> DEFINE f == With(names[a].fields, <<m.tableid, m.name>>, m.fieldid)
      <4>1. names' = [names EXCEPT ![a].fields = f]
        BY <1>7, <3>2, <1>4 DEF Name
      <4>2. <<m.tableid, m.name>> \in Nat \X AnyName
        BY <1>3
      <4>3. f \in Partial(Nat \X AnyName, Nat)
        BY <1>3, <4>2, <1>5, WithFun
      <4> HIDE DEF f
      <4>4. QED
        BY <4>1, <4>3, <1>4 DEF NamesType
    <3>3. QED
      BY <3>1, <3>2
  <2>3. QED
    BY <2>1, <2>2, <1>1, <1>2 DEF Shape, NamesType
<1>8. QED
  BY <1>6, <1>7

LEMMA ResolvedType ==
  ASSUME Shape, NEW a \in Agents, NEW t, NEW column
  PROVE  Resolved(a, t, column) \in Int \X Int
<1>1. names[a].tables \in Partial(AnyName, Nat) /\ names[a].fields \in Partial(Nat \X AnyName, Nat)
  BY DEF Shape
<1>2. \A z \in DOMAIN names[a].tables : names[a].tables[z] \in Nat
  BY <1>1, PartialFun
<1>3. \A z \in DOMAIN names[a].fields : names[a].fields[z] \in Nat
  BY <1>1, PartialFun
<1>4. QED
  BY <1>2, <1>3 DEF Resolved

LEMMA ShapeStatement ==
  ASSUME Shape, NEW a \in Agents, NewStatement(a)
  PROVE  Shape'
<1> DEFINE m == Head(mbox[a])
<1>0. a \in Actors
  BY DEF Actors
<1>1. /\ mbox[a] # <<>> /\ m.topic = "COMPILE"
      /\ UNCHANGED <<manager, copy, names, procedures, operations, usmMbox, sending, waiting,
                     issued, answers>>
  BY DEF NewStatement, Receives, managerVars
<1>2. m \in CompileMsg /\ [mbox EXCEPT ![a] = Tail(@)] \in [Actors -> Seq(Msg)]
  BY <1>0, <1>1, HeadType, Topics
<1>3. m.table \in TableNames /\ m.column \in Columns
  BY <1>2 DEF CompileMsg
<1> DEFINE T == Partial(TableNames \X Columns, Int \X Int)
<1>4. statements \in [Agents -> T] /\ mbox \in [Actors -> Seq(Msg)] /\ up \in BOOLEAN
  BY DEF Shape
<1>5. CASE copy[a].schema # "made"
  <2>1. up' = FALSE /\ UNCHANGED <<statements, mbox>>
    BY <1>5 DEF NewStatement
  <2>2. QED
    BY <2>1, <1>1 DEF Shape
<1>6. CASE copy[a].schema = "made"
  <2> DEFINE st == <<m.table, m.column>>
             y == Resolved(a, m.table, m.column)
             f == With(statements[a], st, y)
  <2>1. mbox' = [mbox EXCEPT ![a] = Tail(@)] /\ up' = up
        /\ statements' = [statements EXCEPT ![a] = f]
    BY <1>6, <1>4 DEF NewStatement
  <2>2. st \in TableNames \X Columns /\ y \in Int \X Int /\ statements[a] \in T
    BY <1>3, <1>4, ResolvedType
  <2> HIDE DEF st, y
  <2>3. f \in T
    BY <2>2, WithFun
  <2> HIDE DEF f, T
  <2>4. statements' \in [Agents -> T]
    BY <2>1, <2>3, <1>4
  <2>5. QED
    BY <2>1, <2>4, <1>1, <1>2 DEF Shape, T
<1>7. QED
  BY <1>5, <1>6

LEMMA ShapeProcedure ==
  ASSUME Shape, NEW a \in Agents, Procedure1(a) \/ Procedure2(a)
  PROVE  Shape'
<1> DEFINE m == Head(mbox[a])
<1>0. a \in Actors
  BY DEF Actors
<1>1. /\ mbox[a] # <<>> /\ m.topic \in {"PROCEDURE1", "PROCEDURE2"}
      /\ mbox' = [mbox EXCEPT ![a] = Tail(@)]
      /\ UNCHANGED <<manager, copy, names, statements, operations, usmMbox, waiting, issued,
                     answers, up>>
  BY DEF Procedure1, Procedure2, Receives, managerVars, copyVars
<1>2. m \in ProcMsg /\ mbox' \in [Actors -> Seq(Msg)]
  BY <1>0, <1>1, HeadType, Topics
<1>3. m.proc \in Procedures
  BY <1>2 DEF ProcMsg
<1>4. /\ procedures \in [Agents -> SUBSET Procedures]
      /\ sending \in [Agents -> Seq([to : Actors, m : Msg])]
  BY DEF Shape
<1>5. CASE Procedure1(a)
  <2> DEFINE k == [topic |-> "PROCEDURE2", proc |-> m.proc]
  <2>1. sending' = [sending EXCEPT ![a] = ToAll(Agents, k)] /\ procedures' = procedures
    BY <1>5 DEF Procedure1, copyVars
  <2>2. k \in ProcMsg
    BY <1>3 DEF ProcMsg
  <2>3. k \in Msg /\ Agents \in SUBSET Actors
    BY <2>2, IsMsg DEF Actors
  <2> HIDE DEF k
  <2>4. ToAll(Agents, k) \in Seq([to : Actors, m : Msg])
    BY <2>3, ToAllType, ActorsFinite
  <2>5. sending' \in [Agents -> Seq([to : Actors, m : Msg])]
    BY <2>1, <2>4, SendType
  <2>6. QED
    BY <2>1, <2>5, <1>1, <1>2 DEF Shape
<1>6. CASE Procedure2(a)
  <2>1. procedures' = [procedures EXCEPT ![a] = @ \cup {m.proc}] /\ sending' = sending
    BY <1>6 DEF Procedure2
  <2>2. procedures' \in [Agents -> SUBSET Procedures]
    BY <2>1, <1>3, <1>4
  <2>3. QED
    BY <2>1, <2>2, <1>1, <1>2 DEF Shape
<1>7. QED
  BY <1>5, <1>6

LEMMA ShapeCompile ==
  ASSUME Shape, NEW c \in Clients, NEW t \in TableNames, NEW column \in Columns, Compile(c, t, column)
  PROVE  Shape'
<1> DEFINE a == AgentOf[c]
           k == [topic |-> "COMPILE", table |-> t, column |-> column]
<1>1. issued' \in 0 .. MaxOps
  BY SentOne DEF Compile
<1>2. /\ sending' = [sending EXCEPT ![a] = ToAll(Agents, k)]
      /\ copy' = [copy EXCEPT ![a].schema = IF @ = "none" THEN "null" ELSE @]
      /\ UNCHANGED <<manager, names, statements, procedures, operations, usmMbox, mbox, waiting,
                     answers, up>>
  BY DEF Compile, managerVars
<1>3. a \in Agents /\ Agents \in SUBSET Actors
  BY SchemataAssumption DEF Actors
<1>4. k \in CompileMsg
  BY DEF CompileMsg
<1>5. k \in Msg
  BY <1>4, IsMsg
<1> HIDE DEF k, a
<1>6. ToAll(Agents, k) \in Seq([to : Actors, m : Msg])
  BY <1>3, <1>5, ToAllType, ActorsFinite
<1>7. sending' \in [Agents -> Seq([to : Actors, m : Msg])]
  BY <1>2, <1>3, <1>6, SendType
<1>8. copy \in [Actors -> CopyType]
  BY DEF Shape, CopyType
<1>9. copy' \in [Actors -> CopyType]
  BY <1>2, <1>3, <1>8 DEF CopyType
<1>10. QED
  BY <1>1, <1>2, <1>7, <1>9 DEF Shape, CopyType

LEMMA ShapeLoad ==
  ASSUME Shape, NEW c \in Clients, NEW proc \in Procedures, LoadProcedure(c, proc)
  PROVE  Shape'
<1> DEFINE k == [topic |-> "PROCEDURE1", proc |-> proc]
<1>1. issued' \in 0 .. MaxOps
  BY SentOne DEF LoadProcedure
<1>2. /\ mbox' = [mbox EXCEPT ![Loader] = Append(@, k)]
      /\ UNCHANGED <<manager, copy, names, statements, procedures, operations, usmMbox, sending,
                     waiting, answers, up>>
  BY DEF LoadProcedure, managerVars, copyVars
<1>3. k \in ProcMsg
  BY DEF ProcMsg
<1>4. k \in Msg /\ Loader \in Actors
  BY <1>3, IsMsg, SchemataAssumption DEF Actors
<1> HIDE DEF k
<1>5. mbox' \in [Actors -> Seq(Msg)]
  BY <1>2, <1>4, MailType
<1>6. QED
  BY <1>1, <1>2, <1>5 DEF Shape

LEMMA ShapeLogin ==
  ASSUME Shape, NEW c \in Clients, PgLogin(c)
  PROVE  Shape'
<1>1. issued' \in 0 .. MaxOps
  BY SentOne DEF PgLogin
<1>2. /\ copy' = [copy EXCEPT ![AgentOf[c]].schema = IF @ = "none" THEN "null" ELSE @]
      /\ UNCHANGED <<manager, names, statements, procedures, operations, usmMbox, mbox, sending,
                     waiting, answers, up>>
  BY DEF PgLogin, managerVars
<1>3. AgentOf[c] \in Actors
  BY SchemataAssumption DEF Actors
<1>4. copy \in [Actors -> CopyType]
  BY DEF Shape, CopyType
<1>5. copy' \in [Actors -> CopyType]
  BY <1>2, <1>3, <1>4 DEF CopyType
<1>6. QED
  BY <1>1, <1>2, <1>5 DEF Shape, CopyType

LEMMA ShapeNext == Shape /\ [Next]_vars => Shape'
<1> SUFFICES ASSUME Shape, [Next]_vars PROVE Shape'
  OBVIOUS
<1>1. CASE UNCHANGED vars
  BY <1>1 DEF Shape, vars, managerVars, copyVars
<1>2. ASSUME NEW c \in Clients,
             \/ CreateSchema(c)
             \/ \E t \in TableNames : CreateTable(c, t)
             \/ DeleteTable(c)
             \/ \E id \in DOMAIN manager.tables, column \in Columns : AddColumn(c, id, column)
      PROVE  Shape'
  <2>0. NoName \in AnyName /\ 0 \in Nat /\ Columns \subseteq AnyName
        /\ {"createschema", "createtable", "deletetable", "addcolumn"} \subseteq SchemaCommands
    BY DEF AnyName, SchemaCommands
  <2>1. CASE CreateSchema(c)
    BY <2>0, <2>1, ShapeStart DEF CreateSchema
  <2>2. ASSUME NEW t \in TableNames, CreateTable(c, t) PROVE Shape'
    BY <2>0, <2>2, ShapeStart DEF CreateTable
  <2>3. CASE DeleteTable(c)
    BY <2>0, <2>3, ShapeStart DEF DeleteTable
  <2>4. ASSUME NEW id \in DOMAIN manager.tables, NEW column \in Columns, AddColumn(c, id, column)
        PROVE Shape'
    <3>1. id \in Nat
      <4>1. manager.tables \in Seq(TableNames)
        BY DEF Shape
      <4>2. QED
        BY <4>1
    <3>2. QED
      BY <2>0, <2>4, <3>1, ShapeStart DEF AddColumn
  <2>5. QED
    BY <1>2, <2>1, <2>2, <2>3, <2>4
<1>3. CASE ClientNext
  BY <1>2, <1>3, ShapeCompile, ShapeLoad, ShapeLogin DEF ClientNext
<1>4. CASE UserSchemaMgr
  BY <1>4, ShapeManager
<1>5. ASSUME NEW a \in Agents, AgentNext(a) PROVE Shape'
  <2>1. a \in Actors
    BY DEF Actors
  <2>2. QED
    BY <1>5, <2>1, ShapeSendOne, ShapeRequest, ShapeReply, ShapeName, ShapeStatement, ShapeProcedure
    DEF AgentNext
<1>6. ASSUME NEW e \in Engines, SchemaRequest(e) PROVE Shape'
  BY <1>6, ShapeRequest DEF Actors
<1>7. QED
  BY <1>1, <1>3, <1>4, <1>5, <1>6 DEF Next

-----------------------------------------------------------------------------
(* A step takes the first message from the mailboxes in pop and puts m     *)
(* into those in add; it is about operation u only.                        *)

Pops(pop, z) == IF z \in pop THEN 1 ELSE 0

Mail(pop, add, m) ==
  \A z \in Actors :
    /\ Pops(pop, z) <= Len(mbox[z])
    /\ Len(mbox'[z]) = Len(mbox[z]) - Pops(pop, z) + Pops(add, z)
    /\ \A k \in 1 .. Len(mbox[z]) - Pops(pop, z) : mbox'[z][k] = mbox[z][k + Pops(pop, z)]
    /\ z \in add => mbox'[z][Len(mbox'[z])] = m

AboutOp(m, u) == m.topic \in {"SCHEMAREPLY", "SCHEMAREQUEST"} => m.op = u

Concerns(pop, add, m, u) ==
  /\ \A z \in pop : AboutOp(mbox[z][1], u)
  /\ add # {} => AboutOp(m, u)

LEMMA Boxes ==
  ASSUME Shape, NEW z \in Actors
  PROVE  /\ mbox[z] \in Seq(Msg) /\ Len(mbox[z]) \in Nat /\ DOMAIN mbox[z] = 1 .. Len(mbox[z])
         /\ \A k \in DOMAIN mbox[z] : mbox[z][k] \in Msg
<1>1. mbox[z] \in Seq(Msg)
  BY DEF Shape
<1>2. QED
  BY <1>1

LEMMA BoxesNext ==
  ASSUME Shape', NEW z \in Actors
  PROVE  /\ mbox'[z] \in Seq(Msg) /\ Len(mbox'[z]) \in Nat /\ DOMAIN mbox'[z] = 1 .. Len(mbox'[z])
         /\ \A k \in DOMAIN mbox'[z] : mbox'[z][k] \in Msg
<1>1. mbox'[z] \in Seq(Msg)
  BY DEF Shape
<1>2. QED
  BY <1>1

LEMMA TailSeq ==
  ASSUME NEW S, NEW s \in Seq(S), s # <<>>
  PROVE  /\ Len(s) \in Nat /\ 1 <= Len(s) /\ Len(Tail(s)) = Len(s) - 1
         /\ \A k \in 1 .. Len(s) - 1 : Tail(s)[k] = s[k + 1]
  OBVIOUS

LEMMA AppendSeq ==
  ASSUME NEW S, NEW s \in Seq(S), NEW m
  PROVE  /\ Len(s) \in Nat /\ Len(Append(s, m)) = Len(s) + 1
         /\ \A k \in 1 .. Len(s) : Append(s, m)[k] = s[k]
         /\ Append(s, m)[Len(s) + 1] = m
  OBVIOUS

MovedBox(s, t, p, q, m) ==
  /\ p <= Len(s) /\ Len(t) = Len(s) - p + q
  /\ \A k \in 1 .. Len(s) - p : t[k] = s[k + p]
  /\ q = 1 => t[Len(t)] = m

LEMMA MovedTail ==
  ASSUME NEW s \in Seq(Msg), s # <<>>, NEW m
  PROVE  MovedBox(s, Tail(s), 1, 0, m)
<1>1. /\ Len(s) \in Nat /\ 1 <= Len(s) /\ Len(Tail(s)) = Len(s) - 1
      /\ \A k \in 1 .. Len(s) - 1 : Tail(s)[k] = s[k + 1]
  BY TailSeq
<1>2. PICK t : t = Tail(s)
  OBVIOUS
<1>3. /\ 1 <= Len(s) /\ Len(t) = Len(s) - 1 + 0
      /\ \A k \in 1 .. Len(s) - 1 : t[k] = s[k + 1]
  BY <1>1, <1>2
<1>4. MovedBox(s, t, 1, 0, m)
  BY ONLY <1>3 DEF MovedBox
<1>5. QED
  BY <1>2, <1>4

LEMMA MovedSame ==
  ASSUME NEW s \in Seq(Msg), NEW m
  PROVE  MovedBox(s, s, 0, 0, m)
<1>1. Len(s) \in Nat
  OBVIOUS
<1>2. \A k \in 1 .. Len(s) - 0 : k + 0 = k
  BY <1>1
<1>3. 0 <= Len(s) /\ Len(s) = Len(s) - 0 + 0
  BY <1>1
<1>4. QED
  BY ONLY <1>2, <1>3 DEF MovedBox

LEMMA MovedAppend ==
  ASSUME NEW s \in Seq(Msg), NEW t \in Seq(Msg), NEW p \in {0, 1}, NEW m, MovedBox(s, t, p, 0, m)
  PROVE  MovedBox(s, Append(t, m), p, 1, m)
<1>1. /\ Len(t) \in Nat /\ Len(Append(t, m)) = Len(t) + 1
      /\ \A k \in 1 .. Len(t) : Append(t, m)[k] = t[k]
      /\ Append(t, m)[Len(t) + 1] = m
  BY AppendSeq
<1>2. PICK u : u = Append(t, m)
  OBVIOUS
<1>3. /\ Len(u) = Len(t) + 1 /\ \A k \in 1 .. Len(t) : u[k] = t[k]
      /\ u[Len(t) + 1] = m
  BY <1>1, <1>2
<1>4. Len(s) \in Nat /\ p <= Len(s) /\ Len(t) = Len(s) - p
      /\ \A k \in 1 .. Len(s) - p : t[k] = s[k + p]
  BY DEF MovedBox
<1>5. MovedBox(s, u, p, 1, m)
  BY ONLY <1>1, <1>3, <1>4, p \in {0, 1} DEF MovedBox
<1>6. QED
  BY <1>2, <1>5

LEMMA MovedMail ==
  ASSUME NEW pop, NEW add, NEW m,
         \A z \in Actors : MovedBox(mbox[z], mbox'[z], Pops(pop, z), Pops(add, z), m)
  PROVE  Mail(pop, add, m)
<1>1. \A z \in add : Pops(add, z) = 1
  BY DEF Pops
<1>2. QED
  BY <1>1 DEF Mail, MovedBox

LEMMA MailBoth ==
  ASSUME Shape, NEW x \in Actors, mbox[x] # <<>>, NEW y \in Actors, NEW m,
         NEW rest, rest = [mbox EXCEPT ![x] = Tail(@)], mbox' = [rest EXCEPT ![y] = Append(@, m)]
  PROVE  Mail({x}, {y}, m) /\ mbox[x][1] = Head(mbox[x])
<1>1. mbox \in [Actors -> Seq(Msg)]
  BY DEF Shape
<1>2. rest \in [Actors -> Seq(Msg)]
  BY <1>1
<1>3. ASSUME NEW z \in Actors
      PROVE  MovedBox(mbox[z], mbox'[z], Pops({x}, z), Pops({y}, z), m)
  <2>1. MovedBox(mbox[z], rest[z], Pops({x}, z), 0, m)
    <3>1. CASE z = x
      <4>1. rest[z] = Tail(mbox[z]) /\ Pops({x}, z) = 1
        BY <3>1, <1>1 DEF Pops
      <4>2. QED
        BY <4>1, <3>1, <1>1, MovedTail
    <3>2. CASE z # x
      <4>1. rest[z] = mbox[z] /\ Pops({x}, z) = 0
        BY <3>2, <1>1 DEF Pops
      <4>2. QED
        BY <4>1, <1>1, MovedSame
    <3>3. QED
      BY <3>1, <3>2
  <2>2. Pops({x}, z) \in {0, 1} /\ mbox[z] \in Seq(Msg) /\ rest[z] \in Seq(Msg)
    BY <1>1, <1>2 DEF Pops
  <2>3. CASE z = y
    <3>1. mbox'[z] = Append(rest[z], m) /\ Pops({y}, z) = 1
      BY <2>3, <1>2 DEF Pops
    <3>2. QED
      BY <3>1, <2>1, <2>2, MovedAppend
  <2>4. CASE z # y
    <3>1. mbox'[z] = rest[z] /\ Pops({y}, z) = 0
      BY <2>4, <1>2 DEF Pops
    <3>2. QED
      BY <3>1, <2>1
  <2>5. QED
    BY <2>3, <2>4
<1>4. Mail({x}, {y}, m)
  BY <1>3, MovedMail
<1>5. mbox[x][1] = Head(mbox[x])
  BY <1>1
<1>6. QED
  BY <1>4, <1>5

LEMMA MailTail ==
  ASSUME Shape, NEW x \in Actors, mbox[x] # <<>>, mbox' = [mbox EXCEPT ![x] = Tail(@)]
  PROVE  Mail({x}, {}, <<>>) /\ mbox[x][1] = Head(mbox[x])
<1>1. mbox \in [Actors -> Seq(Msg)]
  BY DEF Shape
<1>2. ASSUME NEW z \in Actors
      PROVE  MovedBox(mbox[z], mbox'[z], Pops({x}, z), Pops({}, z), <<>>)
  <2>1. Pops({}, z) = 0
    BY DEF Pops
  <2>2. CASE z = x
    <3>1. mbox'[z] = Tail(mbox[z]) /\ Pops({x}, z) = 1
      BY <2>2, <1>1 DEF Pops
    <3>2. QED
      BY <3>1, <2>1, <2>2, <1>1, MovedTail
  <2>3. CASE z # x
    <3>1. mbox'[z] = mbox[z] /\ Pops({x}, z) = 0
      BY <2>3, <1>1 DEF Pops
    <3>2. QED
      BY <3>1, <2>1, <1>1, MovedSame
  <2>4. QED
    BY <2>2, <2>3
<1>3. Mail({x}, {}, <<>>)
  BY <1>2, MovedMail
<1>4. mbox[x][1] = Head(mbox[x])
  BY <1>1
<1>5. QED
  BY <1>3, <1>4

LEMMA MailAppend ==
  ASSUME Shape, NEW x \in Actors, NEW m, mbox' = [mbox EXCEPT ![x] = Append(@, m)]
  PROVE  Mail({}, {x}, m)
<1>1. mbox \in [Actors -> Seq(Msg)]
  BY DEF Shape
<1>2. ASSUME NEW z \in Actors
      PROVE  MovedBox(mbox[z], mbox'[z], Pops({}, z), Pops({x}, z), m)
  <2>1. Pops({}, z) = 0 /\ MovedBox(mbox[z], mbox[z], 0, 0, m)
    BY <1>1, MovedSame DEF Pops
  <2>2. CASE z = x
    <3>1. mbox'[z] = Append(mbox[z], m) /\ Pops({x}, z) = 1
      BY <2>2, <1>1 DEF Pops
    <3>2. MovedBox(mbox[z], Append(mbox[z], m), 0, 1, m)
      BY <2>1, <1>1, MovedAppend
    <3>3. QED
      BY <3>1, <3>2, <2>1
  <2>3. CASE z # x
    <3>1. mbox'[z] = mbox[z] /\ Pops({x}, z) = 0
      BY <2>3, <1>1 DEF Pops
    <3>2. QED
      BY <3>1, <2>1
  <2>4. QED
    BY <2>2, <2>3
<1>3. QED
  BY <1>2, MovedMail

LEMMA MailSame ==
  ASSUME Shape, mbox' = mbox
  PROVE  Mail({}, {}, <<>>)
<1>1. mbox \in [Actors -> Seq(Msg)]
  BY DEF Shape
<1>2. \A z \in Actors : MovedBox(mbox[z], mbox'[z], Pops({}, z), Pops({}, z), <<>>)
  BY <1>1, MovedSame DEF Pops
<1>3. QED
  BY <1>2, MovedMail

\* Where a message that is not taken is afterwards, and where one came from.
LEMMA MailFacts ==
  ASSUME Shape, Shape', NEW pop, NEW add, NEW m, Mail(pop, add, m), NEW z \in Actors
  PROVE  /\ Pops(pop, z) \in {0, 1} /\ Pops(add, z) \in {0, 1}
         /\ z \in pop => 1 \in DOMAIN mbox[z]
         /\ \A k \in DOMAIN mbox[z] : k > Pops(pop, z) =>
              k - Pops(pop, z) \in DOMAIN mbox'[z] /\ mbox'[z][k - Pops(pop, z)] = mbox[z][k]
         /\ \A k \in DOMAIN mbox'[z] :
              \/ /\ k + Pops(pop, z) \in DOMAIN mbox[z]
                 /\ mbox'[z][k] = mbox[z][k + Pops(pop, z)]
              \/ z \in add /\ k = Len(mbox'[z]) /\ mbox'[z][k] = m
         /\ z \in add => Len(mbox'[z]) \in DOMAIN mbox'[z] /\ mbox'[z][Len(mbox'[z])] = m
<1> DEFINE p == Pops(pop, z)
           q == Pops(add, z)
<1>1. p \in {0, 1} /\ q \in {0, 1} /\ (z \in pop => p = 1) /\ (z \in add => q = 1)
      /\ (z \notin add => q = 0)
  BY DEF Pops
<1>2. /\ p <= Len(mbox[z])
      /\ Len(mbox'[z]) = Len(mbox[z]) - p + q
      /\ \A k \in 1 .. Len(mbox[z]) - p : mbox'[z][k] = mbox[z][k + p]
      /\ z \in add => mbox'[z][Len(mbox'[z])] = m
  BY DEF Mail
<1>3. Len(mbox[z]) \in Nat /\ DOMAIN mbox[z] = 1 .. Len(mbox[z])
      /\ Len(mbox'[z]) \in Nat /\ DOMAIN mbox'[z] = 1 .. Len(mbox'[z])
  BY Boxes, BoxesNext
<1> HIDE DEF p, q
<1>4. \A k \in DOMAIN mbox[z] : k > p => k - p \in DOMAIN mbox'[z] /\ mbox'[z][k - p] = mbox[z][k]
  <2> SUFFICES ASSUME NEW k \in 1 .. Len(mbox[z]), k > p
               PROVE  k - p \in 1 .. Len(mbox'[z]) /\ mbox'[z][k - p] = mbox[z][k]
    BY <1>3
  <2>1. k - p \in 1 .. Len(mbox[z]) - p /\ (k - p) + p = k /\ k - p \in 1 .. Len(mbox'[z])
    BY <1>1, <1>2, <1>3
  <2>2. QED
    BY <2>1, <1>2
<1>5. \A k \in DOMAIN mbox'[z] : \/ k + p \in DOMAIN mbox[z] /\ mbox'[z][k] = mbox[z][k + p]
                                 \/ z \in add /\ k = Len(mbox'[z]) /\ mbox'[z][k] = m
  <2> SUFFICES ASSUME NEW k \in 1 .. Len(mbox'[z])
               PROVE  \/ k + p \in 1 .. Len(mbox[z]) /\ mbox'[z][k] = mbox[z][k + p]
                      \/ z \in add /\ k = Len(mbox'[z]) /\ mbox'[z][k] = m
    BY <1>3
  <2>1. CASE k <= Len(mbox[z]) - p
    BY <2>1, <1>1, <1>2, <1>3
  <2>2. CASE k > Len(mbox[z]) - p
    BY <2>2, <1>1, <1>2, <1>3
  <2>3. QED
    BY <2>1, <2>2, <1>1, <1>3
<1>6. QED
  BY <1>1, <1>2, <1>3, <1>4, <1>5 DEF p, q

-----------------------------------------------------------------------------
(* What a step about operation u leaves of another operation.              *)

SameOp(op, job, job2) ==
  /\ op \in DOMAIN operations <=> op \in DOMAIN operations'
  /\ op \in DOMAIN operations => operations'[op] = operations[op] /\ job2[op[1]] = job[op[1]]

\* The agents' messages to send: as before, one less, or a new broadcast.
SendingMoves(u) ==
  \A a \in Agents :
    \/ sending'[a] = sending[a]
    \/ /\ sending[a] # <<>> /\ sending'[a] = Tail(sending[a])
       /\ AboutOp(Head(sending[a]).m, u)
    \/ /\ sending[a] = <<>>
       /\ \A i \in DOMAIN sending'[a] : AboutOp(sending'[a][i].m, u)

LEMMA ShiftCard ==
  ASSUME NEW S \in SUBSET Int, IsFiniteSet(S), NEW T \in SUBSET Int, NEW p \in Int,
         \A i \in S : i - p \in T, \A i \in T : i + p \in S
  PROVE  IsFiniteSet(T) /\ Cardinality(T) = Cardinality(S)
<1> DEFINE f == [i \in S |-> i - p]
<1>1. f \in [S -> T]
  OBVIOUS
<1>2. IsInjective(f)
  BY DEF IsInjective
<1>3. \A t \in T : \E i \in S : f[i] = t
  <2> SUFFICES ASSUME NEW t \in T PROVE \E i \in S : f[i] = t
    OBVIOUS
  <2>1. t + p \in S /\ (t + p) - p = t
    OBVIOUS
  <2>2. QED
    BY <2>1
<1> HIDE DEF f
<1>4. f \in Bijection(S, T)
  BY <1>1, <1>2, <1>3 DEF Bijection, Injection, Surjection
<1>5. ExistsBijection(S, T)
  BY <1>4 DEF ExistsBijection
<1>6. QED
  BY <1>5, FS_Bijection

LEMMA RepliesFinite ==
  ASSUME Shape, NEW op \in OpId
  PROVE  IsFiniteSet(Replies(op)) /\ Replies(op) \subseteq 1 .. Len(mbox[Agent(op)])
         /\ Len(mbox[Agent(op)]) \in Nat /\ Cardinality(Replies(op)) \in Nat
<1>1. Agent(op) \in Actors
  BY AgentIn
<1>2. DOMAIN mbox[Agent(op)] = 1 .. Len(mbox[Agent(op)]) /\ Len(mbox[Agent(op)]) \in Nat
  BY <1>1, Boxes
<1>3. Replies(op) \in SUBSET (1 .. Len(mbox[Agent(op)]))
  BY <1>2 DEF Replies
<1>4. IsFiniteSet(1 .. Len(mbox[Agent(op)]))
  BY <1>2, FS_Interval
<1>5. IsFiniteSet(Replies(op))
  BY <1>3, <1>4, FS_Subset
<1>6. QED
  BY <1>2, <1>3, <1>5, FS_CardinalityType

LEMMA PostedOther ==
  ASSUME Shape, Shape', NEW pop, NEW add, NEW m, Mail(pop, add, m), NEW u, Concerns(pop, add, m, u),
         NEW op, op # u, NEW z \in Actors
  PROVE  Posted(z, op)' <=> Posted(z, op)
<1> DEFINE p == Pops(pop, z)
<1>1. /\ p \in {0, 1} /\ (z \in pop => 1 \in DOMAIN mbox[z])
      /\ \A k \in DOMAIN mbox[z] : k > p => k - p \in DOMAIN mbox'[z] /\ mbox'[z][k - p] = mbox[z][k]
      /\ \A k \in DOMAIN mbox'[z] :
              \/ k + p \in DOMAIN mbox[z] /\ mbox'[z][k] = mbox[z][k + p]
              \/ z \in add /\ k = Len(mbox'[z]) /\ mbox'[z][k] = m
  BY MailFacts
<1>2. p = 1 => z \in pop
  BY DEF Pops
<1>3. DOMAIN mbox[z] \subseteq Nat \ {0}
  BY Boxes
<1> HIDE DEF p
<1>4. ASSUME Posted(z, op)' PROVE Posted(z, op)
  <2>1. PICK k \in DOMAIN mbox'[z] : IsRequest(mbox'[z][k], op)
    BY <1>4 DEF Posted
  <2>2. CASE k + p \in DOMAIN mbox[z] /\ mbox'[z][k] = mbox[z][k + p]
    BY <2>1, <2>2 DEF Posted
  <2>3. CASE z \in add /\ mbox'[z][k] = m
    BY <2>1, <2>3 DEF Concerns, AboutOp, IsRequest
  <2>4. QED
    BY <2>2, <2>3, <1>1
<1>5. ASSUME Posted(z, op) PROVE Posted(z, op)'
  <2>1. PICK k \in DOMAIN mbox[z] : IsRequest(mbox[z][k], op)
    BY <1>5 DEF Posted
  <2>2. k > p
    <3>1. CASE k <= p
      <4>1. k = 1 /\ z \in pop
        BY <3>1, <1>1, <1>2, <1>3
      <4>2. QED
        BY <2>1, <4>1 DEF Concerns, AboutOp, IsRequest
    <3>2. QED
      BY <3>1, <1>1, <1>3
  <2>3. IsRequest(mbox'[z][k - p], op) /\ k - p \in DOMAIN mbox'[z]
    BY <2>1, <2>2, <1>1
  <2>4. QED
    BY <2>3 DEF Posted
<1>6. QED
  BY <1>4, <1>5

LEMMA RepliesOther ==
  ASSUME Shape, Shape', NEW pop, NEW add, NEW m, Mail(pop, add, m), NEW u, Concerns(pop, add, m, u),
         NEW op \in OpId, op # u
  PROVE  LET x == Agent(op)
             p == Pops(pop, x) IN
         /\ p \in {0, 1}
         /\ \A i \in Replies(op)' : i + p \in Replies(op) /\ mbox'[x][i] = mbox[x][i + p]
         /\ \A i \in Replies(op) : i - p \in Replies(op)' /\ mbox'[x][i - p] = mbox[x][i]
         /\ Cardinality(Replies(op)') = Cardinality(Replies(op))
<1> DEFINE x == Agent(op)
           p == Pops(pop, x)
<1>0. x \in Actors
  BY AgentIn
<1> HIDE DEF x
<1>1. /\ p \in {0, 1} /\ (x \in pop => 1 \in DOMAIN mbox[x])
      /\ \A k \in DOMAIN mbox[x] : k > p => k - p \in DOMAIN mbox'[x] /\ mbox'[x][k - p] = mbox[x][k]
      /\ \A k \in DOMAIN mbox'[x] :
              \/ k + p \in DOMAIN mbox[x] /\ mbox'[x][k] = mbox[x][k + p]
              \/ x \in add /\ k = Len(mbox'[x]) /\ mbox'[x][k] = m
  BY <1>0, MailFacts
<1>2. p = 1 => x \in pop
  BY DEF Pops
<1>3. DOMAIN mbox[x] \subseteq Nat \ {0} /\ DOMAIN mbox'[x] \subseteq Nat \ {0}
  BY <1>0, Boxes, BoxesNext
<1>4. /\ Replies(op) = {i \in DOMAIN mbox[x] : IsReply(mbox[x][i], op)}
      /\ Replies(op)' = {i \in DOMAIN mbox'[x] : IsReply(mbox'[x][i], op)}
  BY DEF Replies, x, Agent
<1> HIDE DEF p
<1>5. ASSUME NEW i \in Replies(op)' PROVE i + p \in Replies(op) /\ mbox'[x][i] = mbox[x][i + p]
  <2>1. i \in DOMAIN mbox'[x] /\ IsReply(mbox'[x][i], op)
    BY <1>4, <1>5
  <2>2. ~(x \in add /\ mbox'[x][i] = m)
    BY <2>1 DEF Concerns, AboutOp, IsReply
  <2>3. i + p \in DOMAIN mbox[x] /\ mbox'[x][i] = mbox[x][i + p]
    BY <2>1, <2>2, <1>1
  <2>4. QED
    BY <2>1, <2>3, <1>4
<1>6. ASSUME NEW i \in Replies(op) PROVE i - p \in Replies(op)' /\ mbox'[x][i - p] = mbox[x][i]
  <2>1. i \in DOMAIN mbox[x] /\ IsReply(mbox[x][i], op)
    BY <1>4, <1>6
  <2>2. i > p
    <3>1. CASE i <= p
      <4>1. i = 1 /\ x \in pop
        BY <3>1, <2>1, <1>1, <1>2, <1>3
      <4>2. QED
        BY <2>1, <4>1 DEF Concerns, AboutOp, IsReply
    <3>2. QED
      BY <3>1, <2>1, <1>1, <1>3
  <2>3. i - p \in DOMAIN mbox'[x] /\ mbox'[x][i - p] = mbox[x][i]
    BY <2>1, <2>2, <1>1
  <2>4. QED
    BY <2>1, <2>3, <1>4
<1>7. Cardinality(Replies(op)') = Cardinality(Replies(op))
  <2>1. PICK S, T : S = Replies(op) /\ T = Replies(op)'
    OBVIOUS
  <2>2. S \in SUBSET Int /\ T \in SUBSET Int /\ IsFiniteSet(S) /\ p \in Int
    <3>1. IsFiniteSet(Replies(op))
      BY RepliesFinite
    <3>2. Replies(op) \subseteq DOMAIN mbox[x] /\ Replies(op)' \subseteq DOMAIN mbox'[x]
      BY <1>4
    <3>3. Replies(op) \subseteq Int /\ Replies(op)' \subseteq Int
      BY <3>2, <1>3
    <3>4. QED
      BY <2>1, <3>1, <3>3, <1>1
  <2>3. (\A i \in S : i - p \in T) /\ (\A i \in T : i + p \in S)
    BY <2>1, <1>5, <1>6
  <2>4. Cardinality(T) = Cardinality(S)
    BY ONLY <2>2, <2>3, ShiftCard
  <2>5. QED
    BY <2>1, <2>4
<1>8. QED
  BY <1>1, <1>5, <1>6, <1>7 DEF x, p

LEMMA Sendings ==
  ASSUME Shape, NEW a \in Agents
  PROVE  /\ sending[a] \in Seq([to : Actors, m : Msg]) /\ Len(sending[a]) \in Nat
         /\ DOMAIN sending[a] = 1 .. Len(sending[a])
         /\ \A k \in DOMAIN sending[a] : sending[a][k].to \in Actors /\ sending[a][k].m \in Msg
<1> DEFINE M == [to : Actors, m : Msg]
<1>1. sending[a] \in Seq(M)
  BY DEF Shape
<1> HIDE DEF M
<1>2. /\ Len(sending[a]) \in Nat /\ DOMAIN sending[a] = 1 .. Len(sending[a])
      /\ \A k \in DOMAIN sending[a] : sending[a][k] \in M
  BY <1>1, LenProperties, ElementOfSeq
<1>3. QED
  BY <1>1, <1>2 DEF M

LEMMA SendingsNext ==
  ASSUME Shape', NEW a \in Agents
  PROVE  /\ sending'[a] \in Seq([to : Actors, m : Msg]) /\ Len(sending'[a]) \in Nat
         /\ DOMAIN sending'[a] = 1 .. Len(sending'[a])
         /\ \A k \in DOMAIN sending'[a] : sending'[a][k].to \in Actors /\ sending'[a][k].m \in Msg
<1> DEFINE M == [to : Actors, m : Msg]
<1>1. sending'[a] \in Seq(M)
  BY DEF Shape
<1> HIDE DEF M
<1>2. /\ Len(sending'[a]) \in Nat /\ DOMAIN sending'[a] = 1 .. Len(sending'[a])
      /\ \A k \in DOMAIN sending'[a] : sending'[a][k] \in M
  BY <1>1, LenProperties, ElementOfSeq
<1>3. QED
  BY <1>1, <1>2 DEF M

\* Where the requests about another operation are in an agent's broadcast.
Shifted(a, op, p) ==
  /\ \A i \in DOMAIN sending[a] : IsRequest(sending[a][i].m, op) =>
       i - p \in DOMAIN sending'[a] /\ sending'[a][i - p] = sending[a][i]
  /\ \A i \in DOMAIN sending'[a] : IsRequest(sending'[a][i].m, op) =>
       i + p \in DOMAIN sending[a] /\ sending'[a][i] = sending[a][i + p]

LEMMA UnsentMoves ==
  ASSUME Shape, Shape', NEW u, SendingMoves(u), NEW op, op # u, NEW a \in Agents
  PROVE  \E p \in {0, 1} : Shifted(a, op, p)
<1>1. CASE sending'[a] = sending[a]
  <2>1. \A i \in DOMAIN sending[a] : i - 0 = i /\ i + 0 = i
    BY Sendings
  <2>2. Shifted(a, op, 0)
    BY <1>1, <2>1 DEF Shifted
  <2>3. QED
    BY <2>2
<1>2. CASE sending[a] # <<>> /\ sending'[a] = Tail(sending[a]) /\ AboutOp(Head(sending[a]).m, u)
  <2>1. PICK s, t : s = sending[a] /\ t = sending'[a]
    OBVIOUS
  <2> DEFINE M == [to : Actors, m : Msg]
  <2>2. s \in Seq(M) /\ s # <<>> /\ t = Tail(s) /\ AboutOp(Head(s).m, u)
    BY <2>1, <1>2, Sendings
  <2> HIDE DEF M
  <2>3. /\ Len(s) \in Nat /\ 1 <= Len(s) /\ Len(t) = Len(s) - 1
        /\ \A k \in 1 .. Len(s) - 1 : t[k] = s[k + 1]
    BY <2>2, TailSeq
  <2>4. s[1] = Head(s) /\ DOMAIN s = 1 .. Len(s) /\ DOMAIN t = 1 .. Len(t)
    BY <2>2, HeadTailProperties, LenProperties
  <2>5. \A i \in DOMAIN s : IsRequest(s[i].m, op) => i - 1 \in DOMAIN t /\ t[i - 1] = s[i]
    <3> SUFFICES ASSUME NEW i \in 1 .. Len(s), IsRequest(s[i].m, op)
                 PROVE  i - 1 \in 1 .. Len(t) /\ t[i - 1] = s[i]
      BY <2>4
    <3>1. i # 1
      BY <2>2, <2>4 DEF AboutOp, IsRequest
    <3>2. i - 1 \in 1 .. Len(s) - 1 /\ (i - 1) + 1 = i
      BY <3>1, <2>3
    <3>3. QED
      BY <3>2, <2>3
  <2>6. \A i \in DOMAIN t : i + 1 \in DOMAIN s /\ t[i] = s[i + 1]
    <3> SUFFICES ASSUME NEW i \in 1 .. Len(t)
                 PROVE  i + 1 \in 1 .. Len(s) /\ t[i] = s[i + 1]
      BY <2>4
    <3>1. i \in 1 .. Len(s) - 1
      BY <2>3
    <3>2. QED
      BY <3>1, <2>3
  <2>7. Shifted(a, op, 1)
    BY <2>1, <2>5, <2>6 DEF Shifted
  <2>8. QED
    BY <2>7
<1>3. CASE /\ sending[a] = <<>>
           /\ \A i \in DOMAIN sending'[a] : AboutOp(sending'[a][i].m, u)
  <2>1. DOMAIN sending[a] = {}
    BY <1>3
  <2>2. \A i \in DOMAIN sending'[a] : ~IsRequest(sending'[a][i].m, op)
    BY <1>3 DEF AboutOp, IsRequest
  <2>3. Shifted(a, op, 0)
    BY <2>1, <2>2 DEF Shifted
  <2>4. QED
    BY <2>3
<1>4. QED
  BY <1>1, <1>2, <1>3 DEF SendingMoves

LEMMA DueOther ==
  ASSUME Shape, Shape', NEW pop, NEW add, NEW m, Mail(pop, add, m), NEW u, Concerns(pop, add, m, u),
         SendingMoves(u), NEW op \in OpId, op # u, NEW z \in Actors
  PROVE  Due(z, op)' <=> Due(z, op)
<1> DEFINE a == Agent(op)
<1>1. a \in Agents
  BY AgentIn
<1>2. PICK p \in {0, 1} : Shifted(a, op, p)
  BY <1>1, UnsentMoves
<1>3. Unsent(z, op)' <=> Unsent(z, op)
  <2>1. /\ Unsent(z, op) <=> \E i \in DOMAIN sending[a] :
                               sending[a][i].to = z /\ IsRequest(sending[a][i].m, op)
        /\ Unsent(z, op)' <=> \E i \in DOMAIN sending'[a] :
                                sending'[a][i].to = z /\ IsRequest(sending'[a][i].m, op)
    BY DEF Unsent, Agent
  <2> HIDE DEF a
  <2>2. ASSUME NEW i \in DOMAIN sending[a], sending[a][i].to = z /\ IsRequest(sending[a][i].m, op)
        PROVE  \E j \in DOMAIN sending'[a] : sending'[a][j].to = z /\ IsRequest(sending'[a][j].m, op)
    BY <2>2, <1>2 DEF Shifted
  <2>3. ASSUME NEW i \in DOMAIN sending'[a], sending'[a][i].to = z /\ IsRequest(sending'[a][i].m, op)
        PROVE  \E j \in DOMAIN sending[a] : sending[a][j].to = z /\ IsRequest(sending[a][j].m, op)
    BY <2>3, <1>2 DEF Shifted
  <2>4. QED
    BY <2>1, <2>2, <2>3
<1>4. Posted(z, op)' <=> Posted(z, op)
  BY PostedOther
<1>5. QED
  BY <1>3, <1>4 DEF Due

LEMMA GrantedOther ==
  ASSUME Shape, Shape', NEW pop, NEW add, NEW m, Mail(pop, add, m), NEW u, Concerns(pop, add, m, u),
         NEW op \in OpId, op # u, operations'[op].state = operations[op].state
  PROVE  Granted(op)' <=> Granted(op)
<1> DEFINE x == Agent(op)
           p == Pops(pop, x)
<1>1. /\ \A i \in Replies(op)' : i + p \in Replies(op) /\ mbox'[x][i] = mbox[x][i + p]
      /\ \A i \in Replies(op) : i - p \in Replies(op)' /\ mbox'[x][i - p] = mbox[x][i]
  BY RepliesOther
<1>2. /\ Granted(op) <=> operations[op].state = "usm" /\ \E i \in Replies(op) : mbox[x][i].ok
      /\ Granted(op)' <=> operations'[op].state = "usm" /\ \E i \in Replies(op)' : mbox'[x][i].ok
  BY DEF Granted, Agent
<1> HIDE DEF x, p
<1>3. (\E i \in Replies(op) : mbox[x][i].ok) => \E i \in Replies(op)' : mbox'[x][i].ok
  BY <1>1
<1>4. (\E i \in Replies(op)' : mbox'[x][i].ok) => \E i \in Replies(op) : mbox[x][i].ok
  BY <1>1
<1>5. QED
  BY <1>2, <1>3, <1>4

\* A message about another operation is where it was.
WasAt(x, i, p) ==
  p \in {0, 1} /\ i \in Nat /\ i + p \in DOMAIN mbox[x] /\ mbox'[x][i] = mbox[x][i + p]

LEMMA FromBefore ==
  ASSUME Shape, Shape', NEW pop, NEW add, NEW m, Mail(pop, add, m), NEW u, Concerns(pop, add, m, u),
         NEW op, op # u, NEW x \in Actors, NEW i \in DOMAIN mbox'[x],
         IsReply(mbox'[x][i], op) \/ IsRequest(mbox'[x][i], op)
  PROVE  WasAt(x, i, Pops(pop, x))
<1>1. ~(x \in add /\ mbox'[x][i] = m)
  BY DEF Concerns, AboutOp, IsReply, IsRequest
<1>2. i \in Nat
  BY BoxesNext
<1>3. QED
  BY <1>1, <1>2, MailFacts DEF WasAt

LEMMA RepliesOkOther ==
  ASSUME Shape, Shape', NEW pop, NEW add, NEW m, Mail(pop, add, m), NEW u, Concerns(pop, add, m, u),
         NEW op \in OpId, op # u, NEW job, NEW job2, SameOp(op, job, job2), RepliesOk(op, job)
  PROVE  RepliesOk(op, job2)'
<1> SUFFICES ASSUME NEW x \in Actors, NEW i \in DOMAIN mbox'[x], IsReply(mbox'[x][i], op)
             PROVE  GoodReply(x, i, mbox[x][i], job2)'
  BY DEF RepliesOk
<1> DEFINE p == Pops(pop, x)
<1>0. PICK k : k = mbox'[x][i]
  OBVIOUS
<1>1. p \in {0, 1} /\ i \in Nat /\ i + p \in DOMAIN mbox[x] /\ k = mbox[x][i + p]
  <2>1. WasAt(x, i, p)
    BY FromBefore
  <2>2. QED
    BY <1>0, <2>1 DEF WasAt
<1>2. IsReply(k, op) /\ k.op = op
  BY <1>0 DEF IsReply
<1>3. GoodReply(x, i + p, k, job)
  BY <1>1, <1>2 DEF RepliesOk
<1>4. op \in DOMAIN operations' /\ operations'[op] = operations[op] /\ job2[op[1]] = job[op[1]]
  BY <1>2, <1>3 DEF GoodReply, SameOp
<1>5. ASSUME operations'[op].state = "usm", NEW j \in DOMAIN mbox'[x], IsReply(mbox'[x][j], op)
      PROVE  j = i
  <2>1. j \in Nat /\ j + p \in DOMAIN mbox[x] /\ mbox'[x][j] = mbox[x][j + p]
    <3>1. WasAt(x, j, p)
      BY <1>5, FromBefore
    <3>2. QED
      BY <3>1 DEF WasAt
  <2>2. j + p = i + p
    BY <1>2, <1>3, <1>4, <1>5, <2>1 DEF GoodReply
  <2>3. QED
    BY <2>1, <2>2, <1>1
<1> HIDE DEF p
<1>6. GoodReply(x, i, k, job2)'
  BY <1>2, <1>3, <1>4, <1>5 DEF GoodReply
<1>7. QED
  BY <1>0, <1>6

LEMMA PostedOkOther ==
  ASSUME Shape, Shape', NEW pop, NEW add, NEW m, Mail(pop, add, m), NEW u, Concerns(pop, add, m, u),
         NEW op \in OpId, op # u, NEW job, NEW job2, SameOp(op, job, job2), PostedOk(op, job)
  PROVE  PostedOk(op, job2)'
<1> SUFFICES ASSUME NEW x \in Actors, NEW i \in DOMAIN mbox'[x], IsRequest(mbox'[x][i], op)
             PROVE  /\ GoodRequest(mbox[x][i], job2)'
                    /\ \A j \in DOMAIN mbox'[x] : IsRequest(mbox'[x][j], op) => j = i
  BY DEF PostedOk
<1> DEFINE p == Pops(pop, x)
<1>0. PICK k : k = mbox'[x][i]
  OBVIOUS
<1>1. p \in {0, 1} /\ i \in Nat /\ i + p \in DOMAIN mbox[x] /\ k = mbox[x][i + p]
  <2>1. WasAt(x, i, p)
    BY FromBefore
  <2>2. QED
    BY <1>0, <2>1 DEF WasAt
<1>2. IsRequest(k, op) /\ k.op = op
  BY <1>0 DEF IsRequest
<1>3. GoodRequest(k, job) /\ \A j \in DOMAIN mbox[x] : IsRequest(mbox[x][j], op) => j = i + p
  BY <1>1, <1>2 DEF PostedOk
<1>4. op \in DOMAIN operations' /\ operations'[op] = operations[op] /\ job2[op[1]] = job[op[1]]
  BY <1>2, <1>3 DEF GoodRequest, SameOp
<1>5. ASSUME NEW j \in DOMAIN mbox'[x], IsRequest(mbox'[x][j], op)
      PROVE  j = i
  <2>1. j \in Nat /\ j + p \in DOMAIN mbox[x] /\ mbox'[x][j] = mbox[x][j + p]
    <3>1. WasAt(x, j, p)
      BY <1>5, FromBefore
    <3>2. QED
      BY <3>1 DEF WasAt
  <2>2. j + p = i + p
    BY <1>3, <1>5, <2>1
  <2>3. QED
    BY <2>1, <2>2, <1>1
<1> HIDE DEF p
<1>6. GoodRequest(k, job2)'
  BY <1>2, <1>3, <1>4 DEF GoodRequest
<1>7. QED
  BY <1>0, <1>5, <1>6

LEMMA UnsentOkOther ==
  ASSUME Shape, Shape', NEW pop, NEW add, NEW m, Mail(pop, add, m), NEW u, Concerns(pop, add, m, u),
         SendingMoves(u), NEW op \in OpId, op # u, NEW job, NEW job2, SameOp(op, job, job2),
         UnsentOk(op, job)
  PROVE  UnsentOk(op, job2)'
<1> SUFFICES ASSUME NEW a \in Agents, NEW i \in DOMAIN sending'[a], IsRequest(sending'[a][i].m, op)
             PROVE  /\ GoodRequest(sending[a][i].m, job2)'
                    /\ Agent(op) = a
                    /\ ~Posted(sending[a][i].to, op)'
                    /\ \A j \in DOMAIN sending'[a] :
                         IsRequest(sending'[a][j].m, op) /\ sending'[a][j].to = sending'[a][i].to => j = i
  BY DEF UnsentOk
<1>1. PICK p \in {0, 1} : Shifted(a, op, p)
  BY UnsentMoves
<1>2. i + p \in DOMAIN sending[a] /\ sending'[a][i] = sending[a][i + p]
  BY <1>1 DEF Shifted
<1>3. DOMAIN sending'[a] \subseteq Nat /\ sending'[a][i].to \in Actors
  BY SendingsNext
<1>0. PICK k, to : k = sending'[a][i].m /\ to = sending'[a][i].to
  OBVIOUS
<1>4. IsRequest(k, op) /\ k.op = op
  BY <1>0 DEF IsRequest
<1>5. /\ GoodRequest(k, job) /\ Agent(op) = a /\ ~Posted(to, op)
      /\ \A j \in DOMAIN sending[a] : IsRequest(sending[a][j].m, op) /\ sending[a][j].to = to => j = i + p
  BY <1>0, <1>2, <1>4 DEF UnsentOk
<1>6. op \in DOMAIN operations' /\ operations'[op] = operations[op] /\ job2[op[1]] = job[op[1]]
  BY <1>4, <1>5 DEF GoodRequest, SameOp
<1>7. ASSUME NEW j \in DOMAIN sending'[a], IsRequest(sending'[a][j].m, op), sending'[a][j].to = to
      PROVE  j = i
  <2>1. j + p \in DOMAIN sending[a] /\ sending'[a][j] = sending[a][j + p]
    BY <1>7, <1>1 DEF Shifted
  <2>2. j + p = i + p
    BY <1>5, <1>7, <2>1
  <2>3. QED
    BY <2>2, <1>3
<1>8. ~Posted(to, op)'
  BY <1>0, <1>3, <1>5, PostedOther
<1>9. GoodRequest(k, job2)'
  BY <1>4, <1>5, <1>6 DEF GoodRequest
<1>10. QED
  BY <1>0, <1>5, <1>7, <1>8, <1>9

LEMMA CountOkOther ==
  ASSUME Shape, Shape', NEW pop, NEW add, NEW m, Mail(pop, add, m), NEW u, Concerns(pop, add, m, u),
         SendingMoves(u), NEW op \in OpId, op # u, NEW job, NEW job2, SameOp(op, job, job2),
         CountOk(op)
  PROVE  CountOk(op)'
<1> DEFINE D == {x \in Actors : Due(x, op)}
<1>1. D' = D
  BY DueOther
<1>2. Cardinality(Replies(op)') = Cardinality(Replies(op))
  BY RepliesOther
<1>3. CountOk(op)' <=> (op \in DOMAIN operations' /\ operations'[op].state = "tasengines" =>
                          operations'[op].msgwaits = Cardinality(D') + Cardinality(Replies(op)'))
  BY DEF CountOk
<1> HIDE DEF D
<1>4. CountOk(op) <=> (op \in DOMAIN operations /\ operations[op].state = "tasengines" =>
                         operations[op].msgwaits = Cardinality(D) + Cardinality(Replies(op)))
  BY DEF CountOk, D
<1>5. QED
  BY <1>1, <1>2, <1>3, <1>4 DEF SameOp

LEMMA OpOther ==
  ASSUME Shape, Shape', NEW pop, NEW add, NEW m, Mail(pop, add, m), NEW u, Concerns(pop, add, m, u),
         SendingMoves(u), NEW op \in OpId, op # u, NEW job, NEW job2, SameOp(op, job, job2),
         OpInv(op, job)
  PROVE  OpInv(op, job2)'
  BY RepliesOkOther, PostedOkOther, UnsentOkOther, CountOkOther DEF OpInv

\* What a step about u does: it takes and puts messages about u, and changes no other operation.
StepOf(u, pop, add, m, job, job2) ==
  /\ Mail(pop, add, m) /\ Concerns(pop, add, m, u) /\ SendingMoves(u)
  /\ \A op \in OpId : op # u => SameOp(op, job, job2)

\* Where the other operations are has not changed.
Frame(u, job, job2) ==
  \A op \in DOMAIN operations : op # u =>
    /\ SameOp(op, job, job2)
    /\ Granted(op)' <=> Granted(op)
    /\ \A x \in Actors : Due(x, op)' <=> Due(x, op)

LEMMA OpsInOpId == ASSUME Shape PROVE DOMAIN operations \subseteq OpId
                   /\ \A op \in DOMAIN operations : operations[op] \in Operation
<1>1. operations \in Partial(OpId, Operation)
  BY DEF Shape
<1>2. QED
  BY <1>1, PartialFun

LEMMA FrameStep ==
  ASSUME Shape, Shape', NEW pop, NEW add, NEW m, NEW u, NEW job, NEW job2,
         StepOf(u, pop, add, m, job, job2)
  PROVE  Frame(u, job, job2)
<1> SUFFICES ASSUME NEW op \in DOMAIN operations, op # u
             PROVE  /\ SameOp(op, job, job2)
                    /\ Granted(op)' <=> Granted(op)
                    /\ \A x \in Actors : Due(x, op)' <=> Due(x, op)
  BY DEF Frame
<1>1. Mail(pop, add, m) /\ Concerns(pop, add, m, u) /\ SendingMoves(u)
  BY DEF StepOf
<1>2. op \in OpId
  BY OpsInOpId
<1>3. SameOp(op, job, job2)
  BY <1>2 DEF StepOf
<1>4. operations'[op].state = operations[op].state
  BY <1>3 DEF SameOp
<1>5. Granted(op)' <=> Granted(op)
  BY <1>1, <1>2, <1>4, GrantedOther
<1>6. \A x \in Actors : Due(x, op)' <=> Due(x, op)
  BY <1>1, <1>2, DueOther
<1>7. QED
  BY <1>3, <1>5, <1>6

LEMMA OpsOther ==
  ASSUME Shape, Shape', NEW pop, NEW add, NEW m, NEW u, NEW job, NEW job2,
         StepOf(u, pop, add, m, job, job2), \A op \in OpId : OpInv(op, job),
         u \in OpId => OpInv(u, job2)'
  PROVE  \A op \in OpId : OpInv(op, job2)'
<1>1. Mail(pop, add, m) /\ Concerns(pop, add, m, u) /\ SendingMoves(u)
      /\ \A op \in OpId : op # u => SameOp(op, job, job2)
  BY DEF StepOf
<1>2. ASSUME NEW op \in OpId, op # u PROVE OpInv(op, job2)'
  BY <1>1, <1>2, OpOther
<1>3. QED
  BY <1>2

LEMMA UsmOther ==
  ASSUME Shape, Shape', NEW pop, NEW add, NEW m, NEW u, NEW job, NEW job2,
         StepOf(u, pop, add, m, job, job2), UsmInv, usmMbox' = usmMbox, answers \subseteq answers',
         \A i \in DOMAIN usmMbox : usmMbox[i].op # u
  PROVE  UsmInv'
<1>1. ASSUME NEW i \in DOMAIN usmMbox PROVE AtManager(usmMbox[i])'
  <2>1. PICK r : r = usmMbox[i]
    OBVIOUS
  <2>2. AtManager(r) /\ r.op # u /\ r = usmMbox'[i]
    BY <2>1 DEF UsmInv
  <2>3. r.op \in DOMAIN operations /\ operations[r.op].state = "usm" /\ operations[r.op].cmd = r.cmd
        /\ Replies(r.op) = {}
    BY <2>2 DEF AtManager
  <2>4. r.op \in OpId
    BY <2>3, OpsInOpId
  <2>5. r.op \in DOMAIN operations' /\ operations'[r.op] = operations[r.op]
    BY <2>2, <2>3, <2>4 DEF StepOf, SameOp
  <2>6. Replies(r.op)' = {}
    <3>1. PICK op : op = r.op
      OBVIOUS
    <3>2. op \in OpId /\ op # u /\ Replies(op) = {}
      BY <3>1, <2>2, <2>3, <2>4
    <3>3. \A j \in Replies(op)' : j + Pops(pop, Agent(op)) \in Replies(op)
      BY <3>2, RepliesOther DEF StepOf
    <3>4. Replies(op)' = {}
      BY <3>2, <3>3
    <3>5. QED
      BY <3>1, <3>4
  <2>7. TablesOf(r.op[1]) \subseteq TablesOf(r.op[1])'
    BY DEF TablesOf
  <2>8. AtManager(r)'
    BY <2>2, <2>3, <2>5, <2>6, <2>7 DEF AtManager
  <2>9. QED
    BY <2>2, <2>8
<1>2. QED
  BY <1>1 DEF UsmInv

LEMMA NoOpThere == \E u : u \notin OpId
  BY NoSetContainsEverything

-----------------------------------------------------------------------------
(* A client starts an operation.                                           *)

\* No message is about an operation that is not there.
LEMMA NoMessages ==
  ASSUME Shape, NEW job, NEW op \in OpId, OpInv(op, job), op \notin DOMAIN operations
  PROVE  /\ \A x \in Actors : \A i \in DOMAIN mbox[x] :
              ~IsReply(mbox[x][i], op) /\ ~IsRequest(mbox[x][i], op)
         /\ \A a \in Agents : \A i \in DOMAIN sending[a] : ~IsRequest(sending[a][i].m, op)
  BY DEF OpInv, RepliesOk, PostedOk, UnsentOk, GoodReply, GoodRequest, IsReply, IsRequest

\* No request is about an operation that is with the manager.
LEMMA NoRequests ==
  ASSUME Shape, NEW job, NEW op \in OpId, OpInv(op, job), operations[op].state = "usm"
  PROVE  /\ \A x \in Actors : \A i \in DOMAIN mbox[x] : ~IsRequest(mbox[x][i], op)
         /\ \A a \in Agents : \A i \in DOMAIN sending[a] : ~IsRequest(sending[a][i].m, op)
  BY DEF OpInv, PostedOk, UnsentOk, GoodRequest, IsRequest

StartStep(c, cmd, table, column, u) ==
  /\ u = <<c, issued + 1>> /\ u \in OpId /\ u \notin DOMAIN operations
  /\ ~waiting[c] /\ waiting' = [waiting EXCEPT ![c] = TRUE]
  /\ cmd # "createschema" => ToldSchema
  /\ operations' = With(operations, u, [cmd |-> cmd, state |-> "usm", msgwaits |-> 0])
  /\ usmMbox' = Append(usmMbox, [cmd |-> cmd, op |-> u, table |-> table, column |-> column])
  /\ cmd = "addcolumn" => table \in TablesOf(c)
  /\ UNCHANGED <<manager, copy, names, statements, procedures, mbox, sending, answers, up>>

LEMMA StartIs ==
  ASSUME Shape, Shape', NEW job, Operational(job), Disciplined, NEW c \in Clients,
         NEW cmd, NEW table, NEW column, Start(c, cmd, table, column),
         cmd = "addcolumn" => table \in TablesOf(c)
  PROVE  \E u : StartStep(c, cmd, table, column, u)
<1>1. PICK u : u = <<c, issued + 1>>
  OBVIOUS
<1>2. issued' = issued + 1 /\ issued' \in Nat
  BY SentOne DEF Start
<1>3. u \in OpId /\ u[1] = c
  BY <1>1, <1>2 DEF OpId
<1>4. ~waiting[c] /\ (cmd # "createschema" => ToldSchema)
  BY DEF Start, Sends
<1>5. u \notin DOMAIN operations
  BY <1>3, <1>4 DEF Operational, OneEach
<1>6. StartStep(c, cmd, table, column, u)
  BY <1>1, <1>2, <1>3, <1>4, <1>5 DEF StartStep, Start, managerVars, copyVars
<1>7. QED
  BY <1>6

LEMMA StartSame ==
  ASSUME Shape, Shape', NEW job, Operational(job), NEW c \in Clients, NEW cmd, NEW table, NEW column,
         NEW u, StartStep(c, cmd, table, column, u)
  PROVE  StepOf(u, {}, {}, <<>>, job, job)
<1>1. Mail({}, {}, <<>>) /\ Concerns({}, {}, <<>>, u)
  BY MailSame DEF StartStep, Concerns
<1>2. SendingMoves(u)
  BY DEF SendingMoves, StartStep
<1>3. /\ DOMAIN operations' = DOMAIN operations \cup {u}
      /\ \A op \in DOMAIN operations : op # u => operations'[op] = operations[op]
  <2>1. PICK o : o = [cmd |-> cmd, state |-> "usm", msgwaits |-> 0]
    OBVIOUS
  <2>2. operations' = With(operations, u, o)
    BY <2>1 DEF StartStep
  <2>3. Extended(operations', operations, u, o)
    BY <2>2, WithDom
  <2>4. QED
    BY <2>1, <2>3 DEF Extended
<1>4. \A op \in OpId : op # u => SameOp(op, job, job)
  BY <1>3 DEF SameOp
<1>5. QED
  BY <1>1, <1>2, <1>4 DEF StepOf

LEMMA StartOps ==
  ASSUME Shape, Shape', NEW job, Operational(job), NEW c \in Clients, NEW cmd, NEW table, NEW column,
         NEW u, StartStep(c, cmd, table, column, u)
  PROVE  Operational(job)' /\ ~Accepted(u)'
<1>0. StepOf(u, {}, {}, <<>>, job, job)
  BY StartSame
<1>1. /\ u \in OpId /\ u \notin DOMAIN operations /\ u[1] = c
      /\ UNCHANGED <<mbox, sending, answers>>
  BY DEF StartStep
<1>2. /\ DOMAIN operations' = DOMAIN operations \cup {u}
      /\ operations'[u] = [cmd |-> cmd, state |-> "usm", msgwaits |-> 0]
      /\ \A op \in DOMAIN operations : op # u => operations'[op] = operations[op]
  <2>1. PICK o : o = [cmd |-> cmd, state |-> "usm", msgwaits |-> 0]
    OBVIOUS
  <2>2. operations' = With(operations, u, o)
    BY <2>1 DEF StartStep
  <2>3. Extended(operations', operations, u, o)
    BY <2>2, WithDom
  <2>4. QED
    BY <2>1, <2>3 DEF Extended
<1>3. operations'[u].state = "usm" /\ operations'[u].cmd = cmd
  BY <1>2
<1>4. /\ \A x \in Actors : \A i \in DOMAIN mbox[x] :
              ~IsReply(mbox[x][i], u) /\ ~IsRequest(mbox[x][i], u)
      /\ \A a \in Agents : \A i \in DOMAIN sending[a] : ~IsRequest(sending[a][i].m, u)
  BY <1>1, NoMessages DEF Operational
<1>5. OpInv(u, job)'
  BY <1>1, <1>3, <1>4 DEF OpInv, RepliesOk, PostedOk, UnsentOk, CountOk
<1>6. \A op \in OpId : OpInv(op, job)'
  BY <1>0, <1>5, OpsOther DEF Operational
<1>7. Agent(u) \in Actors
  BY <1>1, AgentIn
<1>8. Replies(u)' = {}
  BY <1>1, <1>4, <1>7 DEF Replies, Agent
<1>9. OneEach'
  <2>1. \A op \in DOMAIN operations : op[1] # c
    BY DEF StartStep, Operational, OneEach
  <2>2. waiting' = [waiting EXCEPT ![c] = TRUE] /\ waiting \in [Clients -> BOOLEAN]
    BY DEF StartStep, Shape
  <2>3. \A op \in DOMAIN operations' : waiting'[op[1]]
    <3>1. \A op \in DOMAIN operations : waiting[op[1]] /\ op[1] \in Clients
      BY OpsInOpId, AgentIn DEF Operational, OneEach
    <3>2. QED
      BY <3>1, <2>2, <1>1, <1>2
  <2>4. ToldSchema' <=> ToldSchema
    BY <1>1 DEF ToldSchema
  <2>5. \A op, op2 \in DOMAIN operations' : op[1] = op2[1] => op = op2
    BY <2>1, <1>1, <1>2 DEF Operational, OneEach
  <2>6. \A op \in DOMAIN operations' : operations'[op].cmd # "createschema" => ToldSchema'
    BY <2>4, <1>2, <1>3 DEF Operational, OneEach, StartStep
  <2>7. QED
    BY <2>3, <2>5, <2>6 DEF OneEach
<1>10. UsmInv'
  <2> DEFINE r == [cmd |-> cmd, op |-> u, table |-> table, column |-> column]
  <2>1. usmMbox' = Append(usmMbox, r) /\ usmMbox \in Seq(UsmRequest)
    BY DEF StartStep, Shape
  <2>2. /\ DOMAIN usmMbox' = 1 .. Len(usmMbox) + 1 /\ DOMAIN usmMbox = 1 .. Len(usmMbox)
        /\ Len(usmMbox) \in Nat
        /\ \A i \in 1 .. Len(usmMbox) : usmMbox'[i] = usmMbox[i]
        /\ usmMbox'[Len(usmMbox) + 1] = r
    <3> HIDE DEF r
    <3>1. Len(usmMbox) \in Nat /\ DOMAIN usmMbox = 1 .. Len(usmMbox)
      BY <2>1
    <3>2. QED
      BY <2>1, <3>1, AppendSeq
  <2>3. AtManager(r)'
    BY <1>1, <1>2, <1>3, <1>8 DEF AtManager, StartStep, TablesOf
  <2>4. ASSUME NEW i \in DOMAIN usmMbox PROVE AtManager(usmMbox[i])' /\ usmMbox[i].op \in DOMAIN operations
    <3>1. PICK q : q = usmMbox[i]
      OBVIOUS
    <3>2. AtManager(q) /\ q = usmMbox'[i]
      BY <3>1, <2>2 DEF Operational, UsmInv
    <3>3. Replies(q.op)' = Replies(q.op) /\ TablesOf(q.op[1])' = TablesOf(q.op[1])
      BY <1>1 DEF Replies, Agent, TablesOf
    <3>4. q.op \in DOMAIN operations /\ q.op # u
      BY <3>2, <1>1 DEF AtManager
    <3>5. AtManager(q)'
      BY <3>2, <3>3, <3>4, <1>2 DEF AtManager
    <3>6. QED
      BY <3>1, <3>2, <3>4, <3>5
  <2>5. r.op = u
    OBVIOUS
  <2> HIDE DEF r
  <2>6. \A i \in DOMAIN usmMbox' : AtManager(usmMbox[i])'
    BY <2>2, <2>3, <2>4
  <2>7. \A i, j \in DOMAIN usmMbox' : i # j => usmMbox'[i].op # usmMbox'[j].op
    <3>1. \A i, j \in DOMAIN usmMbox : i # j => usmMbox[i].op # usmMbox[j].op
      BY DEF Operational, UsmInv
    <3>2. \A i \in DOMAIN usmMbox : usmMbox[i].op # u
      BY <2>4, <1>1
    <3>3. QED
      BY <3>1, <3>2, <2>2, <2>5
  <2>8. QED
    BY <2>6, <2>7 DEF UsmInv
<1>11. NoReplySent'
  BY <1>1 DEF NoReplySent, Operational
<1>12. ~Accepted(u)'
  BY <1>3, <1>8 DEF Accepted, Granted
<1>13. QED
  BY <1>6, <1>9, <1>10, <1>11, <1>12 DEF Operational

-----------------------------------------------------------------------------
(* The manager answers.                                                    *)

Reported(k, u) ==
  /\ usmMbox # <<>> /\ u = Head(usmMbox).op /\ usmMbox' = Tail(usmMbox)
  /\ k \in ReplyMsg /\ k.op = u
  /\ ~k.ok => k.tableid = 0 /\ k.fieldid = 0 /\ k.name = NoName
  /\ mbox' = [mbox EXCEPT ![Agent(u)] = Append(@, k)]
  /\ UNCHANGED <<copy, names, statements, procedures, operations, sending, waiting, issued, answers, up>>

NewJob(job, k) ==
  IF k.ok THEN [job EXCEPT ![k.op[1]] = [tableid |-> k.tableid, fieldid |-> k.fieldid, name |-> k.name]]
  ELSE job

LEMMA TailFirst ==
  ASSUME NEW S, NEW s \in Seq(S), s # <<>>
  PROVE  /\ Len(s) \in Nat /\ 1 \in DOMAIN s /\ s[1] = Head(s) /\ Head(s) \in S
         /\ DOMAIN s = 1 .. Len(s) /\ Tail(s) \in Seq(S)
         /\ \A i \in DOMAIN Tail(s) : i \in Nat /\ i + 1 \in DOMAIN s /\ i + 1 # 1 /\ Tail(s)[i] = s[i + 1]
<1>1. /\ Len(s) \in Nat /\ 1 <= Len(s) /\ Len(Tail(s)) = Len(s) - 1
      /\ \A k \in 1 .. Len(s) - 1 : Tail(s)[k] = s[k + 1]
  BY TailSeq
<1>2. PICK t : t = Tail(s)
  OBVIOUS
<1>3. t \in Seq(S) /\ DOMAIN t = 1 .. Len(t) /\ DOMAIN s = 1 .. Len(s) /\ s[1] = Head(s) /\ Head(s) \in S
  BY <1>2, HeadTailProperties, LenProperties
<1>4. \A i \in DOMAIN t : i \in Nat /\ i + 1 \in DOMAIN s /\ i + 1 # 1 /\ t[i] = s[i + 1]
  BY <1>1, <1>2, <1>3
<1>5. QED
  BY <1>1, <1>2, <1>3, <1>4

LEMMA ManagerSame ==
  ASSUME Shape, Shape', NEW job \in [Clients -> Job], Operational(job), NEW k, NEW u, Reported(k, u)
  PROVE  /\ StepOf(u, {}, {Agent(u)}, k, job, NewJob(job, k))
         /\ u \in DOMAIN operations /\ operations[u].state = "usm" /\ Replies(u) = {}
         /\ NewJob(job, k) \in [Clients -> Job]
         /\ AtManager(Head(usmMbox)) /\ Head(usmMbox) \in UsmRequest
<1>1. usmMbox \in Seq(UsmRequest) /\ usmMbox # <<>>
  BY DEF Shape, Reported
<1>2. Head(usmMbox) \in UsmRequest /\ 1 \in DOMAIN usmMbox /\ usmMbox[1] = Head(usmMbox)
  BY <1>1, TailFirst
<1>3. AtManager(Head(usmMbox)) /\ u = Head(usmMbox).op
  BY <1>2 DEF Operational, UsmInv, Reported
<1>4. u \in DOMAIN operations /\ operations[u].state = "usm" /\ Replies(u) = {}
  BY <1>3 DEF AtManager
<1>5. u \in OpId
  BY <1>4, OpsInOpId
<1>6. u[1] \in Clients /\ Agent(u) \in Actors
  BY <1>5, AgentIn
<1>7. Mail({}, {Agent(u)}, k)
  BY <1>6, MailAppend DEF Reported
<1>8. Concerns({}, {Agent(u)}, k, u)
  BY DEF Concerns, AboutOp, Reported
<1>9. SendingMoves(u)
  BY DEF SendingMoves, Reported
<1>10. NewJob(job, k) \in [Clients -> Job]
  <2>1. [tableid |-> k.tableid, fieldid |-> k.fieldid, name |-> k.name] \in Job
    BY DEF Reported, ReplyMsg, Job
  <2>2. QED
    BY <2>1 DEF NewJob
<1>11. ASSUME NEW op \in OpId, op # u PROVE SameOp(op, job, NewJob(job, k))
  <2>1. CASE op \in DOMAIN operations
    <3>1. op[1] # u[1] /\ k.op = u
      BY <2>1, <1>4, <1>11 DEF Operational, OneEach, Reported
    <3>2. op[1] \in Clients
      BY <1>11, AgentIn
    <3>3. NewJob(job, k)[op[1]] = job[op[1]]
      BY <3>1, <3>2 DEF NewJob
    <3>4. QED
      BY <2>1, <3>3 DEF SameOp, Reported
  <2>2. CASE op \notin DOMAIN operations
    BY <2>2 DEF SameOp, Reported
  <2>3. QED
    BY <2>1, <2>2
<1>12. QED
  BY <1>2, <1>3, <1>4, <1>7, <1>8, <1>9, <1>10, <1>11 DEF StepOf

LEMMA ManagerOps ==
  ASSUME Shape, Shape', NEW job \in [Clients -> Job], Operational(job), NEW k, NEW u, Reported(k, u)
  PROVE  /\ Operational(NewJob(job, k))'
         /\ ~Accepted(u) /\ (Granted(u)' <=> k.ok) /\ \A x \in Actors : ~Due(x, u)'
<1> DEFINE job2 == NewJob(job, k)
           a == Agent(u)
<1>0. StepOf(u, {}, {a}, k, job, job2)
  BY ManagerSame
<1>1. /\ u \in DOMAIN operations /\ operations[u].state = "usm" /\ Replies(u) = {}
      /\ UNCHANGED <<operations, sending, answers, waiting>> /\ k.op = u /\ k.topic = "SCHEMAREPLY"
      /\ ~k.ok => k.tableid = 0 /\ k.fieldid = 0 /\ k.name = NoName
  BY ManagerSame DEF Reported, ReplyMsg
<1>2. u \in OpId /\ u[1] \in Clients /\ a \in Actors
  BY <1>1, OpsInOpId, AgentIn
<1>3. /\ \A x \in Actors : \A i \in DOMAIN mbox[x] : ~IsRequest(mbox[x][i], u)
      /\ \A b \in Agents : \A i \in DOMAIN sending[b] : ~IsRequest(sending[b][i].m, u)
  BY <1>1, <1>2, NoRequests DEF Operational
<1>4. \A x \in Actors : \A i \in DOMAIN mbox[x] : ~IsReply(mbox[x][i], u)
  <2> SUFFICES ASSUME NEW x \in Actors, NEW i \in DOMAIN mbox[x], IsReply(mbox[x][i], u) PROVE FALSE
    OBVIOUS
  <2>1. GoodReply(x, i, mbox[x][i], job) /\ mbox[x][i].op = u
    BY <1>2 DEF Operational, OpInv, RepliesOk, IsReply
  <2>2. x = a
    BY <2>1 DEF GoodReply
  <2>3. i \in Replies(u)
    BY <2>2 DEF Replies
  <2>4. QED
    BY <2>3, <1>1
<1> DEFINE n == Len(mbox'[a])
<1>5. /\ n \in DOMAIN mbox'[a] /\ mbox'[a][n] = k
      /\ \A x \in Actors : \A i \in DOMAIN mbox'[x] :
           \/ \E j \in DOMAIN mbox[x] : mbox'[x][i] = mbox[x][j]
           \/ x = a /\ i = n /\ mbox'[x][i] = k
  <2>1. Mail({}, {a}, k)
    BY <1>0 DEF StepOf
  <2>2. a \in {a} /\ \A x : x \in {a} => x = a
    OBVIOUS
  <2> HIDE DEF a
  <2>3. n \in DOMAIN mbox'[a] /\ mbox'[a][n] = k
    BY <2>1, <2>2, <1>2, MailFacts
  <2>4. ASSUME NEW x \in Actors, NEW i \in DOMAIN mbox'[x]
        PROVE  \/ \E j \in DOMAIN mbox[x] : mbox'[x][i] = mbox[x][j]
               \/ x = a /\ i = n /\ mbox'[x][i] = k
    <3>1. \/ i + Pops({}, x) \in DOMAIN mbox[x] /\ mbox'[x][i] = mbox[x][i + Pops({}, x)]
          \/ x \in {a} /\ i = Len(mbox'[x]) /\ mbox'[x][i] = k
      BY <2>1, MailFacts
    <3>2. QED
      BY <3>1, <2>2
  <2>5. QED
    BY <2>3, <2>4
<1> HIDE DEF n, a, job2
<1>6. \A x \in Actors : \A i \in DOMAIN mbox'[x] :
        /\ ~IsRequest(mbox'[x][i], u)
        /\ IsReply(mbox'[x][i], u) => x = a /\ i = n /\ mbox'[x][i] = k
  BY <1>1, <1>3, <1>4, <1>5 DEF IsRequest
<1>7. k.ok => /\ job2[u[1]].tableid = k.tableid /\ job2[u[1]].fieldid = k.fieldid
              /\ job2[u[1]].name = k.name
  BY <1>1, <1>2 DEF NewJob, job2
<1>8. RepliesOk(u, job2)'
  <2> SUFFICES ASSUME NEW x \in Actors, NEW i \in DOMAIN mbox'[x], IsReply(mbox'[x][i], u)
               PROVE  GoodReply(x, i, mbox[x][i], job2)'
    BY DEF RepliesOk
  <2>1. x = a /\ i = n /\ mbox'[x][i] = k
    BY <1>6
  <2>2. GoodReply(x, i, k, job2)'
    BY <2>1, <1>1, <1>6, <1>7 DEF GoodReply, a
  <2>3. QED
    BY <2>1, <2>2
<1>9. PostedOk(u, job2)' /\ UnsentOk(u, job2)' /\ CountOk(u)'
  BY <1>1, <1>3, <1>6 DEF PostedOk, UnsentOk, CountOk
<1>10. \A op \in OpId : OpInv(op, job2)'
  BY <1>0, <1>8, <1>9, OpsOther DEF Operational, OpInv
<1>11. OneEach'
  BY <1>1 DEF Operational, OneEach, ToldSchema
<1>12. NoReplySent'
  BY <1>1 DEF Operational, NoReplySent
<1>13. UsmInv'
  <2>1. /\ usmMbox \in Seq(UsmRequest) /\ usmMbox # <<>> /\ usmMbox' = Tail(usmMbox)
        /\ u = Head(usmMbox).op
    BY DEF Shape, Reported
  <2>2. /\ 1 \in DOMAIN usmMbox /\ usmMbox[1].op = u
        /\ \A i \in DOMAIN usmMbox' : i \in Nat /\ i + 1 \in DOMAIN usmMbox /\ i + 1 # 1
                                      /\ usmMbox'[i] = usmMbox[i + 1]
    <3>1. usmMbox[1] = Head(usmMbox)
      BY <2>1, TailFirst
    <3>2. QED
      BY <2>1, <3>1, TailFirst
  <2>3. \A i, j \in DOMAIN usmMbox : i # j => usmMbox[i].op # usmMbox[j].op
    BY DEF Operational, UsmInv
  <2>4. ASSUME NEW i \in DOMAIN usmMbox' PROVE AtManager(usmMbox[i])'
    <3>1. PICK r : r = usmMbox'[i]
      OBVIOUS
    <3>2. AtManager(r) /\ r.op # u
      BY <3>1, <2>2, <2>3 DEF Operational, UsmInv
    <3>3. PICK op : op = r.op
      OBVIOUS
    <3>4. op \in OpId /\ op # u /\ Replies(op) = {}
      BY <3>2, <3>3, OpsInOpId DEF AtManager
    <3>5. \A j \in Replies(op)' : j + Pops({}, Agent(op)) \in Replies(op)
      BY <1>0, <3>4, RepliesOther DEF StepOf
    <3>6. Replies(op)' = {}
      BY <3>4, <3>5
    <3>7. AtManager(r)'
      BY <1>1, <3>2, <3>3, <3>6 DEF AtManager, TablesOf
    <3>8. QED
      BY <3>1, <3>7
  <2>5. \A i, j \in DOMAIN usmMbox' : i # j => usmMbox'[i].op # usmMbox'[j].op
    <3> SUFFICES ASSUME NEW i \in DOMAIN usmMbox', NEW j \in DOMAIN usmMbox', i # j
                 PROVE  usmMbox'[i].op # usmMbox'[j].op
      OBVIOUS
    <3>1. i + 1 # j + 1
      BY <2>2
    <3>2. QED
      BY <3>1, <2>2, <2>3
  <2>6. QED
    BY <2>4, <2>5 DEF UsmInv
<1>14. ~Accepted(u)
  BY <1>1 DEF Accepted, Granted
<1>15. Granted(u)' <=> k.ok
  <2>1. Granted(u)' <=> operations'[u].state = "usm" /\ \E i \in Replies(u)' : mbox'[a][i].ok
    BY DEF Granted, a, Agent
  <2>2. Replies(u)' = {n}
    <3>1. Replies(u)' = {i \in DOMAIN mbox'[a] : IsReply(mbox'[a][i], u)}
      BY DEF Replies, a, Agent
    <3>2. QED
      BY <3>1, <1>1, <1>2, <1>5, <1>6 DEF IsReply
  <2>3. QED
    BY <2>1, <2>2, <1>1, <1>5
<1>16. ASSUME NEW x \in Actors PROVE ~Due(x, u)'
  <2>1. ~Posted(x, u)'
    BY <1>6 DEF Posted
  <2>2. Agent(u) \in Agents
    BY <1>2, AgentIn
  <2>3. ~Unsent(x, u)'
    BY <2>2, <1>1, <1>3 DEF Unsent, Agent
  <2>4. QED
    BY <2>1, <2>3 DEF Due
<1>17. QED
  BY <1>10, <1>11, <1>12, <1>13, <1>14, <1>15, <1>16 DEF Operational, job2

ManagerDid(r, k) ==
  \/ ~k.ok /\ manager' = manager
  \/ /\ k.ok /\ r.cmd = "createschema" /\ ~manager.schema
     /\ manager' = [manager EXCEPT !.schema = TRUE]
  \/ /\ k.ok /\ r.cmd = "createtable" /\ manager.schema /\ ~Contains(manager.tables, r.table)
     /\ manager' = [manager EXCEPT !.tables = Append(@, r.table), !.fields = Append(@, <<>>)]
     /\ k.tableid = Len(manager.tables) + 1 /\ k.name = r.table
  \/ /\ k.ok /\ r.cmd = "addcolumn" /\ manager.schema /\ r.table \in DOMAIN manager.fields
     /\ ~Contains(manager.fields[r.table], r.column)
     /\ manager' = [manager EXCEPT !.fields[r.table] = Append(@, r.column)]
     /\ k.tableid = r.table /\ k.fieldid = Len(manager.fields[r.table]) /\ k.name = r.column
  \/ k.ok /\ r.cmd = "deletetable" /\ manager' = manager

Says(u, ok, id, fid, name) ==
  \E k : Reported(k, u) /\ k.ok = ok /\ k.tableid = id /\ k.fieldid = fid /\ k.name = name

LEMMA ManagerStep ==
  ASSUME Shape, Shape', UserSchemaMgr
  PROVE  \E k : Reported(k, Head(usmMbox).op) /\ ManagerDid(Head(usmMbox), k)
<1>1. PICK r : r = Head(usmMbox)
  OBVIOUS
<1>2. usmMbox # <<>> /\ usmMbox \in Seq(UsmRequest) /\ manager \in ManagerType
  BY DEF UserSchemaMgr, Shape, ManagerType
<1>3. r \in UsmRequest
  BY <1>1, <1>2, TailFirst
<1>4. r.op \in OpId /\ (r.cmd = "createtable" => r.table \in TableNames)
      /\ (r.cmd = "addcolumn" => r.table \in Nat /\ r.column \in Columns)
  BY <1>3 DEF UsmRequest
<1>5. PICK u : u = r.op
  OBVIOUS
<1>6. /\ usmMbox' = Tail(usmMbox)
      /\ UNCHANGED <<copy, names, statements, procedures, operations, sending, waiting, issued, answers, up>>
  BY DEF UserSchemaMgr, copyVars
<1>7. ASSUME NEW ok \in BOOLEAN, NEW id \in Nat, NEW fid \in Nat, NEW name \in AnyName,
             Reply(r, ok, id, fid, name), ~ok => id = 0 /\ fid = 0 /\ name = NoName
      PROVE  Says(u, ok, id, fid, name)
  <2> DEFINE k == [topic |-> "SCHEMAREPLY", op |-> r.op, ok |-> ok,
                   tableid |-> id, fieldid |-> fid, name |-> name]
  <2>1. k \in ReplyMsg
    BY <1>4 DEF ReplyMsg
  <2>2. mbox' = [mbox EXCEPT ![Agent(u)] = Append(@, k)]
    BY <1>5, <1>7 DEF Reply, Agent
  <2>3. Reported(k, u)
    BY <1>1, <1>2, <1>5, <1>6, <1>7, <2>1, <2>2 DEF Reported
  <2>4. QED
    BY <2>3 DEF Says
<1>8. NoName \in AnyName /\ TRUE \in BOOLEAN /\ FALSE \in BOOLEAN /\ 0 \in Nat
  BY DEF AnyName
<1>9. CASE Refuse(r)
  <2>1. Reply(r, FALSE, 0, 0, NoName) /\ manager' = manager
    BY <1>9 DEF Refuse
  <2>0. Says(u, FALSE, 0, 0, NoName)
    BY <2>1, <1>7, <1>8
  <2>2. PICK k : Reported(k, u) /\ k.ok = FALSE
    BY <2>0 DEF Says
  <2>3. QED
    BY <2>1, <2>2, <1>1, <1>5 DEF ManagerDid
<1>10. CASE r.cmd = "createschema" /\ createschema(r) /\ ~Refuse(r)
  <2>1. ~manager.schema /\ manager' = [manager EXCEPT !.schema = TRUE] /\ Reply(r, TRUE, 0, 0, NoName)
    BY <1>10 DEF createschema
  <2>2. PICK k : Reported(k, u) /\ k.ok = TRUE
    BY <2>1, <1>7, <1>8 DEF Says
  <2>3. QED
    BY <2>1, <2>2, <1>1, <1>5, <1>10 DEF ManagerDid
<1>11. CASE r.cmd = "createtable" /\ createtable(r) /\ ~Refuse(r)
  <2>1. /\ manager.schema /\ ~Contains(manager.tables, r.table)
        /\ manager' = [manager EXCEPT !.tables = Append(@, r.table), !.fields = Append(@, <<>>)]
        /\ Reply(r, TRUE, Len(manager'.tables), 0, r.table)
    BY <1>11 DEF createtable
  <2>2. manager'.tables = Append(manager.tables, r.table) /\ manager.tables \in Seq(TableNames)
    BY <2>1, <1>2 DEF ManagerType
  <2>3. Len(manager'.tables) = Len(manager.tables) + 1 /\ Len(manager'.tables) \in Nat
    BY <2>2, AppendSeq
  <2>4. r.table \in AnyName
    BY <1>4, <1>11 DEF AnyName
  <2>5. PICK id, name : id = Len(manager'.tables) /\ name = r.table
    OBVIOUS
  <2>6. PICK k : Reported(k, u) /\ k.ok = TRUE /\ k.tableid = id /\ k.name = name
    <3>1. id \in Nat /\ name \in AnyName /\ Reply(r, TRUE, id, 0, name)
      BY <2>1, <2>3, <2>4, <2>5
    <3>2. Says(u, TRUE, id, 0, name)
      BY <3>1, <1>7, <1>8
    <3>3. QED
      BY <3>2 DEF Says
  <2>7. ManagerDid(r, k)
    BY <2>1, <2>3, <2>5, <2>6, <1>11 DEF ManagerDid
  <2>8. QED
    BY <2>6, <2>7, <1>1, <1>5
<1>12. CASE r.cmd = "addcolumn" /\ addcolumn(r) /\ ~Refuse(r)
  <2>1. /\ manager.schema /\ r.table \in DOMAIN manager.fields
        /\ ~Contains(manager.fields[r.table], r.column)
        /\ manager' = [manager EXCEPT !.fields[r.table] = Append(@, r.column)]
        /\ Reply(r, TRUE, r.table, Len(manager.fields[r.table]), r.column)
    BY <1>12 DEF addcolumn
  <2>2. manager.fields[r.table] \in Seq(Columns)
    BY <2>1, <1>2, ElementOfSeq DEF ManagerType
  <2>3. Len(manager.fields[r.table]) \in Nat /\ r.table \in Nat /\ r.column \in AnyName
    BY <2>2, <1>4, <1>12 DEF AnyName
  <2>4. PICK id, fid, name : id = r.table /\ fid = Len(manager.fields[r.table]) /\ name = r.column
    OBVIOUS
  <2>5. PICK k : Reported(k, u) /\ k.ok = TRUE /\ k.tableid = id /\ k.fieldid = fid /\ k.name = name
    <3>1. id \in Nat /\ fid \in Nat /\ name \in AnyName /\ Reply(r, TRUE, id, fid, name)
      BY <2>1, <2>3, <2>4
    <3>2. Says(u, TRUE, id, fid, name)
      BY <3>1, <1>7, <1>8
    <3>3. QED
      BY <3>2 DEF Says
  <2>6. ManagerDid(r, k)
    BY <2>1, <2>4, <2>5, <1>12 DEF ManagerDid
  <2>7. QED
    BY <2>5, <2>6, <1>1, <1>5
<1>13. CASE r.cmd = "deletetable" /\ deletetable(r)
  <2>1. Reply(r, TRUE, 0, 0, NoName) /\ manager' = manager
    BY <1>13 DEF deletetable
  <2>2. PICK k : Reported(k, u) /\ k.ok = TRUE
    BY <2>1, <1>7, <1>8 DEF Says
  <2>3. QED
    BY <2>1, <2>2, <1>1, <1>5, <1>13 DEF ManagerDid
<1>14. QED
  BY <1>1, <1>9, <1>10, <1>11, <1>12, <1>13 DEF UserSchemaMgr

-----------------------------------------------------------------------------
(* An agent sends one copy.                                                *)

LEMMA TailBack ==
  ASSUME NEW S, NEW s \in Seq(S), s # <<>>, NEW i \in DOMAIN s, i # 1
  PROVE  i - 1 \in DOMAIN Tail(s) /\ Tail(s)[i - 1] = s[i]
<1>1. /\ Len(s) \in Nat /\ 1 <= Len(s) /\ Len(Tail(s)) = Len(s) - 1
      /\ \A k \in 1 .. Len(s) - 1 : Tail(s)[k] = s[k + 1]
  BY TailSeq
<1>2. PICK t : t = Tail(s)
  OBVIOUS
<1>3. t \in Seq(S) /\ DOMAIN t = 1 .. Len(t) /\ DOMAIN s = 1 .. Len(s)
  BY <1>2, HeadTailProperties, LenProperties
<1>4. i - 1 \in 1 .. Len(s) - 1 /\ (i - 1) + 1 = i
  BY <1>1, <1>3
<1>5. QED
  BY <1>1, <1>2, <1>3, <1>4

SendStep(a, s, u) ==
  /\ sending[a] # <<>> /\ s = Head(sending[a]) /\ s = sending[a][1] /\ 1 \in DOMAIN sending[a]
  /\ s.to \in Actors /\ s.m \in Msg
  /\ s.m.topic # "SCHEMAREPLY" /\ AboutOp(s.m, u)
  /\ u \in OpId => s.m.topic = "SCHEMAREQUEST"
  /\ mbox' = [mbox EXCEPT ![s.to] = Append(@, s.m)]
  /\ sending' = [sending EXCEPT ![a] = Tail(@)]
  /\ UNCHANGED <<manager, copy, names, statements, procedures, operations, usmMbox, waiting, issued, answers, up>>

LEMMA SendIs ==
  ASSUME Shape, Shape', NEW job, Operational(job), NEW a \in Agents, SendOne(a)
  PROVE  \E s, u : SendStep(a, s, u)
<1>1. PICK s : s = Head(sending[a])
  OBVIOUS
<1> DEFINE M == [to : Actors, m : Msg]
<1>2. sending[a] # <<>> /\ sending[a] \in Seq(M)
  BY DEF SendOne, Shape
<1> HIDE DEF M
<1>3. s \in M /\ 1 \in DOMAIN sending[a] /\ s = sending[a][1]
  BY <1>1, <1>2, TailFirst
<1>4. s.to \in Actors /\ s.m \in Msg
  BY <1>3 DEF M
<1>5. s.m.topic # "SCHEMAREPLY"
  BY <1>3 DEF Operational, NoReplySent
<1>6. PICK v : v \notin OpId
  BY NoOpThere
<1>7. PICK u : u = IF s.m.topic = "SCHEMAREQUEST" THEN s.m.op ELSE v
  OBVIOUS
<1>8. AboutOp(s.m, u) /\ (u \in OpId => s.m.topic = "SCHEMAREQUEST")
  BY <1>5, <1>6, <1>7 DEF AboutOp
<1>9. SendStep(a, s, u)
  BY <1>1, <1>2, <1>3, <1>4, <1>5, <1>8 DEF SendStep, SendOne, managerVars, copyVars
<1>10. QED
  BY <1>9

LEMMA SendSame ==
  ASSUME Shape, Shape', NEW job, NEW a \in Agents, NEW s, NEW u, SendStep(a, s, u)
  PROVE  StepOf(u, {}, {s.to}, s.m, job, job)
<1>1. Mail({}, {s.to}, s.m)
  BY MailAppend DEF SendStep
<1>2. Concerns({}, {s.to}, s.m, u)
  BY DEF Concerns, SendStep
<1>3. SendingMoves(u)
  <2>1. sending \in [Agents -> Seq([to : Actors, m : Msg])]
    BY DEF Shape
  <2>2. \A b \in Agents : b # a => sending'[b] = sending[b]
    BY <2>1 DEF SendStep
  <2>3. sending[a] # <<>> /\ sending'[a] = Tail(sending[a]) /\ AboutOp(Head(sending[a]).m, u)
    BY <2>1 DEF SendStep
  <2>4. QED
    BY <2>2, <2>3 DEF SendingMoves
<1>4. \A op \in OpId : op # u => SameOp(op, job, job)
  BY DEF SameOp, SendStep
<1>5. QED
  BY <1>1, <1>2, <1>3, <1>4 DEF StepOf

\* m is the last message of x, and the mailboxes are as they were otherwise.
Appended(x, m) ==
  /\ \A z \in Actors : \A i \in DOMAIN mbox[z] : i \in DOMAIN mbox'[z] /\ mbox'[z][i] = mbox[z][i]
  /\ \A z \in Actors : \A i \in DOMAIN mbox'[z] :
       i \in DOMAIN mbox[z] \/ (z = x /\ i = Len(mbox'[x]) /\ mbox'[z][i] = m)
  /\ Len(mbox'[x]) \in DOMAIN mbox'[x] /\ mbox'[x][Len(mbox'[x])] = m
  /\ Len(mbox'[x]) \notin DOMAIN mbox[x]

LEMMA AppendedMail ==
  ASSUME Shape, Shape', NEW x \in Actors, NEW m, mbox' = [mbox EXCEPT ![x] = Append(@, m)]
  PROVE  Appended(x, m)
<1>1. mbox \in [Actors -> Seq(Msg)]
  BY DEF Shape
<1>2. \A z \in Actors : z # x => mbox'[z] = mbox[z]
  BY <1>1
<1>3. PICK s, t : s = mbox[x] /\ t = mbox'[x]
  OBVIOUS
<1>4. s \in Seq(Msg) /\ t = Append(s, m) /\ t \in Seq(Msg)
  BY <1>1, <1>3 DEF Shape
<1>5. Len(t) = Len(s) + 1 /\ t[Len(s) + 1] = m /\ \A k \in 1 .. Len(s) : t[k] = s[k]
  BY <1>4, AppendSeq
<1>6. DOMAIN s = 1 .. Len(s) /\ DOMAIN t = 1 .. Len(t) /\ Len(s) \in Nat
  BY <1>4, LenProperties
<1>7. /\ \A i \in DOMAIN s : i \in DOMAIN t /\ t[i] = s[i]
      /\ \A i \in DOMAIN t : i \in DOMAIN s \/ (i = Len(t) /\ t[i] = m)
      /\ Len(t) \in DOMAIN t /\ t[Len(t)] = m /\ Len(t) \notin DOMAIN s
  BY <1>5, <1>6
<1>8. QED
  BY <1>2, <1>3, <1>7 DEF Appended

\* The first message agent a has to send is gone.
Dropped(a) ==
  /\ \A b \in Agents : b # a => sending'[b] = sending[b]
  /\ \A i \in DOMAIN sending'[a] : /\ i \in Nat /\ i + 1 \in DOMAIN sending[a] /\ i + 1 # 1
                                   /\ sending'[a][i] = sending[a][i + 1]
  /\ \A i \in DOMAIN sending[a] : i # 1 =>
       i \in Nat /\ i - 1 \in DOMAIN sending'[a] /\ sending'[a][i - 1] = sending[a][i]

LEMMA DroppedFirst ==
  ASSUME Shape, Shape', NEW a \in Agents, sending[a] # <<>>,
         sending' = [sending EXCEPT ![a] = Tail(@)]
  PROVE  Dropped(a)
<1> DEFINE M == [to : Actors, m : Msg]
<1>1. sending \in [Agents -> Seq(M)]
  BY DEF Shape
<1>2. PICK s, t : s = sending[a] /\ t = sending'[a]
  OBVIOUS
<1> HIDE DEF M
<1>3. s \in Seq(M) /\ s # <<>> /\ t = Tail(s) /\ \A b \in Agents : b # a => sending'[b] = sending[b]
  BY <1>1, <1>2
<1>4. \A i \in DOMAIN t : i \in Nat /\ i + 1 \in DOMAIN s /\ i + 1 # 1 /\ t[i] = s[i + 1]
  BY <1>3, TailFirst
<1>5. \A i \in DOMAIN s : i # 1 => i - 1 \in DOMAIN t /\ t[i - 1] = s[i]
  BY <1>3, TailBack
<1>6. DOMAIN s \subseteq Nat
  BY <1>3, LenProperties
<1>7. QED
  BY <1>2, <1>3, <1>4, <1>5, <1>6 DEF Dropped

LEMMA SendMoves ==
  ASSUME Shape, Shape', NEW a \in Agents, NEW s, NEW u, SendStep(a, s, u)
  PROVE  Appended(s.to, s.m) /\ Dropped(a)
  BY AppendedMail, DroppedFirst DEF SendStep

\* An operation whose copy is sent: it is as due as it was.
LEMMA SendDue ==
  ASSUME Shape, Shape', NEW job, Operational(job), NEW a \in Agents, NEW s, NEW u, SendStep(a, s, u),
         u \in OpId
  PROVE  /\ IsRequest(s.m, u) /\ GoodRequest(s.m, job) /\ Agent(u) = a /\ ~Posted(s.to, u)
         /\ \A x \in Actors : Due(x, u)' <=> Due(x, u)
<1> DEFINE x == s.to
           m == s.m
<1>1. x \in Actors /\ s = sending[a][1] /\ 1 \in DOMAIN sending[a] /\ IsRequest(m, u)
  BY DEF SendStep, IsRequest, AboutOp
<1>2. /\ GoodRequest(m, job) /\ Agent(u) = a /\ ~Posted(x, u)
      /\ \A j \in DOMAIN sending[a] : IsRequest(sending[a][j].m, u) /\ sending[a][j].to = x => j = 1
  BY <1>1 DEF Operational, OpInv, UnsentOk
<1>3. Appended(x, m) /\ Dropped(a)
  BY SendMoves
<1> HIDE DEF x, m
<1>4. ASSUME NEW z \in Actors
      PROVE  Posted(z, u)' <=> Posted(z, u) \/ z = x
  <2>1. CASE z = x
    <3>1. Posted(x, u)'
      BY <1>1, <1>3 DEF Posted, Appended
    <3>2. QED
      BY <2>1, <3>1
  <2>2. CASE z # x
    <3>1. DOMAIN mbox'[z] \subseteq DOMAIN mbox[z] /\ \A i \in DOMAIN mbox[z] :
            i \in DOMAIN mbox'[z] /\ mbox'[z][i] = mbox[z][i]
      BY <2>2, <1>3 DEF Appended
    <3>2. QED
      BY <2>2, <3>1 DEF Posted
  <2>3. QED
    BY <2>1, <2>2
<1>5. ASSUME NEW z \in Actors
      PROVE  Unsent(z, u)' <=> Unsent(z, u) /\ z # x
  <2>1. /\ Unsent(z, u) <=> \E i \in DOMAIN sending[a] :
                              sending[a][i].to = z /\ IsRequest(sending[a][i].m, u)
        /\ Unsent(z, u)' <=> \E i \in DOMAIN sending'[a] :
                               sending'[a][i].to = z /\ IsRequest(sending'[a][i].m, u)
    BY <1>2 DEF Unsent, Agent
  <2>2. ASSUME NEW i \in DOMAIN sending'[a], sending'[a][i].to = z, IsRequest(sending'[a][i].m, u)
        PROVE  Unsent(z, u) /\ z # x
    BY <2>1, <2>2, <1>2, <1>3 DEF Dropped
  <2>3. ASSUME NEW i \in DOMAIN sending[a], sending[a][i].to = z, IsRequest(sending[a][i].m, u), z # x
        PROVE  Unsent(z, u)'
    <3>1. i # 1
      BY <2>3, <1>1 DEF x
    <3>2. QED
      BY <2>1, <2>3, <3>1, <1>3 DEF Dropped
  <2>4. QED
    BY <2>1, <2>2, <2>3
<1>6. Unsent(x, u)
  BY <1>1, <1>2 DEF Unsent, x, m
<1>7. \A z \in Actors : Due(z, u)' <=> Due(z, u)
  BY <1>4, <1>5, <1>6 DEF Due
<1>8. QED
  BY <1>1, <1>2, <1>7 DEF x, m

\* Where an operation is has not changed.
Stays(op) ==
  /\ Granted(op)' <=> Granted(op)
  /\ \A x \in Actors : Due(x, op)' <=> Due(x, op)

LEMMA SendOps ==
  ASSUME Shape, Shape', NEW job, Operational(job), NEW a \in Agents, NEW s, NEW u, SendStep(a, s, u)
  PROVE  Operational(job)' /\ \A op \in DOMAIN operations : Stays(op)
<1> DEFINE x == s.to
           m == s.m
<1>0. StepOf(u, {}, {x}, m, job, job)
  BY SendSame
<1>1. /\ x \in Actors /\ s = sending[a][1] /\ 1 \in DOMAIN sending[a] /\ m.topic # "SCHEMAREPLY"
      /\ UNCHANGED <<operations, usmMbox, answers, waiting>>
  BY DEF SendStep
<1>2. Appended(x, m) /\ Dropped(a)
  BY SendMoves
<1>3. u \in OpId => /\ IsRequest(m, u) /\ GoodRequest(m, job) /\ Agent(u) = a /\ ~Posted(x, u)
                    /\ \A z \in Actors : Due(z, u)' <=> Due(z, u)
  BY SendDue
<1> HIDE DEF x, m
<1>4. ASSUME u \in OpId, NEW z \in Actors, NEW i \in DOMAIN mbox'[z], IsReply(mbox'[z][i], u)
      PROVE  i \in DOMAIN mbox[z] /\ mbox'[z][i] = mbox[z][i]
  <2>1. ~IsReply(m, u)
    BY <1>1 DEF IsReply
  <2>2. QED
    BY <2>1, <1>2, <1>4 DEF Appended
<1>5. ASSUME u \in OpId PROVE Replies(u)' = Replies(u)
  <2>1. Agent(u) \in Actors
    BY <1>5, AgentIn
  <2>2. Replies(u)' = {i \in DOMAIN mbox'[Agent(u)] : IsReply(mbox'[Agent(u)][i], u)}
    BY DEF Replies, Agent
  <2>3. Replies(u) = {i \in DOMAIN mbox[Agent(u)] : IsReply(mbox[Agent(u)][i], u)}
    BY DEF Replies
  <2>4. \A i \in DOMAIN mbox[Agent(u)] : i \in DOMAIN mbox'[Agent(u)] /\ mbox'[Agent(u)][i] = mbox[Agent(u)][i]
    BY <2>1, <1>2 DEF Appended
  <2>5. \A i \in DOMAIN mbox'[Agent(u)] : IsReply(mbox'[Agent(u)][i], u) =>
          i \in DOMAIN mbox[Agent(u)] /\ mbox'[Agent(u)][i] = mbox[Agent(u)][i]
    BY <1>4, <1>5, <2>1
  <2>6. QED
    BY <2>2, <2>3, <2>4, <2>5
<1>6. ASSUME u \in OpId PROVE RepliesOk(u, job)'
  <2> SUFFICES ASSUME NEW z \in Actors, NEW i \in DOMAIN mbox'[z], IsReply(mbox'[z][i], u)
               PROVE  GoodReply(z, i, mbox[z][i], job)'
    BY DEF RepliesOk
  <2>1. PICK k : k = mbox'[z][i]
    OBVIOUS
  <2>2. i \in DOMAIN mbox[z] /\ k = mbox[z][i] /\ IsReply(k, u) /\ k.op = u
    BY <1>4, <1>6, <2>1 DEF IsReply
  <2>3. GoodReply(z, i, k, job)
    BY <1>6, <2>2 DEF Operational, OpInv, RepliesOk
  <2>4. \A j \in DOMAIN mbox'[z] : IsReply(mbox'[z][j], u) => j \in DOMAIN mbox[z] /\ IsReply(mbox[z][j], u)
    BY <1>4, <1>6
  <2>5. GoodReply(z, i, k, job)'
    BY <2>2, <2>3, <2>4, <1>1 DEF GoodReply
  <2>6. QED
    BY <2>1, <2>5
<1>7. ASSUME u \in OpId PROVE PostedOk(u, job)'
  <2> SUFFICES ASSUME NEW z \in Actors, NEW i \in DOMAIN mbox'[z], IsRequest(mbox'[z][i], u)
               PROVE  /\ GoodRequest(mbox[z][i], job)'
                      /\ \A j \in DOMAIN mbox'[z] : IsRequest(mbox'[z][j], u) => j = i
    BY DEF PostedOk
  <2>1. PICK k : k = mbox'[z][i]
    OBVIOUS
  <2>2. \A j \in DOMAIN mbox[z] : IsRequest(mbox[z][j], u) => z # x
    BY <1>3, <1>7 DEF Posted
  <2>3. \A j \in DOMAIN mbox[z] : IsRequest(mbox[z][j], u) =>
          GoodRequest(mbox[z][j], job) /\ \A l \in DOMAIN mbox[z] : IsRequest(mbox[z][l], u) => l = j
    BY <1>7 DEF Operational, OpInv, PostedOk
  <2>4. \A j \in DOMAIN mbox'[z] : j \in DOMAIN mbox[z] \/ (z = x /\ j = Len(mbox'[x]) /\ mbox'[z][j] = m)
    BY <1>2 DEF Appended
  <2>5. \A j \in DOMAIN mbox[z] : mbox'[z][j] = mbox[z][j]
    BY <1>2 DEF Appended
  <2>6. GoodRequest(k, job)
    BY <2>1, <2>3, <2>4, <2>5, <1>3, <1>7
  <2>7. GoodRequest(k, job)'
    BY <2>6, <1>1 DEF GoodRequest
  <2>8. \A j \in DOMAIN mbox'[z] : IsRequest(mbox'[z][j], u) => j = i
    BY <2>2, <2>3, <2>4, <2>5
  <2>9. QED
    BY <2>1, <2>7, <2>8
<1>8. ASSUME u \in OpId PROVE UnsentOk(u, job)'
  <2> SUFFICES ASSUME NEW b \in Agents, NEW i \in DOMAIN sending'[b], IsRequest(sending'[b][i].m, u)
               PROVE  /\ GoodRequest(sending[b][i].m, job)' /\ Agent(u) = b
                      /\ ~Posted(sending[b][i].to, u)'
                      /\ \A j \in DOMAIN sending'[b] :
                           IsRequest(sending'[b][j].m, u) /\ sending'[b][j].to = sending'[b][i].to => j = i
    BY DEF UnsentOk, Agent
  <2>1. \A c \in Agents : \A j \in DOMAIN sending[c] : IsRequest(sending[c][j].m, u) =>
          /\ GoodRequest(sending[c][j].m, job) /\ Agent(u) = c
          /\ ~Posted(sending[c][j].to, u)
          /\ \A l \in DOMAIN sending[c] :
               IsRequest(sending[c][l].m, u) /\ sending[c][l].to = sending[c][j].to => l = j
    BY <1>8 DEF Operational, OpInv, UnsentOk
  <2>2. b = a
    BY <2>1, <1>2, <1>3, <1>8 DEF Dropped
  <2>3. /\ i \in Nat /\ i + 1 \in DOMAIN sending[a] /\ i + 1 # 1 /\ sending'[a][i] = sending[a][i + 1]
        /\ \A j \in DOMAIN sending'[a] : j \in Nat /\ j + 1 \in DOMAIN sending[a]
                                         /\ sending'[a][j] = sending[a][j + 1]
    BY <2>2, <1>2 DEF Dropped
  <2>4. PICK k : k = sending'[b][i]
    OBVIOUS
  <2>5. k = sending[a][i + 1] /\ IsRequest(k.m, u)
    BY <2>2, <2>3, <2>4
  <2>6. GoodRequest(k.m, job) /\ ~Posted(k.to, u) /\ k.to # x
    BY <2>1, <2>3, <2>5, <1>1, <1>3, <1>8 DEF x, m
  <2>7. GoodRequest(k.m, job)'
    BY <2>6, <1>1 DEF GoodRequest
  <2>8. k.to \in Actors
    BY <2>2, <2>4, SendingsNext
  <2>9. \A j \in DOMAIN mbox'[k.to] : j \in DOMAIN mbox[k.to] /\ mbox'[k.to][j] = mbox[k.to][j]
    BY <2>6, <2>8, <1>2 DEF Appended
  <2>10. ~Posted(k.to, u)'
    BY <2>6, <2>9 DEF Posted
  <2>11. ASSUME NEW j \in DOMAIN sending'[b], IsRequest(sending'[b][j].m, u), sending'[b][j].to = k.to
         PROVE  j = i
    <3>1. j \in Nat /\ j + 1 \in DOMAIN sending[a] /\ sending'[a][j] = sending[a][j + 1]
      BY <2>2, <2>3, <2>11
    <3>2. j + 1 = i + 1
      BY <2>1, <2>2, <2>3, <2>5, <2>11, <3>1
    <3>3. QED
      BY <2>3, <3>1, <3>2
  <2>12. QED
    BY <2>2, <2>4, <2>7, <2>10, <2>11, <1>3, <1>8
<1>9. ASSUME u \in OpId PROVE CountOk(u)'
  <2>1. CountOk(u)
    BY <1>9 DEF Operational, OpInv
  <2>2. {z \in Actors : Due(z, u)'} = {z \in Actors : Due(z, u)}
    BY <1>3, <1>9
  <2>3. CountOk(u)' <=> (u \in DOMAIN operations' /\ operations'[u].state = "tasengines" =>
          operations'[u].msgwaits = Cardinality({z \in Actors : Due(z, u)'}) + Cardinality(Replies(u)'))
    BY DEF CountOk
  <2>4. QED
    BY <2>1, <2>2, <2>3, <1>1, <1>5, <1>9 DEF CountOk
<1>10. \A op \in OpId : OpInv(op, job)'
  BY <1>0, <1>6, <1>7, <1>8, <1>9, OpsOther DEF Operational, OpInv
<1>11. OneEach'
  BY <1>1 DEF Operational, OneEach, ToldSchema
<1>12. NoReplySent'
  <2> SUFFICES ASSUME NEW b \in Agents, NEW i \in DOMAIN sending'[b]
               PROVE  sending'[b][i].m.topic # "SCHEMAREPLY"
    BY DEF NoReplySent
  <2>1. \E j \in DOMAIN sending[b] : sending'[b][i] = sending[b][j]
    BY <1>2 DEF Dropped
  <2>2. QED
    BY <2>1 DEF Operational, NoReplySent
<1>13. UsmInv'
  <2>1. CASE u \in OpId
    <3>1. \A i \in DOMAIN usmMbox : usmMbox[i].op # u
      BY <2>1, <1>3 DEF Operational, UsmInv, AtManager, GoodRequest, IsRequest
    <3>2. QED
      BY <3>1, <1>0, <1>1, UsmOther DEF Operational
  <2>2. CASE u \notin OpId
    <3>1. \A i \in DOMAIN usmMbox : usmMbox[i].op # u
      BY <2>2, OpsInOpId DEF Operational, UsmInv, AtManager
    <3>2. QED
      BY <3>1, <1>0, <1>1, UsmOther DEF Operational
  <2>3. QED
    BY <2>1, <2>2
<1>14. \A op \in DOMAIN operations : Stays(op)
  <2>1. Frame(u, job, job)
    BY <1>0, FrameStep
  <2>2. ASSUME NEW op \in DOMAIN operations, op = u PROVE Stays(op)
    <3>1. u \in OpId
      BY <2>2, OpsInOpId
    <3>2. Granted(u)' <=> Granted(u)
      <4>1. Granted(u)' <=> operations'[u].state = "usm" /\ \E i \in Replies(u)' : mbox'[Agent(u)][i].ok
        BY DEF Granted, Agent
      <4>2. \A i \in Replies(u) : mbox'[Agent(u)][i] = mbox[Agent(u)][i]
        BY <3>1, <1>2, AgentIn DEF Appended, Replies
      <4>3. QED
        BY <4>1, <4>2, <3>1, <1>1, <1>5 DEF Granted
    <3>3. QED
      BY <2>2, <3>1, <3>2, <1>3 DEF Stays
  <2>3. QED
    BY <2>1, <2>2 DEF Frame, Stays
<1>15. QED
  BY <1>10, <1>11, <1>12, <1>13, <1>14 DEF Operational

-----------------------------------------------------------------------------
(* A step that is about no operation.                                      *)

OfNone(m) == m.topic \notin {"SCHEMAREPLY", "SCHEMAREQUEST"}

Quiet(pop, add, m) ==
  /\ Mail(pop, add, m)
  /\ \A z \in pop : OfNone(mbox[z][1])
  /\ add # {} => OfNone(m)
  /\ \A a \in Agents : \/ sending'[a] = sending[a]
                       \/ sending[a] = <<>> /\ \A i \in DOMAIN sending'[a] : OfNone(sending'[a][i].m)
  /\ UNCHANGED <<manager, operations, usmMbox, waiting, answers>>

LEMMA QuietOps ==
  ASSUME Shape, Shape', NEW job, Operational(job), NEW pop, NEW add, NEW m, Quiet(pop, add, m)
  PROVE  Operational(job)' /\ \A op \in DOMAIN operations : Stays(op)
<1>1. PICK u : u \notin OpId
  BY NoOpThere
<1>2. StepOf(u, pop, add, m, job, job)
  <2>1. Concerns(pop, add, m, u)
    BY DEF Concerns, AboutOp, Quiet, OfNone
  <2>2. SendingMoves(u)
    BY DEF SendingMoves, AboutOp, Quiet, OfNone
  <2>3. \A op \in OpId : op # u => SameOp(op, job, job)
    BY DEF SameOp, Quiet
  <2>4. QED
    BY <2>1, <2>2, <2>3 DEF StepOf, Quiet
<1>3. UNCHANGED <<operations, usmMbox, waiting, answers>>
  BY DEF Quiet
<1>4. \A op \in OpId : OpInv(op, job)'
  BY <1>1, <1>2, OpsOther DEF Operational
<1>5. OneEach'
  BY <1>3 DEF Operational, OneEach, ToldSchema
<1>6. NoReplySent'
  BY DEF Operational, NoReplySent, Quiet, OfNone
<1>7. UsmInv'
  <2>1. \A i \in DOMAIN usmMbox : usmMbox[i].op # u
    BY <1>1, OpsInOpId DEF Operational, UsmInv, AtManager
  <2>2. QED
    BY <2>1, <1>2, <1>3, UsmOther DEF Operational
<1>8. \A op \in DOMAIN operations : Stays(op)
  <2>1. Frame(u, job, job)
    BY <1>2, FrameStep
  <2>2. \A op \in DOMAIN operations : op # u
    BY <1>1, OpsInOpId
  <2>3. QED
    BY <2>1, <2>2 DEF Frame, Stays
<1>9. QED
  BY <1>4, <1>5, <1>6, <1>7, <1>8 DEF Operational

-----------------------------------------------------------------------------
(* An agent or an Engine does what it is asked to, and says so.            *)

AckStep(x, m, k, u) ==
  /\ mbox[x] # <<>> /\ m = mbox[x][1] /\ 1 \in DOMAIN mbox[x]
  /\ m \in RequestMsg /\ m.op = u /\ u \in OpId /\ IsRequest(m, u)
  /\ k \in ReplyMsg /\ IsReply(k, u) /\ k.tableid = m.tableid
  /\ Mail({x}, {Agent(u)}, k)
  /\ UNCHANGED <<manager, names, statements, operations, usmMbox, sending, waiting, issued, answers>>

\* What x has been asked is the job of the operation, and it is still due.
LEMMA AskedFor ==
  ASSUME Shape, NEW job, Operational(job), NEW x \in Actors, NEW u \in OpId,
         1 \in DOMAIN mbox[x], IsRequest(mbox[x][1], u)
  PROVE  /\ GoodRequest(mbox[x][1], job)
         /\ u \in DOMAIN operations /\ operations[u].state = "tasengines"
         /\ Posted(x, u) /\ ~Unsent(x, u) /\ Due(x, u)
         /\ \A j \in DOMAIN mbox[x] : IsRequest(mbox[x][j], u) => j = 1
<1>1. /\ GoodRequest(mbox[x][1], job) /\ mbox[x][1].op = u
      /\ \A j \in DOMAIN mbox[x] : IsRequest(mbox[x][j], u) => j = 1
  BY DEF Operational, OpInv, PostedOk, IsRequest
<1>2. Posted(x, u)
  BY DEF Posted
<1>3. Agent(u) \in Agents
  BY AgentIn
<1>4. ~Unsent(x, u)
  BY <1>2, <1>3 DEF Unsent, Operational, OpInv, UnsentOk
<1>5. QED
  BY <1>1, <1>2, <1>4 DEF GoodRequest, Due

LEMMA AckDue ==
  ASSUME Shape, Shape', NEW job, Operational(job), NEW x \in Actors, NEW m, NEW k, NEW u,
         AckStep(x, m, k, u)
  PROVE  \A z \in Actors : /\ Posted(z, u)' <=> Posted(z, u) /\ z # x
                           /\ Unsent(z, u)' <=> Unsent(z, u)
                           /\ Due(z, u)' <=> Due(z, u) /\ z # x
<1>1. /\ 1 \in DOMAIN mbox[x] /\ IsRequest(mbox[x][1], u) /\ u \in OpId /\ Mail({x}, {Agent(u)}, k)
      /\ sending' = sending /\ ~IsRequest(k, u)
  BY DEF AckStep, IsReply, IsRequest
<1>2. ~Unsent(x, u) /\ \A j \in DOMAIN mbox[x] : IsRequest(mbox[x][j], u) => j = 1
  BY <1>1, AskedFor
<1> SUFFICES ASSUME NEW z \in Actors
             PROVE  /\ Posted(z, u)' <=> Posted(z, u) /\ z # x
                    /\ Unsent(z, u)' <=> Unsent(z, u)
                    /\ Due(z, u)' <=> Due(z, u) /\ z # x
  OBVIOUS
<1> DEFINE p == Pops({x}, z)
<1>3. p \in {0, 1} /\ (z = x => p = 1) /\ (z # x => p = 0)
  BY DEF Pops
<1>4. /\ \A i \in DOMAIN mbox[z] : i > p => i - p \in DOMAIN mbox'[z] /\ mbox'[z][i - p] = mbox[z][i]
      /\ \A i \in DOMAIN mbox'[z] : \/ i + p \in DOMAIN mbox[z] /\ mbox'[z][i] = mbox[z][i + p]
                                    \/ mbox'[z][i] = k
  <2>1. PICK pop, add : pop = {x} /\ add = {Agent(u)}
    OBVIOUS
  <2>2. Mail(pop, add, k) /\ p = Pops(pop, z)
    BY <2>1, <1>1
  <2> HIDE DEF p
  <2>3. QED
    BY <2>2, MailFacts
<1>5. DOMAIN mbox[z] \subseteq Nat \ {0} /\ DOMAIN mbox'[z] \subseteq Nat \ {0}
  BY Boxes, BoxesNext
<1> HIDE DEF p
<1>6. Posted(z, u)' <=> Posted(z, u) /\ z # x
  <2>1. ASSUME NEW i \in DOMAIN mbox'[z], IsRequest(mbox'[z][i], u)
        PROVE  Posted(z, u) /\ z # x
    <3>1. i + p \in DOMAIN mbox[z] /\ mbox'[z][i] = mbox[z][i + p]
      BY <2>1, <1>1, <1>4
    <3>2. IsRequest(mbox[z][i + p], u)
      BY <2>1, <3>1
    <3>3. z # x
      BY <3>1, <3>2, <1>2, <1>3, <1>5
    <3>4. QED
      BY <3>1, <3>2, <3>3 DEF Posted
  <2>2. ASSUME NEW i \in DOMAIN mbox[z], IsRequest(mbox[z][i], u), z # x
        PROVE  \E j \in DOMAIN mbox'[z] : IsRequest(mbox'[z][j], u)
    BY <2>2, <1>3, <1>4, <1>5
  <2>3. Posted(z, u)' <=> \E i \in DOMAIN mbox'[z] : IsRequest(mbox'[z][i], u)
    BY DEF Posted
  <2>4. Posted(z, u) <=> \E i \in DOMAIN mbox[z] : IsRequest(mbox[z][i], u)
    BY DEF Posted
  <2>5. QED
    BY <2>1, <2>2, <2>3, <2>4
<1>7. Unsent(z, u)' <=> Unsent(z, u)
  BY <1>1 DEF Unsent, Agent
<1>8. QED
  BY <1>2, <1>6, <1>7 DEF Due

LEMMA AckReplies ==
  ASSUME Shape, Shape', NEW job, Operational(job), NEW x \in Actors, NEW m, NEW k, NEW u,
         AckStep(x, m, k, u)
  PROVE  Cardinality(Replies(u)') = Cardinality(Replies(u)) + 1
<1> DEFINE y == Agent(u)
           p == Pops({x}, y)
           n == Len(mbox'[y])
           S == Replies(u)
           T == Replies(u)' \ {n}
<1>1. /\ IsRequest(mbox[x][1], u) /\ u \in OpId /\ Mail({x}, {y}, k) /\ IsReply(k, u)
      /\ y \in Actors
  BY AgentIn DEF AckStep
<1>2. p \in {0, 1} /\ (p = 1 => y = x) /\ Pops({y}, y) = 1
  BY DEF Pops
<1>3. /\ \A i \in DOMAIN mbox[y] : i > p => i - p \in DOMAIN mbox'[y] /\ mbox'[y][i - p] = mbox[y][i]
      /\ \A i \in DOMAIN mbox'[y] : \/ i + p \in DOMAIN mbox[y] /\ mbox'[y][i] = mbox[y][i + p]
                                    \/ i = n
      /\ n \in DOMAIN mbox'[y] /\ mbox'[y][n] = k
  <2>1. PICK pop, add : pop = {x} /\ add = {y}
    OBVIOUS
  <2>2. Mail(pop, add, k) /\ p = Pops(pop, y) /\ y \in add
    BY <2>1, <1>1
  <2> HIDE DEF p, y
  <2>3. QED
    BY <1>1, <2>2, MailFacts
<1>4. Len(mbox[y]) \in Nat /\ DOMAIN mbox[y] = 1 .. Len(mbox[y]) /\ n \in Nat /\ DOMAIN mbox'[y] = 1 .. n
  BY <1>1, Boxes, BoxesNext
<1>5. n = Len(mbox[y]) - p + 1
  BY <1>1, <1>2 DEF Mail
<1>6. /\ S = {i \in DOMAIN mbox[y] : IsReply(mbox[y][i], u)}
      /\ Replies(u)' = {i \in DOMAIN mbox'[y] : IsReply(mbox'[y][i], u)}
  BY DEF Replies, Agent
<1>7. IsFiniteSet(S)
  BY <1>1, RepliesFinite
<1> HIDE DEF y, p, n, S
<1>8. \A i \in S : i - p \in T
  <2> SUFFICES ASSUME NEW i \in S PROVE i - p \in T
    OBVIOUS
  <2>1. i \in DOMAIN mbox[y] /\ IsReply(mbox[y][i], u)
    BY <1>6
  <2>2. ~(p = 1 /\ i = 1)
    BY <2>1, <1>1, <1>2 DEF IsReply, IsRequest
  <2>3. i \in Nat /\ i > p /\ i - p # n
    BY <2>1, <2>2, <1>2, <1>4, <1>5
  <2>4. i - p \in DOMAIN mbox'[y] /\ mbox'[y][i - p] = mbox[y][i]
    BY <2>1, <2>3, <1>3
  <2>5. QED
    BY <2>1, <2>3, <2>4, <1>6
<1>9. \A i \in T : i + p \in S
  BY <1>3, <1>6
<1>10. S \in SUBSET Int /\ T \in SUBSET Int /\ p \in Int
  BY <1>2, <1>4, <1>6
<1>11. n \in Replies(u)' /\ Replies(u)' = T \cup {n} /\ n \notin T
  BY <1>1, <1>3, <1>6
<1> HIDE DEF T
<1>12. IsFiniteSet(T) /\ Cardinality(T) = Cardinality(S)
  BY <1>7, <1>8, <1>9, <1>10, ShiftCard
<1>13. Cardinality(T \cup {n}) = Cardinality(T) + 1
  BY <1>11, <1>12, FS_AddElement
<1>14. QED
  BY <1>11, <1>12, <1>13 DEF S

LEMMA AckSame ==
  ASSUME Shape, Shape', NEW job, NEW x \in Actors, NEW m, NEW k, NEW u, AckStep(x, m, k, u)
  PROVE  StepOf(u, {x}, {Agent(u)}, k, job, job)
<1>1. Concerns({x}, {Agent(u)}, k, u)
  BY DEF Concerns, AboutOp, AckStep, IsReply, IsRequest
<1>2. SendingMoves(u)
  BY DEF SendingMoves, AckStep
<1>3. \A op \in OpId : op # u => SameOp(op, job, job)
  BY DEF SameOp, AckStep
<1>4. QED
  BY <1>1, <1>2, <1>3 DEF StepOf, AckStep

\* Where the messages about u are after x has answered.
LEMMA AckPlace ==
  ASSUME Shape, Shape', NEW x \in Actors, NEW m, NEW k, NEW u, AckStep(x, m, k, u),
         NEW z \in Actors, NEW i \in DOMAIN mbox'[z]
  PROVE  \/ WasAt(z, i, Pops({x}, z))
         \/ z = Agent(u) /\ mbox'[z][i] = k
<1>1. PICK pop, add : pop = {x} /\ add = {Agent(u)}
  OBVIOUS
<1>2. Mail(pop, add, k) /\ \A y \in add : y = Agent(u)
  BY <1>1 DEF AckStep
<1>3. PICK p : p = Pops(pop, z)
  OBVIOUS
<1>4. p \in {0, 1} /\ i \in Nat
  BY <1>3, BoxesNext DEF Pops
<1>5. \/ i + p \in DOMAIN mbox[z] /\ mbox'[z][i] = mbox[z][i + p]
      \/ z \in add /\ mbox'[z][i] = k
  BY <1>2, <1>3, MailFacts
<1>6. QED
  BY <1>1, <1>2, <1>3, <1>4, <1>5 DEF WasAt

LEMMA AckOps ==
  ASSUME Shape, Shape', NEW job, Operational(job), NEW x \in Actors, NEW m, NEW k, NEW u,
         AckStep(x, m, k, u), k.ok, m.cmd = "addcolumn" => k.fieldid = job[u[1]].fieldid
  PROVE  /\ Operational(job)' /\ ~Granted(u) /\ ~Granted(u)'
         /\ u \in DOMAIN operations /\ operations[u].cmd = m.cmd /\ operations[u].state = "tasengines"
         /\ Due(x, u) /\ \A z \in Actors : Due(z, u)' <=> Due(z, u) /\ z # x
<1>0. StepOf(u, {x}, {Agent(u)}, k, job, job)
  BY AckSame
<1>1. /\ 1 \in DOMAIN mbox[x] /\ m = mbox[x][1] /\ IsRequest(mbox[x][1], u) /\ u \in OpId /\ m.op = u
      /\ IsReply(k, u) /\ k.tableid = m.tableid
      /\ UNCHANGED <<operations, usmMbox, sending, waiting, answers>>
  BY DEF AckStep
<1>2. GoodRequest(m, job) /\ u \in DOMAIN operations /\ operations[u].state = "tasengines" /\ Due(x, u)
  BY <1>1, AskedFor
<1>3. \A z \in Actors : /\ Posted(z, u)' <=> Posted(z, u) /\ z # x
                        /\ Due(z, u)' <=> Due(z, u) /\ z # x
  BY AckDue
<1>4. operations[u].cmd = m.cmd /\ m.tableid = job[u[1]].tableid
  BY <1>1, <1>2 DEF GoodRequest
<1>5. ~IsRequest(k, u)
  BY <1>1 DEF IsReply, IsRequest
<1>6. RepliesOk(u, job)'
  <2> SUFFICES ASSUME NEW z \in Actors, NEW i \in DOMAIN mbox'[z], IsReply(mbox'[z][i], u)
               PROVE  GoodReply(z, i, mbox[z][i], job)'
    BY DEF RepliesOk
  <2>1. PICK l : l = mbox'[z][i]
    OBVIOUS
  <2>2. PICK p : p = Pops({x}, z)
    OBVIOUS
  <2>3. l.op = u /\ IsReply(l, u)
    BY <2>1 DEF IsReply
  <2>4. z = Agent(u) /\ l.ok /\ l.tableid = job[u[1]].tableid
        /\ (operations[u].cmd = "addcolumn" => l.fieldid = job[u[1]].fieldid)
    <3>1. CASE WasAt(z, i, p)
      <4>1. GoodReply(z, i + p, l, job)
        BY <3>1, <2>1, <2>3, <1>1 DEF WasAt, Operational, OpInv, RepliesOk
      <4>2. QED
        BY <4>1, <2>3, <1>2 DEF GoodReply
    <3>2. CASE z = Agent(u) /\ l = k
      BY <3>2, <1>1, <1>4
    <3>3. QED
      BY <3>1, <3>2, <2>1, <2>2, AckPlace
  <2>5. GoodReply(z, i, l, job)'
    BY <2>3, <2>4, <1>1, <1>2 DEF GoodReply, Agent
  <2>6. QED
    BY <2>1, <2>5
<1>7. PostedOk(u, job)'
  <2> SUFFICES ASSUME NEW z \in Actors, NEW i \in DOMAIN mbox'[z], IsRequest(mbox'[z][i], u)
               PROVE  /\ GoodRequest(mbox[z][i], job)'
                      /\ \A j \in DOMAIN mbox'[z] : IsRequest(mbox'[z][j], u) => j = i
    BY DEF PostedOk
  <2>1. PICK l : l = mbox'[z][i]
    OBVIOUS
  <2>2. PICK p : p = Pops({x}, z)
    OBVIOUS
  <2>3. ASSUME NEW j \in DOMAIN mbox'[z], IsRequest(mbox'[z][j], u)
        PROVE  p \in {0, 1} /\ j \in Nat /\ j + p \in DOMAIN mbox[z] /\ mbox'[z][j] = mbox[z][j + p]
    BY <2>2, <2>3, <1>5, AckPlace DEF WasAt
  <2>4. /\ GoodRequest(mbox[z][i + p], job)
        /\ \A j \in DOMAIN mbox[z] : IsRequest(mbox[z][j], u) => j = i + p
    BY <2>3, <1>1 DEF Operational, OpInv, PostedOk
  <2>5. l = mbox[z][i + p] /\ i \in Nat /\ p \in {0, 1}
    BY <2>1, <2>3
  <2>6. GoodRequest(l, job)'
    BY <2>4, <2>5, <1>1 DEF GoodRequest
  <2>7. \A j \in DOMAIN mbox'[z] : IsRequest(mbox'[z][j], u) => j = i
    <3> SUFFICES ASSUME NEW j \in DOMAIN mbox'[z], IsRequest(mbox'[z][j], u) PROVE j = i
      OBVIOUS
    <3>1. j \in Nat /\ j + p = i + p
      BY <2>3, <2>4
    <3>2. QED
      BY <3>1, <2>5
  <2>8. QED
    BY <2>1, <2>6, <2>7
<1>8. UnsentOk(u, job)'
  <2> SUFFICES ASSUME NEW b \in Agents, NEW i \in DOMAIN sending[b], IsRequest(sending[b][i].m, u)
               PROVE  /\ GoodRequest(sending[b][i].m, job)' /\ Agent(u) = b
                      /\ ~Posted(sending[b][i].to, u)'
                      /\ \A j \in DOMAIN sending[b] :
                           IsRequest(sending[b][j].m, u) /\ sending[b][j].to = sending[b][i].to => j = i
    BY <1>1 DEF UnsentOk, Agent
  <2>1. PICK s : s = sending[b][i]
    OBVIOUS
  <2>2. /\ GoodRequest(s.m, job) /\ Agent(u) = b /\ ~Posted(s.to, u)
        /\ \A j \in DOMAIN sending[b] :
             IsRequest(sending[b][j].m, u) /\ sending[b][j].to = s.to => j = i
    BY <2>1, <1>1 DEF Operational, OpInv, UnsentOk
  <2>3. s.to \in Actors
    BY <2>1, Sendings
  <2>4. ~Posted(s.to, u)'
    BY <2>2, <2>3, <1>3
  <2>5. GoodRequest(s.m, job)'
    BY <2>2, <1>1 DEF GoodRequest
  <2>6. s = sending'[b][i]
    BY <2>1, <1>1
  <2>7. QED
    BY <2>1, <2>2, <2>4, <2>5, <2>6
<1>9. CountOk(u)'
  <2> DEFINE D == {z \in Actors : Due(z, u)}
             E == {z \in Actors : Due(z, u)'}
  <2>1. operations[u].msgwaits = Cardinality(D) + Cardinality(Replies(u))
    BY <1>1, <1>2 DEF Operational, OpInv, CountOk
  <2>2. E = D \ {x} /\ x \in D
    BY <1>2, <1>3
  <2>3. IsFiniteSet(D)
    BY ActorsFinite, FS_Subset
  <2>4. CountOk(u)' <=> (u \in DOMAIN operations' /\ operations'[u].state = "tasengines" =>
          operations'[u].msgwaits = Cardinality(E) + Cardinality(Replies(u)'))
    BY DEF CountOk
  <2> HIDE DEF D, E
  <2>5. Cardinality(E) = Cardinality(D) - 1 /\ Cardinality(D) \in Nat
    BY <2>2, <2>3, FS_RemoveElement, FS_CardinalityType
  <2>6. Cardinality(Replies(u)') = Cardinality(Replies(u)) + 1 /\ Cardinality(Replies(u)) \in Nat
    BY <1>1, AckReplies, RepliesFinite
  <2>7. operations'[u].msgwaits = Cardinality(E) + Cardinality(Replies(u)')
    BY <2>1, <2>5, <2>6, <1>1
  <2>8. QED
    BY <2>4, <2>7
<1>10. \A op \in OpId : OpInv(op, job)'
  BY <1>0, <1>6, <1>7, <1>8, <1>9, OpsOther DEF Operational, OpInv
<1>11. OneEach' /\ NoReplySent'
  BY <1>1 DEF Operational, OneEach, ToldSchema, NoReplySent
<1>12. UsmInv'
  <2>1. \A i \in DOMAIN usmMbox : usmMbox[i].op # u
    BY <1>2 DEF Operational, UsmInv, AtManager
  <2>2. QED
    BY <2>1, <1>0, <1>1, UsmOther DEF Operational
<1>13. ~Granted(u) /\ ~Granted(u)'
  BY <1>1, <1>2 DEF Granted
<1>14. QED
  BY <1>2, <1>3, <1>4, <1>10, <1>11, <1>12, <1>13 DEF Operational

-----------------------------------------------------------------------------
(* The agent of an operation takes a reply.                                *)

ReplyStep(a, m, u) ==
  /\ m = mbox[a][1] /\ 1 \in DOMAIN mbox[a] /\ m \in ReplyMsg /\ IsReply(m, u)
  /\ u \in OpId /\ u \in DOMAIN operations /\ Agent(u) = a
  /\ sending[a] = <<>>
  /\ Mail({a}, {}, <<>>)
  /\ UNCHANGED <<manager, copy, names, statements, procedures, usmMbox, issued, up>>

LEMMA ReplyIs ==
  ASSUME Shape, Shape', NEW job, Operational(job), NEW a \in Agents, SchemaReply(a)
  PROVE  \E m, u : /\ ReplyStep(a, m, u) /\ GoodReply(a, 1, m, job)
                   /\ \/ operations[u].state = "usm" /\ UsmResponse(a, m)
                      \/ operations[u].state = "tasengines" /\ TasEnginesResponse(a, m)
<1>1. PICK m, u : m = Head(mbox[a]) /\ u = m.op
  OBVIOUS
<1>2. mbox[a] # <<>> /\ mbox' = [mbox EXCEPT ![a] = Tail(@)] /\ a \in Actors /\ m.topic = "SCHEMAREPLY"
      /\ sending[a] = <<>>
  BY <1>1 DEF SchemaReply, Receives, Actors
<1>3. Mail({a}, {}, <<>>) /\ m = mbox[a][1] /\ m \in ReplyMsg
  BY <1>1, <1>2, MailTail, HeadType, Topics
<1>4. 1 \in DOMAIN mbox[a]
  BY <1>2, TailFirst, Boxes
<1>5. u \in OpId /\ IsReply(m, u)
  BY <1>1, <1>2, <1>3 DEF ReplyMsg, IsReply
<1>6. GoodReply(a, 1, m, job)
  BY <1>2, <1>3, <1>4, <1>5 DEF Operational, OpInv, RepliesOk
<1>7. u \in DOMAIN operations /\ Agent(u) = a
  BY <1>1, <1>6 DEF GoodReply
<1>8. UNCHANGED <<manager, copy, names, statements, procedures, usmMbox, issued, up>>
  BY DEF SchemaReply, managerVars, copyVars
<1>9. ReplyStep(a, m, u)
  BY <1>2, <1>3, <1>4, <1>5, <1>7, <1>8 DEF ReplyStep
<1>10. \/ operations[u].state = "usm" /\ UsmResponse(a, m)
       \/ operations[u].state = "tasengines" /\ TasEnginesResponse(a, m)
  BY <1>1, <1>7 DEF SchemaReply
<1>11. QED
  BY <1>6, <1>9, <1>10

LEMMA PopPlace ==
  ASSUME Shape, Shape', NEW a \in Actors, Mail({a}, {}, <<>>), NEW z \in Actors
  PROVE  /\ \A i \in DOMAIN mbox'[z] : WasAt(z, i, Pops({a}, z))
         /\ \A i \in DOMAIN mbox[z] : i > Pops({a}, z) =>
              i - Pops({a}, z) \in DOMAIN mbox'[z] /\ mbox'[z][i - Pops({a}, z)] = mbox[z][i]
<1>1. PICK pop, add : pop = {a} /\ add = {}
  OBVIOUS
<1>2. Mail(pop, add, <<>>) /\ \A y : y \notin add
  BY <1>1
<1>3. PICK p : p = Pops(pop, z)
  OBVIOUS
<1>4. p \in {0, 1} /\ DOMAIN mbox'[z] \subseteq Nat
  BY <1>3, BoxesNext DEF Pops
<1>5. \A i \in DOMAIN mbox'[z] : i + p \in DOMAIN mbox[z] /\ mbox'[z][i] = mbox[z][i + p]
  BY <1>2, <1>3, MailFacts
<1>6. \A i \in DOMAIN mbox[z] : i > p => i - p \in DOMAIN mbox'[z] /\ mbox'[z][i - p] = mbox[z][i]
  BY <1>2, <1>3, MailFacts
<1>7. QED
  BY <1>1, <1>3, <1>4, <1>5, <1>6 DEF WasAt

LEMMA ReplyPlaces ==
  ASSUME Shape, Shape', NEW a \in Agents, NEW m, NEW u, ReplyStep(a, m, u)
  PROVE  /\ \A z \in Actors : Posted(z, u)' <=> Posted(z, u)
         /\ 1 \in Replies(u)
         /\ \A i \in Replies(u)' : i \in Nat \ {0} /\ i + 1 \in Replies(u) /\ mbox'[a][i] = mbox[a][i + 1]
         /\ \A i \in Replies(u) : i # 1 => i - 1 \in Replies(u)'
<1>1. /\ m = mbox[a][1] /\ 1 \in DOMAIN mbox[a] /\ IsReply(m, u) /\ Agent(u) = a /\ a \in Actors
      /\ Mail({a}, {}, <<>>)
  BY DEF ReplyStep, Actors
<1>2. ASSUME NEW z \in Actors PROVE Posted(z, u)' <=> Posted(z, u)
  <2> DEFINE p == Pops({a}, z)
  <2>1. p \in {0, 1} /\ (p = 1 => z = a)
    BY DEF Pops
  <2>2. /\ \A i \in DOMAIN mbox'[z] : i + p \in DOMAIN mbox[z] /\ mbox'[z][i] = mbox[z][i + p]
        /\ \A i \in DOMAIN mbox[z] : i > p => i - p \in DOMAIN mbox'[z] /\ mbox'[z][i - p] = mbox[z][i]
    BY <1>1, PopPlace DEF WasAt
  <2>3. DOMAIN mbox[z] \subseteq Nat \ {0}
    BY Boxes
  <2> HIDE DEF p
  <2>4. ASSUME NEW i \in DOMAIN mbox[z], IsRequest(mbox[z][i], u)
        PROVE  i > p
    <3>1. ~(z = a /\ i = 1)
      BY <2>4, <1>1 DEF IsReply, IsRequest
    <3>2. QED
      BY <3>1, <2>1, <2>3
  <2>5. Posted(z, u)' <=> \E i \in DOMAIN mbox'[z] : IsRequest(mbox'[z][i], u)
    BY DEF Posted
  <2>6. QED
    BY <2>2, <2>4, <2>5 DEF Posted
<1>3. /\ Replies(u) = {i \in DOMAIN mbox[a] : IsReply(mbox[a][i], u)}
      /\ Replies(u)' = {i \in DOMAIN mbox'[a] : IsReply(mbox'[a][i], u)}
  BY <1>1 DEF Replies, Agent
<1>4. Pops({a}, a) = 1
  BY DEF Pops
<1>5. /\ \A i \in DOMAIN mbox'[a] : i \in Nat /\ i + 1 \in DOMAIN mbox[a] /\ mbox'[a][i] = mbox[a][i + 1]
      /\ \A i \in DOMAIN mbox[a] : i > 1 => i - 1 \in DOMAIN mbox'[a] /\ mbox'[a][i - 1] = mbox[a][i]
  <2>1. PICK p : p = Pops({a}, a) /\ p = 1
    BY <1>4
  <2>2. /\ \A i \in DOMAIN mbox'[a] : WasAt(a, i, p)
        /\ \A i \in DOMAIN mbox[a] : i > p =>
             i - p \in DOMAIN mbox'[a] /\ mbox'[a][i - p] = mbox[a][i]
    BY <1>1, <2>1, PopPlace
  <2>3. QED
    BY <2>1, <2>2 DEF WasAt
<1>6. DOMAIN mbox[a] \subseteq Nat \ {0} /\ DOMAIN mbox'[a] \subseteq Nat \ {0}
  BY <1>1, Boxes, BoxesNext
<1>7. \A i \in DOMAIN mbox[a] : i # 1 => i > 1
  BY <1>6
<1>8. QED
  BY <1>1, <1>2, <1>3, <1>5, <1>6, <1>7

\* The operation is ended: nothing is left that is about it.
EndStep(a, m, u) ==
  /\ ReplyStep(a, m, u) /\ Replies(u) = {1} /\ \A x \in Actors : ~Due(x, u)
  /\ operations' = Without(operations, u) /\ waiting' = [waiting EXCEPT ![u[1]] = FALSE]
  /\ answers \subseteq answers'
  /\ \A b \in Agents : \/ sending'[b] = sending[b]
                       \/ sending[b] = <<>> /\ \A i \in DOMAIN sending'[b] : OfNone(sending'[b][i].m)

LEMMA EndSame ==
  ASSUME Shape, Shape', NEW job, NEW a \in Agents, NEW m, NEW u, EndStep(a, m, u)
  PROVE  /\ StepOf(u, {a}, {}, <<>>, job, job)
         /\ DOMAIN operations' = DOMAIN operations \ {u}
         /\ \A op \in DOMAIN operations' : operations'[op] = operations[op]
<1>1. Mail({a}, {}, <<>>)
  BY DEF EndStep, ReplyStep
<1>2. Concerns({a}, {}, <<>>, u)
  BY DEF Concerns, AboutOp, EndStep, ReplyStep, IsReply
<1>3. SendingMoves(u)
  BY DEF SendingMoves, EndStep, AboutOp, OfNone
<1>4. operations \in Partial(OpId, Operation) /\ operations' = Without(operations, u)
  BY DEF Shape, EndStep
<1>5. /\ DOMAIN operations' = DOMAIN operations \ {u}
      /\ \A op \in DOMAIN operations : op # u => operations'[op] = operations[op]
  BY <1>4, WithoutFun
<1>6. \A op \in OpId : op # u => SameOp(op, job, job)
  BY <1>5 DEF SameOp
<1>7. QED
  BY <1>1, <1>2, <1>3, <1>5, <1>6 DEF StepOf

LEMMA EndOps ==
  ASSUME Shape, Shape', NEW job, Operational(job), NEW a \in Agents, NEW m, NEW u, EndStep(a, m, u)
  PROVE  Operational(job)'
<1>0. /\ StepOf(u, {a}, {}, <<>>, job, job)
      /\ DOMAIN operations' = DOMAIN operations \ {u}
      /\ \A op \in DOMAIN operations' : operations'[op] = operations[op]
  BY EndSame
<1>1. /\ ReplyStep(a, m, u) /\ u \in OpId /\ Agent(u) = a /\ Replies(u) = {1}
      /\ Mail({a}, {}, <<>>) /\ usmMbox' = usmMbox /\ a \in Actors
      /\ \A x \in Actors : ~Posted(x, u) /\ ~Unsent(x, u)
  BY DEF EndStep, ReplyStep, Actors, Due
<1>2. \A x \in Actors : ~Posted(x, u)'
  BY <1>1, ReplyPlaces
<1>3. \A x \in Actors : \A i \in DOMAIN mbox'[x] : ~IsReply(mbox'[x][i], u)
  <2> SUFFICES ASSUME NEW x \in Actors, NEW i \in DOMAIN mbox'[x], IsReply(mbox'[x][i], u) PROVE FALSE
    OBVIOUS
  <2>1. PICK p, l : p = Pops({a}, x) /\ l = mbox'[x][i]
    OBVIOUS
  <2>2. WasAt(x, i, p) /\ IsReply(l, u) /\ l.op = u
    BY <2>1, <1>1, PopPlace DEF IsReply
  <2>3. GoodReply(x, i + p, l, job)
    BY <2>1, <2>2, <1>1 DEF WasAt, Operational, OpInv, RepliesOk
  <2>4. x = a
    BY <2>2, <2>3, <1>1 DEF GoodReply
  <2>5. p = 1 /\ i \in Nat /\ i \in DOMAIN mbox'[a]
    BY <2>1, <2>2, <2>4 DEF Pops, WasAt
  <2>6. i + 1 \in Replies(u)
    <3>1. i + 1 \in DOMAIN mbox[a] /\ IsReply(mbox[a][i + 1], u)
      BY <2>1, <2>2, <2>4, <2>5 DEF WasAt
    <3>2. QED
      BY <3>1, <1>1 DEF Replies
  <2>7. i # 0
    BY <2>5, <1>1, BoxesNext
  <2>8. QED
    BY <2>5, <2>6, <2>7, <1>1
<1>4. \A b \in Agents : \A i \in DOMAIN sending'[b] : ~IsRequest(sending'[b][i].m, u)
  <2> SUFFICES ASSUME NEW b \in Agents, NEW i \in DOMAIN sending'[b], IsRequest(sending'[b][i].m, u)
               PROVE FALSE
    OBVIOUS
  <2>1. sending'[b] = sending[b]
    BY DEF EndStep, OfNone, IsRequest
  <2>2. Agent(u) = b
    BY <2>1, <1>1 DEF Operational, OpInv, UnsentOk
  <2>3. sending[b][i].to \in Actors
    BY <2>1, Sendings
  <2>4. Unsent(sending[b][i].to, u)
    BY <2>1, <2>2 DEF Unsent
  <2>5. QED
    BY <2>3, <2>4, <1>1
<1>5. OpInv(u, job)'
  BY <1>0, <1>2, <1>3, <1>4 DEF OpInv, RepliesOk, PostedOk, UnsentOk, CountOk, Posted
<1>6. \A op \in OpId : OpInv(op, job)'
  BY <1>0, <1>5, OpsOther DEF Operational
<1>7. OneEach'
  <2>1. waiting' = [waiting EXCEPT ![u[1]] = FALSE] /\ waiting \in [Clients -> BOOLEAN]
        /\ answers \subseteq answers'
    BY DEF EndStep, Shape
  <2>2. u \in DOMAIN operations
    BY <1>1 DEF ReplyStep
  <2>3. ASSUME NEW op \in DOMAIN operations' PROVE waiting'[op[1]]
    <3>1. op \in DOMAIN operations /\ op # u /\ op[1] \in Clients
      BY <1>0, OpsInOpId, AgentIn
    <3>2. op[1] # u[1] /\ waiting[op[1]]
      BY <2>2, <3>1 DEF Operational, OneEach
    <3>3. QED
      BY <2>1, <3>1, <3>2
  <2>4. ToldSchema => ToldSchema'
    BY <2>1 DEF ToldSchema
  <2>5. QED
    BY <2>3, <2>4, <1>0 DEF Operational, OneEach
<1>8. NoReplySent'
  BY DEF Operational, NoReplySent, EndStep, OfNone
<1>9. UsmInv'
  <2>1. \A i \in DOMAIN usmMbox : usmMbox[i].op # u
    BY <1>1 DEF Operational, UsmInv, AtManager
  <2>2. answers \subseteq answers'
    BY DEF EndStep
  <2>3. QED
    BY <2>1, <2>2, <1>0, <1>1, UsmOther DEF Operational
<1>10. QED
  BY <1>6, <1>7, <1>8, <1>9 DEF Operational

\* The operation is in another state, and the others are as they were.
MovedOn(u, state, msgwaits) ==
  /\ DOMAIN operations' = DOMAIN operations
  /\ operations'[u].cmd = operations[u].cmd
  /\ operations'[u].state = state /\ operations'[u].msgwaits = msgwaits
  /\ \A op \in DOMAIN operations : op # u => operations'[op] = operations[op]

\* The operation goes to the agents and the Engines.
PassStep(a, m, u) ==
  /\ ReplyStep(a, m, u) /\ m.ok /\ operations[u].state = "usm" /\ Replies(u) = {1}
  /\ MovedOn(u, "tasengines", Cardinality(Actors))
  /\ sending' = [sending EXCEPT ![a] = PassOn(m, operations[u].cmd)]
  /\ UNCHANGED <<waiting, answers>>

LEMMA PassSends ==
  ASSUME Shape, Shape', NEW a \in Agents, NEW m, NEW u, PassStep(a, m, u)
  PROVE  LET cmd == operations[u].cmd
             p == Passes(m, cmd)
             q == NameOf(m, cmd) IN
         /\ Broadcast(sending'[a], p, q, cmd)
         /\ \A b \in Agents : b # a => sending'[b] = sending[b]
         /\ \A i \in DOMAIN sending'[a] : /\ sending'[a][i].m \in {p, q} /\ sending'[a][i].to \in Actors
                                          /\ sending'[a][i].m.topic # "SCHEMAREPLY"
                                          /\ IsRequest(sending'[a][i].m, u) <=> sending'[a][i].m = p
                                          /\ AboutOp(sending'[a][i].m, u)
<1> DEFINE cmd == operations[u].cmd
           p == Passes(m, cmd)
           q == NameOf(m, cmd)
           M == [to : Actors, m : {p, q}]
<1>1. sending \in [Agents -> Seq([to : Actors, m : Msg])]
      /\ sending' = [sending EXCEPT ![a] = PassOn(m, cmd)]
  BY DEF Shape, PassStep
<1>2. sending'[a] = PassOn(m, cmd) /\ \A b \in Agents : b # a => sending'[b] = sending[b]
  BY <1>1
<1>3. Broadcast(sending'[a], p, q, cmd)
  BY <1>2, PassOnSeq
<1>4. sending'[a] \in Seq(M)
  BY <1>3 DEF Broadcast
<1>5. m.op = u
  BY DEF PassStep, ReplyStep, IsReply
<1>6. IsRequest(p, u) /\ AboutOp(p, u) /\ p.topic # "SCHEMAREPLY"
  BY <1>5 DEF Passes, IsRequest, AboutOp
<1>7. ~IsRequest(q, u) /\ AboutOp(q, u) /\ q.topic # "SCHEMAREPLY"
  BY DEF NameOf, IsRequest, AboutOp
<1> HIDE DEF p, q, M
<1>8. \A i \in DOMAIN sending'[a] : sending'[a][i] \in M
  BY <1>4, LenProperties, ElementOfSeq
<1>9. \A i \in DOMAIN sending'[a] : sending'[a][i].m \in {p, q} /\ sending'[a][i].to \in Actors
  BY <1>8 DEF M
<1>10. QED
  BY <1>2, <1>3, <1>6, <1>7, <1>9 DEF p, q

LEMMA PassSame ==
  ASSUME Shape, Shape', NEW job, NEW a \in Agents, NEW m, NEW u, PassStep(a, m, u)
  PROVE  StepOf(u, {a}, {}, <<>>, job, job)
<1>1. Mail({a}, {}, <<>>) /\ sending[a] = <<>>
  BY DEF PassStep, ReplyStep
<1>2. Concerns({a}, {}, <<>>, u)
  BY DEF Concerns, AboutOp, PassStep, ReplyStep, IsReply
<1>3. SendingMoves(u)
  BY <1>1, PassSends DEF SendingMoves
<1>4. \A op \in OpId : op # u => SameOp(op, job, job)
  BY DEF SameOp, PassStep, MovedOn
<1>5. QED
  BY <1>1, <1>2, <1>3, <1>4 DEF StepOf

LEMMA PassOps ==
  ASSUME Shape, Shape', NEW job, Operational(job), NEW a \in Agents, NEW m, NEW u,
         PassStep(a, m, u), GoodReply(a, 1, m, job)
  PROVE  /\ Operational(job)' /\ Granted(u) /\ Accepted(u)'
         /\ ~Granted(u)' /\ \A x \in Actors : Due(x, u)'
<1>a. PICK cmd : cmd = operations[u].cmd
  OBVIOUS
<1>b. PICK p, q : p = Passes(m, cmd) /\ q = NameOf(m, cmd)
  OBVIOUS
<1>0. StepOf(u, {a}, {}, <<>>, job, job)
  BY PassSame
<1>1. /\ ReplyStep(a, m, u) /\ u \in OpId /\ Agent(u) = a /\ Replies(u) = {1} /\ m = mbox[a][1]
      /\ u \in DOMAIN operations /\ operations[u].state = "usm" /\ m.ok /\ m.op = u
      /\ UNCHANGED <<waiting, answers, usmMbox>> /\ a \in Actors /\ Mail({a}, {}, <<>>)
  BY DEF PassStep, ReplyStep, Actors, IsReply
<1>2. /\ DOMAIN operations' = DOMAIN operations /\ operations'[u].cmd = operations[u].cmd
      /\ operations'[u].state = "tasengines" /\ operations'[u].msgwaits = Cardinality(Actors)
      /\ \A op \in DOMAIN operations : op # u => operations'[op] = operations[op]
  BY DEF PassStep, MovedOn
<1>3. /\ \A x \in Actors : \A i \in DOMAIN mbox[x] : ~IsRequest(mbox[x][i], u)
      /\ \A b \in Agents : \A i \in DOMAIN sending[b] : ~IsRequest(sending[b][i].m, u)
  BY <1>1, NoRequests DEF Operational
<1>4. /\ \A i, j \in DOMAIN sending'[a] :
           sending'[a][i].m = p /\ sending'[a][j].m = p /\ sending'[a][i].to = sending'[a][j].to => i = j
      /\ \A x \in Actors : \E i \in DOMAIN sending'[a] : sending'[a][i].to = x /\ sending'[a][i].m = p
      /\ \A b \in Agents : b # a => sending'[b] = sending[b]
      /\ \A i \in DOMAIN sending'[a] : /\ IsRequest(sending'[a][i].m, u) <=> sending'[a][i].m = p
                                       /\ sending'[a][i].m.topic # "SCHEMAREPLY"
                                       /\ sending'[a][i].to \in Actors
  <2>1. /\ Broadcast(sending'[a], p, q, cmd)
        /\ \A b \in Agents : b # a => sending'[b] = sending[b]
        /\ \A i \in DOMAIN sending'[a] : /\ sending'[a][i].to \in Actors
                                         /\ sending'[a][i].m.topic # "SCHEMAREPLY"
                                         /\ IsRequest(sending'[a][i].m, u) <=> sending'[a][i].m = p
    BY <1>a, <1>b, PassSends
  <2>2. QED
    BY <2>1 DEF Broadcast
<1>5. p.op = u /\ p.cmd = cmd /\ p.tableid = m.tableid /\ p.column = m.name
  BY <1>1, <1>b DEF Passes
<1>6. m.tableid = job[u[1]].tableid /\ m.name = job[u[1]].name
  BY <1>1 DEF GoodReply
<1>7. GoodRequest(p, job)'
  BY <1>1, <1>2, <1>5, <1>6, <1>a DEF GoodRequest
<1>8. Replies(u)' = {}
  BY <1>1, ReplyPlaces
<1>9. \A x \in Actors : ~Posted(x, u)'
  BY <1>1, <1>3, ReplyPlaces DEF Posted
<1>10. RepliesOk(u, job)'
  <2> SUFFICES ASSUME NEW x \in Actors, NEW i \in DOMAIN mbox'[x], IsReply(mbox'[x][i], u) PROVE FALSE
    BY DEF RepliesOk
  <2>1. PICK r, l : r = Pops({a}, x) /\ l = mbox'[x][i]
    OBVIOUS
  <2>2. WasAt(x, i, r) /\ IsReply(l, u) /\ l.op = u
    BY <2>1, <1>1, PopPlace DEF IsReply
  <2>3. GoodReply(x, i + r, l, job)
    BY <2>1, <2>2, <1>1 DEF WasAt, Operational, OpInv, RepliesOk
  <2>4. x = a
    BY <2>2, <2>3, <1>1 DEF GoodReply
  <2>5. i \in Replies(u)'
    BY <2>1, <2>2, <2>4, <1>1 DEF Replies, Agent
  <2>6. QED
    BY <2>5, <1>8
<1>11. PostedOk(u, job)'
  BY <1>9 DEF PostedOk, Posted
<1>12. UnsentOk(u, job)'
  <2> SUFFICES ASSUME NEW b \in Agents, NEW i \in DOMAIN sending'[b], IsRequest(sending'[b][i].m, u)
               PROVE  /\ GoodRequest(sending[b][i].m, job)' /\ Agent(u) = b
                      /\ ~Posted(sending[b][i].to, u)'
                      /\ \A j \in DOMAIN sending'[b] :
                           IsRequest(sending'[b][j].m, u) /\ sending'[b][j].to = sending'[b][i].to => j = i
    BY DEF UnsentOk, Agent
  <2>1. b = a
    BY <1>3, <1>4
  <2>2. sending'[b][i].m = p /\ sending'[b][i].to \in Actors
    BY <2>1, <1>4
  <2>3. PICK t, l : t = sending'[b][i].to /\ l = sending'[b][i].m
    OBVIOUS
  <2>4. ~Posted(t, u)' /\ GoodRequest(l, job)'
    BY <2>2, <2>3, <1>7, <1>9
  <2>5. \A j \in DOMAIN sending'[b] :
          IsRequest(sending'[b][j].m, u) /\ sending'[b][j].to = sending'[b][i].to => j = i
    BY <2>1, <2>2, <1>4
  <2>6. QED
    BY <2>1, <2>3, <2>4, <2>5, <1>1
<1>13. ASSUME NEW x \in Actors PROVE Due(x, u)'
  <2>1. Unsent(x, u)' <=> \E i \in DOMAIN sending'[a] : sending'[a][i].to = x /\ IsRequest(sending'[a][i].m, u)
    BY <1>1 DEF Unsent, Agent
  <2>2. QED
    BY <2>1, <1>4 DEF Due
<1>14. CountOk(u)'
  <2>1. {x \in Actors : Due(x, u)'} = Actors
    BY <1>13
  <2>2. Cardinality(Replies(u)') = 0 /\ Cardinality(Actors) \in Nat
    BY <1>8, FS_EmptySet, ActorsFinite, FS_CardinalityType
  <2>3. CountOk(u)' <=> (u \in DOMAIN operations' /\ operations'[u].state = "tasengines" =>
          operations'[u].msgwaits = Cardinality({x \in Actors : Due(x, u)'}) + Cardinality(Replies(u)'))
    BY DEF CountOk
  <2>4. QED
    BY <2>1, <2>2, <2>3, <1>2
<1>15. \A op \in OpId : OpInv(op, job)'
  BY <1>0, <1>10, <1>11, <1>12, <1>14, OpsOther DEF Operational, OpInv
<1>16. OneEach'
  BY <1>1, <1>2 DEF Operational, OneEach, ToldSchema
<1>17. NoReplySent'
  BY <1>4 DEF Operational, NoReplySent
<1>18. UsmInv'
  <2>1. \A i \in DOMAIN usmMbox : usmMbox[i].op # u
    BY <1>1 DEF Operational, UsmInv, AtManager
  <2>2. QED
    BY <2>1, <1>0, <1>1, UsmOther DEF Operational
<1>19. Granted(u) /\ Accepted(u)' /\ ~Granted(u)'
  BY <1>1, <1>2 DEF Granted, Accepted
<1>20. QED
  BY <1>13, <1>15, <1>16, <1>17, <1>18, <1>19 DEF Operational

\* A reply that is not the last is counted.
CountStep(a, m, u) ==
  /\ ReplyStep(a, m, u) /\ operations[u].state = "tasengines"
  /\ MovedOn(u, "tasengines", operations[u].msgwaits - 1)
  /\ UNCHANGED <<sending, waiting, answers>>

LEMMA CountSame ==
  ASSUME Shape, Shape', NEW job, NEW a \in Agents, NEW m, NEW u, CountStep(a, m, u)
  PROVE  StepOf(u, {a}, {}, <<>>, job, job)
<1>1. Mail({a}, {}, <<>>)
  BY DEF CountStep, ReplyStep
<1>2. Concerns({a}, {}, <<>>, u)
  BY DEF Concerns, AboutOp, CountStep, ReplyStep, IsReply
<1>3. SendingMoves(u)
  BY DEF SendingMoves, CountStep
<1>4. \A op \in OpId : op # u => SameOp(op, job, job)
  BY DEF SameOp, CountStep, MovedOn
<1>5. QED
  BY <1>1, <1>2, <1>3, <1>4 DEF StepOf

LEMMA CountOps ==
  ASSUME Shape, Shape', NEW job, Operational(job), NEW a \in Agents, NEW m, NEW u, CountStep(a, m, u)
  PROVE  /\ Operational(job)' /\ ~Granted(u) /\ ~Granted(u)'
         /\ \A x \in Actors : Due(x, u)' <=> Due(x, u)
<1>0. StepOf(u, {a}, {}, <<>>, job, job)
  BY CountSame
<1>1. /\ ReplyStep(a, m, u) /\ u \in OpId /\ Agent(u) = a /\ u \in DOMAIN operations
      /\ operations[u].state = "tasengines"
      /\ UNCHANGED <<sending, waiting, answers, usmMbox>> /\ a \in Actors /\ Mail({a}, {}, <<>>)
  BY DEF CountStep, ReplyStep, Actors
<1>2. /\ DOMAIN operations' = DOMAIN operations /\ operations'[u].cmd = operations[u].cmd
      /\ operations'[u].state = "tasengines" /\ operations'[u].msgwaits = operations[u].msgwaits - 1
      /\ \A op \in DOMAIN operations : op # u => operations'[op] = operations[op]
  BY DEF CountStep, MovedOn
<1>3. /\ \A z \in Actors : Posted(z, u)' <=> Posted(z, u)
      /\ 1 \in Replies(u)
      /\ \A i \in Replies(u)' : i \in Nat \ {0} /\ i + 1 \in Replies(u)
      /\ \A i \in Replies(u) : i # 1 => i - 1 \in Replies(u)'
  BY <1>1, ReplyPlaces
<1>4. RepliesOk(u, job)'
  <2> SUFFICES ASSUME NEW x \in Actors, NEW i \in DOMAIN mbox'[x], IsReply(mbox'[x][i], u)
               PROVE  GoodReply(x, i, mbox[x][i], job)'
    BY DEF RepliesOk
  <2>1. PICK r, l : r = Pops({a}, x) /\ l = mbox'[x][i]
    OBVIOUS
  <2>2. WasAt(x, i, r) /\ IsReply(l, u) /\ l.op = u
    BY <2>1, <1>1, PopPlace DEF IsReply
  <2>3. GoodReply(x, i + r, l, job)
    BY <2>1, <2>2, <1>1 DEF WasAt, Operational, OpInv, RepliesOk
  <2>4. GoodReply(x, i, l, job)'
    BY <2>2, <2>3, <1>1, <1>2 DEF GoodReply, Agent
  <2>5. QED
    BY <2>1, <2>4
<1>5. PostedOk(u, job)'
  <2> SUFFICES ASSUME NEW z \in Actors, NEW i \in DOMAIN mbox'[z], IsRequest(mbox'[z][i], u)
               PROVE  /\ GoodRequest(mbox[z][i], job)'
                      /\ \A j \in DOMAIN mbox'[z] : IsRequest(mbox'[z][j], u) => j = i
    BY DEF PostedOk
  <2>1. PICK l, p : l = mbox'[z][i] /\ p = Pops({a}, z)
    OBVIOUS
  <2>2. \A j \in DOMAIN mbox'[z] :
          p \in {0, 1} /\ j \in Nat /\ j + p \in DOMAIN mbox[z] /\ mbox'[z][j] = mbox[z][j + p]
    BY <2>1, <1>1, PopPlace DEF WasAt
  <2>3. /\ GoodRequest(mbox[z][i + p], job)
        /\ \A j \in DOMAIN mbox[z] : IsRequest(mbox[z][j], u) => j = i + p
    BY <2>2, <1>1 DEF Operational, OpInv, PostedOk
  <2>4. l = mbox[z][i + p] /\ i \in Nat /\ p \in {0, 1}
    BY <2>1, <2>2
  <2>5. GoodRequest(l, job)'
    BY <2>3, <2>4, <1>1, <1>2 DEF GoodRequest
  <2>6. \A j \in DOMAIN mbox'[z] : IsRequest(mbox'[z][j], u) => j = i
    <3> SUFFICES ASSUME NEW j \in DOMAIN mbox'[z], IsRequest(mbox'[z][j], u) PROVE j = i
      OBVIOUS
    <3>1. j \in Nat /\ j + p = i + p
      BY <2>2, <2>3
    <3>2. QED
      BY <3>1, <2>4
  <2>7. QED
    BY <2>1, <2>5, <2>6
<1>6. UnsentOk(u, job)'
  <2> SUFFICES ASSUME NEW b \in Agents, NEW i \in DOMAIN sending[b], IsRequest(sending[b][i].m, u)
               PROVE  /\ GoodRequest(sending[b][i].m, job)' /\ Agent(u) = b
                      /\ ~Posted(sending[b][i].to, u)'
                      /\ \A j \in DOMAIN sending[b] :
                           IsRequest(sending[b][j].m, u) /\ sending[b][j].to = sending[b][i].to => j = i
    BY <1>1 DEF UnsentOk, Agent
  <2>1. PICK s : s = sending[b][i]
    OBVIOUS
  <2>2. /\ GoodRequest(s.m, job) /\ Agent(u) = b /\ ~Posted(s.to, u)
        /\ \A j \in DOMAIN sending[b] :
             IsRequest(sending[b][j].m, u) /\ sending[b][j].to = s.to => j = i
    BY <2>1, <1>1 DEF Operational, OpInv, UnsentOk
  <2>3. s.to \in Actors
    BY <2>1, Sendings
  <2>4. ~Posted(s.to, u)'
    BY <2>2, <2>3, <1>3
  <2>5. s.m.op = u
    BY <2>1 DEF IsRequest
  <2>6. GoodRequest(s.m, job)'
    BY <2>2, <2>5, <1>1, <1>2 DEF GoodRequest
  <2>7. s = sending'[b][i]
    BY <2>1, <1>1
  <2>8. QED
    BY <2>1, <2>2, <2>4, <2>6, <2>7
<1>7. ASSUME NEW x \in Actors PROVE Due(x, u)' <=> Due(x, u)
  <2>1. Unsent(x, u)' <=> Unsent(x, u)
    BY <1>1 DEF Unsent, Agent
  <2>2. QED
    BY <2>1, <1>3 DEF Due
<1>8. Cardinality(Replies(u)') = Cardinality(Replies(u)) - 1 /\ Cardinality(Replies(u)) \in Nat
  <2> DEFINE S == Replies(u) \ {1}
             T == Replies(u)'
  <2>1. IsFiniteSet(Replies(u)) /\ Replies(u) \subseteq Nat /\ Cardinality(Replies(u)) \in Nat
    BY <1>1, RepliesFinite
  <2>2. IsFiniteSet(S) /\ Cardinality(S) = Cardinality(Replies(u)) - 1
    BY <2>1, <1>3, FS_RemoveElement
  <2>3. S \in SUBSET Int /\ T \in SUBSET Int /\ 1 \in Int
    BY <2>1, <1>3
  <2>4. \A i \in S : i - 1 \in T
    BY <1>3
  <2>5. \A i \in T : i + 1 \in S
    BY <1>3
  <2> HIDE DEF S, T
  <2>6. Cardinality(T) = Cardinality(S)
    BY <2>2, <2>3, <2>4, <2>5, ShiftCard
  <2>7. QED
    BY <2>1, <2>2, <2>6 DEF T
<1>9. CountOk(u)'
  <2> DEFINE D == {z \in Actors : Due(z, u)}
             E == {z \in Actors : Due(z, u)'}
  <2>1. operations[u].msgwaits = Cardinality(D) + Cardinality(Replies(u))
    BY <1>1 DEF Operational, OpInv, CountOk
  <2>2. E = D
    BY <1>7
  <2>3. IsFiniteSet(D)
    BY ActorsFinite, FS_Subset
  <2>4. CountOk(u)' <=> (u \in DOMAIN operations' /\ operations'[u].state = "tasengines" =>
          operations'[u].msgwaits = Cardinality(E) + Cardinality(Replies(u)'))
    BY DEF CountOk
  <2> HIDE DEF D, E
  <2>5. Cardinality(D) \in Nat
    BY <2>3, FS_CardinalityType
  <2>6. operations'[u].msgwaits = Cardinality(E) + Cardinality(Replies(u)')
    BY <2>1, <2>2, <2>5, <1>2, <1>8
  <2>7. QED
    BY <2>4, <2>6
<1>10. \A op \in OpId : OpInv(op, job)'
  BY <1>0, <1>4, <1>5, <1>6, <1>9, OpsOther DEF Operational, OpInv
<1>11. OneEach' /\ NoReplySent'
  BY <1>1, <1>2 DEF Operational, OneEach, ToldSchema, NoReplySent
<1>12. UsmInv'
  <2>1. \A i \in DOMAIN usmMbox : usmMbox[i].op # u
    BY <1>1 DEF Operational, UsmInv, AtManager
  <2>2. QED
    BY <2>1, <1>0, <1>1, UsmOther DEF Operational
<1>13. ~Granted(u) /\ ~Granted(u)'
  BY <1>1, <1>2 DEF Granted
<1>14. QED
  BY <1>7, <1>10, <1>11, <1>12, <1>13 DEF Operational

\* When one reply is waited for, the one that has come is the last.
LEMMA LastOne ==
  ASSUME Shape, NEW job, Operational(job), NEW a \in Agents, NEW m, NEW u, ReplyStep(a, m, u),
         operations[u].state = "tasengines", operations[u].msgwaits = 1
  PROVE  Replies(u) = {1} /\ \A x \in Actors : ~Due(x, u)
<1> DEFINE D == {z \in Actors : Due(z, u)}
<1>1. u \in OpId /\ u \in DOMAIN operations /\ 1 \in Replies(u)
  BY DEF ReplyStep, Replies
<1>2. 1 = Cardinality(D) + Cardinality(Replies(u))
  BY <1>1 DEF Operational, OpInv, CountOk
<1>3. IsFiniteSet(D) /\ IsFiniteSet(Replies(u))
  BY <1>1, ActorsFinite, FS_Subset, RepliesFinite
<1>4. Cardinality(D) \in Nat /\ Cardinality(Replies(u)) \in Nat
  BY <1>3, FS_CardinalityType
<1>5. Cardinality(Replies(u)) # 0
  BY <1>1, <1>3, FS_EmptySet
<1> HIDE DEF D
<1>6. Cardinality(D) = 0 /\ Cardinality(Replies(u)) = 1
  BY <1>2, <1>4, <1>5
<1>7. D = {}
  BY <1>3, <1>6, FS_EmptySet
<1>8. Replies(u) = {1}
  BY <1>1, <1>3, <1>6, FS_Singleton
<1>9. QED
  BY <1>7, <1>8 DEF D

AnswerOf(m, u, ok) ==
  [client |-> u[1], cmd |-> operations[u].cmd, ok |-> ok, state |-> operations[u].state,
   tableid |-> m.tableid, fieldid |-> m.fieldid]

RefusedStep(a, m, u) ==
  /\ EndStep(a, m, u) /\ operations[u].state = "usm" /\ ~m.ok
  /\ answers' = answers \cup {AnswerOf(m, u, FALSE)}
  /\ sending' = [sending EXCEPT ![a] = NamesToo(m, operations[u].cmd)]

LastStep(a, m, u) ==
  /\ EndStep(a, m, u) /\ operations[u].state = "tasengines" /\ m.ok
  /\ answers' = answers \cup {AnswerOf(m, u, TRUE)}
  /\ sending' = sending

LEMMA MovedOnFacts ==
  ASSUME Shape, NEW u \in DOMAIN operations, NEW y \in Operation,
         operations' = [operations EXCEPT ![u] = y], y.cmd = operations[u].cmd
  PROVE  MovedOn(u, y.state, y.msgwaits)
<1>1. operations \in Partial(OpId, Operation)
  BY DEF Shape
<1>2. /\ DOMAIN [operations EXCEPT ![u] = y] = DOMAIN operations
      /\ [operations EXCEPT ![u] = y][u] = y
      /\ \A z \in DOMAIN operations : z # u => [operations EXCEPT ![u] = y][z] = operations[z]
  BY <1>1, ChangedFun
<1>3. QED
  BY <1>2 DEF MovedOn

LEMMA ReplyCases ==
  ASSUME Shape, Shape', NEW job, Operational(job), NEW a \in Agents, SchemaReply(a)
  PROVE  \E m, u : /\ GoodReply(a, 1, m, job)
                   /\ \/ RefusedStep(a, m, u) \/ PassStep(a, m, u)
                      \/ LastStep(a, m, u) \/ CountStep(a, m, u)
<1>1. PICK m, u : /\ ReplyStep(a, m, u) /\ GoodReply(a, 1, m, job)
                  /\ \/ operations[u].state = "usm" /\ UsmResponse(a, m)
                     \/ operations[u].state = "tasengines" /\ TasEnginesResponse(a, m)
  BY ReplyIs
<1>2. /\ m.op = u /\ u \in OpId /\ u \in DOMAIN operations /\ operations[u] \in Operation /\ IsReply(m, u)
      /\ sending[a] = <<>> /\ a \in Actors /\ Agent(u) = a /\ 1 \in DOMAIN mbox[a] /\ m = mbox[a][1]
  BY <1>1, OpsInOpId DEF ReplyStep, IsReply, Actors
<1>3. PICK cmd : cmd = operations[u].cmd
  OBVIOUS
<1>4. ASSUME NEW ok \in BOOLEAN, Answer(m, ok)
      PROVE  /\ operations' = Without(operations, u) /\ waiting' = [waiting EXCEPT ![u[1]] = FALSE]
             /\ answers' = answers \cup {AnswerOf(m, u, ok)} /\ answers \subseteq answers'
  BY <1>2, <1>4 DEF Answer, AnswerOf
<1>5. sending \in [Agents -> Seq([to : Actors, m : Msg])]
  BY DEF Shape
<1>6. CASE operations[u].state = "usm" /\ UsmResponse(a, m)
  <2>1. 1 \in Replies(u) /\ \A j \in DOMAIN mbox[a] : IsReply(mbox[a][j], u) => j = 1
    BY <1>1, <1>2, <1>6 DEF GoodReply, Replies
  <2>2. Replies(u) = {1}
    BY <2>1, <1>2 DEF Replies
  <2>3. CASE ~m.ok /\ Answer(m, FALSE) /\ sending' = [sending EXCEPT ![a] = NamesToo(m, cmd)]
    <3>1. \A x \in Actors : ~Due(x, u)
      <4>1. /\ \A x \in Actors : \A i \in DOMAIN mbox[x] : ~IsRequest(mbox[x][i], u)
            /\ \A b \in Agents : \A i \in DOMAIN sending[b] : ~IsRequest(sending[b][i].m, u)
        BY <1>2, <1>6, NoRequests DEF Operational
      <4>2. Agent(u) \in Agents
        BY <1>2
      <4>3. QED
        BY <4>1, <4>2 DEF Due, Posted, Unsent
    <3>2. PICK s : s = NamesToo(m, cmd)
      OBVIOUS
    <3>3. \A i \in DOMAIN s : OfNone(s[i].m)
      <4>1. \A i \in DOMAIN s : s[i].m = NameOf(m, cmd)
        BY <3>2, NamesTooSeq
      <4>2. OfNone(NameOf(m, cmd))
        BY DEF NameOf, OfNone
      <4>3. QED
        BY <4>1, <4>2
    <3>4. sending'[a] = s /\ \A b \in Agents : b # a => sending'[b] = sending[b]
      BY <2>3, <3>2, <1>5
    <3>5. \A b \in Agents : \/ sending'[b] = sending[b]
                            \/ sending[b] = <<>> /\ \A i \in DOMAIN sending'[b] : OfNone(sending'[b][i].m)
      BY <3>3, <3>4, <1>2
    <3>6. EndStep(a, m, u)
      BY <1>1, <1>4, <2>2, <2>3, <3>1, <3>5 DEF EndStep
    <3>7. RefusedStep(a, m, u)
      BY <1>3, <1>4, <1>6, <2>3, <3>6 DEF RefusedStep
    <3>8. QED
      BY <1>1, <3>7
  <2>4. CASE /\ m.ok
             /\ operations' = [operations EXCEPT ![m.op].state = "tasengines", ![m.op].msgwaits = Msgwaits]
             /\ sending' = [sending EXCEPT ![a] = PassOn(m, cmd)] /\ UNCHANGED <<waiting, answers>>
    <3> DEFINE y == [operations[u] EXCEPT !.state = "tasengines", !.msgwaits = Msgwaits]
    <3>1. operations' = [operations EXCEPT ![u] = y]
      BY <2>4, <1>2 DEF Operation
    <3>2. Msgwaits \in Int /\ Msgwaits = Cardinality(Actors)
      BY FS_CardinalityType, ActorsFinite DEF Msgwaits
    <3>3. y \in Operation /\ y.cmd = operations[u].cmd /\ y.state = "tasengines" /\ y.msgwaits = Msgwaits
      BY <1>2, <3>2 DEF Operation
    <3> HIDE DEF y
    <3>4. MovedOn(u, "tasengines", Cardinality(Actors))
      BY <1>2, <3>1, <3>2, <3>3, MovedOnFacts
    <3>5. PassStep(a, m, u)
      BY <1>1, <1>3, <1>6, <2>2, <2>4, <3>4 DEF PassStep
    <3>6. QED
      BY <1>1, <3>5
  <2>5. QED
    BY <1>2, <1>3, <1>6, <2>3, <2>4 DEF UsmResponse
<1>7. CASE operations[u].state = "tasengines" /\ TasEnginesResponse(a, m)
  <2>1. m.ok /\ sending' = sending
    BY <1>1, <1>2, <1>7 DEF GoodReply, TasEnginesResponse
  <2>2. CASE operations[u].msgwaits = 1 /\ Answer(m, TRUE)
    <3>1. Replies(u) = {1} /\ \A x \in Actors : ~Due(x, u)
      BY <1>1, <1>7, <2>2, LastOne
    <3>2. EndStep(a, m, u)
      BY <1>1, <1>4, <2>1, <2>2, <3>1 DEF EndStep
    <3>3. LastStep(a, m, u)
      BY <1>4, <1>7, <2>1, <2>2, <3>2 DEF LastStep
    <3>4. QED
      BY <1>1, <3>3
  <2>3. CASE /\ operations' = [operations EXCEPT ![m.op].msgwaits = @ - 1] /\ UNCHANGED <<waiting, answers>>
    <3> DEFINE y == [operations[u] EXCEPT !.msgwaits = @ - 1]
    <3>1. operations' = [operations EXCEPT ![u] = y]
      BY <2>3, <1>2
    <3>2. operations[u].msgwaits \in Int
      BY <1>2 DEF Operation
    <3>3. y \in Operation /\ y.cmd = operations[u].cmd /\ y.state = "tasengines"
          /\ y.msgwaits = operations[u].msgwaits - 1
      BY <1>2, <1>7, <3>2 DEF Operation
    <3> HIDE DEF y
    <3>4. MovedOn(u, "tasengines", operations[u].msgwaits - 1)
      BY <1>2, <3>1, <3>3, MovedOnFacts
    <3>5. CountStep(a, m, u)
      BY <1>1, <1>7, <2>1, <2>3, <3>4 DEF CountStep
    <3>6. QED
      BY <1>1, <3>5
  <2>4. QED
    BY <1>2, <1>7, <2>1, <2>2, <2>3 DEF TasEnginesResponse, LastReply
<1>8. QED
  BY <1>1, <1>6, <1>7

-----------------------------------------------------------------------------
(* What has been done.                                                     *)

LEMMA LagsAccepted ==
  ASSUME Shape, NEW job, Operational(job), NEW op \in DOMAIN operations, NEW x \in Actors, Lags(x, op)
  PROVE  Accepted(op)
<1>1. op \in OpId /\ Agent(op) \in Agents
  BY OpsInOpId, AgentIn
<1>2. CASE Granted(op)
  BY <1>2 DEF Accepted
<1>3. CASE Posted(x, op)
  <2>1. PICK i \in DOMAIN mbox[x] : IsRequest(mbox[x][i], op)
    BY <1>3 DEF Posted
  <2>2. GoodRequest(mbox[x][i], job) /\ mbox[x][i].op = op
    BY <1>1, <2>1 DEF Operational, OpInv, PostedOk, IsRequest
  <2>3. QED
    BY <2>2 DEF GoodRequest, Accepted
<1>4. CASE Unsent(x, op)
  <2>1. PICK i \in DOMAIN sending[Agent(op)] : IsRequest(sending[Agent(op)][i].m, op)
    BY <1>4 DEF Unsent
  <2>2. PICK m : m = sending[Agent(op)][i].m
    OBVIOUS
  <2>3. GoodRequest(m, job) /\ m.op = op
    BY <1>1, <2>1, <2>2 DEF Operational, OpInv, UnsentOk, IsRequest
  <2>4. QED
    BY <2>3 DEF GoodRequest, Accepted
<1>5. QED
  BY <1>2, <1>3, <1>4 DEF Lags, Due

\* A column is added by the client that made the table.
LEMMA AddsToOwn ==
  ASSUME Shape, NEW own, NEW job, Operational(job), Done(own, job),
         NEW op \in DOMAIN operations, NEW x \in Actors, NEW id, Adding(x, op, id, job)
  PROVE  /\ own[id] = op[1] /\ id \in TablesOf(op[1])
         /\ id \in DOMAIN copy[x].fields /\ id \in DOMAIN manager.fields
         /\ manager.fields[id] = Append(copy[x].fields[id], job[op[1]].name)
<1>1. operations[op].cmd = "addcolumn" /\ Lags(x, op) /\ job[op[1]].tableid = id
  BY DEF Adding
<1>2. JobDone(op, own, job) /\ NotYet(x, op, job)
  BY <1>1, LagsAccepted DEF Done, DoneOp
<1>3. id \in TablesOf(op[1]) /\ id \in DOMAIN manager.fields
  BY <1>1, <1>2 DEF JobDone
<1>4. own[id] = op[1]
  BY <1>3 DEF TablesOf, Done, AnswersInv
<1>5. QED
  BY <1>1, <1>2, <1>3, <1>4 DEF NotYet

LEMMA FieldsTypes ==
  ASSUME Shape
  PROVE  /\ \A x \in Actors : \A id \in DOMAIN copy[x].fields :
              id \in Nat /\ copy[x].fields[id] \in Seq(AnyName)
         /\ \A id \in DOMAIN manager.fields : manager.fields[id] \in Seq(Columns)
         /\ DOMAIN manager.fields = 1 .. Len(manager.tables)
         /\ DOMAIN manager.tables = 1 .. Len(manager.tables) /\ Len(manager.tables) \in Nat
<1>1. copy \in [Actors -> CopyType]
  BY DEF Shape, CopyType
<1>2. \A x \in Actors : copy[x].fields \in Partial(Nat, Seq(AnyName))
  BY <1>1 DEF CopyType
<1>3. \A x \in Actors : \A id \in DOMAIN copy[x].fields :
        id \in Nat /\ copy[x].fields[id] \in Seq(AnyName)
  BY <1>2, PartialFun
<1>4. manager.fields \in Seq(Seq(Columns)) /\ manager.tables \in Seq(TableNames)
      /\ Len(manager.fields) = Len(manager.tables)
  BY DEF Shape
<1> DEFINE C == Seq(Columns)
<1>5. manager.fields \in Seq(C)
  BY <1>4
<1> HIDE DEF C
<1>6. /\ \A id \in DOMAIN manager.fields : manager.fields[id] \in C
      /\ DOMAIN manager.fields = 1 .. Len(manager.fields)
  BY <1>5, LenProperties, ElementOfSeq
<1>7. DOMAIN manager.tables = 1 .. Len(manager.tables) /\ Len(manager.tables) \in Nat
  BY <1>4, LenProperties
<1>8. QED
  BY <1>3, <1>4, <1>6, <1>7 DEF C

\* A copy has the first columns the manager has.
Follows(x, id) ==
  /\ id \in DOMAIN manager.fields
  /\ Len(copy[x].fields[id]) <= Len(manager.fields[id])
  /\ \A k \in DOMAIN copy[x].fields[id] :
       k \in DOMAIN manager.fields[id] /\ copy[x].fields[id][k] = manager.fields[id][k]

LEMMA CopyFollows ==
  ASSUME Shape, NEW own, NEW job, Operational(job), Done(own, job),
         NEW x \in Actors, NEW id \in DOMAIN copy[x].fields
  PROVE  Follows(x, id)
<1>1. id \in DOMAIN manager.fields
  BY DEF Done, CopyInv
<1>2. PICK s, t : s = copy[x].fields[id] /\ t = manager.fields[id]
  OBVIOUS
<1>3. s \in Seq(AnyName) /\ t \in Seq(Columns)
  BY <1>1, <1>2, FieldsTypes
<1>4. Len(s) \in Nat /\ DOMAIN s = 1 .. Len(s) /\ Len(t) \in Nat /\ DOMAIN t = 1 .. Len(t)
  BY <1>3, LenProperties
<1>5. CASE s = t
  BY <1>1, <1>2, <1>4, <1>5 DEF Follows
<1>6. CASE \E op \in DOMAIN operations : Adding(x, op, id, job)
  <2>1. PICK op \in DOMAIN operations : Adding(x, op, id, job)
    BY <1>6
  <2>2. PICK n : n = job[op[1]].name
    OBVIOUS
  <2>3. t = Append(s, n)
    BY <2>1, <2>2, <1>2, AddsToOwn
  <2>4. Len(t) = Len(s) + 1 /\ \A k \in 1 .. Len(s) : t[k] = s[k]
    BY <1>3, <2>3, AppendSeq
  <2>5. QED
    BY <1>1, <1>2, <1>4, <2>4 DEF Follows
<1>7. QED
  BY <1>2, <1>5, <1>6 DEF Done, CopyInv

\* A table that no column is being added to is the manager's.
LEMMA CopyEqual ==
  ASSUME Shape, NEW own, NEW job, Operational(job), Done(own, job),
         NEW x \in Actors, NEW id \in DOMAIN copy[x].fields,
         NEW c, own[id] = c, \A op \in DOMAIN operations : op[1] = c => ~Adding(x, op, id, job)
  PROVE  copy[x].fields[id] = manager.fields[id]
<1>1. \A op \in DOMAIN operations : ~Adding(x, op, id, job)
  BY AddsToOwn
<1>2. QED
  BY <1>1 DEF Done, CopyInv

LEMMA FollowsPrefix ==
  ASSUME Shape, NEW own, NEW job, Operational(job), Done(own, job)
  PROVE  CopiesFollowTheManager
<1> SUFFICES ASSUME NEW x \in Actors, NEW id \in DOMAIN copy[x].fields
             PROVE  id \in DOMAIN manager.fields /\ IsPrefix(copy[x].fields[id], manager.fields[id])
  BY DEF CopiesFollowTheManager
<1>1. Follows(x, id)
  BY CopyFollows
<1>2. PICK s, t : s = copy[x].fields[id] /\ t = manager.fields[id]
  OBVIOUS
<1>3. s \in Seq(AnyName) /\ t \in Seq(Columns)
  BY <1>1, <1>2, FieldsTypes DEF Follows
<1>4. Len(s) \in Nat /\ DOMAIN s = 1 .. Len(s) /\ Len(t) \in Nat /\ DOMAIN t = 1 .. Len(t)
  BY <1>3, LenProperties
<1>5. Len(s) <= Len(t) /\ \A k \in 1 .. Len(s) : s[k] = t[k]
  BY <1>1, <1>2, <1>4 DEF Follows
<1>6. SubSeq(s, 1, Len(s)) = SubSeq(t, 1, Len(s))
  BY <1>3, <1>4, <1>5
<1>7. IsPrefix(s, t)
  BY <1>5, <1>6 DEF IsPrefix
<1>8. QED
  BY <1>1, <1>2, <1>7 DEF Follows

\* The operation is as far as it was.
AsFar(op) ==
  /\ op \in DOMAIN operations /\ op \in DOMAIN operations'
  /\ operations'[op].cmd = operations[op].cmd
  /\ Accepted(op)' <=> Accepted(op)
  /\ \A x \in Actors : Lags(x, op)' <=> Lags(x, op)

\* Nothing has been done: operations have come that are not accepted, or gone that are done.
NothingDone ==
  /\ UNCHANGED <<manager, copy, up>>
  /\ \A op \in DOMAIN operations' : Accepted(op)' => AsFar(op)
  /\ \A op \in DOMAIN operations : \A x \in Actors : Lags(x, op) => AsFar(op)
  /\ answers \subseteq answers'

LEMMA DoneKept ==
  ASSUME Shape, Shape', NEW own, NEW job, Operational(job), Done(own, job), NothingDone,
         AnswersInv(own)'
  PROVE  Done(own, job)'
<1>1. UNCHANGED <<manager, copy, up>> /\ answers \subseteq answers'
  BY DEF NothingDone
<1>2. ASSUME NEW op \in DOMAIN operations' PROVE DoneOp(op, own, job)'
  <2>1. SUFFICES ASSUME Accepted(op)'
                 PROVE  /\ JobDone(op, own, job)'
                        /\ \A x \in Actors : /\ Lags(x, op)' => NotYet(x, op, job)'
                                             /\ ~Lags(x, op)' => Already(x, op, job)'
    BY DEF DoneOp
  <2>2. AsFar(op)
    BY <2>1 DEF NothingDone
  <2>3. DoneOp(op, own, job) /\ Accepted(op) /\ operations'[op].cmd = operations[op].cmd
    BY <2>1, <2>2 DEF AsFar, Done
  <2>4. TablesOf(op[1]) \subseteq TablesOf(op[1])'
    BY <1>1 DEF TablesOf
  <2>5. JobDone(op, own, job)'
    <3>1. JobDone(op, own, job)
      BY <2>3 DEF DoneOp
    <3>2. QED
      BY <3>1, <2>3, <2>4, <1>1 DEF JobDone
  <2>6. ASSUME NEW x \in Actors
        PROVE  /\ Lags(x, op)' => NotYet(x, op, job)'
               /\ ~Lags(x, op)' => Already(x, op, job)'
    <3>1. /\ Lags(x, op) => NotYet(x, op, job)
          /\ ~Lags(x, op) => Already(x, op, job)
      BY <2>3 DEF DoneOp
    <3>2. (Lags(x, op)' <=> Lags(x, op))
      BY <2>2 DEF AsFar
    <3>3. NotYet(x, op, job) => NotYet(x, op, job)'
      BY <2>3, <1>1 DEF NotYet
    <3>4. Already(x, op, job) => Already(x, op, job)'
      BY <2>3, <1>1 DEF Already
    <3>5. QED
      BY <3>1, <3>2, <3>3, <3>4
  <2>7. QED
    BY <2>5, <2>6
<1>3. CopyInv(job)'
  <2> SUFFICES ASSUME NEW x \in Actors, NEW id \in DOMAIN copy[x].fields,
                      copy[x].fields[id] # manager.fields[id]
               PROVE  /\ id \in DOMAIN manager.fields
                      /\ \E op \in DOMAIN operations' : Adding(x, op, id, job)'
    BY <1>1 DEF CopyInv, Done
  <2>1. id \in DOMAIN manager.fields /\ \E op \in DOMAIN operations : Adding(x, op, id, job)
    BY DEF Done, CopyInv
  <2>2. PICK op \in DOMAIN operations : Adding(x, op, id, job)
    BY <2>1
  <2>3. AsFar(op)
    BY <2>2 DEF NothingDone, Adding
  <2>4. Adding(x, op, id, job)'
    BY <2>2, <2>3 DEF AsFar, Adding
  <2>5. QED
    BY <2>1, <2>3, <2>4 DEF AsFar
<1>4. SchemaInv'
  <2>1. ASSUME NEW op \in DOMAIN operations', NEW op2 \in DOMAIN operations',
               operations'[op].cmd = "createschema", Accepted(op)',
               operations'[op2].cmd = "createschema", Accepted(op2)'
        PROVE  op = op2
    <3>1. AsFar(op) /\ AsFar(op2)
      BY <2>1 DEF NothingDone
    <3>2. QED
      BY <2>1, <3>1 DEF AsFar, Done, SchemaInv
  <2>2. QED
    BY <2>1, <1>1 DEF Done, SchemaInv
<1>5. QED
  BY <1>2, <1>3, <1>4 DEF Done

\* Nobody is told anything.
LEMMA AnswersKept ==
  ASSUME NEW own, AnswersInv(own), UNCHANGED <<manager, copy, up, answers>>
  PROVE  AnswersInv(own)'
  BY DEF AnswersInv, AnswersAreTrue, AnswersHoldEverywhere, OnlyTheManagerRefuses

LEMMA StaysAsFar ==
  ASSUME NEW op \in DOMAIN operations, op \in DOMAIN operations', Stays(op),
         operations'[op].cmd = operations[op].cmd, operations'[op].state = operations[op].state
  PROVE  AsFar(op)
  BY DEF AsFar, Stays, Accepted, Lags

LEMMA FrameAsFar ==
  ASSUME NEW u, NEW job, NEW job2, Frame(u, job, job2), NEW op \in DOMAIN operations, op # u
  PROVE  AsFar(op)
<1>1. SameOp(op, job, job2) /\ Stays(op)
  BY DEF Frame, Stays
<1>2. QED
  BY <1>1, StaysAsFar DEF SameOp

LEMMA DoneQuiet ==
  ASSUME Shape, Shape', NEW own, NEW job, Operational(job), Done(own, job),
         UNCHANGED <<manager, copy, up, answers, operations>>, \A op \in DOMAIN operations : Stays(op)
  PROVE  Done(own, job)'
<1>1. \A op \in DOMAIN operations : AsFar(op)
  BY StaysAsFar
<1>2. NothingDone
  BY <1>1 DEF NothingDone
<1>3. AnswersInv(own)'
  BY AnswersKept DEF Done
<1>4. QED
  BY <1>2, <1>3, DoneKept

LEMMA DoneStart ==
  ASSUME Shape, Shape', NEW own, NEW job, Operational(job), Done(own, job), NEW c \in Clients,
         NEW cmd, NEW table, NEW column, NEW u, StartStep(c, cmd, table, column, u)
  PROVE  Done(own, job)'
<1>1. Frame(u, job, job)
  BY StartSame, FrameStep
<1>2. ~Accepted(u)' /\ u \notin DOMAIN operations /\ UNCHANGED <<manager, copy, up, answers>>
  BY StartOps DEF StartStep
<1>3. \A op \in DOMAIN operations : AsFar(op)
  BY <1>1, <1>2, FrameAsFar
<1>4. \A op \in DOMAIN operations' : op \in DOMAIN operations \/ op = u
  <2>1. PICK o : o = [cmd |-> cmd, state |-> "usm", msgwaits |-> 0]
    OBVIOUS
  <2>2. operations' = With(operations, u, o)
    BY <2>1 DEF StartStep
  <2>3. Extended(operations', operations, u, o)
    BY <2>2, WithDom
  <2>4. QED
    BY <2>3 DEF Extended
<1>5. NothingDone
  BY <1>2, <1>3, <1>4 DEF NothingDone
<1>6. AnswersInv(own)'
  BY <1>2, AnswersKept DEF Done
<1>7. QED
  BY <1>5, <1>6, DoneKept

LEMMA DoneCount ==
  ASSUME Shape, Shape', NEW own, NEW job, Operational(job), Done(own, job),
         NEW a \in Agents, NEW m, NEW u, CountStep(a, m, u)
  PROVE  Done(own, job)'
<1>1. Frame(u, job, job)
  BY CountSame, FrameStep
<1>2. ~Granted(u) /\ ~Granted(u)' /\ \A x \in Actors : Due(x, u)' <=> Due(x, u)
  BY CountOps
<1>3. /\ UNCHANGED <<manager, copy, up, answers>> /\ DOMAIN operations' = DOMAIN operations
      /\ operations'[u].cmd = operations[u].cmd /\ operations'[u].state = operations[u].state
      /\ u \in DOMAIN operations
  BY DEF CountStep, ReplyStep, MovedOn
<1>4. AsFar(u)
  BY <1>2, <1>3, StaysAsFar DEF Stays
<1>5. \A op \in DOMAIN operations : AsFar(op)
  BY <1>1, <1>4, FrameAsFar
<1>6. NothingDone
  BY <1>3, <1>5 DEF NothingDone
<1>7. AnswersInv(own)'
  BY <1>3, AnswersKept DEF Done
<1>8. QED
  BY <1>6, <1>7, DoneKept

LEMMA DonePass ==
  ASSUME Shape, Shape', NEW own, NEW job, Operational(job), Done(own, job),
         NEW a \in Agents, NEW m, NEW u, PassStep(a, m, u), GoodReply(a, 1, m, job)
  PROVE  Done(own, job)'
<1>1. Frame(u, job, job)
  BY PassSame, FrameStep
<1>2. Granted(u) /\ Accepted(u)' /\ ~Granted(u)' /\ \A x \in Actors : Due(x, u)'
  BY PassOps
<1>3. /\ UNCHANGED <<manager, copy, up, answers>> /\ DOMAIN operations' = DOMAIN operations
      /\ operations'[u].cmd = operations[u].cmd /\ u \in DOMAIN operations
  BY DEF PassStep, ReplyStep, MovedOn
<1>4. AsFar(u)
  BY <1>2, <1>3 DEF AsFar, Accepted, Lags
<1>5. \A op \in DOMAIN operations : AsFar(op)
  BY <1>1, <1>4, FrameAsFar
<1>6. NothingDone
  BY <1>3, <1>5 DEF NothingDone
<1>7. AnswersInv(own)'
  BY <1>3, AnswersKept DEF Done
<1>8. QED
  BY <1>6, <1>7, DoneKept

LEMMA DoneManagerRefuses ==
  ASSUME Shape, Shape', NEW own, NEW job \in [Clients -> Job], Operational(job), Done(own, job),
         NEW k, NEW u, Reported(k, u), ~k.ok, manager' = manager
  PROVE  Done(own, NewJob(job, k))'
<1>1. NewJob(job, k) = job
  BY DEF NewJob
<1>2. StepOf(u, {}, {Agent(u)}, k, job, NewJob(job, k))
  BY ManagerSame
<1>3. Frame(u, job, job)
  BY <1>1, <1>2, FrameStep
<1>4. ~Accepted(u) /\ ~Granted(u)' /\ u \in DOMAIN operations /\ operations[u].state = "usm"
  BY ManagerSame, ManagerOps
<1>5. UNCHANGED <<manager, copy, up, answers, operations>>
  BY DEF Reported
<1>6. ~Accepted(u)'
  BY <1>4, <1>5 DEF Accepted
<1>7. \A x \in Actors : ~Lags(x, u)
  BY <1>4, LagsAccepted
<1>8. \A op \in DOMAIN operations : op # u => AsFar(op)
  BY <1>3, FrameAsFar
<1>9. NothingDone
  BY <1>5, <1>6, <1>7, <1>8 DEF NothingDone
<1>10. AnswersInv(own)'
  BY <1>5, AnswersKept DEF Done
<1>11. Done(own, job)'
  BY <1>9, <1>10, DoneKept
<1>12. QED
  BY <1>1, <1>11

LEMMA DoneEnd ==
  ASSUME Shape, Shape', NEW own, NEW job, Operational(job), Done(own, job),
         NEW a \in Agents, NEW m, NEW u, EndStep(a, m, u), ~Granted(u), AnswersInv(own)'
  PROVE  Done(own, job)'
<1>1. Frame(u, job, job) /\ DOMAIN operations' = DOMAIN operations \ {u}
  BY EndSame, FrameStep
<1>2. \A op \in DOMAIN operations : op # u => AsFar(op)
  BY <1>1, FrameAsFar
<1>3. \A x \in Actors : ~Lags(x, u)
  BY DEF EndStep, Lags
<1>4. UNCHANGED <<manager, copy, up>> /\ answers \subseteq answers'
  BY DEF EndStep, ReplyStep
<1>5. NothingDone
  BY <1>1, <1>2, <1>3, <1>4 DEF NothingDone
<1>6. QED
  BY <1>5, DoneKept

\* What makes an answer true.
TrueAnswer(an, own) ==
  /\ ~an.ok => an.state = "usm"
  /\ an.ok /\ an.cmd = "createtable" => own[an.tableid] = an.client
  /\ an.ok => \A x \in Actors :
       /\ an.cmd = "createschema" => copy[x].schema = "made"
       /\ an.cmd \in {"createtable", "addcolumn"} => an.tableid \in DOMAIN copy[x].fields
       /\ an.cmd = "addcolumn" =>
            /\ an.fieldid + 1 \in DOMAIN copy[x].fields[an.tableid]
            /\ copy[x].fields[an.tableid][an.fieldid + 1] = manager.fields[an.tableid][an.fieldid + 1]

LEMMA AnswersTrue ==
  ASSUME NEW own
  PROVE  AnswersInv(own) <=> up /\ \A an \in answers : TrueAnswer(an, own)
  BY DEF AnswersInv, AnswersAreTrue, AnswersHoldEverywhere, OnlyTheManagerRefuses, TrueAnswer

LEMMA AnswersTrueNext ==
  ASSUME NEW own, up', \A an \in answers' : TrueAnswer(an, own)'
  PROVE  AnswersInv(own)'
  BY DEF AnswersInv, AnswersAreTrue, AnswersHoldEverywhere, OnlyTheManagerRefuses, TrueAnswer

LEMMA OneAnswerMore ==
  ASSUME NEW own, AnswersInv(own), UNCHANGED <<manager, copy, up>>,
         NEW an, answers' = answers \cup {an}, TrueAnswer(an, own)
  PROVE  AnswersInv(own)'
<1>1. up' /\ \A b \in answers' : TrueAnswer(b, own)
  BY AnswersTrue
<1>2. \A b \in answers' : TrueAnswer(b, own)'
  BY <1>1 DEF TrueAnswer
<1>3. QED
  BY <1>1, <1>2, AnswersTrueNext

LEMMA DoneRefused ==
  ASSUME Shape, Shape', NEW own, NEW job, Operational(job), Done(own, job),
         NEW a \in Agents, NEW m, NEW u, RefusedStep(a, m, u)
  PROVE  Done(own, job)'
<1>1. /\ EndStep(a, m, u) /\ Replies(u) = {1} /\ Agent(u) = a /\ m = mbox[a][1] /\ ~m.ok
      /\ operations[u].state = "usm"
      /\ UNCHANGED <<manager, copy, up>> /\ answers' = answers \cup {AnswerOf(m, u, FALSE)}
  BY DEF RefusedStep, EndStep, ReplyStep
<1>2. ~Granted(u)
  BY <1>1 DEF Granted
<1>3. TrueAnswer(AnswerOf(m, u, FALSE), own)
  BY <1>1 DEF TrueAnswer, AnswerOf
<1>4. AnswersInv(own)'
  BY <1>1, <1>3, OneAnswerMore DEF Done
<1>5. QED
  BY <1>1, <1>2, <1>4, DoneEnd

\* The operation has been done everywhere when the last reply has come.
LEMMA LastAnswer ==
  ASSUME Shape, NEW own, NEW job, Operational(job), Done(own, job),
         NEW a \in Agents, NEW m, NEW u, LastStep(a, m, u), GoodReply(a, 1, m, job)
  PROVE  TrueAnswer(AnswerOf(m, u, TRUE), own)
<1>1. /\ u \in DOMAIN operations /\ operations[u].state = "tasengines" /\ m.op = u
      /\ \A x \in Actors : ~Due(x, u)
  BY DEF LastStep, EndStep, ReplyStep, IsReply
<1>2. /\ m.tableid = job[u[1]].tableid
      /\ operations[u].cmd = "addcolumn" => m.fieldid = job[u[1]].fieldid
  BY <1>1 DEF GoodReply
<1>3. Accepted(u) /\ \A x \in Actors : ~Lags(x, u)
  BY <1>1 DEF Accepted, Lags, Granted
<1>4. JobDone(u, own, job) /\ \A x \in Actors : Already(x, u, job)
  BY <1>1, <1>3 DEF Done, DoneOp
<1>5. PICK an : an = AnswerOf(m, u, TRUE)
  OBVIOUS
<1>6. /\ an.ok /\ an.cmd = operations[u].cmd /\ an.client = u[1] /\ an.tableid = m.tableid
      /\ an.fieldid = m.fieldid
  BY <1>5 DEF AnswerOf
<1>7. CASE operations[u].cmd = "addcolumn"
  <2>1. PICK id, fid : id = m.tableid /\ fid = m.fieldid
    OBVIOUS
  <2>2. /\ id \in TablesOf(u[1]) /\ id \in DOMAIN manager.fields
        /\ fid + 1 = Len(manager.fields[id])
    BY <1>2, <1>4, <1>7, <2>1 DEF JobDone
  <2>3. own[id] = u[1] /\ \A x \in Actors : id \in DOMAIN copy[x].fields
    BY <2>2 DEF TablesOf, Done, AnswersInv, AnswersAreTrue, AnswersHoldEverywhere
  <2>4. ASSUME NEW x \in Actors PROVE copy[x].fields[id] = manager.fields[id]
    <3>1. \A op \in DOMAIN operations : op[1] = u[1] => ~Adding(x, op, id, job)
      BY <1>1, <1>3 DEF Operational, OneEach, Adding
    <3>2. QED
      BY <2>3, <3>1, CopyEqual
  <2>5. fid + 1 \in DOMAIN manager.fields[id]
    <3>1. PICK t : t = manager.fields[id]
      OBVIOUS
    <3>2. t \in Seq(Columns)
      BY <2>2, <3>1, FieldsTypes
    <3>3. t # <<>> /\ Len(t) \in DOMAIN t
      <4>1. fid + 1 = Len(t) /\ fid \in Nat
        BY <2>1, <2>2, <3>1 DEF LastStep, EndStep, ReplyStep, ReplyMsg
      <4>2. DOMAIN t = 1 .. Len(t)
        BY <3>2, LenProperties
      <4>3. QED
        BY <4>1, <4>2
    <3>4. QED
      BY <2>2, <3>1, <3>3
  <2>6. TrueAnswer(an, own)
    BY <1>6, <1>7, <2>1, <2>3, <2>4, <2>5 DEF TrueAnswer
  <2>7. QED
    BY <1>5, <2>6
<1>8. CASE operations[u].cmd # "addcolumn"
  <2>1. TrueAnswer(an, own)
    BY <1>2, <1>4, <1>6, <1>8 DEF TrueAnswer, JobDone, Already
  <2>2. QED
    BY <1>5, <2>1
<1>9. QED
  BY <1>7, <1>8

LEMMA DoneLast ==
  ASSUME Shape, Shape', NEW own, NEW job, Operational(job), Done(own, job),
         NEW a \in Agents, NEW m, NEW u, LastStep(a, m, u), GoodReply(a, 1, m, job)
  PROVE  Done(own, job)'
<1>1. /\ EndStep(a, m, u) /\ operations[u].state = "tasengines"
      /\ UNCHANGED <<manager, copy, up>> /\ answers' = answers \cup {AnswerOf(m, u, TRUE)}
  BY DEF LastStep, EndStep, ReplyStep
<1>2. ~Granted(u)
  BY <1>1 DEF Granted
<1>3. AnswersInv(own)'
  BY <1>1, LastAnswer, OneAnswerMore DEF Done
<1>4. QED
  BY <1>1, <1>2, <1>3, DoneEnd

\* The manager accepts the command of u.
GrantStep(k, u, job, job2) ==
  /\ Frame(u, job, job2) /\ u \in DOMAIN operations /\ u \in OpId /\ ~Accepted(u) /\ Granted(u)'
  /\ job2[u[1]].tableid = k.tableid /\ job2[u[1]].fieldid = k.fieldid /\ job2[u[1]].name = k.name
  /\ UNCHANGED <<operations, copy, answers, up>>

LEMMA GrantIs ==
  ASSUME Shape, Shape', NEW job \in [Clients -> Job], Operational(job), NEW k, NEW u,
         Reported(k, u), k.ok
  PROVE  GrantStep(k, u, job, NewJob(job, k))
<1>1. StepOf(u, {}, {Agent(u)}, k, job, NewJob(job, k)) /\ u \in DOMAIN operations
  BY ManagerSame
<1>2. Frame(u, job, NewJob(job, k))
  BY <1>1, FrameStep
<1>3. u \in OpId /\ u[1] \in Clients /\ k.op = u
  BY <1>1, OpsInOpId, AgentIn DEF Reported
<1>4. ~Accepted(u) /\ Granted(u)'
  BY ManagerOps
<1>5. PICK c : c = u[1]
  OBVIOUS
<1>6. NewJob(job, k)[c] = [tableid |-> k.tableid, fieldid |-> k.fieldid, name |-> k.name]
  BY <1>3, <1>5 DEF NewJob
<1>7. UNCHANGED <<operations, copy, answers, up>>
  BY DEF Reported
<1>8. QED
  BY <1>1, <1>2, <1>3, <1>4, <1>5, <1>6, <1>7 DEF GrantStep

\* What the manager has done for the others is still so.
GrantsKeep(u, own2, job, job2) ==
  \A op \in DOMAIN operations : op # u /\ Accepted(op) =>
    /\ JobDone(op, own2, job2)'
    /\ \A x \in Actors : NotYet(x, op, job) => NotYet(x, op, job2)'

LEMMA DoneGrant ==
  ASSUME Shape, Shape', NEW own, NEW job, Operational(job), Done(own, job),
         NEW k, NEW u, NEW job2, GrantStep(k, u, job, job2), NEW own2,
         GrantsKeep(u, own2, job, job2),
         JobDone(u, own2, job2)', \A x \in Actors : NotYet(x, u, job2)',
         CopyInv(job2)', SchemaInv', AnswersInv(own2)'
  PROVE  Done(own2, job2)'
<1>1. UNCHANGED <<operations, copy, answers, up>> /\ Granted(u)'
  BY DEF GrantStep
<1>2. ASSUME NEW op \in DOMAIN operations, op # u, Accepted(op)'
      PROVE  DoneOp(op, own2, job2)'
  <2>1. AsFar(op) /\ job2[op[1]] = job[op[1]]
    BY <1>2, FrameAsFar DEF GrantStep, Frame, SameOp
  <2>2. Accepted(op) /\ DoneOp(op, own, job) /\ \A x \in Actors : Lags(x, op)' <=> Lags(x, op)
    BY <1>2, <2>1 DEF AsFar, Done
  <2>3. JobDone(op, own2, job2)' /\ \A x \in Actors : NotYet(x, op, job) => NotYet(x, op, job2)'
    BY <1>2, <2>2 DEF GrantsKeep
  <2>4. ASSUME NEW x \in Actors
        PROVE  /\ Lags(x, op)' => NotYet(x, op, job2)'
               /\ ~Lags(x, op)' => Already(x, op, job2)'
    <3>1. /\ Lags(x, op) => NotYet(x, op, job)
          /\ ~Lags(x, op) => Already(x, op, job)
      BY <2>2 DEF DoneOp
    <3>2. Already(x, op, job) => Already(x, op, job2)'
      BY <1>1, <2>1 DEF Already
    <3>3. QED
      BY <3>1, <3>2, <2>2, <2>3
  <2>5. QED
    BY <2>3, <2>4 DEF DoneOp
<1>3. DoneOp(u, own2, job2)'
  BY <1>1 DEF DoneOp, Lags
<1>4. \A op \in DOMAIN operations' : DoneOp(op, own2, job2)'
  <2> SUFFICES ASSUME NEW op \in DOMAIN operations' PROVE DoneOp(op, own2, job2)'
    OBVIOUS
  <2>1. CASE op # u /\ Accepted(op)'
    BY <2>1, <1>1, <1>2
  <2>2. CASE op # u /\ ~Accepted(op)'
    BY <2>2 DEF DoneOp
  <2>3. QED
    BY <2>1, <2>2, <1>3
<1>5. QED
  BY <1>4 DEF Done

\* A column being added by another is still being added.
LEMMA GrantAdding ==
  ASSUME NEW k, NEW u, NEW job, NEW job2, GrantStep(k, u, job, job2),
         NEW op \in DOMAIN operations, op # u, NEW x \in Actors, NEW id
  PROVE  Adding(x, op, id, job2)' <=> Adding(x, op, id, job)
<1>1. AsFar(op) /\ job2[op[1]] = job[op[1]]
  BY FrameAsFar DEF GrantStep, Frame, SameOp
<1>2. QED
  BY <1>1 DEF AsFar, Adding

\* The copies differ from the manager's tables where they did.
LEMMA GrantCopies ==
  ASSUME Shape, Shape', NEW own, NEW job, Operational(job), Done(own, job),
         NEW k, NEW u, NEW job2, GrantStep(k, u, job, job2),
         \A id \in DOMAIN manager.fields : /\ id \in DOMAIN manager'.fields
                                           /\ manager'.fields[id] = manager.fields[id]
  PROVE  CopyInv(job2)'
<1>1. copy' = copy /\ DOMAIN operations' = DOMAIN operations /\ ~Accepted(u)
      /\ u \in DOMAIN operations
  BY DEF GrantStep
<1> SUFFICES ASSUME NEW x \in Actors, NEW id \in DOMAIN copy[x].fields
             PROVE  /\ id \in DOMAIN manager'.fields
                    /\ \/ copy[x].fields[id] = manager'.fields[id]
                       \/ \E op \in DOMAIN operations : Adding(x, op, id, job2)'
  BY <1>1 DEF CopyInv
<1>2. /\ id \in DOMAIN manager.fields
      /\ \/ copy[x].fields[id] = manager.fields[id]
         \/ \E op \in DOMAIN operations : Adding(x, op, id, job)
  BY DEF Done, CopyInv
<1>3. ASSUME NEW op \in DOMAIN operations, Adding(x, op, id, job)
      PROVE  Adding(x, op, id, job2)'
  <2>1. op # u
    BY <1>1, <1>3, LagsAccepted DEF Adding
  <2>2. QED
    BY <1>3, <2>1, GrantAdding
<1>4. QED
  BY <1>2, <1>3

\* The tables and columns the manager has stay where they are.
TablesStay ==
  /\ manager.schema => manager'.schema
  /\ \A id \in DOMAIN manager.tables : id \in DOMAIN manager'.tables
                                       /\ manager'.tables[id] = manager.tables[id]
  /\ \A id \in DOMAIN manager.fields : id \in DOMAIN manager'.fields
                                       /\ manager'.fields[id] = manager.fields[id]

LEMMA StayKeep ==
  ASSUME Shape, Shape', NEW own, NEW job, Operational(job), Done(own, job),
         NEW k, NEW u, NEW job2, GrantStep(k, u, job, job2), TablesStay,
         NEW own2, \A id \in DOMAIN manager.tables : own2[id] = own[id]
  PROVE  GrantsKeep(u, own2, job, job2)
<1> SUFFICES ASSUME NEW op \in DOMAIN operations, op # u, Accepted(op)
             PROVE  /\ JobDone(op, own2, job2)'
                    /\ \A x \in Actors : NotYet(x, op, job) => NotYet(x, op, job2)'
  BY DEF GrantsKeep
<1>1. job2[op[1]] = job[op[1]] /\ UNCHANGED <<operations, copy, answers>>
  BY DEF GrantStep, Frame, SameOp
<1>2. JobDone(op, own, job)
  BY DEF Done, DoneOp
<1>3. PICK id : id = job[op[1]].tableid
  OBVIOUS
<1>4. /\ operations[op].cmd = "createschema" => manager.schema
      /\ operations[op].cmd = "createtable" =>
           /\ id \in DOMAIN manager.tables /\ own[id] = op[1]
           /\ manager.tables[id] = job[op[1]].name /\ manager.fields[id] = <<>>
      /\ operations[op].cmd = "addcolumn" =>
           /\ id \in TablesOf(op[1]) /\ id \in DOMAIN manager.fields
           /\ job[op[1]].fieldid + 1 = Len(manager.fields[id])
           /\ manager.fields[id][job[op[1]].fieldid + 1] = job[op[1]].name
  BY <1>2, <1>3 DEF JobDone
<1>5. DOMAIN manager.fields = DOMAIN manager.tables
  BY FieldsTypes
<1>6. TablesOf(op[1])' = TablesOf(op[1])
  BY <1>1 DEF TablesOf
<1>7. JobDone(op, own2, job2)'
  BY <1>1, <1>3, <1>4, <1>5, <1>6 DEF JobDone, TablesStay
<1>8. ASSUME NEW x \in Actors, NotYet(x, op, job) PROVE NotYet(x, op, job2)'
  <2>1. /\ operations[op].cmd = "createschema" => copy[x].schema = "none"
        /\ operations[op].cmd = "createtable" => id \notin DOMAIN copy[x].fields
        /\ operations[op].cmd = "addcolumn" =>
             /\ id \in DOMAIN copy[x].fields
             /\ manager.fields[id] = Append(copy[x].fields[id], job[op[1]].name)
    BY <1>3, <1>8 DEF NotYet
  <2>2. QED
    BY <2>1, <1>1, <1>3, <1>4 DEF NotYet, TablesStay
<1>9. QED
  BY <1>7, <1>8

LEMMA StayAnswers ==
  ASSUME Shape, NEW own, NEW job, Operational(job), Done(own, job),
         NEW k, NEW u, NEW job2, GrantStep(k, u, job, job2), TablesStay,
         NEW own2, \A id \in DOMAIN manager.tables : own2[id] = own[id]
  PROVE  AnswersInv(own2)'
<1>1. UNCHANGED <<copy, answers, up>>
  BY DEF GrantStep
<1>2. up' /\ \A an \in answers' : TrueAnswer(an, own)
  BY <1>1, AnswersTrue DEF Done
<1>3. ASSUME NEW an \in answers' PROVE TrueAnswer(an, own2)'
  <2>1. TrueAnswer(an, own)
    BY <1>2
  <2>2. PICK id : id = an.tableid
    OBVIOUS
  <2>3. an.ok /\ an.cmd \in {"createtable", "addcolumn"} => id \in DOMAIN manager.tables
    <3>1. Loader \in Actors
      BY SchemataAssumption DEF Actors
    <3>2. an.ok /\ an.cmd \in {"createtable", "addcolumn"} => id \in DOMAIN copy[Loader].fields
      BY <2>1, <2>2, <3>1 DEF TrueAnswer
    <3>3. QED
      BY <3>1, <3>2, FieldsTypes DEF Done, CopyInv
  <2>4. id \in DOMAIN manager.tables => manager'.fields[id] = manager.fields[id] /\ own2[id] = own[id]
    BY FieldsTypes DEF TablesStay
  <2>5. QED
    BY <2>1, <2>2, <2>3, <2>4, <1>1 DEF TrueAnswer
<1>4. QED
  BY <1>1, <1>2, <1>3, AnswersTrueNext

LEMMA DoneGrantSchema ==
  ASSUME Shape, Shape', NEW own, NEW job, Operational(job), Done(own, job),
         NEW k, NEW u, NEW job2, GrantStep(k, u, job, job2), operations[u].cmd = "createschema",
         ~manager.schema, manager' = [manager EXCEPT !.schema = TRUE]
  PROVE  Done(own, job2)'
<1>1. manager'.schema /\ manager'.tables = manager.tables /\ manager'.fields = manager.fields
  BY DEF Shape
<1>2. TablesStay
  BY <1>1 DEF TablesStay
<1>3. UNCHANGED <<operations, copy, answers, up>> /\ u \in DOMAIN operations
  BY DEF GrantStep
<1>4. JobDone(u, own, job2)'
  BY <1>1, <1>3 DEF JobDone
<1>5. \A x \in Actors : NotYet(x, u, job2)'
  BY <1>3 DEF NotYet, Done, SchemaInv
<1>6. GrantsKeep(u, own, job, job2) /\ AnswersInv(own)'
  BY <1>2, StayKeep, StayAnswers
<1>7. CopyInv(job2)'
  BY <1>1, GrantCopies
<1>8. SchemaInv'
  <2>1. ASSUME NEW op \in DOMAIN operations, operations[op].cmd = "createschema", Accepted(op)'
        PROVE  op = u
    <3>1. ~Accepted(op)
      BY <2>1 DEF Done, DoneOp, JobDone
    <3>2. op # u => AsFar(op)
      BY FrameAsFar DEF GrantStep
    <3>3. QED
      BY <2>1, <3>1, <3>2 DEF AsFar
  <2>2. QED
    BY <2>1, <1>1, <1>3 DEF Done, SchemaInv
<1>9. QED
  BY <1>4, <1>5, <1>6, <1>7, <1>8, DoneGrant

\* Accepted operations that make the schema are one as long as no other is accepted.
LEMMA GrantSchemata ==
  ASSUME NEW own, NEW job, Done(own, job), NEW k, NEW u, NEW job2, GrantStep(k, u, job, job2),
         operations[u].cmd # "createschema", manager.schema => manager'.schema,
         \A i, j \in DOMAIN manager'.tables : manager'.tables[i] = manager'.tables[j] => i = j
  PROVE  SchemaInv'
<1>1. UNCHANGED <<operations, copy, answers, up>>
  BY DEF GrantStep
<1>2. ASSUME NEW op \in DOMAIN operations, operations[op].cmd = "createschema", Accepted(op)'
      PROVE  Accepted(op)
  BY <1>2, FrameAsFar DEF GrantStep, AsFar
<1>3. QED
  BY <1>1, <1>2 DEF Done, SchemaInv

LEMMA DoneGrantDelete ==
  ASSUME Shape, Shape', NEW own, NEW job, Operational(job), Done(own, job),
         NEW k, NEW u, NEW job2, GrantStep(k, u, job, job2), operations[u].cmd = "deletetable",
         manager' = manager
  PROVE  Done(own, job2)'
<1>1. TablesStay
  BY DEF TablesStay
<1>2. UNCHANGED <<operations, copy, answers, up>>
  BY DEF GrantStep
<1>3. JobDone(u, own, job2)' /\ \A x \in Actors : NotYet(x, u, job2)'
  BY <1>2 DEF JobDone, NotYet
<1>4. GrantsKeep(u, own, job, job2) /\ AnswersInv(own)'
  BY <1>1, StayKeep, StayAnswers
<1>5. CopyInv(job2)'
  BY GrantCopies
<1>6. SchemaInv'
  BY GrantSchemata DEF Done, SchemaInv
<1>7. QED
  BY <1>3, <1>4, <1>5, <1>6, DoneGrant

OwnerToo(own, c) ==
  [id \in DOMAIN own \cup {Len(manager.tables) + 1} |-> IF id = Len(manager.tables) + 1 THEN c ELSE own[id]]

\* The manager has one table more.
TableMore(t) ==
  /\ DOMAIN manager.tables = 1 .. Len(manager.tables)
  /\ DOMAIN manager'.tables = 1 .. Len(manager.tables) + 1
  /\ manager'.tables[Len(manager.tables) + 1] = t
  /\ Len(manager.tables) + 1 \in DOMAIN manager'.fields
  /\ manager'.fields[Len(manager.tables) + 1] = <<>>
  /\ Len(manager.tables) + 1 \notin DOMAIN manager.fields
  /\ manager'.schema = manager.schema /\ TablesStay

LEMMA TableMoreIs ==
  ASSUME Shape, Shape', NEW t,
         manager' = [manager EXCEPT !.tables = Append(@, t), !.fields = Append(@, <<>>)]
  PROVE  TableMore(t)
<1>1. /\ manager \in ManagerType /\ Len(manager.fields) = Len(manager.tables)
      /\ manager'.tables \in Seq(TableNames) /\ manager'.fields \in Seq(Seq(Columns))
  BY DEF Shape, ManagerType
<1>2. /\ manager'.tables = Append(manager.tables, t) /\ manager'.fields = Append(manager.fields, <<>>)
      /\ manager'.schema = manager.schema
  BY <1>1 DEF ManagerType
<1>3. PICK s, s2 : s = manager.tables /\ s2 = manager'.tables
  OBVIOUS
<1>4. PICK f, f2 : f = manager.fields /\ f2 = manager'.fields
  OBVIOUS
<1> DEFINE C == Seq(Columns)
<1>5. s \in Seq(TableNames) /\ s2 \in Seq(TableNames) /\ f \in Seq(C) /\ f2 \in Seq(C)
  BY <1>1, <1>3, <1>4 DEF ManagerType
<1>6. s2 = Append(s, t) /\ f2 = Append(f, <<>>) /\ Len(f) = Len(s)
  BY <1>1, <1>2, <1>3, <1>4
<1> HIDE DEF C
<1>7. /\ Len(s) \in Nat /\ Len(s2) = Len(s) + 1 /\ s2[Len(s) + 1] = t
      /\ \A k \in 1 .. Len(s) : s2[k] = s[k]
  BY <1>5, <1>6, AppendSeq
<1>8. /\ Len(f2) = Len(s) + 1 /\ f2[Len(s) + 1] = <<>>
      /\ \A k \in 1 .. Len(s) : f2[k] = f[k]
  BY <1>5, <1>6, AppendSeq
<1>9. DOMAIN s = 1 .. Len(s) /\ DOMAIN s2 = 1 .. Len(s2) /\ DOMAIN f = 1 .. Len(s) /\ DOMAIN f2 = 1 .. Len(f2)
  BY <1>5, <1>6, LenProperties
<1>10. TablesStay
  BY <1>2, <1>3, <1>4, <1>7, <1>8, <1>9 DEF TablesStay
<1>11. QED
  BY <1>2, <1>3, <1>4, <1>7, <1>8, <1>9, <1>10 DEF TableMore

LEMMA DoneGrantTable ==
  ASSUME Shape, Shape', NEW own, NEW job, Operational(job), Done(own, job),
         NEW k, NEW u, NEW job2, GrantStep(k, u, job, job2), operations[u].cmd = "createtable",
         NEW t, TableMore(t), manager.schema, ~Contains(manager.tables, t),
         k.tableid = Len(manager.tables) + 1, k.name = t,
         own \in [DOMAIN manager.tables -> Clients], NEW c \in Clients, c = u[1],
         NEW own2, own2 = OwnerToo(own, c)
  PROVE  own2 \in [DOMAIN manager'.tables -> Clients] /\ Done(own2, job2)'
<1>1. DOMAIN own = DOMAIN manager.tables
  OBVIOUS
<1>2. PICK n : n = Len(manager.tables) + 1
  OBVIOUS
<1>3. /\ DOMAIN manager.tables = 1 .. Len(manager.tables) /\ n \notin DOMAIN manager.tables
      /\ DOMAIN manager'.tables = DOMAIN manager.tables \cup {n} /\ n \in Nat
  <2>1. Len(manager.tables) \in Nat
    BY FieldsTypes
  <2>2. QED
    BY <2>1, <1>2 DEF TableMore
<1>4. /\ own2 \in [DOMAIN manager'.tables -> Clients] /\ own2[n] = c
      /\ \A id \in DOMAIN manager.tables : own2[id] = own[id]
  BY <1>1, <1>2, <1>3 DEF OwnerToo
<1>5. /\ UNCHANGED <<operations, copy, answers, up>> /\ job2[u[1]].tableid = n /\ job2[u[1]].name = t
  BY <1>2 DEF GrantStep
<1>6. JobDone(u, own2, job2)'
  BY <1>2, <1>3, <1>4, <1>5 DEF JobDone, TableMore
<1>7. ASSUME NEW x \in Actors PROVE NotYet(x, u, job2)'
  <2>1. n \notin DOMAIN copy[x].fields
    BY <1>2 DEF Done, CopyInv, TableMore
  <2>2. QED
    BY <2>1, <1>5 DEF NotYet
<1>8. TablesStay
  BY DEF TableMore
<1>9. GrantsKeep(u, own2, job, job2) /\ AnswersInv(own2)'
  BY <1>4, <1>8, StayKeep, StayAnswers
<1>10. CopyInv(job2)'
  BY <1>8, GrantCopies DEF TablesStay
<1>11. SchemaInv'
  <2>1. \A i \in DOMAIN manager.tables : manager.tables[i] # t
    BY DEF Contains
  <2>2. \A i, j \in DOMAIN manager.tables : manager.tables[i] = manager.tables[j] => i = j
    BY DEF Done, SchemaInv
  <2>3. /\ \A i \in DOMAIN manager.tables : manager'.tables[i] = manager.tables[i]
        /\ manager'.tables[n] = t
    BY <1>2 DEF TableMore, TablesStay
  <2>4. \A i, j \in DOMAIN manager'.tables : manager'.tables[i] = manager'.tables[j] => i = j
    BY <1>3, <2>1, <2>2, <2>3
  <2>5. QED
    BY <2>4, <1>8, GrantSchemata DEF TablesStay
<1>12. Done(own2, job2)'
  BY <1>6, <1>7, <1>9, <1>10, <1>11, DoneGrant
<1>13. QED
  BY <1>4, <1>12

\* The manager has one column more.
ColumnMore(id, n) ==
  /\ manager'.tables = manager.tables /\ manager'.schema = manager.schema
  /\ DOMAIN manager'.fields = DOMAIN manager.fields
  /\ id \in DOMAIN manager.fields /\ manager'.fields[id] = Append(manager.fields[id], n)
  /\ \A i \in DOMAIN manager.fields : i # id => manager'.fields[i] = manager.fields[i]

LEMMA ColumnMoreIs ==
  ASSUME Shape, NEW id \in DOMAIN manager.fields, NEW n,
         manager' = [manager EXCEPT !.fields[id] = Append(@, n)]
  PROVE  ColumnMore(id, n)
<1>1. manager \in ManagerType
  BY DEF Shape, ManagerType
<1>2. PICK f : f = manager.fields
  OBVIOUS
<1>3. PICK y : y = Append(f[id], n)
  OBVIOUS
<1>4. manager' = [manager EXCEPT !.fields = [f EXCEPT ![id] = y]]
  BY <1>2, <1>3
<1>5. /\ manager'.tables = manager.tables /\ manager'.schema = manager.schema
      /\ manager'.fields = [f EXCEPT ![id] = y]
  BY <1>1, <1>4 DEF ManagerType
<1>6. QED
  BY <1>2, <1>3, <1>5 DEF ColumnMore

\* The columns of a table stay where they are, and the new one is the last.
LEMMA ColumnStays ==
  ASSUME Shape, NEW id, NEW n, ColumnMore(id, n)
  PROVE  /\ manager'.fields[id][Len(manager.fields[id]) + 1] = n
         /\ Len(manager'.fields[id]) = Len(manager.fields[id]) + 1
         /\ \A i \in DOMAIN manager.fields : \A k \in DOMAIN manager.fields[i] :
              manager'.fields[i][k] = manager.fields[i][k]
         /\ \A i \in DOMAIN manager.fields : DOMAIN manager.fields[i] \subseteq DOMAIN manager'.fields[i]
<1>1. PICK s, t : s = manager.fields[id] /\ t = manager'.fields[id]
  OBVIOUS
<1>2. s \in Seq(Columns) /\ t = Append(s, n)
  BY <1>1, FieldsTypes DEF ColumnMore
<1>3. Len(t) = Len(s) + 1 /\ t[Len(s) + 1] = n /\ Len(s) \in Nat /\ \A k \in 1 .. Len(s) : t[k] = s[k]
  BY <1>2, AppendSeq
<1>4. DOMAIN s = 1 .. Len(s) /\ DOMAIN t = 1 .. Len(t)
  <2>1. t \in Seq(Columns \cup {n})
    <3>1. s \in Seq(Columns \cup {n})
      BY <1>2, SeqMonotonic
    <3>2. QED
      BY <1>2, <3>1
  <2>2. QED
    BY <1>2, <2>1, LenProperties
<1>5. \A k \in DOMAIN s : t[k] = s[k] /\ k \in DOMAIN t
  BY <1>3, <1>4
<1>6. QED
  BY <1>1, <1>3, <1>5 DEF ColumnMore

LEMMA DoneGrantColumn ==
  ASSUME Shape, Shape', NEW own, NEW job, Operational(job), Done(own, job),
         NEW k, NEW u, NEW job2, GrantStep(k, u, job, job2), operations[u].cmd = "addcolumn",
         NEW id, NEW n, ColumnMore(id, n), id \in TablesOf(u[1]), manager.schema,
         k.tableid = id, k.fieldid = Len(manager.fields[id]), k.name = n
  PROVE  Done(own, job2)'
<1>1. /\ UNCHANGED <<operations, copy, answers, up>> /\ job2[u[1]].tableid = id /\ job2[u[1]].name = n
      /\ job2[u[1]].fieldid = Len(manager.fields[id]) /\ u \in DOMAIN operations /\ ~Accepted(u)
      /\ Granted(u)'
  BY DEF GrantStep
<1>2. own[id] = u[1] /\ \A x \in Actors : id \in DOMAIN copy[x].fields
  BY DEF TablesOf, Done, AnswersInv, AnswersAreTrue, AnswersHoldEverywhere
<1>3. \A x \in Actors : \A op \in DOMAIN operations : op[1] = u[1] => ~Adding(x, op, id, job)
  BY <1>1, LagsAccepted DEF Adding, Operational, OneEach
<1>4. \A x \in Actors : copy[x].fields[id] = manager.fields[id]
  BY <1>2, <1>3, CopyEqual
<1>5. TablesOf(u[1])' = TablesOf(u[1])
  BY <1>1 DEF TablesOf
<1>6. JobDone(u, own, job2)'
  BY <1>1, <1>5, ColumnStays DEF JobDone, ColumnMore
<1>7. \A x \in Actors : NotYet(x, u, job2)'
  BY <1>1, <1>2, <1>4 DEF NotYet, ColumnMore
<1>8. GrantsKeep(u, own, job, job2)
  <2> SUFFICES ASSUME NEW op \in DOMAIN operations, op # u, Accepted(op)
               PROVE  /\ JobDone(op, own, job2)'
                      /\ \A x \in Actors : NotYet(x, op, job) => NotYet(x, op, job2)'
    BY DEF GrantsKeep
  <2>1. job2[op[1]] = job[op[1]] /\ op[1] # u[1]
    BY <1>1 DEF GrantStep, Frame, SameOp, Operational, OneEach
  <2>2. JobDone(op, own, job)
    BY DEF Done, DoneOp
  <2>3. PICK i : i = job[op[1]].tableid
    OBVIOUS
  <2>4. /\ operations[op].cmd = "createschema" => manager.schema
        /\ operations[op].cmd = "createtable" =>
             /\ i \in DOMAIN manager.tables /\ own[i] = op[1]
             /\ manager.tables[i] = job[op[1]].name /\ manager.fields[i] = <<>>
        /\ operations[op].cmd = "addcolumn" =>
             /\ i \in TablesOf(op[1]) /\ i \in DOMAIN manager.fields
             /\ job[op[1]].fieldid + 1 = Len(manager.fields[i])
             /\ manager.fields[i][job[op[1]].fieldid + 1] = job[op[1]].name
    BY <2>2, <2>3 DEF JobDone
  <2>5. operations[op].cmd = "addcolumn" => own[i] = op[1]
    BY <2>4 DEF TablesOf, Done, AnswersInv
  <2>6. operations[op].cmd \in {"createtable", "addcolumn"} =>
          i \in DOMAIN manager.fields /\ manager'.fields[i] = manager.fields[i]
    BY <2>1, <2>4, <2>5, <1>2, FieldsTypes DEF ColumnMore
  <2>7. TablesOf(op[1])' = TablesOf(op[1])
    BY <1>1 DEF TablesOf
  <2>8. JobDone(op, own, job2)'
    BY <2>1, <2>3, <2>4, <2>6, <2>7, <1>1 DEF JobDone, ColumnMore
  <2>9. ASSUME NEW x \in Actors, NotYet(x, op, job) PROVE NotYet(x, op, job2)'
    <3>1. /\ operations[op].cmd = "createschema" => copy[x].schema = "none"
          /\ operations[op].cmd = "createtable" => i \notin DOMAIN copy[x].fields
          /\ operations[op].cmd = "addcolumn" =>
               /\ i \in DOMAIN copy[x].fields
               /\ manager.fields[i] = Append(copy[x].fields[i], job[op[1]].name)
      BY <2>3, <2>9 DEF NotYet
    <3>2. QED
      BY <3>1, <2>1, <2>3, <2>6, <1>1 DEF NotYet
  <2>10. QED
    BY <2>8, <2>9
<1>9. CopyInv(job2)'
  <2> SUFFICES ASSUME NEW x \in Actors, NEW i \in DOMAIN copy[x].fields
               PROVE  /\ i \in DOMAIN manager'.fields
                      /\ \/ copy[x].fields[i] = manager'.fields[i]
                         \/ \E op \in DOMAIN operations : Adding(x, op, i, job2)'
    BY <1>1 DEF CopyInv
  <2>1. /\ i \in DOMAIN manager.fields
        /\ \/ copy[x].fields[i] = manager.fields[i]
           \/ \E op \in DOMAIN operations : Adding(x, op, i, job)
    BY DEF Done, CopyInv
  <2>2. Adding(x, u, id, job2)'
    BY <1>1 DEF Adding, Lags
  <2>3. ASSUME NEW op \in DOMAIN operations, Adding(x, op, i, job)
        PROVE  Adding(x, op, i, job2)'
    <3>1. op # u
      BY <1>1, <2>3, LagsAccepted DEF Adding
    <3>2. QED
      BY <2>3, <3>1, GrantAdding
  <2>4. i # id => manager'.fields[i] = manager.fields[i]
    BY <2>1 DEF ColumnMore
  <2>5. i \in DOMAIN manager'.fields
    BY <2>1 DEF ColumnMore
  <2>6. QED
    BY <2>1, <2>2, <2>3, <2>4, <2>5, <1>1
<1>10. SchemaInv'
  <2>1. \A i, j \in DOMAIN manager'.tables : manager'.tables[i] = manager'.tables[j] => i = j
    BY DEF Done, SchemaInv, ColumnMore
  <2>2. manager.schema => manager'.schema
    BY DEF ColumnMore
  <2>3. QED
    BY <2>1, <2>2, GrantSchemata
<1>11. AnswersInv(own)'
  <2>1. up' /\ \A an \in answers' : TrueAnswer(an, own)
    BY <1>1, AnswersTrue DEF Done
  <2>2. ASSUME NEW an \in answers' PROVE TrueAnswer(an, own)'
    <3>1. TrueAnswer(an, own)
      BY <2>1
    <3>2. PICK i, f : i = an.tableid /\ f = an.fieldid + 1
      OBVIOUS
    <3>3. ASSUME an.ok, an.cmd = "addcolumn", NEW x \in Actors
          PROVE  copy[x].fields[i][f] = manager'.fields[i][f]
      <4>1. /\ i \in DOMAIN copy[x].fields /\ f \in DOMAIN copy[x].fields[i]
            /\ copy[x].fields[i][f] = manager.fields[i][f]
        BY <3>1, <3>2, <3>3 DEF TrueAnswer
      <4>2. i \in DOMAIN manager.fields /\ f \in DOMAIN manager.fields[i]
        BY <4>1, CopyFollows DEF Follows
      <4>3. QED
        BY <4>1, <4>2, ColumnStays
    <3>4. QED
      BY <3>1, <3>2, <3>3, <1>1 DEF TrueAnswer
  <2>3. QED
    BY <2>1, <2>2, AnswersTrueNext
<1>12. QED
  BY <1>6, <1>7, <1>8, <1>9, <1>10, <1>11, DoneGrant
\* The tables have kept their owners.
OwnersStay(own, own2) == \A id \in DOMAIN manager.tables : own2[id] = own[id]

\* After the step the tables have owners with which the operations have done job.
OwnedNext(own, job) ==
  \E own2 \in [DOMAIN manager'.tables -> Clients] : Done(own2, job)' /\ OwnersStay(own, own2)

LEMMA OwnedSame ==
  ASSUME NEW job, NEW own \in [DOMAIN manager.tables -> Clients],
         DOMAIN manager'.tables = DOMAIN manager.tables, Done(own, job)'
  PROVE  OwnedNext(own, job)
  BY DEF OwnedNext, OwnersStay

LEMMA DoneManager ==
  ASSUME Shape, Shape', NEW own \in [DOMAIN manager.tables -> Clients],
         NEW job \in [Clients -> Job], Operational(job), Done(own, job),
         NEW k, NEW u, Reported(k, u), ManagerDid(Head(usmMbox), k)
  PROVE  OwnedNext(own, NewJob(job, k))
<1> DEFINE r == Head(usmMbox)
<1>1. PICK job2 : job2 = NewJob(job, k)
  OBVIOUS
<1>2. /\ u \in DOMAIN operations /\ AtManager(r) /\ r \in UsmRequest /\ r.op = u
      /\ operations[u].cmd = r.cmd
  BY ManagerSame DEF Reported, AtManager
<1>3. CASE ~k.ok /\ manager' = manager
  <2>1. Done(own, NewJob(job, k))'
    BY <1>3, DoneManagerRefuses
  <2>2. QED
    BY <2>1, <1>3, OwnedSame
<1>4. CASE k.ok
  <2>1. GrantStep(k, u, job, job2)
    BY <1>1, <1>4, GrantIs
  <2>2. CASE r.cmd = "createschema" /\ ~manager.schema /\ manager' = [manager EXCEPT !.schema = TRUE]
    <3>1. Done(own, job2)'
      BY <2>1, <2>2, <1>2, DoneGrantSchema
    <3>2. manager'.tables = manager.tables
      BY <2>2 DEF Shape
    <3>3. QED
      BY <1>1, <3>1, <3>2, OwnedSame
  <2>3. CASE /\ r.cmd = "createtable" /\ manager.schema /\ ~Contains(manager.tables, r.table)
             /\ manager' = [manager EXCEPT !.tables = Append(@, r.table), !.fields = Append(@, <<>>)]
             /\ k.tableid = Len(manager.tables) + 1 /\ k.name = r.table
    <3>1. TableMore(r.table)
      BY <2>3, TableMoreIs
    <3>2. PICK c : c = u[1]
      OBVIOUS
    <3>3. PICK own2 : own2 = OwnerToo(own, c)
      OBVIOUS
    <3>4. c \in Clients
      BY <1>2, <3>2, OpsInOpId, AgentIn
    <3>5. own2 \in [DOMAIN manager'.tables -> Clients] /\ Done(own2, job2)'
      BY <2>1, <2>3, <1>2, <3>1, <3>2, <3>3, <3>4, DoneGrantTable
    <3>6. OwnersStay(own, own2)
      <4>1. DOMAIN own = DOMAIN manager.tables /\ DOMAIN manager.tables = 1 .. Len(manager.tables)
            /\ Len(manager.tables) \in Nat
        BY DEF Shape
      <4>2. QED
        BY <3>3, <4>1 DEF OwnersStay, OwnerToo
    <3>7. QED
      BY <1>1, <3>5, <3>6 DEF OwnedNext
  <2>4. CASE /\ r.cmd = "addcolumn" /\ manager.schema /\ r.table \in DOMAIN manager.fields
             /\ manager' = [manager EXCEPT !.fields[r.table] = Append(@, r.column)]
             /\ k.tableid = r.table /\ k.fieldid = Len(manager.fields[r.table]) /\ k.name = r.column
    <3>1. ColumnMore(r.table, r.column)
      BY <2>4, ColumnMoreIs
    <3>2. r.table \in TablesOf(u[1])
      BY <1>2, <2>4 DEF AtManager
    <3>3. Done(own, job2)'
      BY <2>1, <2>4, <1>2, <3>1, <3>2, DoneGrantColumn
    <3>4. manager'.tables = manager.tables
      BY <3>1 DEF ColumnMore
    <3>5. QED
      BY <1>1, <3>3, <3>4, OwnedSame
  <2>5. CASE r.cmd = "deletetable" /\ manager' = manager
    <3>1. Done(own, job2)'
      BY <2>1, <2>5, <1>2, DoneGrantDelete
    <3>2. QED
      BY <1>1, <3>1, <2>5, OwnedSame
  <2>6. QED
    BY <1>4, <2>2, <2>3, <2>4, <2>5 DEF ManagerDid
<1>5. QED
  BY <1>3, <1>4 DEF ManagerDid

-----------------------------------------------------------------------------
(* An agent or an Engine changes its copy.                                 *)

LEMMA ToldMade ==
  ASSUME NEW own, NEW job, Done(own, job), ToldSchema, NEW x \in Actors
  PROVE  copy[x].schema = "made"
  BY DEF Done, AnswersInv, AnswersAreTrue, AnswersHoldEverywhere, ToldSchema

\* The next message of x asks for u.
Asked(x, m, u) ==
  mbox[x] # <<>> /\ 1 \in DOMAIN mbox[x] /\ m = mbox[x][1] /\ m \in RequestMsg /\ m.op = u
  /\ u \in OpId /\ IsRequest(m, u)

\* What x has been asked is done by the manager and not by x.
Asks(x, m, u, own, job) ==
  /\ u \in DOMAIN operations /\ operations[u].cmd = m.cmd /\ Accepted(u) /\ Lags(x, u)
  /\ m.tableid = job[u[1]].tableid /\ m.column = job[u[1]].name
  /\ JobDone(u, own, job) /\ NotYet(x, u, job)
  /\ m.cmd # "createschema" => copy[x].schema = "made"

LEMMA AskedAsks ==
  ASSUME Shape, NEW own, NEW job, Operational(job), Done(own, job), NEW x \in Actors,
         NEW m, NEW u, Asked(x, m, u)
  PROVE  Asks(x, m, u, own, job)
<1>1. GoodRequest(m, job) /\ u \in DOMAIN operations /\ operations[u].state = "tasengines" /\ Due(x, u)
  BY AskedFor DEF Asked
<1>2. Accepted(u) /\ Lags(x, u) /\ m.op = u
  BY <1>1 DEF Accepted, Lags, Asked
<1>3. JobDone(u, own, job) /\ NotYet(x, u, job)
  BY <1>1, <1>2 DEF Done, DoneOp
<1>4. m.cmd = operations[u].cmd /\ m.tableid = job[u[1]].tableid /\ m.column = job[u[1]].name
  BY <1>1, <1>2 DEF GoodRequest
<1>5. m.cmd # "createschema" => ToldSchema
  BY <1>1, <1>4 DEF Operational, OneEach
<1>6. QED
  BY <1>1, <1>2, <1>3, <1>4, <1>5, ToldMade DEF Asks

\* x has made the change it has been asked for.
ChangeAt(x, m) ==
  LET f == copy[x].fields
      g == copy'[x].fields
      id == m.tableid
  IN
  /\ \A z \in Actors : z # x => copy'[z] = copy[z]
  /\ copy'[x].schema = IF m.cmd = "createschema" THEN "made" ELSE copy[x].schema
  /\ m.cmd = "createtable" => Extended(g, f, id, <<>>)
  /\ m.cmd = "addcolumn" => /\ DOMAIN g = DOMAIN f /\ g[id] = Append(f[id], m.column)
                            /\ \A i \in DOMAIN f : i # id => g[i] = f[i]
  /\ m.cmd \in {"createschema", "deletetable"} => g = f

RequestStep(x, m, u, k, job) ==
  /\ AckStep(x, m, k, u) /\ Asked(x, m, u) /\ k.ok /\ up' = up
  /\ m.cmd = "addcolumn" => k.fieldid = job[u[1]].fieldid
  /\ ChangeAt(x, m)

RequestLeaves ==
  UNCHANGED <<manager, names, statements, operations, usmMbox, sending, waiting, issued, answers>>

Agrees(x, m, fid) == Acknowledge(x, m, TRUE, fid)

LEMMA AckIs ==
  ASSUME Shape, NEW x \in Actors, NEW m, NEW u, Asked(x, m, u),
         NEW fid \in Nat, Agrees(x, m, fid), RequestLeaves
  PROVE  \E k : AckStep(x, m, k, u) /\ k.ok /\ k.fieldid = fid
<1>1. PICK k : k = [topic |-> "SCHEMAREPLY", op |-> m.op, ok |-> TRUE,
                    tableid |-> m.tableid, fieldid |-> fid, name |-> NoName]
  OBVIOUS
<1>2. k \in ReplyMsg /\ IsReply(k, u) /\ k.tableid = m.tableid /\ k.ok /\ k.fieldid = fid
  BY <1>1 DEF Asked, RequestMsg, ReplyMsg, IsReply, AnyName
<1>3. PICK rest : rest = [mbox EXCEPT ![x] = Tail(@)]
  OBVIOUS
<1>4. mbox' = [rest EXCEPT ![Agent(u)] = Append(@, k)]
  BY <1>1, <1>3 DEF Agrees, Acknowledge, Agent, Asked
<1>5. Agent(u) \in Actors /\ mbox[x] # <<>>
  BY AgentIn DEF Asked
<1>6. Mail({x}, {Agent(u)}, k)
  BY <1>3, <1>4, <1>5, MailBoth
<1>7. QED
  BY <1>2, <1>6 DEF AckStep, Asked, RequestLeaves

LEMMA AskedIs ==
  ASSUME Shape, NEW x \in Actors, Receives(x, "SCHEMAREQUEST")
  PROVE  Asked(x, Head(mbox[x]), Head(mbox[x]).op)
<1>1. mbox[x] # <<>> /\ Head(mbox[x]).topic = "SCHEMAREQUEST" /\ mbox[x] \in Seq(Msg)
  BY Boxes DEF Receives
<1>2. 1 \in DOMAIN mbox[x] /\ mbox[x][1] = Head(mbox[x]) /\ Head(mbox[x]) \in Msg
  BY <1>1, TailFirst
<1>3. Head(mbox[x]) \in RequestMsg
  BY <1>1, <1>2, Topics
<1>4. Head(mbox[x]).op \in OpId
  BY <1>3 DEF RequestMsg
<1>5. QED
  BY <1>1, <1>2, <1>3, <1>4 DEF Asked, IsRequest

LEMMA CopyAt ==
  ASSUME Shape, NEW x \in Actors
  PROVE  /\ copy[x] \in CopyType /\ x \in DOMAIN copy /\ DOMAIN copy[x] = {"schema", "fields"}
         /\ copy[x].fields \in Partial(Nat, Seq(AnyName))
  BY DEF Shape, CopyType

LEMMA ChangeSchema ==
  ASSUME Shape, NEW x \in Actors, NEW m, m.cmd = "createschema",
         copy' = [copy EXCEPT ![x].schema = "made"]
  PROVE  ChangeAt(x, m)
<1>1. copy'[x].schema = "made" /\ copy'[x].fields = copy[x].fields
  BY CopyAt DEF CopyType
<1>2. \A z \in Actors : z # x => copy'[z] = copy[z]
  BY CopyAt
<1>3. QED
  BY <1>1, <1>2 DEF ChangeAt

LEMMA ChangeTable ==
  ASSUME Shape, NEW x \in Actors, NEW m, m.cmd = "createtable",
         m.tableid \notin DOMAIN copy[x].fields,
         copy' = [copy EXCEPT ![x].fields = IF m.tableid \in DOMAIN @ THEN @ ELSE With(@, m.tableid, <<>>)]
  PROVE  ChangeAt(x, m)
<1>1. PICK g : g = With(copy[x].fields, m.tableid, <<>>)
  OBVIOUS
<1>2. copy' = [copy EXCEPT ![x].fields = g]
  BY <1>1, CopyAt
<1>3. copy'[x].fields = g /\ copy'[x].schema = copy[x].schema
  BY <1>2, CopyAt DEF CopyType
<1>4. \A z \in Actors : z # x => copy'[z] = copy[z]
  BY <1>2, CopyAt
<1>5. Extended(g, copy[x].fields, m.tableid, <<>>)
  BY <1>1, WithDom
<1>6. QED
  BY <1>3, <1>4, <1>5 DEF ChangeAt

LEMMA ChangeColumn ==
  ASSUME Shape, NEW x \in Actors, NEW m, m.cmd = "addcolumn", m.tableid \in DOMAIN copy[x].fields,
         copy' = [copy EXCEPT ![x].fields[m.tableid] = addfield(@, m.column)]
  PROVE  ChangeAt(x, m)
<1>1. PICK f, id : f = copy[x].fields /\ id = m.tableid
  OBVIOUS
<1>2. PICK y : y = Append(f[id], m.column)
  OBVIOUS
<1>3. PICK g : g = [f EXCEPT ![id] = y]
  OBVIOUS
<1>4. copy' = [copy EXCEPT ![x].fields = g]
  BY <1>1, <1>2, <1>3, CopyAt DEF addfield
<1>5. copy'[x].fields = g /\ copy'[x].schema = copy[x].schema
  BY <1>4, CopyAt DEF CopyType
<1>6. \A z \in Actors : z # x => copy'[z] = copy[z]
  BY <1>4, CopyAt
<1>7. f \in Partial(Nat, Seq(AnyName)) /\ id \in DOMAIN f
  BY <1>1, CopyAt
<1>8. f = [i \in DOMAIN f |-> f[i]]
  BY <1>7, PartialFun
<1>9. DOMAIN g = DOMAIN f /\ g[id] = y /\ \A i \in DOMAIN f : i # id => g[i] = f[i]
  BY <1>3, <1>7, <1>8
<1>10. QED
  BY <1>1, <1>2, <1>5, <1>6, <1>9 DEF ChangeAt

LEMMA ChangeNone ==
  ASSUME NEW x \in Actors, NEW m, m.cmd = "deletetable", copy' = copy
  PROVE  ChangeAt(x, m)
  BY DEF ChangeAt

LEMMA RequestIs ==
  ASSUME Shape, NEW own, NEW job \in [Clients -> Job], Operational(job), Done(own, job),
         NEW x \in Actors, SchemaRequest(x)
  PROVE  \E m, u, k : RequestStep(x, m, u, k, job)
<1>1. PICK m, u : m = Head(mbox[x]) /\ u = m.op
  OBVIOUS
<1>2. Receives(x, "SCHEMAREQUEST")
  BY DEF SchemaRequest
<1>3. Asked(x, m, u)
  BY <1>1, <1>2, AskedIs
<1>4. Asks(x, m, u, own, job)
  BY <1>3, AskedAsks
<1>5. RequestLeaves
  BY DEF SchemaRequest, managerVars, RequestLeaves
<1>6. SUFFICES \E fid \in Nat : /\ Acknowledge(x, m, TRUE, fid) /\ up' = up /\ ChangeAt(x, m)
                                /\ m.cmd = "addcolumn" => fid = job[u[1]].fieldid
  <2>1. PICK fid \in Nat : /\ Acknowledge(x, m, TRUE, fid) /\ up' = up /\ ChangeAt(x, m)
                           /\ m.cmd = "addcolumn" => fid = job[u[1]].fieldid
    BY <1>6
  <2>2. PICK k : AckStep(x, m, k, u) /\ k.ok /\ k.fieldid = fid
    <3>1. Agrees(x, m, fid)
      BY <2>1 DEF Agrees
    <3>2. QED
      BY <1>3, <1>5, <3>1, AckIs
  <2>3. RequestStep(x, m, u, k, job)
    BY <1>3, <2>1, <2>2 DEF RequestStep
  <2>4. QED
    BY <2>3
<1>7. CASE m.cmd = "createschema" /\ CopyCreateSchema(x, m)
  <2>1. copy[x].schema = "none"
    BY <1>4, <1>7 DEF Asks, NotYet
  <2>2. copy' = [copy EXCEPT ![x].schema = "made"] /\ Acknowledge(x, m, TRUE, 0) /\ up' = up
    BY <1>7, <2>1 DEF CopyCreateSchema
  <2>3. ChangeAt(x, m)
    BY <1>7, <2>2, ChangeSchema
  <2>4. QED
    BY <1>6, <1>7, <2>2, <2>3
<1>8. CASE m.cmd = "createtable" /\ CopyCreateTable(x, m)
  <2>1. copy[x].schema = "made" /\ m.tableid \notin DOMAIN copy[x].fields
    BY <1>4, <1>8 DEF Asks, NotYet
  <2>2. /\ copy' = [copy EXCEPT ![x].fields =
                      IF m.tableid \in DOMAIN @ THEN @ ELSE With(@, m.tableid, <<>>)]
        /\ Acknowledge(x, m, m.tableid \notin DOMAIN copy[x].fields, 0) /\ up' = up
    BY <1>8, <2>1 DEF CopyCreateTable
  <2>3. Acknowledge(x, m, TRUE, 0)
    BY <2>1, <2>2 DEF Acknowledge
  <2>4. ChangeAt(x, m)
    BY <1>8, <2>1, <2>2, ChangeTable
  <2>5. QED
    BY <1>6, <1>8, <2>2, <2>3, <2>4
<1>9. CASE m.cmd = "addcolumn" /\ CopyAddColumn(x, m)
  <2> DEFINE fid == Len(copy[x].fields[m.tableid])
  <2>1. copy[x].schema = "made" /\ m.tableid \in DOMAIN copy[x].fields
    BY <1>4, <1>9 DEF Asks, NotYet
  <2>2. /\ copy' = [copy EXCEPT ![x].fields[m.tableid] = addfield(@, m.column)]
        /\ Acknowledge(x, m, TRUE, fid) /\ up' = up
    BY <1>9, <2>1 DEF CopyAddColumn
  <2>3. ChangeAt(x, m)
    BY <1>9, <2>1, <2>2, ChangeColumn
  <2>4. /\ manager.fields[m.tableid] = Append(copy[x].fields[m.tableid], job[u[1]].name)
        /\ job[u[1]].fieldid + 1 = Len(manager.fields[m.tableid]) /\ job[u[1]].fieldid \in Nat
    <3>1. job[u[1]].fieldid + 1 = Len(manager.fields[m.tableid])
          /\ manager.fields[m.tableid] = Append(copy[x].fields[m.tableid], job[u[1]].name)
      BY <1>4, <1>9 DEF Asks, NotYet, JobDone
    <3>2. u[1] \in Clients
      BY <1>3, AgentIn DEF Asked
    <3>3. QED
      BY <3>1, <3>2 DEF Job
  <2>5. copy[x].fields[m.tableid] \in Seq(AnyName)
    BY <2>1, FieldsTypes
  <2>6. fid \in Nat /\ fid = job[u[1]].fieldid
    <3>1. PICK s, n, f : s = copy[x].fields[m.tableid] /\ n = job[u[1]].name /\ f = job[u[1]].fieldid
      OBVIOUS
    <3>2. s \in Seq(AnyName) /\ Len(s) \in Nat /\ f \in Nat
      BY <3>1, <2>4, <2>5
    <3>3. Len(Append(s, n)) = Len(s) + 1
      BY <3>2
    <3>4. f + 1 = Len(Append(s, n))
      BY <3>1, <2>4
    <3>5. QED
      BY <3>1, <3>2, <3>3, <3>4
  <2>7. QED
    BY <1>6, <2>2, <2>3, <2>6
<1>10. CASE m.cmd = "deletetable" /\ CopyDelete(x, m)
  <2>1. copy' = copy /\ Acknowledge(x, m, TRUE, 0) /\ up' = up
    BY <1>10 DEF CopyDelete
  <2>2. ChangeAt(x, m)
    BY <1>10, <2>1, ChangeNone
  <2>3. QED
    BY <1>6, <1>10, <2>1, <2>2
<1>11. QED
  BY <1>1, <1>7, <1>8, <1>9, <1>10 DEF SchemaRequest

\* The copies only grow.
CopiesGrow ==
  \A z \in Actors :
    /\ copy[z].schema = "made" => copy'[z].schema = "made"
    /\ \A id \in DOMAIN copy[z].fields :
         /\ id \in DOMAIN copy'[z].fields
         /\ \A i \in DOMAIN copy[z].fields[id] :
              i \in DOMAIN copy'[z].fields[id] /\ copy'[z].fields[id][i] = copy[z].fields[id][i]

LEMMA ChangeGrows ==
  ASSUME Shape, NEW x \in Actors, NEW m, m \in RequestMsg, ChangeAt(x, m),
         m.cmd = "createtable" => m.tableid \notin DOMAIN copy[x].fields
  PROVE  CopiesGrow
<1>1. \A z \in Actors : copy[z].schema = "made" => copy'[z].schema = "made"
  BY DEF ChangeAt
<1>2. \A z \in Actors : z # x => copy'[z] = copy[z]
  BY DEF ChangeAt
<1>3. ASSUME NEW id \in DOMAIN copy[x].fields
      PROVE  /\ id \in DOMAIN copy'[x].fields
             /\ \A i \in DOMAIN copy[x].fields[id] :
                  i \in DOMAIN copy'[x].fields[id] /\ copy'[x].fields[id][i] = copy[x].fields[id][i]
  <2>1. m.cmd \in SchemaCommands
    BY DEF RequestMsg
  <2>2. CASE m.cmd = "createtable"
    BY <2>2 DEF ChangeAt, Extended
  <2>3. CASE m.cmd = "addcolumn" /\ id = m.tableid
    <3>1. PICK s, n : s = copy[x].fields[id] /\ n = m.column
      OBVIOUS
    <3>2. s \in Seq(AnyName) /\ copy'[x].fields[id] = Append(s, n) /\ id \in DOMAIN copy'[x].fields
      BY <2>3, <3>1, FieldsTypes DEF ChangeAt
    <3>3. n \in AnyName
      BY <3>1 DEF RequestMsg
    <3>4. \A i \in DOMAIN s : i \in DOMAIN Append(s, n) /\ Append(s, n)[i] = s[i]
      BY <3>2, <3>3
    <3>5. QED
      BY <3>1, <3>2, <3>4
  <2>4. CASE m.cmd = "addcolumn" /\ id # m.tableid
    BY <2>4 DEF ChangeAt
  <2>5. CASE m.cmd \in {"createschema", "deletetable"}
    BY <2>5 DEF ChangeAt
  <2>6. QED
    BY <2>1, <2>2, <2>3, <2>4, <2>5 DEF SchemaCommands
<1>4. QED
  BY <1>1, <1>2, <1>3 DEF CopiesGrow

LEMMA GrowTrue ==
  ASSUME NEW own, AnswersInv(own), CopiesGrow, UNCHANGED <<manager, answers, up>>
  PROVE  AnswersInv(own)'
<1>1. up /\ \A an \in answers : TrueAnswer(an, own)
  BY AnswersTrue
<1>2. ASSUME NEW an \in answers PROVE TrueAnswer(an, own)'
  BY <1>1 DEF TrueAnswer, CopiesGrow
<1>3. QED
  BY <1>1, <1>2, AnswersTrueNext

\* Where the operations are when x has answered.
LEMMA RequestLags ==
  ASSUME Shape, Shape', NEW job, Operational(job), NEW x \in Actors, NEW m, NEW u, NEW k,
         RequestStep(x, m, u, k, job)
  PROVE  /\ Operational(job)' /\ UNCHANGED <<manager, operations, answers, up>>
         /\ \A op \in DOMAIN operations :
              /\ Accepted(op)' <=> Accepted(op)
              /\ \A z \in Actors : Lags(z, op)' <=> Lags(z, op) /\ ~(op = u /\ z = x)
<1>1. AckStep(x, m, k, u) /\ k.ok /\ (m.cmd = "addcolumn" => k.fieldid = job[u[1]].fieldid)
      /\ up' = up
  BY DEF RequestStep
<1>2. /\ Operational(job)' /\ ~Granted(u) /\ ~Granted(u)'
      /\ \A z \in Actors : Due(z, u)' <=> Due(z, u) /\ z # x
  BY <1>1, AckOps
<1>3. StepOf(u, {x}, {Agent(u)}, k, job, job)
  BY <1>1, AckSame
<1>4. Frame(u, job, job)
  BY <1>3, FrameStep
<1>5. UNCHANGED <<manager, operations, answers>>
  BY <1>1 DEF AckStep
<1>6. ASSUME NEW op \in DOMAIN operations, op = u
      PROVE  /\ Accepted(op)' <=> Accepted(op)
             /\ \A z \in Actors : Lags(z, op)' <=> Lags(z, op) /\ ~(op = u /\ z = x)
  BY <1>2, <1>5, <1>6 DEF Accepted, Lags
<1>7. ASSUME NEW op \in DOMAIN operations, op # u
      PROVE  /\ Accepted(op)' <=> Accepted(op)
             /\ \A z \in Actors : Lags(z, op)' <=> Lags(z, op) /\ ~(op = u /\ z = x)
  BY <1>4, <1>5, <1>7 DEF Frame, Accepted, Lags
<1>8. QED
  BY <1>1, <1>2, <1>5, <1>6, <1>7

\* What x still has to do for the others is as it was.
LEMMA OthersNotYet ==
  ASSUME Shape, Shape', NEW own, NEW job, Operational(job), Done(own, job), NEW x \in Actors,
         NEW m, NEW u, NEW k, RequestStep(x, m, u, k, job),
         NEW op \in DOMAIN operations, op # u, Lags(x, op)
  PROVE  NotYet(x, op, job)'
<1>1. ChangeAt(x, m) /\ Asked(x, m, u)
  BY DEF RequestStep
<1>2. Asks(x, m, u, own, job)
  BY <1>1, AskedAsks
<1>3. UNCHANGED <<manager, operations>>
  BY RequestLags
<1>4. Accepted(op)
  BY LagsAccepted
<1>5. NotYet(x, op, job) /\ JobDone(op, own, job)
  BY <1>4 DEF Done, DoneOp
<1>6. op[1] # u[1]
  BY <1>2 DEF Operational, OneEach, Asks
<1>7. ASSUME operations[op].cmd = "createschema" PROVE copy'[x].schema = "none"
  <2>1. m.cmd # "createschema"
    BY <1>2, <1>4, <1>7 DEF Done, SchemaInv, Asks
  <2>2. QED
    BY <1>1, <1>5, <1>7, <2>1 DEF ChangeAt, NotYet
<1>8. ASSUME operations[op].cmd = "createtable"
      PROVE  job[op[1]].tableid \notin DOMAIN copy'[x].fields
  <2>1. job[op[1]].tableid \notin DOMAIN copy[x].fields
    BY <1>5, <1>8 DEF NotYet
  <2>2. m.cmd = "createtable" => job[op[1]].tableid # m.tableid
    BY <1>2, <1>5, <1>6, <1>8 DEF Asks, JobDone
  <2>3. m.cmd \in SchemaCommands
    BY <1>1 DEF Asked, RequestMsg
  <2>4. QED
    BY <1>1, <2>1, <2>2, <2>3 DEF ChangeAt, Extended, SchemaCommands
<1>9. ASSUME operations[op].cmd = "addcolumn"
      PROVE  /\ job[op[1]].tableid \in DOMAIN copy'[x].fields
             /\ copy'[x].fields[job[op[1]].tableid] = copy[x].fields[job[op[1]].tableid]
  <2>1. PICK id : id = job[op[1]].tableid
    OBVIOUS
  <2>2. id \in DOMAIN copy[x].fields
    BY <1>5, <1>9, <2>1 DEF NotYet
  <2>3. ASSUME m.cmd = "createtable" PROVE id # m.tableid
    BY <1>2, <2>2, <2>3 DEF Asks, NotYet
  <2>4. ASSUME m.cmd = "addcolumn" PROVE id # m.tableid
    <3>1. Adding(x, op, id, job)
      BY <1>9, <2>1 DEF Adding
    <3>2. u \in DOMAIN operations /\ Adding(x, u, m.tableid, job)
      BY <1>2, <2>4 DEF Asks, Adding
    <3>3. own[id] = op[1] /\ own[m.tableid] = u[1]
      BY <3>1, <3>2, AddsToOwn
    <3>4. QED
      BY <1>6, <3>3
  <2>5. m.cmd \in SchemaCommands
    BY <1>1 DEF Asked, RequestMsg
  <2>6. QED
    BY <1>1, <2>1, <2>2, <2>3, <2>4, <2>5 DEF ChangeAt, Extended, SchemaCommands
<1>10. operations[op].cmd = "addcolumn" =>
         manager'.fields[job[op[1]].tableid] = Append(copy[x].fields[job[op[1]].tableid], job[op[1]].name)
  BY <1>3, <1>5 DEF NotYet
<1>11. QED
  BY <1>3, <1>7, <1>8, <1>9, <1>10 DEF NotYet

LEMMA RequestGrows ==
  ASSUME Shape, NEW own, NEW job, Operational(job), Done(own, job), NEW x \in Actors,
         NEW m, NEW u, NEW k, RequestStep(x, m, u, k, job)
  PROVE  CopiesGrow
<1>1. ChangeAt(x, m) /\ Asked(x, m, u)
  BY DEF RequestStep
<1>2. Asks(x, m, u, own, job)
  BY <1>1, AskedAsks
<1>3. m.cmd = "createtable" => m.tableid \notin DOMAIN copy[x].fields
  BY <1>2 DEF Asks, NotYet
<1>4. QED
  BY <1>1, <1>3, ChangeGrows DEF Asked

LEMMA RequestCopies ==
  ASSUME Shape, Shape', NEW own, NEW job, Operational(job), Done(own, job), NEW x \in Actors,
         NEW m, NEW u, NEW k, RequestStep(x, m, u, k, job)
  PROVE  CopyInv(job)'
<1>1. ChangeAt(x, m) /\ Asked(x, m, u)
  BY DEF RequestStep
<1>2. Asks(x, m, u, own, job)
  BY <1>1, AskedAsks
<1>3. /\ UNCHANGED <<manager, operations>>
      /\ \A op \in DOMAIN operations : \A z \in Actors :
           Lags(z, op)' <=> Lags(z, op) /\ ~(op = u /\ z = x)
  BY RequestLags
<1>4. SUFFICES ASSUME NEW z \in Actors, NEW id \in DOMAIN copy'[z].fields
               PROVE  /\ id \in DOMAIN manager.fields
                      /\ \/ copy'[z].fields[id] = manager.fields[id]
                         \/ \E op \in DOMAIN operations : Adding(z, op, id, job)'
  BY <1>3 DEF CopyInv
<1>5. ASSUME id \in DOMAIN copy[z].fields, copy'[z].fields[id] = copy[z].fields[id],
             z = x => ~(m.cmd = "addcolumn" /\ m.tableid = id)
      PROVE  /\ id \in DOMAIN manager.fields
             /\ \/ copy'[z].fields[id] = manager.fields[id]
                \/ \E op \in DOMAIN operations : Adding(z, op, id, job)'
  <2>1. /\ id \in DOMAIN manager.fields
        /\ \/ copy[z].fields[id] = manager.fields[id]
           \/ \E op \in DOMAIN operations : Adding(z, op, id, job)
    BY <1>5 DEF Done, CopyInv
  <2>2. ASSUME NEW op \in DOMAIN operations, Adding(z, op, id, job) PROVE Adding(z, op, id, job)'
    <3>1. ~(op = u /\ z = x)
      BY <1>2, <1>5, <2>2 DEF Adding, Asks
    <3>2. QED
      BY <1>3, <2>2, <3>1 DEF Adding
  <2>3. QED
    BY <1>5, <2>1, <2>2
<1>6. CASE z # x
  <2>1. copy'[z] = copy[z]
    BY <1>1, <1>6 DEF ChangeAt
  <2>2. QED
    BY <1>4, <1>5, <1>6, <2>1
<1>7. CASE z = x /\ m.cmd = "createtable"
  <2>1. Extended(copy'[x].fields, copy[x].fields, m.tableid, <<>>)
    BY <1>1, <1>7 DEF ChangeAt
  <2>2. CASE id = m.tableid
    <3>1. m.tableid \in DOMAIN manager.tables /\ manager.fields[m.tableid] = <<>>
      BY <1>2, <1>7 DEF Asks, JobDone
    <3>2. m.tableid \in DOMAIN manager.fields
      BY <3>1, FieldsTypes
    <3>3. QED
      BY <1>7, <2>1, <2>2, <3>1, <3>2 DEF Extended
  <2>3. CASE id # m.tableid
    <3>1. id \in DOMAIN copy[z].fields /\ copy'[z].fields[id] = copy[z].fields[id]
      BY <1>4, <1>7, <2>1, <2>3 DEF Extended
    <3>2. QED
      BY <1>5, <2>3, <3>1
  <2>4. QED
    BY <2>2, <2>3
<1>8. CASE z = x /\ m.cmd = "addcolumn"
  <2>1. /\ DOMAIN copy'[x].fields = DOMAIN copy[x].fields
        /\ copy'[x].fields[m.tableid] = Append(copy[x].fields[m.tableid], m.column)
        /\ \A i \in DOMAIN copy[x].fields : i # m.tableid => copy'[x].fields[i] = copy[x].fields[i]
    BY <1>1, <1>8 DEF ChangeAt
  <2>2. CASE id = m.tableid
    <3>1. /\ manager.fields[m.tableid] = Append(copy[x].fields[m.tableid], m.column)
          /\ m.tableid \in DOMAIN manager.fields
      BY <1>2, <1>8 DEF Asks, NotYet, JobDone
    <3>2. QED
      BY <1>8, <2>1, <2>2, <3>1
  <2>3. CASE id # m.tableid
    BY <1>4, <1>5, <1>8, <2>1, <2>3
  <2>4. QED
    BY <2>2, <2>3
<1>9. CASE z = x /\ m.cmd \in {"createschema", "deletetable"}
  <2>1. copy'[x].fields = copy[x].fields
    BY <1>1, <1>9 DEF ChangeAt
  <2>2. QED
    BY <1>4, <1>5, <1>9, <2>1
<1>10. QED
  BY <1>1, <1>6, <1>7, <1>8, <1>9 DEF Asked, RequestMsg, SchemaCommands

LEMMA RequestAlready ==
  ASSUME Shape, Shape', NEW own, NEW job, Operational(job), Done(own, job), NEW x \in Actors,
         NEW m, NEW u, NEW k, RequestStep(x, m, u, k, job)
  PROVE  Already(x, u, job)'
<1>1. ChangeAt(x, m) /\ Asked(x, m, u)
  BY DEF RequestStep
<1>2. Asks(x, m, u, own, job) /\ operations' = operations
  BY <1>1, AskedAsks, RequestLags
<1>3. operations[u].cmd = "createtable" => m.tableid \in DOMAIN copy'[x].fields
  BY <1>1, <1>2 DEF ChangeAt, Extended, Asks
<1>4. operations[u].cmd = "createschema" => copy'[x].schema = "made"
  BY <1>1, <1>2 DEF ChangeAt, Asks
<1>5. QED
  BY <1>2, <1>3, <1>4 DEF Already, Asks

LEMMA RequestSchema ==
  ASSUME Shape, Shape', NEW own, NEW job, Operational(job), Done(own, job), NEW x \in Actors,
         NEW m, NEW u, NEW k, RequestStep(x, m, u, k, job)
  PROVE  SchemaInv'
<1>1. ChangeAt(x, m) /\ Asked(x, m, u)
  BY DEF RequestStep
<1>2. Asks(x, m, u, own, job)
  BY <1>1, AskedAsks
<1>3. /\ UNCHANGED <<manager, operations, up>>
      /\ \A op \in DOMAIN operations : Accepted(op)' <=> Accepted(op)
  BY RequestLags
<1>4. SchemaInv
  BY DEF Done
<1>5. m.cmd = "createschema" => manager.schema
  BY <1>2 DEF Asks, JobDone
<1>6. \A z \in Actors : \/ copy'[z].schema = copy[z].schema
                        \/ m.cmd = "createschema" /\ copy'[z].schema = "made"
  BY <1>1 DEF ChangeAt
<1>7. ~manager'.schema => \A z \in Actors : copy'[z].schema = "none"
  BY <1>3, <1>4, <1>5, <1>6 DEF SchemaInv
<1>8. \A z \in Actors : copy'[z].schema # "null"
  BY <1>4, <1>6 DEF SchemaInv
<1>9. QED
  BY <1>3, <1>4, <1>7, <1>8 DEF SchemaInv

LEMMA DoneRequest ==
  ASSUME Shape, Shape', NEW own, NEW job, Operational(job), Done(own, job), NEW x \in Actors,
         NEW m, NEW u, NEW k, RequestStep(x, m, u, k, job)
  PROVE  Done(own, job)'
<1>1. /\ UNCHANGED <<manager, operations, answers, up>>
      /\ \A op \in DOMAIN operations :
           /\ Accepted(op)' <=> Accepted(op)
           /\ \A z \in Actors : Lags(z, op)' <=> Lags(z, op) /\ ~(op = u /\ z = x)
  BY RequestLags
<1>2. CopiesGrow /\ CopyInv(job)' /\ SchemaInv' /\ Already(x, u, job)'
  BY RequestGrows, RequestCopies, RequestSchema, RequestAlready
<1>3. AnswersInv(own)'
  BY <1>1, <1>2, GrowTrue DEF Done
<1>4. \A z \in Actors : z # x => copy'[z] = copy[z]
  BY DEF RequestStep, ChangeAt
<1>5. ASSUME NEW op \in DOMAIN operations, Accepted(op)
      PROVE  JobDone(op, own, job)'
  <2>1. JobDone(op, own, job)
    BY <1>5 DEF Done, DoneOp
  <2>2. QED
    BY <1>1, <2>1 DEF JobDone, TablesOf
<1>6. ASSUME NEW op \in DOMAIN operations, Accepted(op), NEW z \in Actors, Lags(z, op)'
      PROVE  NotYet(z, op, job)'
  <2>1. Lags(z, op) /\ ~(op = u /\ z = x)
    BY <1>1, <1>6
  <2>2. NotYet(z, op, job)
    BY <1>6, <2>1 DEF Done, DoneOp
  <2>3. CASE z = x
    BY <2>1, <2>3, OthersNotYet
  <2>4. CASE z # x
    BY <1>1, <1>4, <2>2, <2>4 DEF NotYet
  <2>5. QED
    BY <2>3, <2>4
<1>7. ASSUME NEW op \in DOMAIN operations, Accepted(op), NEW z \in Actors, ~(Lags(z, op)')
      PROVE  Already(z, op, job)'
  <2>1. CASE op = u /\ z = x
    BY <1>2, <2>1
  <2>2. CASE ~(op = u /\ z = x)
    <3>1. Already(z, op, job)
      BY <1>1, <1>7, <2>2 DEF Done, DoneOp
    <3>2. QED
      BY <1>1, <1>2, <3>1 DEF Already, CopiesGrow
  <2>3. QED
    BY <2>1, <2>2
<1>8. ASSUME NEW op \in DOMAIN operations PROVE DoneOp(op, own, job)'
  BY <1>1, <1>5, <1>6, <1>7 DEF DoneOp
<1>9. QED
  BY <1>1, <1>2, <1>3, <1>8 DEF Done

-----------------------------------------------------------------------------
(* Nobody names anything before the schema is there.                       *)

Talks(m) == m.topic \in {"TABLENAME", "FIELDNAME", "COMPILE"}
Fine(m)  == Talks(m) => ToldSchema

TalkInv ==
  /\ \A x \in Actors : \A i \in DOMAIN mbox[x] : Fine(mbox[x][i])
  /\ \A a \in Agents : \A i \in DOMAIN sending[a] : Fine(sending[a][i].m)

\* What the agents are to send has been sent in part, or is fine.
SendingFine ==
  \A a \in Agents :
    \/ sending'[a] = sending[a]
    \/ sending[a] # <<>> /\ sending'[a] = Tail(sending[a])
    \/ \A i \in DOMAIN sending'[a] : Fine(sending'[a][i].m)

LEMMA TalkKept ==
  ASSUME Shape, Shape', TalkInv, answers \subseteq answers',
         NEW pop, NEW add, NEW m, Mail(pop, add, m), add # {} => Fine(m), SendingFine
  PROVE  TalkInv'
<1>1. ToldSchema => ToldSchema'
  BY DEF ToldSchema
<1>2. ASSUME NEW x \in Actors, NEW i \in DOMAIN mbox'[x] PROVE Fine(mbox'[x][i])
  <2>1. \/ /\ i + Pops(pop, x) \in DOMAIN mbox[x]
           /\ mbox'[x][i] = mbox[x][i + Pops(pop, x)]
        \/ x \in add /\ mbox'[x][i] = m
    BY MailFacts
  <2>2. QED
    BY <2>1 DEF TalkInv
<1>3. ASSUME NEW a \in Agents, NEW i \in DOMAIN sending'[a] PROVE Fine(sending'[a][i].m)
  <2>1. CASE sending'[a] = sending[a]
    BY <1>3, <2>1 DEF TalkInv
  <2>2. CASE sending[a] # <<>> /\ sending'[a] = Tail(sending[a])
    <3>1. sending[a] \in Seq([to : Actors, m : Msg])
      BY Sendings
    <3>2. i + 1 \in DOMAIN sending[a] /\ sending'[a][i] = sending[a][i + 1]
      BY <1>3, <2>2, <3>1, TailFirst
    <3>3. QED
      BY <3>2 DEF TalkInv
  <2>3. CASE \A j \in DOMAIN sending'[a] : Fine(sending'[a][j].m)
    BY <1>3, <2>3
  <2>4. QED
    BY <2>1, <2>2, <2>3 DEF SendingFine
<1>4. \A x \in Actors : \A i \in DOMAIN mbox'[x] : Talks(mbox'[x][i]) => ToldSchema'
  BY <1>1, <1>2 DEF Fine
<1>5. \A a \in Agents : \A i \in DOMAIN sending'[a] : Talks(sending'[a][i].m) => ToldSchema'
  BY <1>1, <1>3 DEF Fine
<1>6. QED
  BY <1>4, <1>5 DEF TalkInv, Fine, Talks

LEMMA TalkStart ==
  ASSUME Shape, Shape', TalkInv, NEW c, NEW cmd, NEW table, NEW column, NEW u,
         StartStep(c, cmd, table, column, u)
  PROVE  TalkInv'
<1>1. UNCHANGED <<mbox, sending, answers>>
  BY DEF StartStep
<1>2. Mail({}, {}, <<>>) /\ SendingFine
  BY <1>1, MailSame DEF SendingFine
<1>3. QED
  BY <1>1, <1>2, TalkKept

LEMMA TalkManager ==
  ASSUME Shape, Shape', TalkInv, NEW job \in [Clients -> Job], Operational(job), NEW k, NEW u,
         Reported(k, u)
  PROVE  TalkInv'
<1>1. u \in DOMAIN operations
  BY ManagerSame
<1>2. Agent(u) \in Actors
  BY <1>1, OpsInOpId, AgentIn
<1>3. Mail({}, {Agent(u)}, k)
  BY <1>2, MailAppend DEF Reported
<1>4. UNCHANGED <<sending, answers>> /\ Fine(k)
  BY DEF Reported, Fine, Talks, ReplyMsg
<1>5. SendingFine
  BY <1>4 DEF SendingFine
<1>6. QED
  BY <1>3, <1>4, <1>5, TalkKept

LEMMA TalkSend ==
  ASSUME Shape, Shape', TalkInv, NEW a \in Agents, NEW s, NEW u, SendStep(a, s, u)
  PROVE  TalkInv'
<1>1. /\ sending[a] # <<>> /\ s = sending[a][1] /\ 1 \in DOMAIN sending[a] /\ s.to \in Actors
      /\ mbox' = [mbox EXCEPT ![s.to] = Append(@, s.m)]
      /\ sending' = [sending EXCEPT ![a] = Tail(@)] /\ answers' = answers
  BY DEF SendStep
<1>2. Fine(s.m)
  BY <1>1 DEF TalkInv
<1>3. PICK y, m : y = s.to /\ m = s.m
  OBVIOUS
<1>4. Mail({}, {y}, m)
  BY <1>1, <1>3, MailAppend
<1>5. SendingFine
  BY <1>1 DEF SendingFine, Shape
<1>6. QED
  BY <1>1, <1>2, <1>3, <1>4, <1>5, TalkKept

LEMMA TalkRequest ==
  ASSUME Shape, Shape', TalkInv, NEW job, NEW x \in Actors, NEW m, NEW u, NEW k,
         RequestStep(x, m, u, k, job)
  PROVE  TalkInv'
<1>1. Mail({x}, {Agent(u)}, k) /\ k \in ReplyMsg /\ UNCHANGED <<sending, answers>>
  BY DEF RequestStep, AckStep
<1>2. Fine(k) /\ SendingFine
  BY <1>1 DEF Fine, Talks, ReplyMsg, SendingFine
<1>3. QED
  BY <1>1, <1>2, TalkKept

LEMMA NamedTold ==
  ASSUME NEW job, Operational(job), NEW u \in DOMAIN operations, NEW m,
         Named(operations[u].cmd)
  PROVE  Fine(m)
  BY DEF Operational, OneEach, Named, Fine

\* One agent has more to send, all of it fine.
LEMMA FineToo ==
  ASSUME Shape, NEW a \in Agents, NEW s, sending' = [sending EXCEPT ![a] = s],
         \A i \in DOMAIN s : Fine(s[i].m)
  PROVE  SendingFine
  BY DEF Shape, SendingFine

LEMMA SeqElement ==
  ASSUME NEW S, NEW s \in Seq(S), NEW i \in DOMAIN s
  PROVE  s[i] \in S
  OBVIOUS

LEMMA TalkReply ==
  ASSUME Shape, Shape', TalkInv, NEW job, Operational(job), NEW a \in Agents, NEW m, NEW u,
         \/ RefusedStep(a, m, u) \/ PassStep(a, m, u) \/ LastStep(a, m, u) \/ CountStep(a, m, u)
  PROVE  TalkInv'
<1>1. ReplyStep(a, m, u) /\ answers \subseteq answers'
  BY DEF RefusedStep, PassStep, LastStep, CountStep, EndStep
<1>2. Mail({a}, {}, <<>>) /\ u \in DOMAIN operations
  BY <1>1 DEF ReplyStep
<1>3. PICK cmd : cmd = operations[u].cmd
  OBVIOUS
<1>4. CASE RefusedStep(a, m, u)
  <2>1. PICK s : s = NamesToo(m, cmd)
    OBVIOUS
  <2>2. sending' = [sending EXCEPT ![a] = s]
    BY <1>3, <1>4, <2>1 DEF RefusedStep
  <2>3. ASSUME Named(cmd) PROVE SendingFine
    <3>1. \A i \in DOMAIN s : Fine(s[i].m)
      BY <1>2, <1>3, <2>3, NamedTold
    <3>2. QED
      BY <2>2, <3>1, FineToo
  <2>4. ASSUME ~Named(cmd) PROVE SendingFine
    <3>1. s = <<>>
      BY <2>1, <2>4, NamesTooSeq
    <3>2. \A i \in DOMAIN s : Fine(s[i].m)
      BY <3>1
    <3>3. QED
      BY <2>2, <3>2, FineToo
  <2>5. SendingFine
    BY <2>3, <2>4
  <2>6. QED
    BY <1>1, <1>2, <2>5, TalkKept
<1>5. CASE PassStep(a, m, u)
  <2>1. PICK s : s = PassOn(m, cmd)
    OBVIOUS
  <2>2. sending' = [sending EXCEPT ![a] = s]
    BY <1>3, <1>5, <2>1 DEF PassStep
  <2>3. Broadcast(s, Passes(m, cmd), NameOf(m, cmd), cmd)
    BY <2>1, PassOnSeq
  <2>4. ASSUME NEW i \in DOMAIN s PROVE Fine(s[i].m)
    <3>1. CASE Named(cmd)
      BY <1>2, <1>3, <3>1, NamedTold
    <3>2. CASE ~Named(cmd)
      <4>1. s[i].m # NameOf(m, cmd)
        BY <2>3, <3>2 DEF Broadcast
      <4>2. PICK p, q : p = Passes(m, cmd) /\ q = NameOf(m, cmd)
        OBVIOUS
      <4>3. s \in Seq([to : Actors, m : {p, q}])
        BY <2>3, <4>2 DEF Broadcast
      <4>4. s[i].m \in {p, q}
        <5>1. s[i] \in [to : Actors, m : {p, q}]
          BY <2>4, <4>3, SeqElement
        <5>2. QED
          BY <5>1
      <4>5. Passes(m, cmd).topic = "SCHEMAREQUEST"
        BY DEF Passes
      <4>6. QED
        BY <4>1, <4>2, <4>4, <4>5 DEF Fine, Talks
    <3>3. QED
      BY <3>1, <3>2
  <2>5. SendingFine
    BY <2>2, <2>4, FineToo
  <2>6. QED
    BY <1>1, <1>2, <2>5, TalkKept
<1>6. CASE LastStep(a, m, u) \/ CountStep(a, m, u)
  <2>1. SendingFine
    BY <1>6 DEF LastStep, CountStep, SendingFine
  <2>2. QED
    BY <1>1, <1>2, <2>1, TalkKept
<1>7. QED
  BY <1>4, <1>5, <1>6

-----------------------------------------------------------------------------
(* Names, statements and procedures leave the operations alone.            *)

Still(pop, add, m) ==
  /\ Quiet(pop, add, m) /\ (add # {} => Fine(m)) /\ SendingFine
  /\ UNCHANGED <<copy, up>>

QuietStep == \E pop, add, m : Still(pop, add, m)

LEMMA QuietAll ==
  ASSUME Shape, Shape', NEW own, NEW job, Operational(job), Done(own, job), TalkInv, QuietStep
  PROVE  Operational(job)' /\ Done(own, job)' /\ TalkInv'
<1>1. PICK pop, add, m : Still(pop, add, m)
  BY DEF QuietStep
<1>2. /\ Quiet(pop, add, m) /\ (add # {} => Fine(m)) /\ SendingFine
      /\ UNCHANGED <<copy, up>>
  BY <1>1 DEF Still
<1>3. Operational(job)' /\ \A op \in DOMAIN operations : Stays(op)
  BY <1>2, QuietOps
<1>4. Mail(pop, add, m) /\ UNCHANGED <<manager, operations, answers>>
  BY <1>2 DEF Quiet
<1>5. Done(own, job)'
  BY <1>2, <1>3, <1>4, DoneQuiet
<1>6. TalkInv'
  BY <1>2, <1>4, TalkKept
<1>7. QED
  BY <1>3, <1>5, <1>6

\* x reads its next message.
LEMMA ReadsQuietly ==
  ASSUME Shape, NEW x \in Actors, mbox[x] # <<>>, OfNone(Head(mbox[x])),
         mbox' = [mbox EXCEPT ![x] = Tail(@)], SendingFine,
         \A a \in Agents : \/ sending'[a] = sending[a]
                           \/ sending[a] = <<>> /\ \A i \in DOMAIN sending'[a] : OfNone(sending'[a][i].m),
         UNCHANGED <<manager, copy, operations, usmMbox, waiting, answers, up>>
  PROVE  QuietStep
<1>1. Mail({x}, {}, <<>>) /\ mbox[x][1] = Head(mbox[x])
  BY MailTail
<1>2. Quiet({x}, {}, <<>>)
  BY <1>1 DEF Quiet
<1>3. Still({x}, {}, <<>>)
  BY <1>2 DEF Still
<1>4. QED
  BY <1>3 DEF QuietStep

\* An agent that reads a name or a statement has the schema.
LEMMA HeadTold ==
  ASSUME Shape, NEW own, NEW job, Done(own, job), TalkInv, NEW a \in Agents, mbox[a] # <<>>,
         Talks(Head(mbox[a]))
  PROVE  copy[a].schema = "made"
<1>1. a \in Actors /\ mbox[a] \in Seq(Msg)
  BY Boxes DEF Actors
<1>2. 1 \in DOMAIN mbox[a] /\ mbox[a][1] = Head(mbox[a])
  BY <1>1, TailFirst
<1>3. ToldSchema
  BY <1>1, <1>2 DEF TalkInv, Fine
<1>4. QED
  BY <1>1, <1>3, ToldMade

LEMMA NameQuiet ==
  ASSUME Shape, NEW own, NEW job, Done(own, job), TalkInv, NEW a \in Agents,
         NEW topic \in {"TABLENAME", "FIELDNAME"}, Name(a, topic)
  PROVE  QuietStep
<1>1. a \in Actors /\ mbox[a] # <<>> /\ Head(mbox[a]).topic = topic
  BY DEF Name, Receives, Actors
<1>2. copy[a].schema = "made"
  BY <1>1, HeadTold DEF Talks
<1>3. /\ mbox' = [mbox EXCEPT ![a] = Tail(@)]
      /\ UNCHANGED <<manager, copy, operations, usmMbox, sending, waiting, answers, up>>
  BY <1>2 DEF Name, managerVars
<1>4. SendingFine /\ OfNone(Head(mbox[a]))
  BY <1>1, <1>3 DEF SendingFine, OfNone
<1>5. QED
  BY <1>1, <1>3, <1>4, ReadsQuietly

LEMMA StatementQuiet ==
  ASSUME Shape, NEW own, NEW job, Done(own, job), TalkInv, NEW a \in Agents, NewStatement(a)
  PROVE  QuietStep
<1>1. a \in Actors /\ mbox[a] # <<>> /\ Head(mbox[a]).topic = "COMPILE"
  BY DEF NewStatement, Receives, Actors
<1>2. copy[a].schema = "made"
  BY <1>1, HeadTold DEF Talks
<1>3. /\ mbox' = [mbox EXCEPT ![a] = Tail(@)]
      /\ UNCHANGED <<manager, copy, operations, usmMbox, sending, waiting, answers, up>>
  BY <1>2 DEF NewStatement, managerVars
<1>4. SendingFine /\ OfNone(Head(mbox[a]))
  BY <1>1, <1>3 DEF SendingFine, OfNone
<1>5. QED
  BY <1>1, <1>3, <1>4, ReadsQuietly

LEMMA ProcedureQuiet ==
  ASSUME Shape, NEW a \in Agents, Procedure1(a) \/ Procedure2(a)
  PROVE  QuietStep
<1>1. a \in Actors /\ mbox[a] # <<>> /\ Head(mbox[a]).topic \in {"PROCEDURE1", "PROCEDURE2"}
      /\ mbox' = [mbox EXCEPT ![a] = Tail(@)]
      /\ UNCHANGED <<manager, copy, operations, usmMbox, waiting, answers, up>>
  BY DEF Procedure1, Procedure2, Receives, Actors, managerVars, copyVars
<1>2. OfNone(Head(mbox[a]))
  BY <1>1 DEF OfNone
<1>3. CASE Procedure1(a)
  <2>1. PICK m : m = [topic |-> "PROCEDURE2", proc |-> Head(mbox[a]).proc]
    OBVIOUS
  <2>2. PICK s : s = ToAll(Agents, m)
    OBVIOUS
  <2>3. sending[a] = <<>> /\ sending' = [sending EXCEPT ![a] = s]
    BY <1>3, <2>1, <2>2 DEF Procedure1, Receives
  <2>4. SentTo(Agents, m, s)
    BY <2>2, ToAllSeq, ActorsFinite
  <2>5. \A i \in DOMAIN s : s[i].m = m
    BY <2>4 DEF SentTo
  <2>6. OfNone(m) /\ Fine(m)
    BY <2>1 DEF OfNone, Fine, Talks
  <2>7. \A i \in DOMAIN s : Fine(s[i].m) /\ OfNone(s[i].m)
    BY <2>5, <2>6
  <2>8. SendingFine
    BY <2>3, <2>7, FineToo
  <2>9. sending \in [Agents -> Seq([to : Actors, m : Msg])]
    BY DEF Shape
  <2>10. \A b \in Agents : \/ sending'[b] = sending[b]
                           \/ sending[b] = <<>> /\ \A i \in DOMAIN sending'[b] : OfNone(sending'[b][i].m)
    BY <2>3, <2>7, <2>9
  <2>11. QED
    BY <1>1, <1>2, <2>8, <2>10, ReadsQuietly
<1>4. CASE Procedure2(a)
  <2>1. sending' = sending
    BY <1>4 DEF Procedure2
  <2>2. SendingFine
    BY <2>1 DEF SendingFine
  <2>3. QED
    BY <1>1, <1>2, <2>1, <2>2, ReadsQuietly
<1>5. QED
  BY <1>3, <1>4

\* An agent whose schema is there looks at its entry and leaves it as it is.
LEMMA LookQuiet ==
  ASSUME Shape, NEW a \in Actors, copy[a].schema = "made",
         copy' = [copy EXCEPT ![a].schema = IF @ = "none" THEN "null" ELSE @]
  PROVE  copy' = copy
<1>1. copy \in [Actors -> CopyType]
  BY DEF Shape, CopyType
<1>2. copy' = [copy EXCEPT ![a].schema = "made"]
  BY <1>1
<1>3. copy[a] = [copy[a] EXCEPT !.schema = "made"]
  BY <1>1 DEF CopyType
<1>4. QED
  BY <1>1, <1>2, <1>3

LEMMA CompileQuiet ==
  ASSUME Shape, NEW own, NEW job, Done(own, job), Disciplined, NEW c \in Clients,
         NEW t, NEW column, Compile(c, t, column)
  PROVE  QuietStep
<1>1. PICK a : a = AgentOf[c]
  OBVIOUS
<1>2. a \in Agents /\ a \in Actors
  BY <1>1, SchemataAssumption DEF Actors
<1>3. ToldSchema /\ sending[a] = <<>>
  BY <1>1 DEF Compile, Sends
<1>4. copy[a].schema = "made"
  BY <1>2, <1>3, ToldMade
<1>5. PICK m : m = [topic |-> "COMPILE", table |-> t, column |-> column]
  OBVIOUS
<1>6. PICK s : s = ToAll(Agents, m)
  OBVIOUS
<1>7. /\ sending' = [sending EXCEPT ![a] = s]
      /\ copy' = [copy EXCEPT ![a].schema = IF @ = "none" THEN "null" ELSE @]
      /\ UNCHANGED <<manager, mbox, operations, usmMbox, waiting, answers, up>>
  BY <1>1, <1>5, <1>6 DEF Compile, managerVars
<1>8. copy' = copy
  BY <1>2, <1>4, <1>7, LookQuiet
<1>9. \A i \in DOMAIN s : s[i].m = m
  <2>1. SentTo(Agents, m, s)
    BY <1>6, ToAllSeq, ActorsFinite
  <2>2. QED
    BY <2>1 DEF SentTo
<1>10. \A i \in DOMAIN s : Fine(s[i].m) /\ OfNone(s[i].m)
  BY <1>3, <1>5, <1>9 DEF Fine, OfNone
<1>11. SendingFine
  BY <1>2, <1>7, <1>10, FineToo
<1>12. sending \in [Agents -> Seq([to : Actors, m : Msg])]
  BY DEF Shape
<1>13. \A b \in Agents : \/ sending'[b] = sending[b]
                         \/ sending[b] = <<>> /\ \A i \in DOMAIN sending'[b] : OfNone(sending'[b][i].m)
  BY <1>2, <1>3, <1>7, <1>10, <1>12
<1>14. Quiet({}, {}, <<>>)
  BY <1>7, <1>13, MailSame DEF Quiet
<1>15. Still({}, {}, <<>>)
  BY <1>7, <1>8, <1>11, <1>14 DEF Still
<1>16. QED
  BY <1>15 DEF QuietStep

LEMMA LoginQuiet ==
  ASSUME Shape, NEW own, NEW job, Done(own, job), Disciplined, NEW c \in Clients, PgLogin(c)
  PROVE  QuietStep
<1>1. PICK a : a = AgentOf[c]
  OBVIOUS
<1>2. a \in Agents /\ a \in Actors
  BY <1>1, SchemataAssumption DEF Actors
<1>3. ToldSchema
  BY DEF PgLogin, Sends
<1>4. copy[a].schema = "made"
  BY <1>2, <1>3, ToldMade
<1>5. /\ copy' = [copy EXCEPT ![a].schema = IF @ = "none" THEN "null" ELSE @]
      /\ UNCHANGED <<manager, mbox, sending, operations, usmMbox, waiting, answers, up>>
  BY <1>1 DEF PgLogin, managerVars
<1>6. copy' = copy
  BY <1>2, <1>4, <1>5, LookQuiet
<1>7. SendingFine /\ Quiet({}, {}, <<>>)
  BY <1>5, MailSame DEF SendingFine, Quiet
<1>8. Still({}, {}, <<>>)
  BY <1>5, <1>6, <1>7 DEF Still
<1>9. QED
  BY <1>8 DEF QuietStep

LEMMA LoadQuiet ==
  ASSUME Shape, NEW c, NEW proc, LoadProcedure(c, proc)
  PROVE  QuietStep
<1>1. PICK m : m = [topic |-> "PROCEDURE1", proc |-> proc]
  OBVIOUS
<1>2. Loader \in Actors
  BY SchemataAssumption DEF Actors
<1>3. /\ mbox' = [mbox EXCEPT ![Loader] = Append(@, m)]
      /\ UNCHANGED <<manager, copy, sending, operations, usmMbox, waiting, answers, up>>
  BY <1>1 DEF LoadProcedure, managerVars, copyVars
<1>4. Mail({}, {Loader}, m)
  BY <1>2, <1>3, MailAppend
<1>5. OfNone(m) /\ Fine(m)
  BY <1>1 DEF OfNone, Fine, Talks
<1>6. SendingFine /\ Quiet({}, {Loader}, m)
  BY <1>3, <1>4, <1>5 DEF SendingFine, Quiet
<1>7. Still({}, {Loader}, m)
  BY <1>3, <1>5, <1>6 DEF Still
<1>8. QED
  BY <1>7 DEF QuietStep

-----------------------------------------------------------------------------
(* What agents are told of names, and when.                                *)

NameTopics   == {"TABLENAME", "FIELDNAME"}
CmdOf(topic) == IF topic = "TABLENAME" THEN "createtable" ELSE "addcolumn"

\* A message that names a table or a column; after a refusal it names nothing.
IsName(m) == \/ m.topic = "TABLENAME" /\ m.name # NoName
             \/ m.topic = "FIELDNAME" /\ m.tableid # 0

\* The manager's numbers mean what m says.
Right(m) ==
  /\ m.topic = "TABLENAME" => /\ m.tableid \in DOMAIN manager.tables
                              /\ manager.tables[m.tableid] = m.name
  /\ m.topic = "FIELDNAME" => /\ m.tableid \in DOMAIN manager.fields
                              /\ m.fieldid + 1 \in DOMAIN manager.fields[m.tableid]
                              /\ manager.fields[m.tableid][m.fieldid + 1] = m.name

\* x has what m names.
Made(x, m) ==
  /\ m.tableid \in DOMAIN copy[x].fields
  /\ m.topic = "FIELDNAME" => m.fieldid + 1 \in DOMAIN copy[x].fields[m.tableid]

\* The request r makes what a message with this topic names.
Makes(r, topic, id) == r.topic = "SCHEMAREQUEST" /\ r.cmd = CmdOf(topic) /\ r.tableid = id

\* x will have it before it gets to position n of its mailbox.
Ahead(x, m, n) ==
  \E j \in DOMAIN mbox[x] : j < n /\ Makes(mbox[x][j], m.topic, m.tableid)

\* a sends the request to x before its n-th message.
AheadSent(a, x, m, n) ==
  \E j \in DOMAIN sending[a] :
    j < n /\ sending[a][j].to = x /\ Makes(sending[a][j].m, m.topic, m.tableid)

PlaceOk(x, m, n) == IsName(m) => Right(m) /\ (Made(x, m) \/ Ahead(x, m, n))

SentOk(a, x, m, n) ==
  IsName(m) => Right(m) /\ (Made(x, m) \/ Ahead(x, m, Len(mbox[x]) + 1) \/ AheadSent(a, x, m, n))

NameMsgInv ==
  /\ \A x \in Actors : \A i \in DOMAIN mbox[x] : PlaceOk(x, mbox[x][i], i)
  /\ \A a \in Agents : \A i \in DOMAIN sending[a] : SentOk(a, sending[a][i].to, sending[a][i].m, i)

TableSays(id, t)      == [topic |-> "TABLENAME", tableid |-> id, fieldid |-> 0, name |-> t]
FieldSays(id, fid, n) == [topic |-> "FIELDNAME", tableid |-> id, fieldid |-> fid, name |-> n]

\* What the agents have taken note of is so, and they have it.
IsSo(a, m) == Right(m) /\ Made(a, m)

KnownInv ==
  \A a \in Agents :
    /\ \A t \in DOMAIN names[a].tables : t # NoName => IsSo(a, TableSays(names[a].tables[t], t))
    /\ \A k \in DOMAIN names[a].fields : k[1] # 0 => IsSo(a, FieldSays(k[1], names[a].fields[k], k[2]))

\* Agent x has the name, or will have it before it gets to position n of its mailbox.
Has(x, topic, id, name) ==
  \/ topic = "TABLENAME" /\ name \in DOMAIN names[x].tables
  \/ topic = "FIELDNAME" /\ <<id, name>> \in DOMAIN names[x].fields

Tells(m, topic, id, name) == m.topic = topic /\ m.tableid = id /\ m.name = name

Heard(x, topic, id, name, n) ==
  \/ Has(x, topic, id, name)
  \/ \E j \in DOMAIN mbox[x] : j < n /\ Tells(mbox[x][j], topic, id, name)

\* The manager has the table or the column.
Exists(topic, id, name) ==
  \/ topic = "TABLENAME" /\ id \in DOMAIN manager.tables /\ manager.tables[id] = name
  \/ /\ topic = "FIELDNAME" /\ id \in DOMAIN manager.fields
     /\ \E i \in DOMAIN manager.fields[id] : manager.fields[id][i] = name

\* The agent of a client is still to pass on what the manager has answered.
ToBeSent(topic, id, name, job) ==
  \E op \in DOMAIN operations : /\ operations[op].cmd = CmdOf(topic) /\ Granted(op)
                                /\ job[op[1]].tableid = id /\ job[op[1]].name = name

BeingSent(a, x, topic, id, name) ==
  \E i \in DOMAIN sending[a] : sending[a][i].to = x /\ Tells(sending[a][i].m, topic, id, name)

NamedInv(own, job) ==
  \A x \in Agents, topic \in NameTopics, id \in Nat, name \in AnyName :
    Exists(topic, id, name) => \/ Heard(x, topic, id, name, Len(mbox[x]) + 1)
                               \/ ToBeSent(topic, id, name, job)
                               \/ BeingSent(AgentOf[own[id]], x, topic, id, name)

\* What a statement names is known to x when it gets to position n of its mailbox.
Resolvable(x, m, n) ==
  \E id \in DOMAIN manager.tables :
    /\ manager.tables[id] = m.table
    /\ Heard(x, "TABLENAME", id, m.table, n) /\ Heard(x, "FIELDNAME", id, m.column, n)

CompileInv ==
  /\ \A x \in Agents : \A i \in DOMAIN mbox[x] :
       mbox[x][i].topic = "COMPILE" => Resolvable(x, mbox[x][i], i)
  /\ \A a \in Agents : \A i \in DOMAIN sending[a] :
       sending[a][i].m.topic = "COMPILE" =>
         /\ sending[a][i].to \in Agents
         /\ Resolvable(sending[a][i].to, sending[a][i].m, Len(mbox[sending[a][i].to]) + 1)

\* The numbers in a statement are those of its names, and a has them.
ResolvedTo(a, st, ids) ==
  /\ ids[1] \in DOMAIN copy[a].fields /\ manager.tables[ids[1]] = st[1]
  /\ ids[2] + 1 \in DOMAIN copy[a].fields[ids[1]]
  /\ copy[a].fields[ids[1]][ids[2] + 1] = st[2]

StatementsInv ==
  \A a \in Agents : \A st \in DOMAIN statements[a] : ResolvedTo(a, st, statements[a][st])

\* A refused createtable announces the empty name.
TablesAreNamed == NoName \notin TableNames

Naming(own, job) == NameMsgInv /\ KnownInv /\ NamedInv(own, job) /\ CompileInv /\ StatementsInv

-----------------------------------------------------------------------------
(* Nothing that has been said becomes wrong.                               *)

ManagerGrows ==
  /\ \A id \in DOMAIN manager.tables : /\ id \in DOMAIN manager'.tables
                                       /\ manager'.tables[id] = manager.tables[id]
  /\ \A id \in DOMAIN manager.fields :
       /\ id \in DOMAIN manager'.fields
       /\ \A i \in DOMAIN manager.fields[id] : /\ i \in DOMAIN manager'.fields[id]
                                               /\ manager'.fields[id][i] = manager.fields[id][i]

NamesGrow ==
  \A a \in Agents : /\ DOMAIN names[a].tables \subseteq DOMAIN names'[a].tables
                    /\ DOMAIN names[a].fields \subseteq DOMAIN names'[a].fields

\* z has done what it has read.
Heeded(z) ==
  /\ \A q \in NameMsg : Right(q) /\ Makes(mbox[z][1], q.topic, q.tableid) => Made(z, q)'
  /\ z \in Agents => \A topic \in NameTopics, id \in Nat, name \in AnyName :
                       Tells(mbox[z][1], topic, id, name) => Has(z, topic, id, name)'

NameFrame(pop, add, m) ==
  Mail(pop, add, m) /\ CopiesGrow /\ ManagerGrows /\ NamesGrow /\ \A z \in pop : Heeded(z)

LEMMA RightStays ==
  ASSUME ManagerGrows, NEW q, Right(q)
  PROVE  Right(q)'
  BY DEF ManagerGrows, Right

LEMMA MadeStays ==
  ASSUME CopiesGrow, NEW x \in Actors, NEW q, Made(x, q)
  PROVE  Made(x, q)'
  BY DEF CopiesGrow, Made

LEMMA AheadMoves ==
  ASSUME Shape, Shape', NEW pop, NEW add, NEW m, NameFrame(pop, add, m), NEW x \in Actors,
         NEW q \in NameMsg, Right(q), NEW n \in Nat, Ahead(x, q, n)
  PROVE  Made(x, q)' \/ Ahead(x, q, n - Pops(pop, x))'
<1>1. PICK j \in DOMAIN mbox[x] : j < n /\ Makes(mbox[x][j], q.topic, q.tableid)
  BY DEF Ahead
<1>2. PICK p : p = Pops(pop, x)
  OBVIOUS
<1>3. /\ p \in {0, 1} /\ (p = 1 <=> x \in pop) /\ j \in Nat /\ j >= 1
      /\ j > p => j - p \in DOMAIN mbox'[x] /\ mbox'[x][j - p] = mbox[x][j]
  BY <1>2, MailFacts, Boxes DEF NameFrame, Pops
<1>4. CASE j > p
  <2>1. PICK k : k = j - p
    OBVIOUS
  <2>2. k \in DOMAIN mbox'[x] /\ k < n - p /\ mbox'[x][k] = mbox[x][j]
    BY <1>1, <1>3, <1>4, <2>1
  <2>3. Ahead(x, q, n - p)'
    BY <1>1, <2>2 DEF Ahead, Makes
  <2>4. QED
    BY <1>2, <2>3
<1>5. CASE ~(j > p)
  <2>1. j = 1 /\ x \in pop
    BY <1>3, <1>5
  <2>2. Heeded(x)
    BY <2>1 DEF NameFrame
  <2>3. Made(x, q)'
    BY <1>1, <2>1, <2>2 DEF Heeded
  <2>4. QED
    BY <2>3
<1>6. QED
  BY <1>4, <1>5

LEMMA HeardMoves ==
  ASSUME Shape, Shape', NEW pop, NEW add, NEW m, NameFrame(pop, add, m), NEW x \in Agents,
         NEW topic \in NameTopics, NEW id \in Nat, NEW name \in AnyName, NEW n \in Nat,
         Heard(x, topic, id, name, n)
  PROVE  Heard(x, topic, id, name, n - Pops(pop, x))'
<1>1. x \in Actors
  BY DEF Actors
<1>2. CASE Has(x, topic, id, name)
  <2>1. Has(x, topic, id, name)'
    BY <1>2 DEF Has, NameFrame, NamesGrow
  <2>2. QED
    BY <2>1 DEF Heard
<1>3. CASE \E j \in DOMAIN mbox[x] : j < n /\ Tells(mbox[x][j], topic, id, name)
  <2>1. PICK j \in DOMAIN mbox[x] : j < n /\ Tells(mbox[x][j], topic, id, name)
    BY <1>3
  <2>2. PICK p : p = Pops(pop, x)
    OBVIOUS
  <2>3. /\ p \in {0, 1} /\ (p = 1 <=> x \in pop) /\ j \in Nat /\ j >= 1
        /\ j > p => j - p \in DOMAIN mbox'[x] /\ mbox'[x][j - p] = mbox[x][j]
    BY <1>1, <2>2, MailFacts, Boxes DEF NameFrame, Pops
  <2>4. CASE j > p
    <3>1. PICK k : k = j - p
      OBVIOUS
    <3>2. k \in DOMAIN mbox'[x] /\ k < n - p /\ Tells(mbox'[x][k], topic, id, name)
      BY <2>1, <2>3, <2>4, <3>1
    <3>3. QED
      BY <2>2, <3>2 DEF Heard, Tells
  <2>5. CASE ~(j > p)
    <3>1. j = 1 /\ x \in pop
      BY <2>3, <2>5
    <3>2. Heeded(x)
      BY <3>1 DEF NameFrame
    <3>3. Tells(mbox[x][1], topic, id, name)
      BY <2>1, <3>1
    <3>4. Has(x, topic, id, name)'
      BY <3>2, <3>3 DEF Heeded
    <3>5. QED
      BY <3>4 DEF Heard
  <2>6. QED
    BY <2>4, <2>5
<1>4. QED
  BY <1>2, <1>3 DEF Heard

LEMMA NameTyped ==
  ASSUME NEW m \in Msg, IsName(m)
  PROVE  m \in NameMsg /\ m.topic \in NameTopics
  BY Topics DEF IsName, NameTopics

LEMMA AheadLast ==
  ASSUME Shape', NEW x \in Actors, NEW q, NEW n, Ahead(x, q, n)'
  PROVE  Ahead(x, q, Len(mbox[x]) + 1)'
<1>1. PICK j \in DOMAIN mbox'[x] : Makes(mbox'[x][j], q.topic, q.tableid)
  BY DEF Ahead, Makes
<1>2. j < Len(mbox'[x]) + 1
  BY BoxesNext
<1>3. QED
  BY <1>1, <1>2 DEF Ahead, Makes

LEMMA HeardLast ==
  ASSUME Shape', NEW x \in Agents, NEW topic, NEW id, NEW name, NEW n, Heard(x, topic, id, name, n)'
  PROVE  Heard(x, topic, id, name, Len(mbox[x]) + 1)'
<1>1. x \in Actors
  BY DEF Actors
<1>2. \A j \in DOMAIN mbox'[x] : j < Len(mbox'[x]) + 1
  BY <1>1, BoxesNext
<1>3. QED
  BY <1>2 DEF Heard, Has, Tells

LEMMA PlaceMoves ==
  ASSUME Shape, Shape', NEW pop, NEW add, NEW m, NameFrame(pop, add, m), NEW x \in Actors,
         NEW q \in Msg, NEW n \in Nat, PlaceOk(x, q, n)
  PROVE  PlaceOk(x, q, n - Pops(pop, x))'
<1>1. SUFFICES ASSUME IsName(q)
               PROVE  Right(q)' /\ (Made(x, q)' \/ Ahead(x, q, n - Pops(pop, x))')
  BY DEF PlaceOk, IsName
<1>2. q \in NameMsg /\ Right(q) /\ (Made(x, q) \/ Ahead(x, q, n))
  BY <1>1, NameTyped DEF PlaceOk
<1>3. CopiesGrow /\ ManagerGrows
  BY DEF NameFrame
<1>4. Right(q)'
  BY <1>2, <1>3, RightStays
<1>5. Made(x, q)' \/ Ahead(x, q, n - Pops(pop, x))'
  BY <1>2, <1>3, MadeStays, AheadMoves
<1>6. QED
  BY <1>4, <1>5

\* What a is to send as its n-th message stays in order when a has not moved.
LEMMA SentMoves ==
  ASSUME Shape, Shape', NEW pop, NEW add, NEW m, NameFrame(pop, add, m), NEW x \in Actors,
         NEW a \in Agents, sending'[a] = sending[a],
         NEW q \in Msg, NEW n, SentOk(a, x, q, n)
  PROVE  SentOk(a, x, q, n)'
<1>1. SUFFICES ASSUME IsName(q)
               PROVE  /\ Right(q)'
                      /\ Made(x, q)' \/ Ahead(x, q, Len(mbox[x]) + 1)' \/ AheadSent(a, x, q, n)'
  BY DEF SentOk, IsName
<1>2. /\ q \in NameMsg /\ Right(q)
      /\ Made(x, q) \/ Ahead(x, q, Len(mbox[x]) + 1) \/ AheadSent(a, x, q, n)
  BY <1>1, NameTyped DEF SentOk
<1>3. CopiesGrow /\ ManagerGrows
  BY DEF NameFrame
<1>4. Right(q)'
  BY <1>2, <1>3, RightStays
<1>5. ASSUME Made(x, q) PROVE Made(x, q)'
  BY <1>3, <1>5, MadeStays
<1>6. ASSUME Ahead(x, q, Len(mbox[x]) + 1)
      PROVE  Made(x, q)' \/ Ahead(x, q, Len(mbox[x]) + 1)'
  <2>1. PICK k : k = Len(mbox[x]) + 1
    OBVIOUS
  <2>2. k \in Nat
    BY <2>1, Boxes
  <2>3. Made(x, q)' \/ Ahead(x, q, k - Pops(pop, x))'
    BY <1>2, <1>6, <2>1, <2>2, AheadMoves
  <2>4. PICK l : l = k - Pops(pop, x)
    OBVIOUS
  <2>5. Made(x, q)' \/ Ahead(x, q, l)'
    BY <2>3, <2>4
  <2>6. QED
    BY <2>5, AheadLast
<1>7. ASSUME AheadSent(a, x, q, n) PROVE AheadSent(a, x, q, n)'
  BY <1>7 DEF AheadSent, Makes
<1>8. QED
  BY <1>2, <1>4, <1>5, <1>6, <1>7

\* What an agent is to send is what it was, or new and in order.
NewSent(a) ==
  \A i \in DOMAIN sending'[a], x \in Actors, q \in Msg :
    sending'[a][i].to = x /\ sending'[a][i].m = q => SentOk(a, x, q, i)'

LEMMA NameMsgKept ==
  ASSUME Shape, Shape', NameMsgInv, NEW pop, NEW add, NEW m, NameFrame(pop, add, m),
         \A z \in add : PlaceOk(z, m, Len(mbox[z]))',
         \A a \in Agents : sending'[a] = sending[a] \/ NewSent(a)
  PROVE  NameMsgInv'
<1>1. ASSUME NEW x \in Actors, NEW i \in DOMAIN mbox'[x]
      PROVE  PlaceOk(x, mbox[x][i], i)'
  <2>1. PICK q : q = mbox'[x][i]
    OBVIOUS
  <2>2. q \in Msg
    BY <2>1, BoxesNext
  <2>3. \/ i + Pops(pop, x) \in DOMAIN mbox[x] /\ q = mbox[x][i + Pops(pop, x)]
        \/ x \in add /\ i = Len(mbox'[x]) /\ q = m
    BY <2>1, MailFacts DEF NameFrame
  <2>4. ASSUME i + Pops(pop, x) \in DOMAIN mbox[x], q = mbox[x][i + Pops(pop, x)]
        PROVE  PlaceOk(x, q, i)'
    <3>1. PICK n, p : n = i + p /\ p = Pops(pop, x)
      OBVIOUS
    <3>2. n \in Nat /\ PlaceOk(x, q, n)
      BY <2>4, <3>1, Boxes DEF NameMsgInv
    <3>3. PlaceOk(x, q, n - p)'
      BY <2>2, <3>1, <3>2, PlaceMoves
    <3>4. n - p = i
      BY <3>1, BoxesNext, MailFacts DEF NameFrame
    <3>5. QED
      BY <3>3, <3>4
  <2>5. ASSUME x \in add, i = Len(mbox'[x]), q = m
        PROVE  PlaceOk(x, q, i)'
    <3>1. PlaceOk(x, m, Len(mbox[x]))'
      BY <2>5
    <3>2. QED
      BY <2>5, <3>1
  <2>6. PlaceOk(x, q, i)'
    BY <2>3, <2>4, <2>5
  <2>7. QED
    BY <2>1, <2>6
<1>2. ASSUME NEW a \in Agents, NEW i \in DOMAIN sending'[a]
      PROVE  SentOk(a, sending[a][i].to, sending[a][i].m, i)'
  <2>1. PICK x, q : x = sending'[a][i].to /\ q = sending'[a][i].m
    OBVIOUS
  <2>2. x \in Actors /\ q \in Msg
    BY <2>1, SendingsNext
  <2>3. ASSUME sending'[a] = sending[a] PROVE SentOk(a, x, q, i)'
    <3>1. SentOk(a, x, q, i)
      BY <2>1, <2>3 DEF NameMsgInv
    <3>2. QED
      BY <2>2, <2>3, <3>1, SentMoves
  <2>4. ASSUME NewSent(a) PROVE SentOk(a, x, q, i)'
    BY <2>1, <2>2, <2>4 DEF NewSent
  <2>5. SentOk(a, x, q, i)'
    BY <2>3, <2>4
  <2>6. QED
    BY <2>1, <2>5
<1>3. QED
  BY <1>1, <1>2 DEF NameMsgInv

LEMMA ResolvableMoves ==
  ASSUME Shape, Shape', NEW pop, NEW add, NEW m, NameFrame(pop, add, m), NEW x \in Agents,
         NEW q \in CompileMsg, NEW n \in Nat, Resolvable(x, q, n)
  PROVE  Resolvable(x, q, n - Pops(pop, x))'
<1>1. PICK id \in DOMAIN manager.tables :
        /\ manager.tables[id] = q.table
        /\ Heard(x, "TABLENAME", id, q.table, n) /\ Heard(x, "FIELDNAME", id, q.column, n)
  BY DEF Resolvable
<1>2. PICK t, c : t = q.table /\ c = q.column
  OBVIOUS
<1>3. id \in Nat /\ t \in AnyName /\ c \in AnyName
  BY <1>2, FieldsTypes DEF CompileMsg, AnyName
<1>4. id \in DOMAIN manager'.tables /\ manager'.tables[id] = q.table
  BY <1>1 DEF NameFrame, ManagerGrows
<1>5. Heard(x, "TABLENAME", id, t, n - Pops(pop, x))'
  BY <1>1, <1>2, <1>3, HeardMoves DEF NameTopics
<1>6. Heard(x, "FIELDNAME", id, c, n - Pops(pop, x))'
  BY <1>1, <1>2, <1>3, HeardMoves DEF NameTopics
<1>7. QED
  BY <1>2, <1>4, <1>5, <1>6 DEF Resolvable

LEMMA ResolvableLast ==
  ASSUME Shape', NEW x \in Agents, NEW q, NEW n, Resolvable(x, q, n)'
  PROVE  Resolvable(x, q, Len(mbox[x]) + 1)'
<1>1. PICK id \in DOMAIN manager'.tables :
        /\ manager'.tables[id] = q.table
        /\ Heard(x, "TABLENAME", id, q.table, n)' /\ Heard(x, "FIELDNAME", id, q.column, n)'
  BY DEF Resolvable
<1>2. /\ Heard(x, "TABLENAME", id, q.table, Len(mbox[x]) + 1)'
      /\ Heard(x, "FIELDNAME", id, q.column, Len(mbox[x]) + 1)'
  BY <1>1, HeardLast
<1>3. QED
  BY <1>1, <1>2 DEF Resolvable

\* The statements an agent is to send are what they were, or new and in order.
NewCompiles(a) ==
  \A i \in DOMAIN sending'[a], x \in Actors, q \in Msg :
    sending'[a][i].to = x /\ sending'[a][i].m = q /\ q.topic = "COMPILE" =>
      x \in Agents /\ Resolvable(x, q, Len(mbox[x]) + 1)'

LEMMA CompileKept ==
  ASSUME Shape, Shape', CompileInv, NEW pop, NEW add, NEW m, NameFrame(pop, add, m),
         \A z \in add : m.topic = "COMPILE" /\ z \in Agents => Resolvable(z, m, Len(mbox[z]))',
         \A a \in Agents : sending'[a] = sending[a] \/ NewCompiles(a)
  PROVE  CompileInv'
<1>1. ASSUME NEW x \in Agents, NEW i \in DOMAIN mbox'[x], mbox'[x][i].topic = "COMPILE"
      PROVE  Resolvable(x, mbox[x][i], i)'
  <2>1. PICK q : q = mbox'[x][i]
    OBVIOUS
  <2>2. x \in Actors /\ q \in CompileMsg
    BY <1>1, <2>1, BoxesNext, Topics DEF Actors
  <2>3. \/ i + Pops(pop, x) \in DOMAIN mbox[x] /\ q = mbox[x][i + Pops(pop, x)]
        \/ x \in add /\ i = Len(mbox'[x]) /\ q = m
    BY <2>1, <2>2, MailFacts DEF NameFrame
  <2>4. ASSUME i + Pops(pop, x) \in DOMAIN mbox[x], q = mbox[x][i + Pops(pop, x)]
        PROVE  Resolvable(x, q, i)'
    <3>1. PICK n, p : n = i + p /\ p = Pops(pop, x)
      OBVIOUS
    <3>2. n \in Nat /\ Resolvable(x, q, n)
      BY <1>1, <2>1, <2>2, <2>4, <3>1, Boxes DEF CompileInv
    <3>3. Resolvable(x, q, n - p)'
      BY <2>2, <3>1, <3>2, ResolvableMoves
    <3>4. n - p = i
      BY <2>2, <3>1, BoxesNext, MailFacts DEF NameFrame
    <3>5. QED
      BY <3>3, <3>4
  <2>5. ASSUME x \in add, i = Len(mbox'[x]), q = m
        PROVE  Resolvable(x, q, i)'
    <3>1. Resolvable(x, m, Len(mbox[x]))'
      BY <1>1, <2>1, <2>5
    <3>2. QED
      BY <2>5, <3>1
  <2>6. Resolvable(x, q, i)'
    BY <2>3, <2>4, <2>5
  <2>7. QED
    BY <2>1, <2>6
<1>2. ASSUME NEW a \in Agents, NEW i \in DOMAIN sending'[a], sending'[a][i].m.topic = "COMPILE"
      PROVE  /\ sending'[a][i].to \in Agents
             /\ Resolvable(sending[a][i].to, sending[a][i].m, Len(mbox[sending[a][i].to]) + 1)'
  <2>1. PICK x, q : x = sending'[a][i].to /\ q = sending'[a][i].m
    OBVIOUS
  <2>2. x \in Actors /\ q \in Msg /\ q \in CompileMsg
    BY <1>2, <2>1, SendingsNext, Topics
  <2>3. ASSUME sending'[a] = sending[a]
        PROVE  x \in Agents /\ Resolvable(x, q, Len(mbox[x]) + 1)'
    <3>1. PICK n : n = Len(mbox[x]) + 1
      OBVIOUS
    <3>2. x \in Agents /\ n \in Nat /\ Resolvable(x, q, n)
      BY <1>2, <2>1, <2>2, <2>3, <3>1, Boxes DEF CompileInv
    <3>3. PICK l : l = n - Pops(pop, x)
      OBVIOUS
    <3>4. Resolvable(x, q, l)'
      BY <2>2, <3>2, <3>3, ResolvableMoves
    <3>5. QED
      BY <3>2, <3>4, ResolvableLast
  <2>4. ASSUME NewCompiles(a)
        PROVE  x \in Agents /\ Resolvable(x, q, Len(mbox[x]) + 1)'
    BY <1>2, <2>1, <2>2, <2>4 DEF NewCompiles
  <2>5. x \in Agents /\ Resolvable(x, q, Len(mbox[x]) + 1)'
    BY <2>3, <2>4
  <2>6. QED
    BY <2>1, <2>5
<1>3. QED
  BY <1>1, <1>2 DEF CompileInv

LEMMA SoStays ==
  ASSUME CopiesGrow, ManagerGrows, NEW a \in Agents, NEW q, IsSo(a, q)
  PROVE  IsSo(a, q)'
<1>1. a \in Actors
  BY DEF Actors
<1>2. QED
  BY <1>1, RightStays, MadeStays DEF IsSo

LEMMA KnownKept ==
  ASSUME KnownInv, CopiesGrow, ManagerGrows, UNCHANGED names
  PROVE  KnownInv'
<1>1. ASSUME NEW a \in Agents, NEW t \in DOMAIN names'[a].tables, t # NoName
      PROVE  IsSo(a, TableSays(names[a].tables[t], t))'
  <2>1. PICK q : q = TableSays(names[a].tables[t], t)
    OBVIOUS
  <2>2. IsSo(a, q)
    BY <1>1, <2>1 DEF KnownInv
  <2>3. IsSo(a, q)'
    BY <2>2, SoStays
  <2>4. q = TableSays(names[a].tables[t], t)'
    BY <2>1 DEF TableSays
  <2>5. QED
    BY <2>3, <2>4
<1>2. ASSUME NEW a \in Agents, NEW k \in DOMAIN names'[a].fields, k[1] # 0
      PROVE  IsSo(a, FieldSays(k[1], names[a].fields[k], k[2]))'
  <2>1. PICK q : q = FieldSays(k[1], names[a].fields[k], k[2])
    OBVIOUS
  <2>2. IsSo(a, q)
    BY <1>2, <2>1 DEF KnownInv
  <2>3. IsSo(a, q)'
    BY <2>2, SoStays
  <2>4. q = FieldSays(k[1], names[a].fields[k], k[2])'
    BY <2>1 DEF FieldSays
  <2>5. QED
    BY <2>3, <2>4
<1>3. QED
  BY <1>1, <1>2 DEF KnownInv

LEMMA ResolvedStays ==
  ASSUME Shape, NEW own, NEW job, Done(own, job), CopiesGrow, ManagerGrows,
         NEW a \in Agents, NEW st, NEW ids, ResolvedTo(a, st, ids)
  PROVE  ResolvedTo(a, st, ids)'
<1>1. a \in Actors /\ ids[1] \in DOMAIN copy[a].fields
  BY DEF Actors, ResolvedTo
<1>2. ids[1] \in DOMAIN manager.tables
  BY <1>1, FieldsTypes DEF Done, CopyInv
<1>3. manager'.tables[ids[1]] = manager.tables[ids[1]]
  BY <1>2 DEF ManagerGrows
<1>4. QED
  BY <1>1, <1>3 DEF ResolvedTo, CopiesGrow

LEMMA StatementsKept ==
  ASSUME Shape, NEW own, NEW job, Done(own, job), StatementsInv, CopiesGrow, ManagerGrows,
         UNCHANGED statements
  PROVE  StatementsInv'
<1>1. ASSUME NEW a \in Agents, NEW st \in DOMAIN statements'[a]
      PROVE  ResolvedTo(a, st, statements[a][st])'
  <2>1. PICK ids : ids = statements[a][st]
    OBVIOUS
  <2>2. ResolvedTo(a, st, ids)
    BY <2>1 DEF StatementsInv
  <2>3. ResolvedTo(a, st, ids)'
    BY <2>2, ResolvedStays
  <2>4. ids = statements'[a][st]
    BY <2>1
  <2>5. QED
    BY <2>3, <2>4
<1>2. QED
  BY <1>1 DEF StatementsInv

-----------------------------------------------------------------------------
(* A name that the manager has answered does not get lost.                 *)

\* What u's answer names is on its way to every agent.
NamesSent(u, own, job) ==
  LET id == job[u[1]].tableid IN
  \A x \in Agents, topic \in NameTopics :
    operations[u].cmd = CmdOf(topic) => BeingSent(AgentOf[own[id]], x, topic, id, job[u[1]].name)'

GrantStays(op, job, job2) ==
  /\ op \in DOMAIN operations' /\ Granted(op)' /\ operations'[op].cmd = operations[op].cmd
  /\ job2[op[1]] = job[op[1]]

\* What was to be sent still is, or has been sent.
SendingStays ==
  \A b \in Agents : \A i \in DOMAIN sending[b] :
    \/ \E j \in DOMAIN sending'[b] : sending'[b][j] = sending[b][i]
    \/ \E j \in DOMAIN mbox'[sending[b][i].to] : mbox'[sending[b][i].to][j] = sending[b][i].m

\* New names are still to be sent.
NewNames(own, job, own2, job2) ==
  \A topic \in NameTopics, id \in Nat, name \in AnyName :
    Exists(topic, id, name)' => \/ Exists(topic, id, name) /\ own2[id] = own[id]
                                \/ ToBeSent(topic, id, name, job2)'

LEMMA ExistsIn ==
  ASSUME Shape, NEW topic, NEW id, NEW name, Exists(topic, id, name)
  PROVE  id \in DOMAIN manager.tables /\ id \in DOMAIN manager.fields
<1>1. /\ DOMAIN manager.tables = 1 .. Len(manager.tables)
      /\ DOMAIN manager.fields = 1 .. Len(manager.fields)
      /\ Len(manager.tables) = Len(manager.fields)
  BY DEF Shape
<1>2. QED
  BY <1>1 DEF Exists

LEMMA NamedKept ==
  ASSUME Shape, Shape', NEW own \in [DOMAIN manager.tables -> Clients], NEW job, NEW own2, NEW job2,
         NamedInv(own, job), NEW pop, NEW add, NEW m, NameFrame(pop, add, m), SendingStays,
         NewNames(own, job, own2, job2),
         \A op \in DOMAIN operations :
           Granted(op) => GrantStays(op, job, job2) \/ NamesSent(op, own, job)
  PROVE  NamedInv(own2, job2)'
<1>1. SUFFICES ASSUME NEW x \in Agents, NEW topic \in NameTopics, NEW id \in Nat, NEW name \in AnyName,
                      Exists(topic, id, name), own2[id] = own[id]
               PROVE  \/ Heard(x, topic, id, name, Len(mbox[x]) + 1)'
                      \/ ToBeSent(topic, id, name, job2)'
                      \/ BeingSent(AgentOf[own2[id]], x, topic, id, name)'
  BY DEF NamedInv, NewNames
<1>2. PICK b : b = AgentOf[own[id]]
  OBVIOUS
<1>3. b \in Agents /\ x \in Actors
  BY <1>1, <1>2, ExistsIn, SchemataAssumption DEF Actors
<1>4. ASSUME Heard(x, topic, id, name, Len(mbox[x]) + 1)
      PROVE  Heard(x, topic, id, name, Len(mbox[x]) + 1)'
  <2>1. PICK k : k = Len(mbox[x]) + 1
    OBVIOUS
  <2>2. k \in Nat
    BY <1>3, <2>1, Boxes
  <2>3. PICK l : l = k - Pops(pop, x)
    OBVIOUS
  <2>4. Heard(x, topic, id, name, l)'
    BY <1>4, <2>1, <2>2, <2>3, HeardMoves
  <2>5. QED
    BY <2>4, HeardLast
<1>5. ASSUME ToBeSent(topic, id, name, job)
      PROVE  ToBeSent(topic, id, name, job2)' \/ BeingSent(b, x, topic, id, name)'
  <2>1. PICK op \in DOMAIN operations :
          /\ operations[op].cmd = CmdOf(topic) /\ Granted(op)
          /\ job[op[1]].tableid = id /\ job[op[1]].name = name
    BY <1>5 DEF ToBeSent
  <2>2. ASSUME GrantStays(op, job, job2) PROVE ToBeSent(topic, id, name, job2)'
    BY <2>1, <2>2 DEF GrantStays, ToBeSent
  <2>3. ASSUME NamesSent(op, own, job) PROVE BeingSent(b, x, topic, id, name)'
    BY <1>2, <2>1, <2>3 DEF NamesSent
  <2>4. QED
    BY <2>1, <2>2, <2>3
<1>6. ASSUME BeingSent(b, x, topic, id, name)
      PROVE  \/ BeingSent(b, x, topic, id, name)'
             \/ Heard(x, topic, id, name, Len(mbox[x]) + 1)'
  <2>1. PICK i \in DOMAIN sending[b] : /\ sending[b][i].to = x
                                       /\ Tells(sending[b][i].m, topic, id, name)
    BY <1>6 DEF BeingSent
  <2>2. ASSUME NEW j \in DOMAIN sending'[b], sending'[b][j] = sending[b][i]
        PROVE  BeingSent(b, x, topic, id, name)'
    BY <2>1, <2>2 DEF BeingSent, Tells
  <2>3. ASSUME NEW j \in DOMAIN mbox'[x], mbox'[x][j] = sending[b][i].m
        PROVE  Heard(x, topic, id, name, Len(mbox[x]) + 1)'
    <3>1. j < Len(mbox'[x]) + 1
      BY <1>3, <2>3, BoxesNext
    <3>2. QED
      BY <2>1, <2>3, <3>1 DEF Heard, Tells
  <2>4. QED
    BY <1>3, <2>1, <2>2, <2>3 DEF SendingStays
<1>7. \/ Heard(x, topic, id, name, Len(mbox[x]) + 1) \/ ToBeSent(topic, id, name, job)
      \/ BeingSent(b, x, topic, id, name)
  BY <1>1, <1>2 DEF NamedInv
<1>8. b = AgentOf[own2[id]]
  BY <1>1, <1>2
<1>9. QED
  BY <1>4, <1>5, <1>6, <1>7, <1>8

-----------------------------------------------------------------------------
(* What a step has to do.                                                  *)

\* A message that has come is in order.
Placed(add, m) ==
  \A z \in add : /\ PlaceOk(z, m, Len(mbox[z]))'
                 /\ m.topic = "COMPILE" /\ z \in Agents => Resolvable(z, m, Len(mbox[z]))'

SendingNew ==
  \A a \in Agents : sending'[a] = sending[a] \/ (NewSent(a) /\ NewCompiles(a))

Granting(own, job, job2) ==
  \A op \in DOMAIN operations : Granted(op) => GrantStays(op, job, job2) \/ NamesSent(op, own, job)

NamingStep(own, job, own2, job2) ==
  /\ \E pop, add, m : NameFrame(pop, add, m) /\ Placed(add, m)
  /\ SendingNew /\ SendingStays
  /\ NewNames(own, job, own2, job2) /\ Granting(own, job, job2)

LEMMA NamingKept ==
  ASSUME Shape, Shape', NEW own \in [DOMAIN manager.tables -> Clients], NEW job, NEW own2, NEW job2,
         Naming(own, job), NamingStep(own, job, own2, job2), KnownInv', StatementsInv'
  PROVE  Naming(own2, job2)'
<1>1. PICK pop, add, m : NameFrame(pop, add, m) /\ Placed(add, m)
  BY DEF NamingStep
<1>2. NameMsgInv /\ NamedInv(own, job) /\ CompileInv
  BY DEF Naming
<1>3. NameMsgInv'
  BY <1>1, <1>2, NameMsgKept DEF NamingStep, Placed, SendingNew
<1>4. CompileInv'
  BY <1>1, <1>2, CompileKept DEF NamingStep, Placed, SendingNew
<1>5. NamedInv(own2, job2)'
  BY <1>1, <1>2, NamedKept DEF NamingStep, Granting
<1>6. QED
  BY <1>3, <1>4, <1>5 DEF Naming

\* The manager has done nothing.
LEMMA NothingNew ==
  ASSUME UNCHANGED manager, NEW own, NEW job, NEW job2
  PROVE  ManagerGrows /\ NewNames(own, job, own, job2)
  BY DEF ManagerGrows, NewNames, Exists

LEMMA NamesSame ==
  ASSUME UNCHANGED names
  PROVE  NamesGrow
  BY DEF NamesGrow

LEMMA SendingSame ==
  ASSUME UNCHANGED sending
  PROVE  SendingNew /\ SendingStays
  BY DEF SendingNew, SendingStays

LEMMA CopiesSame ==
  ASSUME UNCHANGED copy
  PROVE  CopiesGrow
  BY DEF CopiesGrow

\* A message that names nothing and is no statement.
Silent(m) == m.topic \notin {"TABLENAME", "FIELDNAME", "COMPILE"}

LEMMA SilentPlaced ==
  ASSUME NEW add, NEW m, Silent(m)
  PROVE  Placed(add, m)
  BY DEF Placed, PlaceOk, IsName, Silent

\* Reading a message that is no request and names nothing needs nothing.
LEMMA NothingHeeded ==
  ASSUME NEW z, mbox[z][1].topic \notin {"TABLENAME", "FIELDNAME", "SCHEMAREQUEST"}
  PROVE  Heeded(z)
  BY DEF Heeded, Makes, Tells, NameTopics

LEMMA FrameGrants ==
  ASSUME NEW u, NEW job, NEW job2, Frame(u, job, job2), NEW op \in DOMAIN operations, op # u, Granted(op)
  PROVE  GrantStays(op, job, job2)
  BY DEF Frame, SameOp, GrantStays

LEMMA StayGrants ==
  ASSUME NEW own, NEW job, UNCHANGED operations, \A op \in DOMAIN operations : Stays(op)
  PROVE  Granting(own, job, job)
  BY DEF Stays, Granting, GrantStays

\* A step that changes neither the manager nor what agents have taken note of.
LEMMA NamingStays ==
  ASSUME Shape, Shape', NEW own \in [DOMAIN manager.tables -> Clients], NEW job,
         Done(own, job), Naming(own, job), UNCHANGED <<manager, names, statements>>, CopiesGrow,
         NEW pop, NEW add, NEW m, Mail(pop, add, m), \A z \in pop : Heeded(z), Placed(add, m),
         SendingNew, SendingStays, Granting(own, job, job)
  PROVE  Naming(own, job)'
<1>1. ManagerGrows /\ NewNames(own, job, own, job)
  BY NothingNew
<1>2. NameFrame(pop, add, m)
  BY <1>1, NamesSame DEF NameFrame
<1>3. NamingStep(own, job, own, job)
  BY <1>1, <1>2 DEF NamingStep
<1>4. KnownInv'
  BY <1>1, KnownKept DEF Naming
<1>5. StatementsInv'
  BY <1>1, StatementsKept DEF Naming
<1>6. QED
  BY <1>3, <1>4, <1>5, NamingKept

LEMMA NamingStart ==
  ASSUME Shape, Shape', NEW own \in [DOMAIN manager.tables -> Clients], NEW job,
         Operational(job), Done(own, job), Naming(own, job), NEW c \in Clients,
         NEW cmd, NEW table, NEW column, NEW u, StartStep(c, cmd, table, column, u)
  PROVE  Naming(own, job)'
<1>1. StepOf(u, {}, {}, <<>>, job, job)
  BY StartSame
<1>2. Mail({}, {}, <<>>) /\ Frame(u, job, job)
  BY <1>1, FrameStep DEF StepOf
<1>3. /\ UNCHANGED <<manager, names, statements>> /\ CopiesGrow /\ SendingNew /\ SendingStays
      /\ u \notin DOMAIN operations
  BY CopiesSame, SendingSame DEF StartStep
<1>4. Granting(own, job, job)
  BY <1>2, <1>3, FrameGrants DEF Granting
<1>5. Placed({}, <<>>)
  BY DEF Placed
<1>6. QED
  BY <1>2, <1>3, <1>4, <1>5, NamingStays

\* Counting an answer, and the last one.
LEMMA NamingCount ==
  ASSUME Shape, Shape', NEW own \in [DOMAIN manager.tables -> Clients], NEW job,
         Operational(job), Done(own, job), Naming(own, job), NEW a \in Agents, NEW m, NEW u,
         LastStep(a, m, u) \/ CountStep(a, m, u)
  PROVE  Naming(own, job)'
<1>1. /\ ReplyStep(a, m, u) /\ sending' = sending /\ ~Granted(u)
      /\ StepOf(u, {a}, {}, <<>>, job, job)
  BY EndSame, CountSame DEF LastStep, CountStep, EndStep, Granted
<1>2. Mail({a}, {}, <<>>) /\ Frame(u, job, job)
  BY <1>1, FrameStep DEF StepOf
<1>3. /\ UNCHANGED <<manager, names, statements>> /\ CopiesGrow /\ SendingNew /\ SendingStays
  BY <1>1, CopiesSame, SendingSame DEF ReplyStep
<1>4. Granting(own, job, job)
  BY <1>1, <1>2, FrameGrants DEF Granting
<1>5. Placed({}, <<>>)
  BY DEF Placed
<1>6. Heeded(a)
  BY <1>1, NothingHeeded DEF ReplyStep, IsReply
<1>7. QED
  BY <1>2, <1>3, <1>4, <1>5, <1>6, NamingStays

\* After a refusal the agents are told no name.
LEMMA NamingRefused ==
  ASSUME Shape, Shape', NEW own \in [DOMAIN manager.tables -> Clients], NEW job,
         Operational(job), Done(own, job), Naming(own, job), NEW a \in Agents, NEW m, NEW u,
         GoodReply(a, 1, m, job), RefusedStep(a, m, u)
  PROVE  Naming(own, job)'
<1>1. /\ EndStep(a, m, u) /\ ReplyStep(a, m, u) /\ operations[u].state = "usm" /\ ~m.ok
      /\ sending' = [sending EXCEPT ![a] = NamesToo(m, operations[u].cmd)]
      /\ m = mbox[a][1] /\ u = m.op /\ sending[a] = <<>> /\ Agent(u) = a
  BY DEF RefusedStep, EndStep, ReplyStep, IsReply
<1>2. PICK cmd, q : cmd = operations[u].cmd /\ q = NameOf(m, cmd)
  OBVIOUS
<1>3. m.tableid = 0 /\ m.name = NoName
  BY <1>1 DEF GoodReply
<1>4. /\ \A b \in Agents : b # a => sending'[b] = sending[b]
      /\ \A i \in DOMAIN sending'[a] : sending'[a][i].m = q
  <2>1. sending \in [Agents -> Seq([to : Actors, m : Msg])]
    BY DEF Shape
  <2>2. PICK s : s = NamesToo(m, cmd)
    OBVIOUS
  <2>3. \A i \in DOMAIN s : s[i].m = q
    BY <1>2, <2>2, NamesTooSeq
  <2>4. sending' = [sending EXCEPT ![a] = s]
    BY <1>1, <1>2, <2>2
  <2>5. QED
    BY <2>1, <2>3, <2>4
<1>5. ~IsName(q) /\ q.topic # "COMPILE"
  BY <1>2, <1>3 DEF NameOf, IsName
<1>6. NewSent(a) /\ NewCompiles(a)
  BY <1>4, <1>5 DEF NewSent, NewCompiles, SentOk, IsName
<1>7. SendingNew
  BY <1>4, <1>6 DEF SendingNew
<1>8. SendingStays
  BY <1>1, <1>4 DEF SendingStays
<1>9. ~Granted(u)
  BY <1>1 DEF Granted, EndStep
<1>10. Mail({a}, {}, <<>>) /\ Frame(u, job, job)
  <2>1. StepOf(u, {a}, {}, <<>>, job, job)
    BY <1>1, EndSame
  <2>2. QED
    BY <2>1, FrameStep DEF StepOf
<1>11. Granting(own, job, job)
  BY <1>9, <1>10, FrameGrants DEF Granting
<1>12. UNCHANGED <<manager, names, statements>> /\ CopiesGrow
  BY <1>1, CopiesSame DEF ReplyStep
<1>13. Placed({}, <<>>)
  BY DEF Placed
<1>14. Heeded(a)
  BY <1>1, NothingHeeded DEF ReplyStep, IsReply
<1>15. QED
  BY <1>7, <1>8, <1>10, <1>11, <1>12, <1>13, <1>14, NamingStays

\* What the manager has granted is passed on: the change first and then its name.
LEMMA PassRight ==
  ASSUME Shape, NEW own, NEW job, Operational(job), Done(own, job), NEW a \in Agents, NEW m, NEW u,
         m \in ReplyMsg, GoodReply(a, 1, m, job), u = m.op, Granted(u), Agent(u) = a, m.ok,
         Named(operations[u].cmd)
  PROVE  /\ Right(NameOf(m, operations[u].cmd))
         /\ m.tableid = job[u[1]].tableid /\ m.name = job[u[1]].name
         /\ AgentOf[own[m.tableid]] = a
<1>1. PICK cmd, id, q : cmd = operations[u].cmd /\ id = m.tableid /\ q = NameOf(m, cmd)
  OBVIOUS
<1>2. /\ u \in DOMAIN operations /\ id = job[u[1]].tableid /\ m.fieldid = job[u[1]].fieldid
      /\ m.name = job[u[1]].name
  BY <1>1 DEF GoodReply, Granted
<1>3. JobDone(u, own, job)
  BY <1>2 DEF Done, DoneOp, Accepted
<1>4. CASE cmd = "createtable"
  <2>1. id \in DOMAIN manager.tables /\ own[id] = u[1] /\ manager.tables[id] = m.name
    BY <1>1, <1>2, <1>3, <1>4 DEF JobDone
  <2>2. q.topic = "TABLENAME" /\ q.tableid = id /\ q.name = m.name
    BY <1>1, <1>4 DEF NameOf
  <2>3. Right(q)
    BY <2>1, <2>2 DEF Right
  <2>4. QED
    BY <1>1, <1>2, <2>1, <2>3 DEF Agent
<1>5. CASE cmd = "addcolumn"
  <2>1. /\ id \in DOMAIN manager.fields /\ m.fieldid + 1 = Len(manager.fields[id])
        /\ manager.fields[id][m.fieldid + 1] = m.name
    BY <1>1, <1>2, <1>3, <1>5 DEF JobDone
  <2>2. q.topic = "FIELDNAME" /\ q.tableid = id /\ q.fieldid = m.fieldid /\ q.name = m.name
    BY <1>1, <1>5 DEF NameOf
  <2>3. m.fieldid \in Nat /\ manager.fields[id] \in Seq(Columns)
    BY <2>1 DEF Shape, ReplyMsg
  <2>4. m.fieldid + 1 \in DOMAIN manager.fields[id]
    BY <2>1, <2>3
  <2>5. Right(q)
    BY <2>1, <2>2, <2>4 DEF Right
  <2>6. a \in Actors
    BY DEF Actors
  <2>7. Adding(a, u, id, job)
    BY <1>1, <1>2, <1>5 DEF Adding, Lags
  <2>8. own[id] = u[1]
    BY <1>2, <2>6, <2>7, AddsToOwn
  <2>9. QED
    BY <1>1, <1>2, <2>5, <2>8 DEF Agent
<1>6. QED
  BY <1>1, <1>4, <1>5 DEF Named

LEMMA NamingPass ==
  ASSUME Shape, Shape', NEW own \in [DOMAIN manager.tables -> Clients], NEW job,
         Operational(job), Done(own, job), Naming(own, job), NEW a \in Agents, NEW m, NEW u,
         GoodReply(a, 1, m, job), PassStep(a, m, u)
  PROVE  Naming(own, job)'
<1>1. /\ ReplyStep(a, m, u) /\ m.ok /\ operations[u].state = "usm" /\ Replies(u) = {1}
      /\ m = mbox[a][1] /\ m \in ReplyMsg /\ u = m.op /\ sending[a] = <<>> /\ Agent(u) = a
      /\ u \in DOMAIN operations
  BY DEF PassStep, ReplyStep, IsReply
<1>2. PICK cmd, p, q : cmd = operations[u].cmd /\ p = Passes(m, cmd) /\ q = NameOf(m, cmd)
  OBVIOUS
<1>3. /\ Broadcast(sending'[a], p, q, cmd)
      /\ \A b \in Agents : b # a => sending'[b] = sending[b]
      /\ \A i \in DOMAIN sending'[a] : sending'[a][i].m \in {p, q}
  BY <1>2, PassSends
<1>4. Granted(u)
  BY <1>1 DEF Granted
<1>5. ASSUME Named(cmd)
      PROVE  /\ Right(q) /\ m.tableid = job[u[1]].tableid /\ m.name = job[u[1]].name
             /\ AgentOf[own[m.tableid]] = a
  BY <1>1, <1>2, <1>4, <1>5, PassRight
<1>6. /\ p.topic = "SCHEMAREQUEST" /\ p.cmd = cmd /\ p.tableid = m.tableid
      /\ q.topic \in NameTopics /\ q.tableid = m.tableid /\ q.name = m.name
      /\ cmd \in {"createtable", "addcolumn"} => CmdOf(q.topic) = cmd
  BY <1>2 DEF Passes, NameOf, NameTopics, CmdOf
<1>7. UNCHANGED <<manager, names, statements>> /\ CopiesGrow
  BY <1>1, CopiesSame DEF ReplyStep
<1>8. NewSent(a)
  <2>1. SUFFICES ASSUME NEW i \in DOMAIN sending'[a], NEW x \in Actors, NEW r \in Msg,
                        sending'[a][i].to = x, sending'[a][i].m = r, IsName(r)
                 PROVE  SentOk(a, x, r, i)'
    BY DEF NewSent, SentOk, IsName
  <2>2. r = q
    BY <1>3, <1>6, <2>1 DEF IsName
  <2>3. Named(cmd)
    BY <1>3, <2>1, <2>2 DEF Broadcast
  <2>4. PICK j \in DOMAIN sending'[a] : sending'[a][j].to = x /\ sending'[a][j].m = p
    BY <1>3 DEF Broadcast
  <2>5. j < i
    BY <1>3, <2>1, <2>2, <2>4 DEF Broadcast
  <2>6. Makes(p, q.topic, q.tableid)
    BY <1>6, <2>3 DEF Makes, Named
  <2>7. AheadSent(a, x, q, i)'
    BY <2>4, <2>5, <2>6 DEF AheadSent, Makes
  <2>8. Right(q)'
    BY <1>5, <1>7, <2>3 DEF Right
  <2>9. QED
    BY <2>2, <2>7, <2>8 DEF SentOk
<1>9. NewCompiles(a)
  BY <1>3, <1>6 DEF NewCompiles, NameTopics
<1>10. SendingNew
  BY <1>3, <1>8, <1>9 DEF SendingNew
<1>11. SendingStays
  BY <1>1, <1>3 DEF SendingStays
<1>12. NamesSent(u, own, job)
  <2>1. SUFFICES ASSUME NEW x \in Agents, NEW topic \in NameTopics, cmd = CmdOf(topic)
                 PROVE  BeingSent(AgentOf[own[job[u[1]].tableid]], x, topic, job[u[1]].tableid,
                                  job[u[1]].name)'
    BY <1>2 DEF NamesSent
  <2>2. Named(cmd) /\ q.topic = topic
    BY <1>2, <2>1 DEF NameTopics, CmdOf, Named, NameOf
  <2>3. PICK i \in DOMAIN sending'[a] : sending'[a][i].to = x /\ sending'[a][i].m = q
    BY <1>3, <2>2 DEF Broadcast
  <2>4. BeingSent(a, x, topic, m.tableid, m.name)'
    BY <1>6, <2>2, <2>3 DEF BeingSent, Tells
  <2>5. QED
    BY <1>5, <2>2, <2>4
<1>13. Mail({a}, {}, <<>>) /\ Frame(u, job, job)
  <2>1. StepOf(u, {a}, {}, <<>>, job, job)
    BY PassSame
  <2>2. QED
    BY <2>1, FrameStep DEF StepOf
<1>14. Granting(own, job, job)
  BY <1>12, <1>13, FrameGrants DEF Granting
<1>15. Placed({}, <<>>)
  BY DEF Placed
<1>16. Heeded(a)
  BY <1>1, NothingHeeded DEF ReplyStep, IsReply
<1>17. QED
  BY <1>7, <1>10, <1>11, <1>13, <1>14, <1>15, <1>16, NamingStays

\* A name that is sent comes after the change.
LEMMA SendPlaced ==
  ASSUME Shape, Shape', NEW own, NEW job, Naming(own, job), NEW a \in Agents, NEW s, NEW u,
         SendStep(a, s, u), NameFrame({}, {s.to}, s.m)
  PROVE  Placed({s.to}, s.m)
<1>1. PICK x, q : x = s.to /\ q = s.m
  OBVIOUS
<1>2. /\ x \in Actors /\ q \in Msg /\ 1 \in DOMAIN sending[a]
      /\ sending[a][1].to = x /\ sending[a][1].m = q
  BY <1>1 DEF SendStep
<1>3. PICK n : n = Len(mbox[x]) + 1
  OBVIOUS
<1>4. n \in Nat /\ n = Len(mbox'[x]) /\ Pops({}, x) = 0 /\ n - Pops({}, x) = n
  <2>1. Pops({}, x) = 0 /\ Pops({x}, x) = 1
    BY DEF Pops
  <2>2. Len(mbox'[x]) = Len(mbox[x]) - Pops({}, x) + Pops({x}, x) /\ Len(mbox[x]) \in Nat
    BY <1>1, <1>2, Boxes DEF NameFrame, Mail
  <2>3. QED
    BY <1>3, <2>1, <2>2
<1>5. PlaceOk(x, q, n)'
  <2>1. SentOk(a, x, q, 1)
    BY <1>2 DEF Naming, NameMsgInv
  <2>2. ~AheadSent(a, x, q, 1)
    <3>1. \A j \in DOMAIN sending[a] : ~(j < 1)
      BY Sendings
    <3>2. QED
      BY <3>1 DEF AheadSent
  <2>3. PlaceOk(x, q, n)
    BY <1>3, <2>1, <2>2 DEF SentOk, PlaceOk
  <2>4. PlaceOk(x, q, n - Pops({}, x))'
    BY <1>1, <1>2, <1>4, <2>3, PlaceMoves
  <2>5. QED
    BY <1>4, <2>4
<1>6. ASSUME q.topic = "COMPILE", x \in Agents PROVE Resolvable(x, q, n)'
  <2>1. Resolvable(x, q, n)
    BY <1>2, <1>3, <1>6 DEF Naming, CompileInv
  <2>2. q \in CompileMsg
    BY <1>2, <1>6, Topics
  <2>3. Resolvable(x, q, n - Pops({}, x))'
    BY <1>1, <1>4, <1>6, <2>1, <2>2, ResolvableMoves
  <2>4. QED
    BY <1>4, <2>3
<1>7. QED
  BY <1>1, <1>4, <1>5, <1>6 DEF Placed

\* What is still to be sent stays in order.
LEMMA SendLeaves ==
  ASSUME Shape, Shape', NEW own, NEW job, Naming(own, job), NEW a \in Agents, NEW s, NEW u,
         SendStep(a, s, u), NameFrame({}, {s.to}, s.m)
  PROVE  NewSent(a) /\ NewCompiles(a)
<1>1. Appended(s.to, s.m) /\ Dropped(a) /\ s.to \in Actors
  BY SendMoves DEF SendStep
<1>2. s = sending[a][1]
  BY DEF SendStep
<1>3. SUFFICES ASSUME NEW i \in DOMAIN sending'[a], NEW x \in Actors, NEW q \in Msg,
                      sending'[a][i].to = x, sending'[a][i].m = q
               PROVE  /\ SentOk(a, x, q, i)'
                      /\ q.topic = "COMPILE" => x \in Agents /\ Resolvable(x, q, Len(mbox[x]) + 1)'
  BY DEF NewSent, NewCompiles
<1>4. PICK h : h = i + 1
  OBVIOUS
<1>5. i \in Nat /\ h \in DOMAIN sending[a] /\ sending[a][h].to = x /\ sending[a][h].m = q
  BY <1>1, <1>3, <1>4 DEF Dropped
<1>6. PICK n, l : n = Len(mbox[x]) + 1 /\ l = n - Pops({}, x)
  OBVIOUS
<1>7. n \in Nat
  BY <1>6, Boxes
<1>8. ASSUME IsName(q)
      PROVE  /\ Right(q)'
             /\ Made(x, q)' \/ Ahead(x, q, Len(mbox[x]) + 1)' \/ AheadSent(a, x, q, i)'
  <2>1. SentOk(a, x, q, h)
    BY <1>5 DEF Naming, NameMsgInv
  <2>2. /\ q \in NameMsg /\ Right(q)
        /\ Made(x, q) \/ Ahead(x, q, n) \/ AheadSent(a, x, q, h)
    BY <1>6, <1>8, <2>1, NameTyped DEF SentOk
  <2>3. Right(q)'
    BY <2>2, RightStays DEF NameFrame
  <2>4. ASSUME Made(x, q) PROVE Made(x, q)'
    BY <2>4, MadeStays DEF NameFrame
  <2>5. ASSUME Ahead(x, q, n) PROVE Made(x, q)' \/ Ahead(x, q, Len(mbox[x]) + 1)'
    <3>1. Made(x, q)' \/ Ahead(x, q, l)'
      BY <1>6, <1>7, <2>2, <2>5, AheadMoves
    <3>2. QED
      BY <3>1, AheadLast
  <2>6. ASSUME AheadSent(a, x, q, h)
        PROVE  Ahead(x, q, Len(mbox[x]) + 1)' \/ AheadSent(a, x, q, i)'
    <3>1. PICK j \in DOMAIN sending[a] :
            j < h /\ sending[a][j].to = x /\ Makes(sending[a][j].m, q.topic, q.tableid)
      BY <2>6 DEF AheadSent
    <3>2. CASE j = 1
      <4>1. s.to = x /\ Makes(s.m, q.topic, q.tableid)
        BY <1>2, <3>1, <3>2
      <4>2. PICK k : k = Len(mbox'[x])
        OBVIOUS
      <4>3. k \in DOMAIN mbox'[x] /\ mbox'[x][k] = s.m /\ k < Len(mbox'[x]) + 1
        BY <1>1, <4>1, <4>2, BoxesNext DEF Appended
      <4>4. QED
        BY <4>1, <4>3 DEF Ahead, Makes
    <3>3. CASE j # 1
      <4>1. PICK k : k = j - 1
        OBVIOUS
      <4>2. k \in DOMAIN sending'[a] /\ sending'[a][k] = sending[a][j] /\ k < i
        BY <1>1, <1>4, <1>5, <3>1, <3>3, <4>1, Sendings DEF Dropped
      <4>3. QED
        BY <3>1, <4>2 DEF AheadSent, Makes
    <3>4. QED
      BY <3>2, <3>3
  <2>7. QED
    BY <2>2, <2>3, <2>4, <2>5, <2>6
<1>9. SentOk(a, x, q, i)'
  BY <1>8 DEF SentOk, IsName
<1>10. ASSUME q.topic = "COMPILE" PROVE x \in Agents /\ Resolvable(x, q, Len(mbox[x]) + 1)'
  <2>1. x \in Agents /\ Resolvable(x, q, n)
    BY <1>5, <1>6, <1>10 DEF Naming, CompileInv
  <2>2. q \in CompileMsg
    BY <1>10, Topics
  <2>3. Resolvable(x, q, l)'
    BY <1>6, <1>7, <2>1, <2>2, ResolvableMoves
  <2>4. QED
    BY <2>1, <2>3, ResolvableLast
<1>11. QED
  BY <1>9, <1>10

LEMMA NamingSend ==
  ASSUME Shape, Shape', NEW own \in [DOMAIN manager.tables -> Clients], NEW job,
         Operational(job), Done(own, job), Naming(own, job), NEW a \in Agents, NEW s, NEW u,
         SendStep(a, s, u)
  PROVE  Naming(own, job)'
<1>1. Mail({}, {s.to}, s.m)
  BY SendSame DEF StepOf
<1>2. UNCHANGED <<manager, names, statements, operations>> /\ CopiesGrow
  BY CopiesSame DEF SendStep
<1>3. NameFrame({}, {s.to}, s.m)
  BY <1>1, <1>2, NothingNew, NamesSame DEF NameFrame
<1>4. Placed({s.to}, s.m) /\ NewSent(a) /\ NewCompiles(a)
  BY <1>3, SendPlaced, SendLeaves
<1>5. Appended(s.to, s.m) /\ Dropped(a) /\ s = sending[a][1]
  BY SendMoves DEF SendStep
<1>6. SendingNew
  BY <1>4, <1>5 DEF SendingNew, Dropped
<1>7. SendingStays
  <2>1. SUFFICES ASSUME NEW b \in Agents, NEW i \in DOMAIN sending[b]
                 PROVE  \/ \E j \in DOMAIN sending'[b] : sending'[b][j] = sending[b][i]
                        \/ \E j \in DOMAIN mbox'[sending[b][i].to] :
                             mbox'[sending[b][i].to][j] = sending[b][i].m
    BY DEF SendingStays
  <2>2. CASE b # a
    BY <1>5, <2>2 DEF Dropped
  <2>3. CASE b = a /\ i = 1
    BY <1>5, <2>3 DEF Appended
  <2>4. CASE b = a /\ i # 1
    BY <1>5, <2>4 DEF Dropped
  <2>5. QED
    BY <2>2, <2>3, <2>4
<1>8. \A op \in DOMAIN operations : Stays(op)
  BY SendOps
<1>9. Granting(own, job, job)
  BY <1>2, <1>8, StayGrants
<1>10. QED
  BY <1>1, <1>2, <1>4, <1>6, <1>7, <1>9, NamingStays

\* A copy that has made the change has what it is named for.
LEMMA RequestHeeded ==
  ASSUME Shape, NEW own, NEW job, Operational(job), Done(own, job), NEW x \in Actors,
         NEW m, NEW u, NEW k, RequestStep(x, m, u, k, job)
  PROVE  Heeded(x)
<1>1. /\ m = mbox[x][1] /\ 1 \in DOMAIN mbox[x] /\ m \in RequestMsg /\ u \in OpId
      /\ IsRequest(m, u) /\ u = m.op /\ ChangeAt(x, m)
  BY DEF RequestStep, AckStep
<1>2. /\ GoodRequest(m, job) /\ u \in DOMAIN operations /\ operations[u].state = "tasengines"
      /\ Due(x, u)
  BY <1>1, AskedFor
<1>3. NotYet(x, u, job)
  BY <1>2 DEF Done, DoneOp, Accepted, Lags
<1>4. ASSUME NEW q \in NameMsg, Right(q), Makes(m, q.topic, q.tableid)
      PROVE  Made(x, q)'
  <2>1. PICK f, g, id : f = copy[x].fields /\ g = copy'[x].fields /\ id = m.tableid
    OBVIOUS
  <2>2. m.cmd = CmdOf(q.topic) /\ q.tableid = id /\ q.topic \in NameTopics
    BY <1>4, <2>1 DEF Makes, NameMsg, NameTopics
  <2>3. CASE q.topic = "TABLENAME"
    <3>1. Extended(g, f, id, <<>>)
      BY <1>1, <2>1, <2>2, <2>3 DEF ChangeAt, CmdOf
    <3>2. id \in DOMAIN g
      BY <3>1 DEF Extended
    <3>3. QED
      BY <2>1, <2>2, <2>3, <3>2 DEF Made
  <2>4. CASE q.topic = "FIELDNAME"
    <3>1. m.cmd = "addcolumn"
      BY <2>2, <2>4 DEF CmdOf
    <3>2. DOMAIN g = DOMAIN f /\ g[id] = Append(f[id], m.column)
      BY <1>1, <2>1, <3>1 DEF ChangeAt
    <3>3. id \in DOMAIN f /\ manager.fields[id] = Append(f[id], m.column)
      BY <1>1, <1>2, <1>3, <2>1, <3>1 DEF NotYet, GoodRequest
    <3>4. q.fieldid + 1 \in DOMAIN manager.fields[id]
      BY <1>4, <2>2, <2>4 DEF Right
    <3>5. QED
      BY <2>1, <2>2, <3>2, <3>3, <3>4 DEF Made
  <2>5. QED
    BY <2>2, <2>3, <2>4 DEF NameTopics
<1>5. m.topic \notin NameTopics
  BY <1>1 DEF IsRequest, NameTopics
<1>6. QED
  BY <1>1, <1>4, <1>5 DEF Heeded, Tells

LEMMA NamingRequest ==
  ASSUME Shape, Shape', NEW own \in [DOMAIN manager.tables -> Clients], NEW job,
         Operational(job), Done(own, job), Naming(own, job), NEW x \in Actors,
         NEW m, NEW u, NEW k, RequestStep(x, m, u, k, job)
  PROVE  Naming(own, job)'
<1>1. /\ AckStep(x, m, k, u) /\ k.ok /\ (m.cmd = "addcolumn" => k.fieldid = job[u[1]].fieldid)
      /\ UNCHANGED <<manager, names, statements, sending>> /\ IsReply(k, u)
  BY DEF RequestStep, AckStep
<1>2. StepOf(u, {x}, {Agent(u)}, k, job, job)
  BY <1>1, AckSame
<1>3. Mail({x}, {Agent(u)}, k) /\ Frame(u, job, job)
  BY <1>2, FrameStep DEF StepOf
<1>4. ~Granted(u)
  BY <1>1, AckOps
<1>5. Granting(own, job, job)
  BY <1>3, <1>4, FrameGrants DEF Granting
<1>6. CopiesGrow /\ Heeded(x)
  BY RequestGrows, RequestHeeded
<1>7. Placed({Agent(u)}, k)
  BY <1>1, SilentPlaced DEF Silent, IsReply
<1>8. SendingNew /\ SendingStays
  BY <1>1, SendingSame
<1>9. QED
  BY <1>1, <1>3, <1>5, <1>6, <1>7, <1>8, NamingStays

\* Steps that leave the operations alone.
LEMMA QuietGrants ==
  ASSUME Shape, Shape', NEW own, NEW job, Operational(job), QuietStep
  PROVE  Granting(own, job, job) /\ UNCHANGED <<manager, copy>> /\ CopiesGrow
<1>1. PICK pop, add, m : Still(pop, add, m)
  BY DEF QuietStep
<1>2. Quiet(pop, add, m) /\ UNCHANGED <<manager, copy, operations>>
  BY <1>1 DEF Still, Quiet
<1>3. \A op \in DOMAIN operations : Stays(op)
  BY <1>2, QuietOps
<1>4. QED
  BY <1>2, <1>3, StayGrants, CopiesSame

LEMMA NamingQuiet ==
  ASSUME Shape, Shape', NEW own \in [DOMAIN manager.tables -> Clients], NEW job,
         Operational(job), Done(own, job), Naming(own, job), QuietStep,
         UNCHANGED <<names, statements>>, SendingNew, SendingStays,
         NEW pop, NEW add, NEW m, Mail(pop, add, m), \A z \in pop : Heeded(z), Placed(add, m)
  PROVE  Naming(own, job)'
  BY QuietGrants, NamingStays

LEMMA NamingStill ==
  ASSUME Shape, Shape', NEW own \in [DOMAIN manager.tables -> Clients], NEW job,
         Operational(job), Done(own, job), Naming(own, job), QuietStep,
         UNCHANGED <<names, statements, mbox, sending>>
  PROVE  Naming(own, job)'
<1>1. Mail({}, {}, <<>>) /\ SendingNew /\ SendingStays
  BY MailSame, SendingSame
<1>2. Placed({}, <<>>)
  BY DEF Placed
<1>3. QED
  BY <1>1, <1>2, NamingQuiet

LEMMA NamingLoad ==
  ASSUME Shape, Shape', NEW own \in [DOMAIN manager.tables -> Clients], NEW job,
         Operational(job), Done(own, job), Naming(own, job), NEW c, NEW proc, LoadProcedure(c, proc)
  PROVE  Naming(own, job)'
<1>1. PICK m : m = [topic |-> "PROCEDURE1", proc |-> proc]
  OBVIOUS
<1>2. Loader \in Actors
  BY SchemataAssumption DEF Actors
<1>3. /\ mbox' = [mbox EXCEPT ![Loader] = Append(@, m)]
      /\ UNCHANGED <<names, statements, sending>>
  BY <1>1 DEF LoadProcedure, copyVars
<1>4. Mail({}, {Loader}, m) /\ SendingNew /\ SendingStays
  BY <1>2, <1>3, MailAppend, SendingSame
<1>5. Placed({Loader}, m)
  BY <1>1, SilentPlaced DEF Silent
<1>6. QuietStep
  BY LoadQuiet
<1>7. QED
  BY <1>3, <1>4, <1>5, <1>6, NamingQuiet

LEMMA NamingProcedure ==
  ASSUME Shape, Shape', NEW own \in [DOMAIN manager.tables -> Clients], NEW job,
         Operational(job), Done(own, job), Naming(own, job), NEW a \in Agents,
         Procedure1(a) \/ Procedure2(a)
  PROVE  Naming(own, job)'
<1>1. a \in Actors /\ mbox[a] # <<>> /\ Head(mbox[a]).topic \in {"PROCEDURE1", "PROCEDURE2"}
      /\ mbox' = [mbox EXCEPT ![a] = Tail(@)] /\ UNCHANGED <<names, statements>>
  BY DEF Procedure1, Procedure2, Receives, Actors, copyVars
<1>2. Mail({a}, {}, <<>>) /\ mbox[a][1] = Head(mbox[a])
  BY <1>1, MailTail
<1>3. Heeded(a) /\ QuietStep
  BY <1>1, <1>2, NothingHeeded, ProcedureQuiet
<1>4. Placed({}, <<>>)
  BY DEF Placed
<1>5. SendingNew /\ SendingStays
  <2>1. CASE Procedure1(a)
    <3>1. PICK q, s : q = [topic |-> "PROCEDURE2", proc |-> Head(mbox[a]).proc] /\ s = ToAll(Agents, q)
      OBVIOUS
    <3>2. sending[a] = <<>> /\ sending' = [sending EXCEPT ![a] = s]
      BY <2>1, <3>1 DEF Procedure1, Receives
    <3>3. \A i \in DOMAIN s : s[i].m = q
      <4>1. SentTo(Agents, q, s)
        BY <3>1, ToAllSeq, ActorsFinite
      <4>2. QED
        BY <4>1 DEF SentTo
    <3>4. sending \in [Agents -> Seq([to : Actors, m : Msg])]
      BY DEF Shape
    <3>5. /\ \A b \in Agents : b # a => sending'[b] = sending[b]
          /\ \A i \in DOMAIN sending'[a] : sending'[a][i].m = q
      BY <3>2, <3>3, <3>4
    <3>6. NewSent(a) /\ NewCompiles(a)
      BY <3>1, <3>5 DEF NewSent, NewCompiles, SentOk, IsName
    <3>7. QED
      BY <3>2, <3>5, <3>6 DEF SendingNew, SendingStays
  <2>2. CASE Procedure2(a)
    BY <2>2, SendingSame DEF Procedure2
  <2>3. QED
    BY <2>1, <2>2
<1>6. QED
  BY <1>1, <1>2, <1>3, <1>4, <1>5, NamingQuiet

-----------------------------------------------------------------------------
(* Reading a name, and a statement.                                        *)

LEMMA HeadFirst ==
  ASSUME Shape, NEW own, NEW job, Naming(own, job), NEW a \in Agents, mbox[a] # <<>>
  PROVE  /\ a \in Actors /\ 1 \in DOMAIN mbox[a] /\ mbox[a][1] = Head(mbox[a]) /\ Head(mbox[a]) \in Msg
         /\ IsName(Head(mbox[a])) => IsSo(a, Head(mbox[a]))
<1>1. a \in Actors
  BY DEF Actors
<1>2. 1 \in DOMAIN mbox[a] /\ mbox[a][1] = Head(mbox[a]) /\ Head(mbox[a]) \in Msg
  BY <1>1, Boxes, TailFirst
<1>3. PICK m : m = Head(mbox[a])
  OBVIOUS
<1>4. PlaceOk(a, m, 1)
  BY <1>1, <1>2, <1>3 DEF Naming, NameMsgInv
<1>5. \A j \in DOMAIN mbox[a] : ~(j < 1)
  BY <1>1, Boxes
<1>6. IsName(m) => IsSo(a, m)
  BY <1>4, <1>5 DEF PlaceOk, Ahead, IsSo
<1>7. QED
  BY <1>1, <1>2, <1>3, <1>6

\* The agent's maps have one name more.
NameTaken(a, m) ==
  /\ \A b \in Agents : b # a => names'[b] = names[b]
  /\ m.topic = "TABLENAME" => /\ Extended(names'[a].tables, names[a].tables, m.name, m.tableid)
                              /\ names'[a].fields = names[a].fields
  /\ m.topic = "FIELDNAME" =>
       /\ Extended(names'[a].fields, names[a].fields, <<m.tableid, m.name>>, m.fieldid)
       /\ names'[a].tables = names[a].tables

\* What the agent's maps are after it.
LEMMA NameChange ==
  ASSUME Shape, NEW a \in Agents, NEW topic \in NameTopics, NEW m, m.topic = topic,
         names' = IF topic = "TABLENAME"
                  THEN [names EXCEPT ![a].tables = With(@, m.name, m.tableid)]
                  ELSE [names EXCEPT ![a].fields = With(@, <<m.tableid, m.name>>, m.fieldid)]
  PROVE  NameTaken(a, m)
<1> DEFINE N == [tables : Partial(AnyName, Nat), fields : Partial(Nat \X AnyName, Nat)]
<1>1. names \in [Agents -> N]
  BY DEF Shape
<1>2. \A b \in Agents : b # a => names'[b] = names[b]
  BY <1>1
<1>3. ASSUME topic = "TABLENAME"
      PROVE  /\ Extended(names'[a].tables, names[a].tables, m.name, m.tableid)
             /\ names'[a].fields = names[a].fields
  <2>1. PICK f : f = With(names[a].tables, m.name, m.tableid)
    OBVIOUS
  <2>2. names' = [names EXCEPT ![a].tables = f]
    BY <1>3, <2>1
  <2>3. names'[a].tables = f /\ names'[a].fields = names[a].fields
    BY <1>1, <2>2
  <2>4. QED
    BY <2>1, <2>3, WithDom
<1>4. ASSUME topic = "FIELDNAME"
      PROVE  /\ Extended(names'[a].fields, names[a].fields, <<m.tableid, m.name>>, m.fieldid)
             /\ names'[a].tables = names[a].tables
  <2>1. PICK f : f = With(names[a].fields, <<m.tableid, m.name>>, m.fieldid)
    OBVIOUS
  <2>2. names' = [names EXCEPT ![a].fields = f]
    BY <1>4, <2>1
  <2>3. names'[a].fields = f /\ names'[a].tables = names[a].tables
    BY <1>1, <2>2
  <2>4. QED
    BY <2>1, <2>3, WithDom
<1>5. QED
  BY <1>2, <1>3, <1>4 DEF NameTaken

LEMMA NameIs ==
  ASSUME Shape, NEW own, NEW job, Done(own, job), TalkInv, NEW a \in Agents,
         NEW topic \in NameTopics, Name(a, topic)
  PROVE  /\ mbox[a] # <<>> /\ Head(mbox[a]).topic = topic /\ mbox' = [mbox EXCEPT ![a] = Tail(@)]
         /\ NameTaken(a, Head(mbox[a]))
         /\ UNCHANGED <<manager, copy, statements, sending>>
<1>1. mbox[a] # <<>> /\ Head(mbox[a]).topic = topic
  BY DEF Name, Receives
<1>2. copy[a].schema = "made"
  BY <1>1, HeadTold DEF Talks, NameTopics
<1>3. PICK m : m = Head(mbox[a])
  OBVIOUS
<1>4. /\ names' = IF topic = "TABLENAME"
                  THEN [names EXCEPT ![a].tables = With(@, m.name, m.tableid)]
                  ELSE [names EXCEPT ![a].fields = With(@, <<m.tableid, m.name>>, m.fieldid)]
      /\ mbox' = [mbox EXCEPT ![a] = Tail(@)]
      /\ UNCHANGED <<manager, copy, statements, sending>>
  BY <1>2, <1>3 DEF Name, managerVars
<1>5. NameTaken(a, m)
  BY <1>1, <1>3, <1>4, NameChange
<1>6. QED
  BY <1>1, <1>3, <1>4, <1>5

\* What an agent takes note of is so.
LEMMA KnownTaken ==
  ASSUME KnownInv, UNCHANGED <<manager, copy>>, NEW a \in Agents, NEW m, NameTaken(a, m),
         m.topic \in NameTopics, IsName(m) => IsSo(a, m)
  PROVE  KnownInv'
<1>1. ASSUME NEW b \in Agents, NEW t \in DOMAIN names'[b].tables, t # NoName
      PROVE  IsSo(b, TableSays(names[b].tables[t], t))'
  <2>1. PICK id, q : id = names'[b].tables[t] /\ q = TableSays(id, t)
    OBVIOUS
  <2>2. IsSo(b, q)
    <3>1. CASE b = a /\ m.topic = "TABLENAME" /\ t = m.name
      <4>1. id = m.tableid
        BY <2>1, <3>1 DEF NameTaken, Extended
      <4>2. IsSo(a, m)
        BY <1>1, <3>1 DEF IsName
      <4>3. QED
        BY <2>1, <3>1, <4>1, <4>2 DEF IsSo, Right, Made, TableSays
    <3>2. CASE ~(b = a /\ m.topic = "TABLENAME" /\ t = m.name)
      <4>1. t \in DOMAIN names[b].tables /\ names[b].tables[t] = id
        BY <1>1, <2>1, <3>2 DEF NameTaken, Extended, NameTopics
      <4>2. QED
        BY <1>1, <2>1, <4>1 DEF KnownInv
    <3>3. QED
      BY <3>1, <3>2
  <2>3. IsSo(b, q)'
    BY <2>2 DEF IsSo, Right, Made
  <2>4. q = TableSays(names[b].tables[t], t)'
    BY <2>1 DEF TableSays
  <2>5. QED
    BY <2>3, <2>4
<1>2. ASSUME NEW b \in Agents, NEW k \in DOMAIN names'[b].fields, k[1] # 0
      PROVE  IsSo(b, FieldSays(k[1], names[b].fields[k], k[2]))'
  <2>1. PICK fid, q : fid = names'[b].fields[k] /\ q = FieldSays(k[1], fid, k[2])
    OBVIOUS
  <2>2. IsSo(b, q)
    <3>1. CASE b = a /\ m.topic = "FIELDNAME" /\ k = <<m.tableid, m.name>>
      <4>1. fid = m.fieldid /\ k[1] = m.tableid /\ k[2] = m.name
        BY <2>1, <3>1 DEF NameTaken, Extended
      <4>2. IsSo(a, m)
        BY <1>2, <3>1, <4>1 DEF IsName
      <4>3. QED
        BY <2>1, <3>1, <4>1, <4>2 DEF IsSo, Right, Made, FieldSays
    <3>2. CASE ~(b = a /\ m.topic = "FIELDNAME" /\ k = <<m.tableid, m.name>>)
      <4>1. k \in DOMAIN names[b].fields /\ names[b].fields[k] = fid
        BY <1>2, <2>1, <3>2 DEF NameTaken, Extended, NameTopics
      <4>2. QED
        BY <1>2, <2>1, <4>1 DEF KnownInv
    <3>3. QED
      BY <3>1, <3>2
  <2>3. IsSo(b, q)'
    BY <2>2 DEF IsSo, Right, Made
  <2>4. q = FieldSays(k[1], names[b].fields[k], k[2])'
    BY <2>1 DEF FieldSays
  <2>5. QED
    BY <2>3, <2>4
<1>3. QED
  BY <1>1, <1>2 DEF KnownInv

LEMMA NamingName ==
  ASSUME Shape, Shape', NEW own \in [DOMAIN manager.tables -> Clients], NEW job,
         Operational(job), Done(own, job), TalkInv, Naming(own, job), NEW a \in Agents,
         NEW topic \in NameTopics, Name(a, topic)
  PROVE  Naming(own, job)'
<1>1. PICK m : m = Head(mbox[a])
  OBVIOUS
<1>2. /\ mbox[a] # <<>> /\ m.topic = topic /\ mbox' = [mbox EXCEPT ![a] = Tail(@)]
      /\ NameTaken(a, m) /\ UNCHANGED <<manager, copy, statements, sending>>
  BY <1>1, NameIs
<1>3. a \in Actors /\ mbox[a][1] = m /\ (IsName(m) => IsSo(a, m))
  BY <1>1, <1>2, HeadFirst
<1>4. Mail({a}, {}, <<>>)
  BY <1>2, <1>3, MailTail
<1>5. NamesGrow
  BY <1>2 DEF NamesGrow, NameTaken, Extended, NameTopics
<1>6. Heeded(a)
  <2>1. \A id \in Nat, name \in AnyName : Tells(m, topic, id, name) => Has(a, topic, id, name)'
    BY <1>2 DEF Tells, Has, NameTaken, Extended, NameTopics
  <2>2. QED
    BY <1>2, <1>3, <2>1 DEF Heeded, Tells, Makes, NameTopics
<1>7. QuietStep
  BY NameQuiet DEF NameTopics
<1>8. ManagerGrows /\ NewNames(own, job, own, job) /\ Granting(own, job, job) /\ CopiesGrow
  BY <1>2, <1>7, NothingNew, QuietGrants
<1>9. NameFrame({a}, {}, <<>>)
  BY <1>4, <1>5, <1>6, <1>8 DEF NameFrame
<1>10. SendingNew /\ SendingStays
  BY <1>2, SendingSame
<1>11. NamingStep(own, job, own, job)
  <2>1. Placed({}, <<>>)
    BY DEF Placed
  <2>2. QED
    BY <1>8, <1>9, <1>10, <2>1 DEF NamingStep
<1>12. KnownInv'
  BY <1>2, <1>3, KnownTaken DEF Naming
<1>13. StatementsInv'
  BY <1>2, <1>8, StatementsKept DEF Naming
<1>14. QED
  BY <1>11, <1>12, <1>13, NamingKept

\* An agent that reads a statement knows what it names.
LEMMA StatementIs ==
  ASSUME Shape, NEW own, NEW job, Operational(job), Done(own, job), TalkInv, Naming(own, job),
         TablesAreNamed, NEW a \in Agents, NewStatement(a)
  PROVE  LET m == Head(mbox[a])
             ids == Resolved(a, m.table, m.column) IN
         /\ mbox[a] # <<>> /\ m.topic = "COMPILE" /\ mbox' = [mbox EXCEPT ![a] = Tail(@)]
         /\ statements' = [statements EXCEPT ![a] = With(@, <<m.table, m.column>>, ids)]
         /\ UNCHANGED <<manager, copy, names, sending>>
         /\ ResolvedTo(a, <<m.table, m.column>>, ids)
<1>1. PICK m : m = Head(mbox[a])
  OBVIOUS
<1>2. mbox[a] # <<>> /\ m.topic = "COMPILE"
  BY <1>1 DEF NewStatement, Receives
<1>3. copy[a].schema = "made"
  BY <1>1, <1>2, HeadTold DEF Talks
<1>4. PICK t, c, ids : t = m.table /\ c = m.column /\ ids = Resolved(a, t, c)
  OBVIOUS
<1>5. /\ statements' = [statements EXCEPT ![a] = With(@, <<t, c>>, ids)]
      /\ mbox' = [mbox EXCEPT ![a] = Tail(@)]
      /\ UNCHANGED <<manager, copy, names, sending>>
  BY <1>1, <1>3, <1>4 DEF NewStatement, managerVars
<1>6. a \in Actors /\ 1 \in DOMAIN mbox[a] /\ mbox[a][1] = m /\ m \in Msg
  BY <1>1, <1>2, HeadFirst
<1>7. t \in TableNames /\ t # NoName
  BY <1>2, <1>4, <1>6, Topics DEF CompileMsg, TablesAreNamed
<1>8. PICK id \in DOMAIN manager.tables :
        /\ manager.tables[id] = t
        /\ Heard(a, "TABLENAME", id, t, 1) /\ Heard(a, "FIELDNAME", id, c, 1)
  BY <1>2, <1>4, <1>6 DEF Naming, CompileInv, Resolvable
<1>9. Has(a, "TABLENAME", id, t) /\ Has(a, "FIELDNAME", id, c)
  <2>1. \A j \in DOMAIN mbox[a] : ~(j < 1)
    BY <1>6, Boxes
  <2>2. QED
    BY <1>8, <2>1 DEF Heard
<1>10. t \in DOMAIN names[a].tables /\ <<id, c>> \in DOMAIN names[a].fields
  BY <1>9 DEF Has
<1>11. names[a].tables[t] = id
  <2>1. PICK i : i = names[a].tables[t]
    OBVIOUS
  <2>2. IsSo(a, TableSays(i, t))
    BY <1>7, <1>10, <2>1 DEF Naming, KnownInv
  <2>3. i \in DOMAIN manager.tables /\ manager.tables[i] = t
    BY <2>2 DEF IsSo, Right, TableSays
  <2>4. i = id
    BY <1>8, <2>3 DEF Done, SchemaInv
  <2>5. QED
    BY <2>1, <2>4
<1>12. PICK fid, k : fid = names[a].fields[<<id, c>>] /\ k = <<id, c>>
  OBVIOUS
<1>13. id \in Nat \ {0} /\ id # 0
  BY <1>8 DEF Shape
<1>14. IsSo(a, FieldSays(id, fid, c))
  <2>1. k[1] = id /\ k[2] = c /\ k \in DOMAIN names[a].fields
    BY <1>10, <1>12
  <2>2. IsSo(a, FieldSays(k[1], names[a].fields[k], k[2]))
    BY <1>13, <2>1 DEF Naming, KnownInv
  <2>3. QED
    BY <1>12, <2>1, <2>2
<1>15. /\ id \in DOMAIN copy[a].fields /\ fid + 1 \in DOMAIN copy[a].fields[id]
       /\ manager.fields[id][fid + 1] = c
  BY <1>14 DEF IsSo, Right, Made, FieldSays
<1>16. copy[a].fields[id][fid + 1] = c
  <2>1. Follows(a, id)
    BY <1>6, <1>15, CopyFollows
  <2>2. QED
    BY <1>15, <2>1 DEF Follows
<1>17. ids = <<id, fid>>
  BY <1>4, <1>10, <1>11, <1>12 DEF Resolved
<1>18. ResolvedTo(a, <<t, c>>, ids)
  BY <1>8, <1>15, <1>16, <1>17 DEF ResolvedTo
<1>19. QED
  BY <1>1, <1>2, <1>4, <1>5, <1>18

LEMMA NamingStatement ==
  ASSUME Shape, Shape', NEW own \in [DOMAIN manager.tables -> Clients], NEW job,
         Operational(job), Done(own, job), TalkInv, Naming(own, job), TablesAreNamed,
         NEW a \in Agents, NewStatement(a)
  PROVE  Naming(own, job)'
<1>1. PICK m, st, ids : m = Head(mbox[a]) /\ st = <<m.table, m.column>>
                        /\ ids = Resolved(a, m.table, m.column)
  OBVIOUS
<1>2. /\ mbox[a] # <<>> /\ m.topic = "COMPILE" /\ mbox' = [mbox EXCEPT ![a] = Tail(@)]
      /\ statements' = [statements EXCEPT ![a] = With(@, st, ids)]
      /\ UNCHANGED <<manager, copy, names, sending>>
      /\ ResolvedTo(a, st, ids)
  BY <1>1, StatementIs
<1>3. a \in Actors /\ mbox[a][1] = m
  BY <1>1, <1>2, HeadFirst
<1>4. Mail({a}, {}, <<>>) /\ Heeded(a)
  BY <1>2, <1>3, MailTail, NothingHeeded
<1>5. QuietStep
  BY StatementQuiet
<1>6. /\ ManagerGrows /\ NewNames(own, job, own, job) /\ Granting(own, job, job)
      /\ CopiesGrow /\ NamesGrow
  BY <1>2, <1>5, NothingNew, QuietGrants, NamesSame
<1>7. NamingStep(own, job, own, job)
  <2>1. Placed({}, <<>>)
    BY DEF Placed
  <2>2. NameFrame({a}, {}, <<>>)
    BY <1>4, <1>6 DEF NameFrame
  <2>3. SendingNew /\ SendingStays
    BY <1>2, SendingSame
  <2>4. QED
    BY <1>6, <2>1, <2>2, <2>3 DEF NamingStep
<1>8. KnownInv'
  BY <1>2, <1>6, KnownKept DEF Naming
<1>9. StatementsInv'
  <2>1. SUFFICES ASSUME NEW b \in Agents, NEW s \in DOMAIN statements'[b]
                 PROVE  ResolvedTo(b, s, statements[b][s])'
    BY DEF StatementsInv
  <2>2. PICK w : w = statements'[b][s]
    OBVIOUS
  <2>3. PICK f : f = With(statements[a], st, ids)
    OBVIOUS
  <2>4. Extended(f, statements[a], st, ids)
    BY <2>3, WithDom
  <2>5. statements'[a] = f /\ \A z \in Agents : z # a => statements'[z] = statements[z]
    BY <1>2, <2>3 DEF Shape
  <2>6. ResolvedTo(b, s, w)
    <3>1. CASE b = a /\ s = st
      BY <1>2, <2>2, <2>4, <2>5, <3>1 DEF Extended
    <3>2. CASE ~(b = a /\ s = st)
      <4>1. s \in DOMAIN statements[b] /\ statements[b][s] = w
        BY <2>1, <2>2, <2>4, <2>5, <3>2 DEF Extended
      <4>2. QED
        BY <4>1 DEF Naming, StatementsInv
    <3>3. QED
      BY <3>1, <3>2
  <2>7. ResolvedTo(b, s, w)'
    BY <1>2, <2>6 DEF ResolvedTo
  <2>8. QED
    BY <2>2, <2>7
<1>10. QED
  BY <1>7, <1>8, <1>9, NamingKept

-----------------------------------------------------------------------------
(* A client that compiles a statement is named what it has made.           *)

LEMMA OwnTable ==
  ASSUME Shape, NEW own, NEW job, Done(own, job), NEW c, NEW id \in TablesOf(c)
  PROVE  own[id] = c /\ id \in DOMAIN manager.fields /\ id \in DOMAIN manager.tables
<1>1. PICK an \in answers : an.client = c /\ an.cmd = "createtable" /\ an.ok /\ an.tableid = id
  BY DEF TablesOf
<1>2. own[id] = c
  BY <1>1 DEF Done, AnswersInv
<1>3. Loader \in Actors
  BY SchemataAssumption DEF Actors
<1>4. id \in DOMAIN copy[Loader].fields
  BY <1>1, <1>3 DEF Done, AnswersInv, AnswersAreTrue, AnswersHoldEverywhere
<1>5. id \in DOMAIN manager.fields
  BY <1>3, <1>4 DEF Done, CopyInv
<1>6. DOMAIN manager.tables = DOMAIN manager.fields
  BY DEF Shape
<1>7. QED
  BY <1>2, <1>5, <1>6

\* When the client is not waiting and its agent has nothing to send, all agents have been told.
LEMMA AllHeard ==
  ASSUME Shape, NEW own, NEW job, Operational(job), Done(own, job), Naming(own, job), NEW c \in Clients,
         ~waiting[c], sending[AgentOf[c]] = <<>>, NEW id \in TablesOf(c),
         NEW x \in Agents, NEW topic \in NameTopics, NEW name \in AnyName, Exists(topic, id, name)
  PROVE  Heard(x, topic, id, name, Len(mbox[x]) + 1)
<1>1. own[id] = c /\ id \in Nat
  <2>1. own[id] = c /\ id \in DOMAIN manager.fields
    BY OwnTable
  <2>2. QED
    BY <2>1 DEF Shape
<1>2. ~BeingSent(AgentOf[own[id]], x, topic, id, name)
  BY <1>1 DEF BeingSent
<1>3. ~ToBeSent(topic, id, name, job)
  <2>1. SUFFICES ASSUME NEW op \in DOMAIN operations, operations[op].cmd = CmdOf(topic), Granted(op),
                        job[op[1]].tableid = id
                 PROVE  FALSE
    BY DEF ToBeSent
  <2>2. JobDone(op, own, job)
    BY <2>1 DEF Done, DoneOp, Accepted
  <2>3. operations[op].cmd \in {"createtable", "addcolumn"}
    BY <2>1 DEF CmdOf
  <2>4. own[id] = op[1]
    BY <2>1, <2>2, <2>3, OwnTable DEF JobDone
  <2>5. waiting[op[1]]
    BY <2>1 DEF Operational, OneEach
  <2>6. QED
    BY <1>1, <2>4, <2>5
<1>4. QED
  BY <1>1, <1>2, <1>3 DEF Naming, NamedInv

LEMMA CompileKnown ==
  ASSUME Shape, NEW own, NEW job, Operational(job), Done(own, job), Naming(own, job), Disciplined,
         NEW c \in Clients, NEW t \in TableNames, NEW column \in Columns, Compile(c, t, column),
         NEW q, q = [topic |-> "COMPILE", table |-> t, column |-> column], NEW x \in Agents
  PROVE  Resolvable(x, q, Len(mbox[x]) + 1)
<1>1. PICK id \in TablesOf(c) : manager.tables[id] = t /\ Contains(manager.fields[id], column)
  BY DEF Compile
<1>2. ~waiting[c] /\ sending[AgentOf[c]] = <<>>
  BY DEF Compile, Sends
<1>3. id \in DOMAIN manager.fields /\ id \in DOMAIN manager.tables
  BY OwnTable
<1>4. Exists("TABLENAME", id, t)
  BY <1>1, <1>3 DEF Exists
<1>5. Exists("FIELDNAME", id, column)
  <2>1. PICK s : s = manager.fields[id]
    OBVIOUS
  <2>2. s \in Seq(Columns)
    BY <1>3, <2>1 DEF Shape
  <2>3. \E i \in DOMAIN s : s[i] = column
    BY <1>1, <2>1, <2>2 DEF Contains
  <2>4. QED
    BY <1>3, <2>1, <2>3 DEF Exists
<1>6. t \in AnyName /\ column \in AnyName
  BY DEF AnyName
<1>7. /\ Heard(x, "TABLENAME", id, t, Len(mbox[x]) + 1)
      /\ Heard(x, "FIELDNAME", id, column, Len(mbox[x]) + 1)
  BY <1>2, <1>4, <1>5, <1>6, AllHeard DEF NameTopics
<1>8. QED
  BY <1>1, <1>3, <1>7 DEF Resolvable

LEMMA NamingCompile ==
  ASSUME Shape, Shape', NEW own \in [DOMAIN manager.tables -> Clients], NEW job,
         Operational(job), Done(own, job), Naming(own, job), Disciplined, NEW c \in Clients,
         NEW t \in TableNames, NEW column \in Columns, Compile(c, t, column)
  PROVE  Naming(own, job)'
<1>1. PICK a, q, s : /\ a = AgentOf[c] /\ q = [topic |-> "COMPILE", table |-> t, column |-> column]
                     /\ s = ToAll(Agents, q)
  OBVIOUS
<1>2. /\ a \in Agents /\ sending[a] = <<>> /\ sending' = [sending EXCEPT ![a] = s]
      /\ UNCHANGED <<manager, names, statements, mbox>>
  BY <1>1, SchemataAssumption DEF Compile, Sends, managerVars
<1>3. \A i \in DOMAIN s : s[i].to \in Agents /\ s[i].m = q
  <2>1. SentTo(Agents, q, s)
    BY <1>1, ToAllSeq, ActorsFinite
  <2>2. QED
    BY <2>1 DEF SentTo
<1>4. /\ \A b \in Agents : b # a => sending'[b] = sending[b]
      /\ \A i \in DOMAIN sending'[a] : sending'[a][i].to \in Agents /\ sending'[a][i].m = q
  <2>1. sending \in [Agents -> Seq([to : Actors, m : Msg])]
    BY DEF Shape
  <2>2. QED
    BY <1>2, <1>3, <2>1
<1>5. NewSent(a)
  BY <1>1, <1>4 DEF NewSent, SentOk, IsName
<1>6. NewCompiles(a)
  <2>1. SUFFICES ASSUME NEW x \in Agents PROVE Resolvable(x, q, Len(mbox[x]) + 1)'
    BY <1>4 DEF NewCompiles
  <2>2. PICK n : n = Len(mbox[x]) + 1
    OBVIOUS
  <2>3. Resolvable(x, q, n)
    BY <1>1, <2>2, CompileKnown
  <2>4. Resolvable(x, q, n)'
    BY <1>2, <2>3 DEF Resolvable, Heard, Has, Tells
  <2>5. n = (Len(mbox[x]) + 1)'
    BY <1>2, <2>2
  <2>6. QED
    BY <2>4, <2>5
<1>7. SendingNew /\ SendingStays
  BY <1>2, <1>4, <1>5, <1>6 DEF SendingNew, SendingStays
<1>8. Mail({}, {}, <<>>) /\ QuietStep
  BY <1>2, MailSame, CompileQuiet
<1>9. Placed({}, <<>>)
  BY DEF Placed
<1>10. QED
  BY <1>2, <1>7, <1>8, <1>9, NamingQuiet

LEMMA NamingLogin ==
  ASSUME Shape, Shape', NEW own \in [DOMAIN manager.tables -> Clients], NEW job,
         Operational(job), Done(own, job), Naming(own, job), Disciplined, NEW c \in Clients, PgLogin(c)
  PROVE  Naming(own, job)'
<1>1. QuietStep
  BY LoginQuiet
<1>2. UNCHANGED <<names, statements, mbox, sending>>
  BY DEF PgLogin
<1>3. QED
  BY <1>1, <1>2, NamingStill

-----------------------------------------------------------------------------
(* The manager has a name more, and answers it.                            *)

LEMMA NewTable ==
  ASSUME Shape, Shape', NEW t, TableMore(t), NEW own, NEW own2, OwnersStay(own, own2), NEW job, NEW job2,
         NEW n, n = Len(manager.tables) + 1, ToBeSent("TABLENAME", n, t, job2)'
  PROVE  ManagerGrows /\ NewNames(own, job, own2, job2)
<1>1. /\ Len(manager.tables) \in Nat /\ DOMAIN manager.tables = 1 .. Len(manager.tables)
      /\ DOMAIN manager.fields = 1 .. Len(manager.tables)
  BY DEF Shape
<1>2. /\ DOMAIN manager'.tables = DOMAIN manager.tables \cup {n}
      /\ DOMAIN manager'.fields = DOMAIN manager.fields \cup {n}
  <2>1. /\ DOMAIN manager'.tables = 1 .. n /\ n \in Nat
        /\ DOMAIN manager'.tables = 1 .. Len(manager'.tables) /\ Len(manager'.tables) \in Nat
        /\ DOMAIN manager'.fields = 1 .. Len(manager'.tables)
    BY <1>1 DEF TableMore, Shape
  <2>2. Len(manager'.tables) = n
    BY <2>1, SameInterval
  <2>3. QED
    BY <1>1, <2>1, <2>2
<1>3. /\ \A i \in DOMAIN manager.tables : /\ manager'.tables[i] = manager.tables[i]
                                          /\ manager'.fields[i] = manager.fields[i]
      /\ manager'.tables[n] = t /\ manager'.fields[n] = <<>>
  BY <1>1 DEF TableMore, TablesStay
<1>4. ManagerGrows
  BY <1>1, <1>2, <1>3 DEF ManagerGrows
<1>5. ASSUME NEW topic \in NameTopics, NEW id \in Nat, NEW name \in AnyName, Exists(topic, id, name)'
      PROVE  \/ Exists(topic, id, name) /\ own2[id] = own[id]
             \/ ToBeSent(topic, id, name, job2)'
  <2>1. CASE id \in DOMAIN manager.tables
    BY <1>1, <1>3, <1>5, <2>1 DEF Exists, OwnersStay
  <2>2. CASE id \notin DOMAIN manager.tables
    <3>1. id = n
      BY <1>1, <1>2, <1>5, <2>2 DEF Exists
    <3>2. topic = "TABLENAME" /\ name = t
      BY <1>3, <1>5, <3>1 DEF Exists, NameTopics
    <3>3. QED
      BY <3>1, <3>2
  <2>3. QED
    BY <2>1, <2>2
<1>6. QED
  BY <1>4, <1>5 DEF NewNames

LEMMA NewColumn ==
  ASSUME Shape, Shape', NEW id, NEW n, ColumnMore(id, n), NEW own, NEW own2, OwnersStay(own, own2),
         NEW job, NEW job2, ToBeSent("FIELDNAME", id, n, job2)'
  PROVE  ManagerGrows /\ NewNames(own, job, own2, job2)
<1>1. PICK f, g : f = manager.fields /\ g = manager'.fields
  OBVIOUS
<1>2. /\ id \in DOMAIN f /\ DOMAIN g = DOMAIN f /\ g[id] = Append(f[id], n)
      /\ \A i \in DOMAIN f : i # id => g[i] = f[i]
      /\ manager'.tables = manager.tables /\ DOMAIN manager.tables = DOMAIN f /\ f[id] \in Seq(Columns)
  BY <1>1 DEF ColumnMore, Shape
<1>3. /\ \A i \in DOMAIN f[id] : i \in DOMAIN g[id] /\ g[id][i] = f[id][i]
      /\ \A i \in DOMAIN g[id] : i \in DOMAIN f[id] \/ g[id][i] = n
  BY <1>2
<1>4. ManagerGrows
  BY <1>1, <1>2, <1>3 DEF ManagerGrows
<1>5. ASSUME NEW topic \in NameTopics, NEW i \in Nat, NEW name \in AnyName, Exists(topic, i, name)'
      PROVE  \/ Exists(topic, i, name) /\ own2[i] = own[i]
             \/ ToBeSent(topic, i, name, job2)'
  <2>1. i \in DOMAIN manager.tables
    BY <1>1, <1>2, <1>5 DEF Exists
  <2>2. CASE topic = "TABLENAME" \/ i # id
    BY <1>1, <1>2, <1>5, <2>1, <2>2 DEF Exists, OwnersStay
  <2>3. CASE topic = "FIELDNAME" /\ i = id
    <3>1. PICK j \in DOMAIN g[id] : g[id][j] = name
      BY <1>1, <1>5, <2>3 DEF Exists
    <3>2. CASE j \in DOMAIN f[id]
      BY <1>1, <1>2, <1>3, <2>1, <2>3, <3>1, <3>2 DEF Exists, OwnersStay
    <3>3. CASE j \notin DOMAIN f[id]
      BY <1>3, <2>3, <3>1, <3>3
    <3>4. QED
      BY <3>2, <3>3
  <2>4. QED
    BY <2>2, <2>3 DEF NameTopics
<1>6. QED
  BY <1>4, <1>5 DEF NewNames

LEMMA NothingMore ==
  ASSUME Shape, manager'.tables = manager.tables, manager'.fields = manager.fields,
         NEW own, NEW own2, OwnersStay(own, own2), NEW job, NEW job2
  PROVE  ManagerGrows /\ NewNames(own, job, own2, job2)
<1>1. ManagerGrows
  BY DEF ManagerGrows
<1>2. ASSUME NEW topic \in NameTopics, NEW i \in Nat, NEW name \in AnyName, Exists(topic, i, name)'
      PROVE  Exists(topic, i, name) /\ own2[i] = own[i]
  <2>1. Exists(topic, i, name)
    BY <1>2 DEF Exists
  <2>2. QED
    BY <2>1, ExistsIn DEF OwnersStay
<1>3. QED
  BY <1>1, <1>2 DEF NewNames

LEMMA NamingManager ==
  ASSUME Shape, Shape', NEW own \in [DOMAIN manager.tables -> Clients], NEW job \in [Clients -> Job],
         Operational(job), Done(own, job), Naming(own, job), NEW k, NEW u, Reported(k, u),
         ManagerDid(Head(usmMbox), k), NEW own2, OwnersStay(own, own2)
  PROVE  Naming(own2, NewJob(job, k))'
<1>1. PICK r, job2 : r = Head(usmMbox) /\ job2 = NewJob(job, k)
  OBVIOUS
<1>2. /\ u \in DOMAIN operations /\ r \in UsmRequest /\ operations[u].cmd = r.cmd
      /\ StepOf(u, {}, {Agent(u)}, k, job, job2)
  BY <1>1, ManagerSame DEF Reported, AtManager
<1>3. Mail({}, {Agent(u)}, k) /\ Frame(u, job, job2)
  BY <1>2, FrameStep DEF StepOf
<1>4. ~Granted(u)
  BY ManagerOps DEF Accepted
<1>5. Granting(own, job, job2)
  BY <1>3, <1>4, FrameGrants DEF Granting
<1>6. /\ UNCHANGED <<names, statements>> /\ CopiesGrow /\ NamesGrow /\ SendingNew /\ SendingStays
      /\ operations' = operations
  BY CopiesSame, NamesSame, SendingSame DEF Reported
<1>7. Placed({Agent(u)}, k)
  <2>1. Silent(k)
    BY DEF Reported, ReplyMsg, Silent
  <2>2. QED
    BY <2>1, SilentPlaced
<1>8. ASSUME k.ok
      PROVE  /\ Granted(u)' /\ job2[u[1]].tableid = k.tableid /\ job2[u[1]].name = k.name
  <2>1. GrantStep(k, u, job, job2)
    BY <1>1, <1>8, GrantIs
  <2>2. QED
    BY <2>1 DEF GrantStep
<1>9. ManagerGrows /\ NewNames(own, job, own2, job2)
  <2>1. ASSUME k.ok, r.cmd = "createtable", k.tableid = Len(manager.tables) + 1, k.name = r.table,
               manager' = [manager EXCEPT !.tables = Append(@, r.table), !.fields = Append(@, <<>>)]
        PROVE  ManagerGrows /\ NewNames(own, job, own2, job2)
    <3>1. PICK t, id : t = r.table /\ id = Len(manager.tables) + 1
      OBVIOUS
    <3>2. TableMore(t)
      BY <2>1, <3>1, TableMoreIs
    <3>3. ToBeSent("TABLENAME", id, t, job2)'
      BY <1>2, <1>6, <1>8, <2>1, <3>1 DEF ToBeSent, CmdOf
    <3>4. QED
      BY <3>1, <3>2, <3>3, NewTable
  <2>2. ASSUME k.ok, r.cmd = "addcolumn", r.table \in DOMAIN manager.fields,
               manager' = [manager EXCEPT !.fields[r.table] = Append(@, r.column)],
               k.tableid = r.table, k.name = r.column
        PROVE  ManagerGrows /\ NewNames(own, job, own2, job2)
    <3>1. PICK id, n : id = r.table /\ n = r.column
      OBVIOUS
    <3>2. ColumnMore(id, n)
      BY <2>2, <3>1, ColumnMoreIs
    <3>3. ToBeSent("FIELDNAME", id, n, job2)'
      BY <1>2, <1>6, <1>8, <2>2, <3>1 DEF ToBeSent, CmdOf
    <3>4. QED
      BY <3>2, <3>3, NewColumn
  <2>3. ASSUME manager' = manager \/ manager' = [manager EXCEPT !.schema = TRUE]
        PROVE  ManagerGrows /\ NewNames(own, job, own2, job2)
    <3>1. manager'.tables = manager.tables /\ manager'.fields = manager.fields
      BY <2>3 DEF Shape
    <3>2. QED
      BY <3>1, NothingMore
  <2>4. QED
    BY <1>1, <2>1, <2>2, <2>3 DEF ManagerDid
<1>10. NamingStep(own, job, own2, job2)
  <2>1. NameFrame({}, {Agent(u)}, k)
    BY <1>3, <1>6, <1>9 DEF NameFrame
  <2>2. QED
    BY <1>5, <1>6, <1>7, <1>9, <2>1 DEF NamingStep
<1>11. KnownInv' /\ StatementsInv'
  BY <1>6, <1>9, KnownKept, StatementsKept DEF Naming
<1>12. QED
  BY <1>1, <1>10, <1>11, NamingKept

-----------------------------------------------------------------------------
(* The invariant of the operations and the copies.                         *)

Core(own, job) == /\ Operational(job) /\ Done(own, job) /\ TalkInv
                  /\ TablesAreNamed => Naming(own, job)

CoreInv ==
  Shape /\ \E own \in [DOMAIN manager.tables -> Clients], job \in [Clients -> Job] : Core(own, job)

CoreThen ==
  \E own \in [DOMAIN manager'.tables -> Clients], job \in [Clients -> Job] : Core(own, job)'

LEMMA CoreSame ==
  ASSUME NEW own \in [DOMAIN manager.tables -> Clients], NEW job \in [Clients -> Job],
         UNCHANGED manager, Core(own, job)'
  PROVE  CoreThen
  BY DEF CoreThen

LEMMA CoreQuiet ==
  ASSUME Shape, Shape', NEW own \in [DOMAIN manager.tables -> Clients], NEW job \in [Clients -> Job],
         Core(own, job), QuietStep, TablesAreNamed => Naming(own, job)'
  PROVE  CoreThen
<1>1. Core(own, job)'
  BY QuietAll DEF Core
<1>2. UNCHANGED manager
  BY DEF QuietStep, Still, Quiet
<1>3. QED
  BY <1>1, <1>2, CoreSame

LEMMA CoreStart ==
  ASSUME Disciplined, Shape, Shape', NEW own \in [DOMAIN manager.tables -> Clients],
         NEW job \in [Clients -> Job], Core(own, job), NEW c \in Clients, NEW cmd, NEW table,
         NEW column, Start(c, cmd, table, column), cmd = "addcolumn" => table \in TablesOf(c)
  PROVE  CoreThen
<1>1. PICK u : StartStep(c, cmd, table, column, u)
  BY StartIs DEF Core
<1>2. Operational(job)'
  BY <1>1, StartOps DEF Core
<1>3. Done(own, job)'
  BY <1>1, DoneStart DEF Core
<1>4. TalkInv'
  BY <1>1, TalkStart DEF Core
<1>5. UNCHANGED manager
  BY <1>1 DEF StartStep
<1>6. TablesAreNamed => Naming(own, job)'
  BY <1>1, NamingStart DEF Core
<1>7. Core(own, job)'
  BY <1>2, <1>3, <1>4, <1>6 DEF Core
<1>8. QED
  BY <1>5, <1>7, CoreSame

LEMMA CoreClient ==
  ASSUME Disciplined, Shape, Shape', NEW own \in [DOMAIN manager.tables -> Clients],
         NEW job \in [Clients -> Job], Core(own, job), ClientNext
  PROVE  CoreThen
<1>1. PICK c \in Clients :
        \/ CreateSchema(c)
        \/ \E t \in TableNames : CreateTable(c, t)
        \/ DeleteTable(c)
        \/ \E id \in DOMAIN manager.tables, column \in Columns : AddColumn(c, id, column)
        \/ \E t \in TableNames, column \in Columns : Compile(c, t, column)
        \/ \E proc \in Procedures : LoadProcedure(c, proc)
        \/ PgLogin(c)
  BY DEF ClientNext
<1>2. CASE CreateSchema(c)
  BY <1>2, CoreStart DEF CreateSchema
<1>3. CASE \E t \in TableNames : CreateTable(c, t)
  BY <1>3, CoreStart DEF CreateTable
<1>4. CASE DeleteTable(c)
  BY <1>4, CoreStart DEF DeleteTable
<1>5. ASSUME NEW id \in DOMAIN manager.tables, NEW column \in Columns, AddColumn(c, id, column)
      PROVE  CoreThen
  BY <1>5, CoreStart DEF AddColumn
<1>6. ASSUME NEW t \in TableNames, NEW column \in Columns, Compile(c, t, column)
      PROVE  CoreThen
  BY <1>1, <1>6, CompileQuiet, NamingCompile, CoreQuiet DEF Core
<1>7. ASSUME NEW proc \in Procedures, LoadProcedure(c, proc)
      PROVE  CoreThen
  BY <1>7, LoadQuiet, NamingLoad, CoreQuiet DEF Core
<1>8. CASE PgLogin(c)
  BY <1>8, LoginQuiet, NamingLogin, CoreQuiet DEF Core
<1>9. QED
  BY <1>1, <1>2, <1>3, <1>4, <1>5, <1>6, <1>7, <1>8

LEMMA CoreManager ==
  ASSUME Shape, Shape', NEW own \in [DOMAIN manager.tables -> Clients],
         NEW job \in [Clients -> Job], Core(own, job), UserSchemaMgr
  PROVE  CoreThen
<1>1. PICK k, u : u = Head(usmMbox).op /\ Reported(k, u) /\ ManagerDid(Head(usmMbox), k)
  BY ManagerStep
<1>2. PICK job2 : job2 = NewJob(job, k)
  OBVIOUS
<1>3. PICK own2 \in [DOMAIN manager'.tables -> Clients] : Done(own2, job2)' /\ OwnersStay(own, own2)
  BY <1>1, <1>2, DoneManager DEF Core, OwnedNext
<1>4. job2 \in [Clients -> Job] /\ Operational(job2)'
  BY <1>1, <1>2, ManagerSame, ManagerOps DEF Core
<1>5. TalkInv'
  BY <1>1, TalkManager DEF Core
<1>6. TablesAreNamed => Naming(own2, job2)'
  BY <1>1, <1>2, <1>3, NamingManager DEF Core
<1>7. Core(own2, job2)'
  BY <1>3, <1>4, <1>5, <1>6 DEF Core
<1>8. QED
  BY <1>3, <1>4, <1>7 DEF CoreThen

LEMMA CoreRequest ==
  ASSUME Shape, Shape', NEW own \in [DOMAIN manager.tables -> Clients],
         NEW job \in [Clients -> Job], Core(own, job), NEW x \in Actors, SchemaRequest(x)
  PROVE  CoreThen
<1>1. PICK m, u, k : RequestStep(x, m, u, k, job)
  BY RequestIs DEF Core
<1>2. Operational(job)' /\ UNCHANGED manager
  BY <1>1, RequestLags DEF Core
<1>3. Done(own, job)'
  BY <1>1, DoneRequest DEF Core
<1>4. TalkInv'
  BY <1>1, TalkRequest DEF Core
<1>5. TablesAreNamed => Naming(own, job)'
  BY <1>1, NamingRequest DEF Core
<1>6. Core(own, job)'
  BY <1>2, <1>3, <1>4, <1>5 DEF Core
<1>7. QED
  BY <1>2, <1>6, CoreSame

LEMMA CoreReply ==
  ASSUME Shape, Shape', NEW own \in [DOMAIN manager.tables -> Clients],
         NEW job \in [Clients -> Job], Core(own, job), NEW a \in Agents, SchemaReply(a)
  PROVE  CoreThen
<1>1. PICK m, u : /\ GoodReply(a, 1, m, job)
                  /\ \/ RefusedStep(a, m, u) \/ PassStep(a, m, u)
                     \/ LastStep(a, m, u) \/ CountStep(a, m, u)
  BY ReplyCases DEF Core
<1>2. TalkInv'
  BY <1>1, TalkReply DEF Core
<1>3. UNCHANGED manager
  BY <1>1 DEF RefusedStep, PassStep, LastStep, CountStep, EndStep, ReplyStep
<1>4. Operational(job)' /\ Done(own, job)'
  <2>1. CASE RefusedStep(a, m, u)
    BY <2>1, EndOps, DoneRefused DEF Core, RefusedStep
  <2>2. CASE PassStep(a, m, u)
    BY <1>1, <2>2, PassOps, DonePass DEF Core
  <2>3. CASE LastStep(a, m, u)
    BY <1>1, <2>3, EndOps, DoneLast DEF Core, LastStep
  <2>4. CASE CountStep(a, m, u)
    BY <2>4, CountOps, DoneCount DEF Core
  <2>5. QED
    BY <1>1, <2>1, <2>2, <2>3, <2>4
<1>5. TablesAreNamed => Naming(own, job)'
  BY <1>1, NamingRefused, NamingPass, NamingCount DEF Core
<1>6. Core(own, job)'
  BY <1>2, <1>4, <1>5 DEF Core
<1>7. QED
  BY <1>3, <1>6, CoreSame

LEMMA CoreSend ==
  ASSUME Shape, Shape', NEW own \in [DOMAIN manager.tables -> Clients],
         NEW job \in [Clients -> Job], Core(own, job), NEW a \in Agents, SendOne(a)
  PROVE  CoreThen
<1>1. PICK s, u : SendStep(a, s, u)
  BY SendIs DEF Core
<1>2. Operational(job)' /\ \A op \in DOMAIN operations : Stays(op)
  BY <1>1, SendOps DEF Core
<1>3. UNCHANGED <<manager, copy, up, answers, operations>>
  BY <1>1 DEF SendStep
<1>4. Done(own, job)'
  BY <1>2, <1>3, DoneQuiet DEF Core
<1>5. TalkInv'
  BY <1>1, TalkSend DEF Core
<1>6. TablesAreNamed => Naming(own, job)'
  BY <1>1, NamingSend DEF Core
<1>7. Core(own, job)'
  BY <1>2, <1>4, <1>5, <1>6 DEF Core
<1>8. QED
  BY <1>3, <1>7, CoreSame

LEMMA CoreAgent ==
  ASSUME Shape, Shape', NEW own \in [DOMAIN manager.tables -> Clients],
         NEW job \in [Clients -> Job], Core(own, job), NEW a \in Agents, AgentNext(a)
  PROVE  CoreThen
<1>1. a \in Actors
  BY DEF Actors
<1>2. CASE SendOne(a)
  BY <1>2, CoreSend
<1>3. CASE SchemaRequest(a)
  BY <1>1, <1>3, CoreRequest
<1>4. CASE SchemaReply(a)
  BY <1>4, CoreReply
<1>5. CASE Name(a, "TABLENAME")
  BY <1>5, NameQuiet, NamingName, CoreQuiet DEF Core, NameTopics
<1>6. CASE Name(a, "FIELDNAME")
  BY <1>6, NameQuiet, NamingName, CoreQuiet DEF Core, NameTopics
<1>7. CASE NewStatement(a)
  BY <1>7, StatementQuiet, NamingStatement, CoreQuiet DEF Core
<1>8. CASE Procedure1(a) \/ Procedure2(a)
  BY <1>8, ProcedureQuiet, NamingProcedure, CoreQuiet DEF Core
<1>9. QED
  BY <1>2, <1>3, <1>4, <1>5, <1>6, <1>7, <1>8 DEF AgentNext

LEMMA CoreNext == Disciplined /\ CoreInv /\ [Next]_vars => CoreInv'
<1>1. SUFFICES ASSUME Disciplined, CoreInv, [Next]_vars PROVE CoreInv'
  OBVIOUS
<1>2. Shape /\ Shape'
  BY <1>1, ShapeNext DEF CoreInv
<1>3. PICK own \in [DOMAIN manager.tables -> Clients], job \in [Clients -> Job] : Core(own, job)
  BY <1>1 DEF CoreInv
<1>4. CASE Next
  <2>1. ASSUME ClientNext PROVE CoreThen
    BY <1>1, <1>2, <1>3, <2>1, CoreClient
  <2>2. ASSUME UserSchemaMgr PROVE CoreThen
    BY <1>2, <1>3, <2>2, CoreManager
  <2>3. ASSUME NEW a \in Agents, AgentNext(a) PROVE CoreThen
    BY <1>2, <1>3, <2>3, CoreAgent
  <2>4. ASSUME NEW e \in Engines, SchemaRequest(e) PROVE CoreThen
    BY <1>2, <1>3, <2>4, CoreRequest DEF Actors
  <2>5. CoreThen
    BY <1>4, <2>1, <2>2, <2>3, <2>4 DEF Next
  <2>6. QED
    BY <1>2, <2>5 DEF CoreThen, CoreInv
<1>5. CASE UNCHANGED vars
  <2>1. UNCHANGED <<manager, copy, names, statements, operations, usmMbox, mbox, sending, waiting,
                    answers, up>>
    BY <1>5 DEF vars, managerVars, copyVars
  <2>2. SendingFine /\ Quiet({}, {}, <<>>)
    BY <1>2, <2>1, MailSame DEF SendingFine, Quiet
  <2>3. Still({}, {}, <<>>)
    BY <2>1, <2>2 DEF Still
  <2>4. QuietStep
    BY <2>3 DEF QuietStep
  <2>5. TablesAreNamed => Naming(own, job)'
    BY <1>2, <1>3, <2>1, <2>4, NamingStill DEF Core
  <2>6. CoreThen
    BY <1>2, <1>3, <2>4, <2>5, CoreQuiet
  <2>7. QED
    BY <1>2, <2>6 DEF CoreThen, CoreInv
<1>6. QED
  BY <1>1, <1>4, <1>5

LEMMA CoreInit == Init => CoreInv
<1>1. SUFFICES ASSUME Init PROVE CoreInv
  OBVIOUS
<1>2. Shape
  BY <1>1, ShapeInit
<1>3. /\ manager.tables = <<>> /\ manager.fields = <<>> /\ manager.schema = FALSE
      /\ usmMbox = <<>> /\ answers = {} /\ up = TRUE
      /\ DOMAIN operations = {}
      /\ \A x \in Actors : mbox[x] = <<>> /\ copy[x].schema = "none" /\ DOMAIN copy[x].fields = {}
      /\ \A a \in Agents : /\ sending[a] = <<>> /\ DOMAIN statements[a] = {}
                           /\ DOMAIN names[a].tables = {} /\ DOMAIN names[a].fields = {}
  BY <1>1 DEF Init, Nothing
<1>4. PICK job : job = [c \in Clients |-> [tableid |-> 0, fieldid |-> 0, name |-> NoName]]
  OBVIOUS
<1>5. PICK own : own = [id \in {} |-> NoName]
  OBVIOUS
<1>6. job \in [Clients -> Job] /\ own \in [DOMAIN manager.tables -> Clients]
  BY <1>3, <1>4, <1>5 DEF Job, AnyName
<1>7. Operational(job)
  <2>1. OneEach /\ UsmInv /\ NoReplySent
    BY <1>3 DEF OneEach, UsmInv, NoReplySent
  <2>2. \A op \in OpId : OpInv(op, job)
    BY <1>3 DEF OpInv, RepliesOk, PostedOk, UnsentOk, CountOk
  <2>3. QED
    BY <2>1, <2>2 DEF Operational
<1>8. Done(own, job)
  <2>1. CopyInv(job) /\ SchemaInv
    BY <1>3 DEF CopyInv, SchemaInv
  <2>2. AnswersInv(own)
    BY <1>3 DEF AnswersInv, AnswersAreTrue, AnswersHoldEverywhere, OnlyTheManagerRefuses
  <2>3. QED
    BY <1>3, <2>1, <2>2 DEF Done
<1>9. TalkInv
  BY <1>3 DEF TalkInv
<1>10. Naming(own, job)
  <2>1. NameMsgInv /\ CompileInv
    BY <1>3 DEF NameMsgInv, CompileInv, Actors
  <2>2. KnownInv /\ StatementsInv
    BY <1>3 DEF KnownInv, StatementsInv
  <2>3. NamedInv(own, job)
    BY <1>3 DEF NamedInv, Exists
  <2>4. QED
    BY <2>1, <2>2, <2>3 DEF Naming
<1>11. QED
  BY <1>2, <1>6, <1>7, <1>8, <1>9, <1>10 DEF CoreInv, Core

-----------------------------------------------------------------------------
LEMMA CoreAlways == ASSUME Disciplined PROVE Spec => []CoreInv
<1>1. Init => CoreInv
  BY CoreInit
<1>2. CoreInv /\ [Next]_vars => CoreInv'
  BY CoreNext
<1>3. QED
  BY <1>1, <1>2, PTL DEF Spec

LEMMA CoreCopies == CoreInv => CopiesFollowTheManager
  BY FollowsPrefix DEF CoreInv, Core

LEMMA CoreAnswers == CoreInv => AnswersAreTrue
  BY DEF CoreInv, Core, Done, AnswersInv

LEMMA CoreNames == TablesAreNamed /\ CoreInv => NamesResolve
<1>1. SUFFICES ASSUME TablesAreNamed, CoreInv PROVE NamesResolve
  OBVIOUS
<1>2. KnownInv /\ StatementsInv
  BY <1>1 DEF CoreInv, Core, Naming
<1>3. ASSUME NEW a \in Agents, NEW t \in DOMAIN names[a].tables \ {NoName}
      PROVE  /\ names[a].tables[t] \in DOMAIN copy[a].fields
             /\ manager.tables[names[a].tables[t]] = t
  <2>1. IsSo(a, TableSays(names[a].tables[t], t))
    BY <1>2, <1>3 DEF KnownInv
  <2>2. QED
    BY <2>1 DEF IsSo, Right, Made, TableSays
<1>4. QED
  BY <1>2, <1>3 DEF NamesResolve, StatementsInv, ResolvedTo

\* The copies of the schema that agents and Engines keep (TransactionAgent.cc, Engine.cc) have
\* the columns of the manager (UserSchemaMgr.cc) under its numbers, in its order.
THEOREM CopiesFollow == ASSUME Disciplined PROVE Spec => []CopiesFollowTheManager
  BY CoreAlways, CoreCopies, PTL

\* What schemaBoilerplate (TransactionAgent.cc) answers is so: an OK in every copy, and only
\* the manager refuses.
THEOREM AnswersHold == ASSUME Disciplined PROVE Spec => []AnswersAreTrue
  BY CoreAlways, CoreAnswers, PTL

\* The numbers that an agent's tableNameToId and its statements have are those of the names,
\* and the agent has the table and the column (TransactionAgent.cc, Larxer.cc).  The name of a
\* table is not empty: that is what a refused createtable announces.
THEOREM NamesStayResolved == ASSUME Disciplined, TablesAreNamed PROVE Spec => []NamesResolve
  BY CoreAlways, CoreNames, PTL

-----------------------------------------------------------------------------
(* What holds whatever the clients do: two agents may have columns added   *)
(* to one table at once, a client may use another's table, or one with no  *)
(* schema.  The copies can then number a column differently, but nobody    *)
(* has a column, a name or a statement that is not the manager's.          *)

HasColumn(id, c)     == id \in DOMAIN manager.fields
                        /\ \E k \in DOMAIN manager.fields[id] : manager.fields[id][k] = c
MadeTable(id, t)     == id \in DOMAIN manager.tables /\ manager.tables[id] = t
MadeColumn(id, k, c) == /\ id \in DOMAIN manager.fields /\ k + 1 \in DOMAIN manager.fields[id]
                        /\ manager.fields[id][k + 1] = c

CopiesAreTheManagers ==
  \A x \in Actors : \A id \in DOMAIN copy[x].fields :
    /\ id \in DOMAIN manager.fields
    /\ \A i \in DOMAIN copy[x].fields[id] : HasColumn(id, copy[x].fields[id][i])

TablesOfTheManager(a) ==
  \A t \in DOMAIN names[a].tables : t = NoName \/ MadeTable(names[a].tables[t], t)

ColumnsOfTheManager(a) ==
  \A f \in DOMAIN names[a].fields : f[2] = NoName \/ MadeColumn(f[1], names[a].fields[f], f[2])

StatementSays(st, ids) ==
  /\ ids[1] # -1 /\ st[1] # NoName => MadeTable(ids[1], st[1])
  /\ ids[2] # -1 /\ st[2] # NoName => MadeColumn(ids[1], ids[2], st[2])

StatementsOfTheManager(a) ==
  \A st \in DOMAIN statements[a] : StatementSays(st, statements[a][st])

OfTheManager ==
  /\ CopiesAreTheManagers
  /\ \A a \in Agents : TablesOfTheManager(a) /\ ColumnsOfTheManager(a) /\ StatementsOfTheManager(a)

\* A message says what the manager has, or its operation is past heeding it.
ReplySays(m) ==
  /\ m.op[2] <= issued
  /\ m.op \in DOMAIN operations /\ operations[m.op].state = "usm" =>
       /\ ~m.ok => m.name = NoName
       /\ m.ok /\ operations[m.op].cmd = "createtable" => MadeTable(m.tableid, m.name)
       /\ m.ok /\ operations[m.op].cmd = "addcolumn" => MadeColumn(m.tableid, m.fieldid, m.name)

RequestSays(m) ==
  /\ m.op[2] <= issued
  /\ m.op \in DOMAIN operations => operations[m.op].state = "tasengines"
  /\ m.cmd = "createtable" => m.tableid \in DOMAIN manager.tables
  /\ m.cmd = "addcolumn" => HasColumn(m.tableid, m.column)

SaysSo(m) ==
  /\ m.topic = "SCHEMAREPLY" => ReplySays(m)
  /\ m.topic = "SCHEMAREQUEST" => RequestSays(m)
  /\ m.topic = "TABLENAME" => m.name = NoName \/ MadeTable(m.tableid, m.name)
  /\ m.topic = "FIELDNAME" => m.name = NoName \/ MadeColumn(m.tableid, m.fieldid, m.name)

AsksSo(r) == r.op[2] <= issued /\ (r.op \in DOMAIN operations => operations[r.op].cmd = r.cmd)

MboxSaysSo    == \A x \in Actors : \A i \in DOMAIN mbox[x] : SaysSo(mbox[x][i])
SendingSaysSo == \A a \in Agents : \A i \in DOMAIN sending[a] : SaysSo(sending[a][i].m)
UsmSaysSo     == \A i \in DOMAIN usmMbox : AsksSo(usmMbox[i])
OpsAreIssued  == \A op \in DOMAIN operations : op[2] <= issued

Honest == /\ Shape /\ MboxSaysSo /\ SendingSaysSo /\ UsmSaysSo /\ OpsAreIssued /\ OfTheManager

\* What a step does to the operations: it ends them, moves them on, or has a new one issued.
OpsGoOn ==
  /\ issued \in Nat /\ issued' \in Nat /\ issued <= issued'
  /\ \A op \in DOMAIN operations' :
       /\ op[2] <= issued'
       /\ \/ /\ op \in DOMAIN operations /\ operations'[op].cmd = operations[op].cmd
             /\ operations[op].state = "tasengines" => operations'[op].state = "tasengines"
             /\ operations'[op].state = "usm" => operations[op].state = "usm"
          \/ issued < op[2]

LEMMA ManagerKeeps ==
  ASSUME ManagerGrows
  PROVE  /\ \A id, t : MadeTable(id, t) => MadeTable(id, t)'
         /\ \A id, c : HasColumn(id, c) => HasColumn(id, c)'
         /\ \A id, k, c : MadeColumn(id, k, c) => MadeColumn(id, k, c)'
  BY DEF ManagerGrows, MadeTable, HasColumn, MadeColumn

LEMMA SaysStill ==
  ASSUME ManagerGrows, OpsGoOn, NEW m \in Msg, SaysSo(m)
  PROVE  SaysSo(m)'
<1>1. /\ \A id, t : MadeTable(id, t) => MadeTable(id, t)'
      /\ \A id, c : HasColumn(id, c) => HasColumn(id, c)'
      /\ \A id, k, c : MadeColumn(id, k, c) => MadeColumn(id, k, c)'
  BY ManagerKeeps
<1>2. ASSUME NEW op \in OpId, op[2] <= issued
      PROVE  /\ op[2] <= issued'
             /\ op \in DOMAIN operations' =>
                  /\ op \in DOMAIN operations /\ operations'[op].cmd = operations[op].cmd
                  /\ operations[op].state = "tasengines" => operations'[op].state = "tasengines"
                  /\ operations'[op].state = "usm" => operations[op].state = "usm"
  <2>1. op[2] \in Nat
    BY DEF OpId
  <2>2. op[2] <= issued' /\ ~(issued < op[2])
    BY <1>2, <2>1 DEF OpsGoOn
  <2>3. QED
    BY <2>2 DEF OpsGoOn
<1>3. CASE m.topic = "SCHEMAREPLY"
  <2>1. m.op \in OpId /\ ReplySays(m)
    BY <1>3, Topics DEF ReplyMsg, SaysSo
  <2>2. ReplySays(m)'
    BY <2>1, <1>1, <1>2 DEF ReplySays
  <2>3. QED
    BY <1>3, <2>2 DEF SaysSo
<1>4. CASE m.topic = "SCHEMAREQUEST"
  <2>1. m.op \in OpId /\ RequestSays(m)
    BY <1>4, Topics DEF RequestMsg, SaysSo
  <2>2. m.tableid \in DOMAIN manager.tables => m.tableid \in DOMAIN manager'.tables
    BY DEF ManagerGrows
  <2>3. RequestSays(m)'
    BY <2>1, <2>2, <1>1, <1>2 DEF RequestSays
  <2>4. QED
    BY <1>4, <2>3 DEF SaysSo
<1>5. CASE m.topic \notin {"SCHEMAREPLY", "SCHEMAREQUEST"}
  BY <1>1, <1>5 DEF SaysSo
<1>6. QED
  BY <1>3, <1>4, <1>5

LEMMA AsksStill ==
  ASSUME OpsGoOn, NEW r \in UsmRequest, AsksSo(r)
  PROVE  AsksSo(r)'
<1>1. r.op[2] \in Nat
  BY DEF UsmRequest, OpId
<1>2. r.op[2] <= issued' /\ ~(issued < r.op[2])
  BY <1>1 DEF OpsGoOn, AsksSo
<1>3. QED
  BY <1>2 DEF OpsGoOn, AsksSo

\* A step puts only true messages into mailboxes and broadcasts.
LEMMA MboxStill ==
  ASSUME Shape, Shape', MboxSaysSo, ManagerGrows, OpsGoOn, NEW pop, NEW add, NEW m, Mail(pop, add, m),
         add # {} => SaysSo(m)'
  PROVE  MboxSaysSo'
<1> SUFFICES ASSUME NEW x \in Actors, NEW k \in DOMAIN mbox'[x] PROVE SaysSo(mbox[x][k])'
  BY DEF MboxSaysSo
<1>1. PICK p : p = Pops(pop, x)
  OBVIOUS
<1>2. \/ k + p \in DOMAIN mbox[x] /\ mbox'[x][k] = mbox[x][k + p]
      \/ x \in add /\ mbox'[x][k] = m
  BY <1>1, MailFacts
<1>3. CASE x \in add /\ mbox'[x][k] = m
  <2>1. SaysSo(m)'
    BY <1>3
  <2>2. mbox'[x][k] = m
    BY <1>3
  <2>3. QED
    BY <2>1, <2>2 DEF SaysSo, ReplySays, RequestSays, MadeTable, MadeColumn, HasColumn
<1>4. CASE k + p \in DOMAIN mbox[x] /\ mbox'[x][k] = mbox[x][k + p]
  <2>1. PICK q : q = mbox[x][k + p]
    OBVIOUS
  <2>2. q \in Msg /\ SaysSo(q)
    BY <1>4, <2>1, Boxes DEF MboxSaysSo
  <2>3. SaysSo(q)'
    BY <2>2, SaysStill
  <2>4. mbox'[x][k] = q
    BY <1>4, <2>1
  <2>5. QED
    BY <2>3, <2>4 DEF SaysSo, ReplySays, RequestSays, MadeTable, MadeColumn, HasColumn
<1>5. QED
  BY <1>2, <1>3, <1>4

LEMMA SendingStill ==
  ASSUME Shape, Shape', SendingSaysSo, ManagerGrows, OpsGoOn,
         \A a \in Agents : \/ sending'[a] = sending[a]
                           \/ sending[a] # <<>> /\ sending'[a] = Tail(sending[a])
                           \/ \A i \in DOMAIN sending'[a] : SaysSo(sending[a][i].m)'
  PROVE  SendingSaysSo'
<1> SUFFICES ASSUME NEW a \in Agents, NEW i \in DOMAIN sending'[a] PROVE SaysSo(sending[a][i].m)'
  BY DEF SendingSaysSo
<1>1. ASSUME NEW j \in DOMAIN sending[a], sending'[a][i] = sending[a][j]
      PROVE  SaysSo(sending[a][i].m)'
  <2>1. PICK q : q = sending[a][j].m
    OBVIOUS
  <2>2. q \in Msg /\ SaysSo(q)
    BY <2>1, Sendings DEF SendingSaysSo
  <2>3. SaysSo(q)'
    BY <2>2, SaysStill
  <2>4. sending'[a][i].m = q
    BY <1>1, <2>1
  <2>5. QED
    BY <2>3, <2>4 DEF SaysSo, ReplySays, RequestSays, MadeTable, MadeColumn, HasColumn
<1>2. CASE sending'[a] = sending[a]
  BY <1>1, <1>2
<1>3. CASE sending[a] # <<>> /\ sending'[a] = Tail(sending[a])
  <2>1. i + 1 \in DOMAIN sending[a] /\ sending'[a][i] = sending[a][i + 1]
    BY <1>3, Sendings, TailFirst
  <2>2. QED
    BY <2>1, <1>1
<1>4. QED
  BY <1>2, <1>3

LEMMA UsmStill ==
  ASSUME Shape, Shape', UsmSaysSo, OpsGoOn,
         \/ usmMbox' = usmMbox
         \/ usmMbox # <<>> /\ usmMbox' = Tail(usmMbox)
         \/ \E r \in UsmRequest : usmMbox' = Append(usmMbox, r) /\ AsksSo(r)'
  PROVE  UsmSaysSo'
<1> SUFFICES ASSUME NEW i \in DOMAIN usmMbox' PROVE AsksSo(usmMbox[i])'
  BY DEF UsmSaysSo
<1>0. usmMbox \in Seq(UsmRequest)
  BY DEF Shape
<1>1. ASSUME NEW j \in DOMAIN usmMbox, usmMbox'[i] = usmMbox[j] PROVE AsksSo(usmMbox[i])'
  <2>1. PICK q : q = usmMbox[j]
    OBVIOUS
  <2>2. q \in UsmRequest /\ AsksSo(q)
    BY <1>0, <2>1 DEF UsmSaysSo
  <2>3. AsksSo(q)'
    BY <2>2, AsksStill
  <2>4. usmMbox'[i] = q
    BY <1>1, <2>1
  <2>5. QED
    BY <2>3, <2>4 DEF AsksSo
<1>2. CASE usmMbox' = usmMbox
  BY <1>1, <1>2
<1>3. CASE usmMbox # <<>> /\ usmMbox' = Tail(usmMbox)
  <2>1. i + 1 \in DOMAIN usmMbox /\ usmMbox'[i] = usmMbox[i + 1]
    BY <1>0, <1>3, TailFirst
  <2>2. QED
    BY <2>1, <1>1
<1>4. ASSUME NEW r \in UsmRequest, usmMbox' = Append(usmMbox, r), AsksSo(r)'
      PROVE  AsksSo(usmMbox[i])'
  <2>1. PICK s, t : s = usmMbox /\ t = usmMbox'
    OBVIOUS
  <2>2. s \in Seq(UsmRequest) /\ t = Append(s, r) /\ i \in DOMAIN t
    BY <1>0, <1>4, <2>1
  <2>3. (i \in DOMAIN s /\ t[i] = s[i]) \/ t[i] = r
    BY <2>2
  <2>4. CASE i \in DOMAIN s /\ t[i] = s[i]
    BY <1>1, <2>1, <2>4
  <2>5. CASE t[i] = r
    <3>1. usmMbox'[i] = r
      BY <2>1, <2>5
    <3>2. QED
      BY <1>4, <3>1 DEF AsksSo
  <2>6. QED
    BY <2>3, <2>4, <2>5
<1>5. QED
  BY <1>2, <1>3, <1>4

LEMMA CopiesStill ==
  ASSUME CopiesAreTheManagers, ManagerGrows, \A x \in Actors : copy'[x].fields = copy[x].fields
  PROVE  CopiesAreTheManagers'
<1>1. \A id, c : HasColumn(id, c) => HasColumn(id, c)'
  BY ManagerKeeps
<1>2. \A id \in DOMAIN manager.fields : id \in DOMAIN manager'.fields
  BY DEF ManagerGrows
<1> SUFFICES ASSUME NEW x \in Actors, NEW id \in DOMAIN copy'[x].fields
             PROVE  /\ id \in DOMAIN manager'.fields
                    /\ \A i \in DOMAIN copy'[x].fields[id] : HasColumn(id, copy[x].fields[id][i])'
  BY DEF CopiesAreTheManagers
<1>3. PICK f : f = copy[x].fields
  OBVIOUS
<1>4. id \in DOMAIN f /\ id \in DOMAIN manager.fields /\ \A i \in DOMAIN f[id] : HasColumn(id, f[id][i])
  BY <1>3 DEF CopiesAreTheManagers
<1>5. \A i \in DOMAIN f[id] : HasColumn(id, f[id][i])'
  BY <1>1, <1>4
<1>6. copy'[x].fields = f
  BY <1>3
<1>7. QED
  BY <1>2, <1>4, <1>5, <1>6 DEF HasColumn

LEMMA NamesStill ==
  ASSUME ManagerGrows, NEW a \in Agents, names'[a] = names[a],
         TablesOfTheManager(a), ColumnsOfTheManager(a)
  PROVE  TablesOfTheManager(a)' /\ ColumnsOfTheManager(a)'
<1>1. PICK n : n = names[a]
  OBVIOUS
<1>2. names'[a] = n
  BY <1>1
<1>3. \A t \in DOMAIN n.tables : t = NoName \/ MadeTable(n.tables[t], t)
  BY <1>1 DEF TablesOfTheManager
<1>4. \A f \in DOMAIN n.fields : f[2] = NoName \/ MadeColumn(f[1], n.fields[f], f[2])
  BY <1>1 DEF ColumnsOfTheManager
<1>5. \A t \in DOMAIN n.tables : t = NoName \/ MadeTable(n.tables[t], t)'
  BY <1>3, ManagerKeeps
<1>6. \A f \in DOMAIN n.fields : f[2] = NoName \/ MadeColumn(f[1], n.fields[f], f[2])'
  BY <1>4, ManagerKeeps
<1>7. TablesOfTheManager(a)'
  BY <1>2, <1>5 DEF TablesOfTheManager, MadeTable
<1>8. ColumnsOfTheManager(a)'
  BY <1>2, <1>6 DEF ColumnsOfTheManager, MadeColumn
<1>9. QED
  BY <1>7, <1>8

LEMMA StatementsStill ==
  ASSUME ManagerGrows, NEW a \in Agents, statements'[a] = statements[a], StatementsOfTheManager(a)
  PROVE  StatementsOfTheManager(a)'
<1>1. PICK s : s = statements[a]
  OBVIOUS
<1>2. statements'[a] = s
  BY <1>1
<1>3. \A st \in DOMAIN s : StatementSays(st, s[st])
  BY <1>1 DEF StatementsOfTheManager
<1>4. \A st \in DOMAIN s : StatementSays(st, s[st])'
  BY <1>3, ManagerKeeps DEF StatementSays
<1>5. QED
  BY <1>2, <1>4 DEF StatementsOfTheManager, StatementSays, MadeTable, MadeColumn

\* Everything but the copies, the names and the statements.
Truthful(pop, add, m) ==
  /\ ManagerGrows /\ OpsGoOn /\ Mail(pop, add, m) /\ (add # {} => SaysSo(m)')
  /\ \A a \in Agents : \/ sending'[a] = sending[a]
                       \/ sending[a] # <<>> /\ sending'[a] = Tail(sending[a])
                       \/ \A i \in DOMAIN sending'[a] : SaysSo(sending[a][i].m)'
  /\ \/ usmMbox' = usmMbox
     \/ usmMbox # <<>> /\ usmMbox' = Tail(usmMbox)
     \/ \E r \in UsmRequest : usmMbox' = Append(usmMbox, r) /\ AsksSo(r)'

LEMMA HonestStill ==
  ASSUME Honest, Shape', NEW pop, NEW add, NEW m, Truthful(pop, add, m), OfTheManager'
  PROVE  Honest'
<1>1. MboxSaysSo'
  BY MboxStill DEF Truthful, Honest
<1>2. SendingSaysSo'
  BY SendingStill DEF Truthful, Honest
<1>3. UsmSaysSo'
  BY UsmStill DEF Truthful, Honest
<1>4. OpsAreIssued'
  BY DEF Truthful, OpsGoOn, OpsAreIssued
<1>5. QED
  BY <1>1, <1>2, <1>3, <1>4 DEF Honest

\* A step that leaves the names, the statements and the columns alone.
LEMMA HonestSame ==
  ASSUME Honest, Shape', NEW pop, NEW add, NEW m, Truthful(pop, add, m), UNCHANGED <<names, statements>>,
         \A x \in Actors : copy'[x].fields = copy[x].fields
  PROVE  Honest'
<1>1. CopiesAreTheManagers'
  BY CopiesStill DEF Honest, OfTheManager, Truthful
<1>2. ASSUME NEW a \in Agents
      PROVE  TablesOfTheManager(a)' /\ ColumnsOfTheManager(a)' /\ StatementsOfTheManager(a)'
  BY NamesStill, StatementsStill DEF Honest, OfTheManager, Truthful
<1>3. OfTheManager'
  BY <1>1, <1>2 DEF OfTheManager
<1>4. QED
  BY <1>3, HonestStill

LEMMA GrowsSame ==
  ASSUME Shape, manager' = manager
  PROVE  ManagerGrows
  BY DEF ManagerGrows

LEMMA IssuedNat ==
  ASSUME Shape
  PROVE  issued \in Nat
<1>1. issued \in 0 .. MaxOps
  BY DEF Shape
<1>2. QED
  BY <1>1

LEMMA OpsSame ==
  ASSUME Honest, operations' = operations, issued' = issued \/ issued' = issued + 1
  PROVE  OpsGoOn
<1>1. issued \in Nat
  BY IssuedNat DEF Honest
<1>2. \A op \in DOMAIN operations : op \in OpId /\ op[2] \in Nat /\ op[2] <= issued
  BY OpsInOpId DEF Honest, OpsAreIssued, OpId
<1>3. issued' \in Nat /\ issued <= issued'
  BY <1>1
<1>4. \A op \in DOMAIN operations : op[2] <= issued'
  BY <1>1, <1>2
<1>5. QED
  BY <1>1, <1>3, <1>4 DEF OpsGoOn

\* A step about messages only.
LEMMA OpsAlone ==
  ASSUME Honest, manager' = manager, operations' = operations, issued' = issued \/ issued' = issued + 1
  PROVE  ManagerGrows /\ OpsGoOn
  BY GrowsSame, OpsSame DEF Honest

LEMMA HonestInit == Init => Honest
<1> SUFFICES ASSUME Init PROVE Honest
  OBVIOUS
<1>1. Shape
  BY ShapeInit
<1>2. /\ usmMbox = <<>> /\ DOMAIN operations = {}
      /\ \A x \in Actors : mbox[x] = <<>> /\ DOMAIN copy[x].fields = {}
      /\ \A a \in Agents : /\ sending[a] = <<>> /\ DOMAIN statements[a] = {}
                           /\ DOMAIN names[a].tables = {} /\ DOMAIN names[a].fields = {}
  BY DEF Init, Nothing
<1>3. MboxSaysSo /\ SendingSaysSo /\ UsmSaysSo /\ OpsAreIssued
  BY <1>2 DEF MboxSaysSo, SendingSaysSo, UsmSaysSo, OpsAreIssued
<1>4. OfTheManager
  BY <1>2 DEF OfTheManager, CopiesAreTheManagers, TablesOfTheManager, ColumnsOfTheManager,
              StatementsOfTheManager
<1>5. QED
  BY <1>1, <1>3, <1>4 DEF Honest

LEMMA HonestStart ==
  ASSUME Honest, Shape', NEW c \in Clients, NEW cmd \in SchemaCommands,
         NEW table \in TableNames \cup Nat, NEW column \in AnyName, Start(c, cmd, table, column),
         cmd = "createtable" => table \in TableNames,
         cmd = "addcolumn" => table \in Nat /\ column \in Columns
  PROVE  Honest'
<1>1. Shape /\ issued \in Nat
  BY IssuedNat DEF Honest
<1>2. issued' = issued + 1 /\ issued' \in Nat
  BY <1>1, SentOne DEF Start
<1>3. PICK u : u = <<c, issued + 1>>
  OBVIOUS
<1>4. PICK o : o = [cmd |-> cmd, state |-> "usm", msgwaits |-> 0]
  OBVIOUS
<1>5. PICK r : r = [cmd |-> cmd, op |-> u, table |-> table, column |-> column]
  OBVIOUS
<1>6. u \in OpId /\ u[2] = issued + 1
  BY <1>1, <1>3 DEF OpId
<1>7. r \in UsmRequest /\ r.op = u /\ r.cmd = cmd
  BY <1>5, <1>6 DEF UsmRequest
<1>8. /\ operations' = With(operations, u, o) /\ usmMbox' = Append(usmMbox, r)
      /\ UNCHANGED <<manager, copy, names, statements, mbox, sending>>
  BY <1>2, <1>3, <1>4, <1>5 DEF Start, managerVars, copyVars
<1>9. Extended(operations', operations, u, o)
  BY <1>8, WithDom
<1>10. u \in DOMAIN operations' /\ operations'[u] = o /\ o.cmd = cmd
       /\ \A op \in DOMAIN operations' : op = u \/ (op \in DOMAIN operations /\ operations'[op] = operations[op])
  BY <1>4, <1>9 DEF Extended
<1>11. AsksSo(r)'
  BY <1>1, <1>2, <1>6, <1>7, <1>10 DEF AsksSo
<1>12. OpsGoOn
  <2>1. \A op \in DOMAIN operations : op[2] \in Nat /\ op[2] <= issued
    BY OpsInOpId, <1>1 DEF Honest, OpsAreIssued, OpId
  <2>2. \A op \in DOMAIN operations : op[2] <= issued'
    BY <2>1, <1>1, <1>2
  <2>3. issued < u[2] /\ u[2] <= issued' /\ issued <= issued'
    BY <1>1, <1>2, <1>6
  <2>4. QED
    BY <1>1, <1>2, <1>10, <2>2, <2>3 DEF OpsGoOn
<1>13. Mail({}, {}, <<>>)
  BY <1>1, <1>8, MailSame
<1>14. Truthful({}, {}, <<>>)
  BY <1>1, <1>7, <1>8, <1>11, <1>12, <1>13, GrowsSame DEF Truthful
<1>15. QED
  BY <1>8, <1>14, HonestSame

LEMMA HonestManager ==
  ASSUME Honest, Shape', UserSchemaMgr
  PROVE  Honest'
<1>1. Shape
  BY DEF Honest
<1>2. PICK k, u, r : r = Head(usmMbox) /\ u = r.op /\ Reported(k, u) /\ ManagerDid(r, k)
  BY <1>1, ManagerStep
<1>3. usmMbox # <<>> /\ usmMbox' = Tail(usmMbox) /\ k \in ReplyMsg /\ k.op = u
      /\ mbox' = [mbox EXCEPT ![Agent(u)] = Append(@, k)] /\ (~k.ok => k.name = NoName)
      /\ UNCHANGED <<copy, names, statements, operations, sending, issued>>
  BY <1>2 DEF Reported
<1>4. u \in OpId /\ Agent(u) \in Actors
  BY <1>3, AgentIn DEF ReplyMsg
<1>5. AsksSo(r)
  BY <1>1, <1>2, <1>3, TailFirst DEF Honest, UsmSaysSo, Shape
<1>6. /\ ManagerGrows
      /\ k.ok /\ r.cmd = "createtable" => MadeTable(k.tableid, k.name)'
      /\ k.ok /\ r.cmd = "addcolumn" => MadeColumn(k.tableid, k.fieldid, k.name)'
  <2>1. CASE manager' = manager /\ (k.ok => r.cmd = "deletetable")
    BY <1>1, <2>1, GrowsSame
  <2>2. CASE r.cmd = "createschema" /\ manager' = [manager EXCEPT !.schema = TRUE]
    <3>1. manager'.tables = manager.tables /\ manager'.fields = manager.fields
      BY <1>1, <2>2 DEF Shape
    <3>2. QED
      BY <2>2, <3>1 DEF ManagerGrows
  <2>3. ASSUME r.cmd = "createtable", k.tableid = Len(manager.tables) + 1, k.name = r.table,
               manager' = [manager EXCEPT !.tables = Append(@, r.table), !.fields = Append(@, <<>>)]
        PROVE  ManagerGrows /\ MadeTable(k.tableid, k.name)'
    <3>1. PICK t : t = r.table
      OBVIOUS
    <3>2. TableMore(t)
      BY <1>1, <2>3, <3>1, TableMoreIs
    <3>3. PICK n : n = Len(manager.tables) + 1
      OBVIOUS
    <3>4. n \in DOMAIN manager'.tables /\ manager'.tables[n] = t
      <4>1. DOMAIN manager'.tables = 1 .. n /\ manager'.tables[n] = t
        BY <3>2, <3>3 DEF TableMore
      <4>2. n \in 1 .. n
        BY <3>3, <1>1, FieldsTypes
      <4>3. QED
        BY <4>1, <4>2
    <3>5. k.tableid = n /\ k.name = t
      BY <2>3, <3>1, <3>3
    <3>6. ManagerGrows
      BY <3>2 DEF TableMore, TablesStay, ManagerGrows
    <3>7. QED
      BY <3>4, <3>5, <3>6 DEF MadeTable
  <2>4. ASSUME r.cmd = "addcolumn", r.table \in DOMAIN manager.fields,
               manager' = [manager EXCEPT !.fields[r.table] = Append(@, r.column)],
               k.tableid = r.table, k.fieldid = Len(manager.fields[r.table]), k.name = r.column
        PROVE  ManagerGrows /\ MadeColumn(k.tableid, k.fieldid, k.name)'
    <3>1. PICK id, n : id = r.table /\ n = r.column
      OBVIOUS
    <3>2. ColumnMore(id, n)
      BY <1>1, <2>4, <3>1, ColumnMoreIs
    <3>3. PICK f, g, s : f = manager.fields /\ g = manager'.fields /\ s = f[id]
      OBVIOUS
    <3>4. /\ id \in DOMAIN f /\ DOMAIN g = DOMAIN f /\ g[id] = Append(s, n) /\ s \in Seq(Columns)
          /\ \A i \in DOMAIN f : i # id => g[i] = f[i]
      BY <1>1, <3>2, <3>3 DEF ColumnMore, Shape
    <3>5. /\ \A i \in DOMAIN s : i \in DOMAIN g[id] /\ g[id][i] = s[i]
          /\ Len(s) + 1 \in DOMAIN g[id] /\ g[id][Len(s) + 1] = n
      BY <3>4
    <3>6. ManagerGrows
      BY <3>2, <3>3, <3>4, <3>5 DEF ManagerGrows, ColumnMore
    <3>7. k.tableid = id /\ k.fieldid = Len(s) /\ k.name = n
      BY <2>4, <3>1, <3>3
    <3>8. MadeColumn(k.tableid, k.fieldid, k.name)'
      BY <3>3, <3>4, <3>5, <3>7 DEF MadeColumn
    <3>9. QED
      BY <3>6, <3>8
  <2>5. CASE ~k.ok
    BY <1>2, <2>1, <2>5 DEF ManagerDid
  <2>6. CASE k.ok
    <3>1. \/ r.cmd = "createschema" \/ r.cmd = "createtable" \/ r.cmd = "addcolumn" \/ r.cmd = "deletetable"
      BY <1>2, <2>6 DEF ManagerDid
    <3>2. CASE r.cmd = "createschema"
      BY <1>2, <2>2, <2>6, <3>2 DEF ManagerDid
    <3>3. CASE r.cmd = "createtable"
      BY <1>2, <2>3, <2>6, <3>3 DEF ManagerDid
    <3>4. CASE r.cmd = "addcolumn"
      BY <1>2, <2>4, <2>6, <3>4 DEF ManagerDid
    <3>5. CASE r.cmd = "deletetable"
      BY <1>2, <2>1, <2>6, <3>5 DEF ManagerDid
    <3>6. QED
      BY <3>1, <3>2, <3>3, <3>4, <3>5
  <2>7. QED
    BY <2>5, <2>6
<1>7. SaysSo(k)'
  <2>1. k.topic = "SCHEMAREPLY"
    BY <1>3 DEF ReplyMsg
  <2>2. u[2] <= issued /\ (u \in DOMAIN operations => operations[u].cmd = r.cmd)
    BY <1>2, <1>5 DEF AsksSo
  <2>3. ReplySays(k)'
    BY <2>2, <1>3, <1>6 DEF ReplySays
  <2>4. QED
    BY <2>1, <2>3 DEF SaysSo
<1>8. Mail({}, {Agent(u)}, k)
  BY <1>1, <1>3, <1>4, MailAppend
<1>9. OpsGoOn
  BY <1>3, OpsSame
<1>10. Truthful({}, {Agent(u)}, k)
  BY <1>3, <1>6, <1>7, <1>8, <1>9 DEF Truthful
<1>11. QED
  BY <1>3, <1>10, HonestSame

LEMMA LookAt ==
  ASSUME Shape, NEW a, copy' = [copy EXCEPT ![a].schema = IF @ = "none" THEN "null" ELSE @]
  PROVE  \A x \in Actors : copy'[x].fields = copy[x].fields
  BY DEF Shape

\* Neither names, statements, procedures nor their messages are about operations.
LEMMA SentSaysSo ==
  ASSUME NEW S, IsFiniteSet(S), NEW m, SaysSo(m)'
  PROVE  \A i \in DOMAIN ToAll(S, m) : SaysSo(ToAll(S, m)[i].m)'
<1>1. SentTo(S, m, ToAll(S, m))
  BY ToAllSeq
<1>2. \A i \in DOMAIN ToAll(S, m) : ToAll(S, m)[i].m = m
  BY <1>1 DEF SentTo
<1>3. QED
  BY <1>2 DEF SaysSo, ReplySays, RequestSays, MadeTable, MadeColumn, HasColumn

LEMMA SaysNothing ==
  ASSUME NEW m, m.topic \in {"COMPILE", "PROCEDURE1", "PROCEDURE2"}
  PROVE  SaysSo(m)'
  BY DEF SaysSo

\* An agent starts a broadcast of true messages.
LEMMA Broadcasts ==
  ASSUME Shape, NEW a \in Agents, NEW s, sending' = [sending EXCEPT ![a] = s],
         NEW pop, NEW add, NEW m, Mail(pop, add, m), add # {} => SaysSo(m)',
         ManagerGrows, OpsGoOn, \A i \in DOMAIN s : SaysSo(s[i].m)', usmMbox' = usmMbox
  PROVE  Truthful(pop, add, m)
<1>1. sending \in [Agents -> Seq([to : Actors, m : Msg])]
  BY DEF Shape
<1>2. ASSUME NEW b \in Agents, b # a PROVE sending'[b] = sending[b]
  BY <1>1, <1>2
<1>3. sending'[a] = s
  BY <1>1
<1>4. \A i \in DOMAIN sending'[a] : SaysSo(sending[a][i].m)'
  BY <1>3 DEF SaysSo, ReplySays, RequestSays, MadeTable, MadeColumn, HasColumn
<1>5. QED
  BY <1>2, <1>4 DEF Truthful

LEMMA HonestCompile ==
  ASSUME Honest, Shape', NEW c \in Clients, NEW t \in TableNames, NEW column \in Columns,
         Compile(c, t, column)
  PROVE  Honest'
<1>1. Shape /\ AgentOf[c] \in Agents
  BY SchemataAssumption DEF Honest
<1>2. PICK a, m, s : /\ a = AgentOf[c] /\ m = [topic |-> "COMPILE", table |-> t, column |-> column]
                     /\ s = ToAll(Agents, m)
  OBVIOUS
<1>3. /\ sending' = [sending EXCEPT ![a] = s] /\ issued' = issued + 1
      /\ copy' = [copy EXCEPT ![a].schema = IF @ = "none" THEN "null" ELSE @]
      /\ UNCHANGED <<manager, names, statements, operations, usmMbox, mbox>>
  BY <1>2 DEF Compile, Sends, managerVars
<1>4. \A i \in DOMAIN s : SaysSo(s[i].m)'
  <2>1. SaysSo(m)' /\ IsFiniteSet(Agents)
    BY <1>2, SaysNothing, ActorsFinite
  <2>2. \A i \in DOMAIN ToAll(Agents, m) : SaysSo(ToAll(Agents, m)[i].m)'
    BY <2>1, SentSaysSo
  <2>3. QED
    BY <1>2, <2>2 DEF SaysSo, ReplySays, RequestSays, MadeTable, MadeColumn, HasColumn
<1>5. Mail({}, {}, <<>>) /\ ManagerGrows /\ OpsGoOn
  BY <1>1, <1>3, MailSame, OpsAlone
<1>6. Truthful({}, {}, <<>>)
  BY <1>1, <1>2, <1>3, <1>4, <1>5, Broadcasts
<1>7. \A x \in Actors : copy'[x].fields = copy[x].fields
  BY <1>1, <1>3, LookAt
<1>8. QED
  BY <1>3, <1>6, <1>7, HonestSame

LEMMA HonestLogin ==
  ASSUME Honest, Shape', NEW c \in Clients, PgLogin(c)
  PROVE  Honest'
<1>1. Shape
  BY DEF Honest
<1>2. PICK a : a = AgentOf[c]
  OBVIOUS
<1>3. /\ copy' = [copy EXCEPT ![a].schema = IF @ = "none" THEN "null" ELSE @] /\ issued' = issued + 1
      /\ UNCHANGED <<manager, names, statements, operations, usmMbox, mbox, sending>>
  BY <1>2 DEF PgLogin, Sends, managerVars
<1>4. Mail({}, {}, <<>>) /\ ManagerGrows /\ OpsGoOn
  BY <1>1, <1>3, MailSame, OpsAlone
<1>5. Truthful({}, {}, <<>>)
  BY <1>3, <1>4 DEF Truthful
<1>6. \A x \in Actors : copy'[x].fields = copy[x].fields
  BY <1>1, <1>3, LookAt
<1>7. QED
  BY <1>3, <1>5, <1>6, HonestSame

LEMMA HonestLoad ==
  ASSUME Honest, Shape', NEW c \in Clients, NEW proc, LoadProcedure(c, proc)
  PROVE  Honest'
<1>1. Shape /\ Loader \in Actors
  BY SchemataAssumption DEF Honest, Actors
<1>2. PICK m : m = [topic |-> "PROCEDURE1", proc |-> proc]
  OBVIOUS
<1>3. /\ mbox' = [mbox EXCEPT ![Loader] = Append(@, m)] /\ issued' = issued + 1
      /\ UNCHANGED <<manager, copy, names, statements, operations, usmMbox, sending>>
  BY <1>2 DEF LoadProcedure, Sends, managerVars, copyVars
<1>4. Mail({}, {Loader}, m) /\ ManagerGrows /\ OpsGoOn
  BY <1>1, <1>3, MailAppend, OpsAlone
<1>5. SaysSo(m)'
  BY <1>2, SaysNothing
<1>6. Truthful({}, {Loader}, m)
  BY <1>3, <1>4, <1>5 DEF Truthful
<1>7. QED
  BY <1>3, <1>6, HonestSame

LEMMA HonestSend ==
  ASSUME Honest, Shape', NEW a \in Agents, SendOne(a)
  PROVE  Honest'
<1>1. Shape
  BY DEF Honest
<1>2. PICK s : s = Head(sending[a])
  OBVIOUS
<1>3. /\ sending[a] # <<>> /\ mbox' = [mbox EXCEPT ![s.to] = Append(@, s.m)]
      /\ sending' = [sending EXCEPT ![a] = Tail(@)]
      /\ UNCHANGED <<manager, copy, names, statements, operations, usmMbox, issued>>
  BY <1>2 DEF SendOne, managerVars, copyVars
<1>4. 1 \in DOMAIN sending[a] /\ s = sending[a][1]
  BY <1>1, <1>2, <1>3, Sendings, TailFirst
<1>5. s.to \in Actors /\ s.m \in Msg /\ SaysSo(s.m)
  BY <1>1, <1>4, Sendings DEF Honest, SendingSaysSo
<1>6. Mail({}, {s.to}, s.m) /\ ManagerGrows /\ OpsGoOn
  BY <1>1, <1>3, <1>5, MailAppend, OpsAlone
<1>7. SaysSo(s.m)'
  <2>1. PICK m : m = s.m
    OBVIOUS
  <2>2. SaysSo(m)'
    BY <1>5, <1>6, <2>1, SaysStill
  <2>3. QED
    BY <2>1, <2>2
<1>8. ASSUME NEW b \in Agents
      PROVE  \/ sending'[b] = sending[b] \/ (sending[b] # <<>> /\ sending'[b] = Tail(sending[b]))
  <2>1. sending \in [Agents -> Seq([to : Actors, m : Msg])]
    BY <1>1 DEF Shape
  <2>2. QED
    BY <1>3, <2>1
<1>9. Truthful({}, {s.to}, s.m)
  BY <1>3, <1>6, <1>7, <1>8 DEF Truthful
<1>10. QED
  BY <1>3, <1>9, HonestSame

LEMMA HonestProcedure ==
  ASSUME Honest, Shape', NEW a \in Agents, Procedure1(a) \/ Procedure2(a)
  PROVE  Honest'
<1>1. Shape /\ a \in Actors
  BY DEF Honest, Actors
<1>2. /\ mbox[a] # <<>> /\ mbox' = [mbox EXCEPT ![a] = Tail(@)]
      /\ UNCHANGED <<manager, copy, names, statements, operations, usmMbox, issued>>
  BY DEF Procedure1, Procedure2, Receives, managerVars, copyVars
<1>3. Mail({a}, {}, <<>>) /\ ManagerGrows /\ OpsGoOn
  BY <1>1, <1>2, MailTail, OpsAlone
<1>4. Truthful({a}, {}, <<>>)
  <2>1. CASE Procedure1(a)
    <3>1. PICK m, s : m = [topic |-> "PROCEDURE2", proc |-> Head(mbox[a]).proc] /\ s = ToAll(Agents, m)
      OBVIOUS
    <3>2. sending' = [sending EXCEPT ![a] = s]
      BY <2>1, <3>1 DEF Procedure1
    <3>3. SaysSo(m)' /\ IsFiniteSet(Agents)
      BY <3>1, SaysNothing, ActorsFinite
    <3>4. \A i \in DOMAIN ToAll(Agents, m) : SaysSo(ToAll(Agents, m)[i].m)'
      BY <3>3, SentSaysSo
    <3>5. \A i \in DOMAIN s : SaysSo(s[i].m)'
      <4>1. s = ToAll(Agents, m)
        BY <3>1
      <4>2. QED
        BY <3>4, <4>1 DEF SaysSo, ReplySays, RequestSays, MadeTable, MadeColumn, HasColumn
    <3>6. QED
      BY <1>1, <1>2, <1>3, <3>2, <3>5, Broadcasts
  <2>2. CASE Procedure2(a)
    <3>1. sending' = sending
      BY <2>2 DEF Procedure2
    <3>2. QED
      BY <1>2, <1>3, <3>1 DEF Truthful
  <2>3. QED
    BY <2>1, <2>2
<1>5. QED
  BY <1>2, <1>4, HonestSame

\* The columns of x change.
LEMMA CopyOfTheManager ==
  ASSUME CopiesAreTheManagers, manager' = manager, NEW x \in Actors,
         \A z \in Actors : z # x => copy'[z].fields = copy[z].fields,
         \A id \in DOMAIN copy'[x].fields :
           /\ id \in DOMAIN manager.fields
           /\ \A i \in DOMAIN copy'[x].fields[id] : HasColumn(id, copy'[x].fields[id][i])
  PROVE  CopiesAreTheManagers'
<1> SUFFICES ASSUME NEW z \in Actors, NEW id \in DOMAIN copy'[z].fields
             PROVE  /\ id \in DOMAIN manager'.fields
                    /\ \A i \in DOMAIN copy'[z].fields[id] : HasColumn(id, copy[z].fields[id][i])'
  BY DEF CopiesAreTheManagers
<1>1. PICK g : g = copy'[z].fields
  OBVIOUS
<1>2. id \in DOMAIN manager.fields /\ \A i \in DOMAIN g[id] : HasColumn(id, g[id][i])
  <2>1. CASE z = x
    BY <1>1, <2>1
  <2>2. CASE z # x
    <3>1. g = copy[z].fields
      BY <1>1, <2>2
    <3>2. QED
      BY <1>1, <3>1 DEF CopiesAreTheManagers
  <2>3. QED
    BY <2>1, <2>2
<1>3. QED
  BY <1>1, <1>2 DEF HasColumn

LEMMA HonestCopies ==
  ASSUME Honest, Shape', NEW pop, NEW add, NEW m, Truthful(pop, add, m), UNCHANGED <<names, statements>>,
         CopiesAreTheManagers'
  PROVE  Honest'
<1>1. ASSUME NEW a \in Agents
      PROVE  TablesOfTheManager(a)' /\ ColumnsOfTheManager(a)' /\ StatementsOfTheManager(a)'
  BY NamesStill, StatementsStill DEF Honest, OfTheManager, Truthful
<1>2. OfTheManager'
  BY <1>1 DEF OfTheManager
<1>3. QED
  BY <1>2, HonestStill

\* x does what it has been asked, and its columns are still the manager's.
LEMMA ChangedAsTheManager ==
  ASSUME Shape, CopiesAreTheManagers, manager' = manager, NEW x \in Actors, NEW m \in RequestMsg,
         RequestSays(m), ChangeAt(x, m), m.cmd = "addcolumn" => m.tableid \in DOMAIN copy[x].fields
  PROVE  CopiesAreTheManagers'
<1>1. PICK f, g, id, c : f = copy[x].fields /\ g = copy'[x].fields /\ id = m.tableid /\ c = m.column
  OBVIOUS
<1>2. \A z \in Actors : z # x => copy'[z].fields = copy[z].fields
  BY DEF ChangeAt
<1>3. \A i \in DOMAIN f : i \in DOMAIN manager.fields /\ \A k \in DOMAIN f[i] : HasColumn(i, f[i][k])
  BY <1>1 DEF CopiesAreTheManagers
<1>4. \A i \in DOMAIN g : i \in DOMAIN manager.fields /\ \A k \in DOMAIN g[i] : HasColumn(i, g[i][k])
  <2>1. CASE m.cmd \in {"createschema", "deletetable"}
    <3>1. g = f
      BY <1>1, <2>1 DEF ChangeAt
    <3>2. QED
      BY <1>3, <3>1
  <2>2. CASE m.cmd = "createtable"
    <3>1. Extended(g, f, id, <<>>)
      BY <1>1, <2>2 DEF ChangeAt
    <3>2. id \in DOMAIN manager.fields
      BY <1>1, <2>2, FieldsTypes DEF RequestSays
    <3>3. DOMAIN <<>> = {}
      OBVIOUS
    <3>4. QED
      BY <1>3, <3>1, <3>2, <3>3 DEF Extended
  <2>3. CASE m.cmd = "addcolumn"
    <3>1. /\ DOMAIN g = DOMAIN f /\ g[id] = Append(f[id], c) /\ id \in DOMAIN f
          /\ \A i \in DOMAIN f : i # id => g[i] = f[i]
      BY <1>1, <2>3 DEF ChangeAt
    <3>2. HasColumn(id, c)
      BY <1>1, <2>3 DEF RequestSays
    <3>3. f[id] \in Seq(AnyName)
      BY <1>1, <3>1, FieldsTypes
    <3>4. \A k \in DOMAIN g[id] : (k \in DOMAIN f[id] /\ g[id][k] = f[id][k]) \/ g[id][k] = c
      BY <3>1, <3>3
    <3>5. \A k \in DOMAIN g[id] : HasColumn(id, g[id][k])
      BY <1>3, <3>1, <3>2, <3>4
    <3>6. QED
      BY <1>3, <3>1, <3>5
  <2>4. m.cmd \in SchemaCommands
    BY DEF RequestMsg
  <2>5. QED
    BY <2>1, <2>2, <2>3, <2>4 DEF SchemaCommands
<1>5. QED
  BY <1>1, <1>2, <1>4, CopyOfTheManager

LEMMA HonestRequest ==
  ASSUME Honest, Shape', NEW x \in Actors, SchemaRequest(x)
  PROVE  Honest'
<1>1. Shape /\ MboxSaysSo /\ CopiesAreTheManagers
  BY DEF Honest, OfTheManager
<1>2. PICK m : m = Head(mbox[x])
  OBVIOUS
<1>3. /\ mbox[x] # <<>> /\ m.topic = "SCHEMAREQUEST"
      /\ UNCHANGED <<manager, names, statements, operations, usmMbox, sending, issued>>
  BY <1>2 DEF SchemaRequest, Receives, managerVars
<1>4. m \in RequestMsg
  BY <1>1, <1>2, <1>3, HeadType, Topics
<1>5. m.op \in OpId /\ m.cmd \in SchemaCommands
  BY <1>4 DEF RequestMsg
<1>6. RequestSays(m)
  <2>1. 1 \in DOMAIN mbox[x] /\ m = mbox[x][1]
    BY <1>1, <1>2, <1>3, Boxes, TailFirst
  <2>2. SaysSo(m)
    BY <1>1, <2>1 DEF MboxSaysSo
  <2>3. QED
    BY <1>3, <2>2 DEF SaysSo
<1>7. ManagerGrows /\ OpsGoOn
  BY <1>3, OpsAlone
<1>8. ASSUME copy' = copy, mbox' = mbox PROVE Honest'
  <2>1. Mail({}, {}, <<>>)
    BY <1>1, <1>8, MailSame
  <2>2. Truthful({}, {}, <<>>)
    BY <1>3, <1>7, <2>1 DEF Truthful
  <2>3. QED
    BY <1>3, <1>8, <2>2, HonestSame
<1>9. ASSUME NEW ok, NEW fid, Acknowledge(x, m, ok, fid), CopiesAreTheManagers' PROVE Honest'
  <2>1. PICK k : k = [topic |-> "SCHEMAREPLY", op |-> m.op, ok |-> ok,
                      tableid |-> m.tableid, fieldid |-> fid, name |-> NoName]
    OBVIOUS
  <2>2. PICK rest : rest = [mbox EXCEPT ![x] = Tail(@)]
    OBVIOUS
  <2>3. mbox' = [rest EXCEPT ![Agent(m.op)] = Append(@, k)]
    BY <1>9, <2>1, <2>2 DEF Acknowledge, Agent
  <2>4. Agent(m.op) \in Actors
    BY <1>5, AgentIn
  <2>5. Mail({x}, {Agent(m.op)}, k)
    BY <1>1, <1>3, <2>2, <2>3, <2>4, MailBoth
  <2>6. SaysSo(k)'
    <3>1. m.op[2] <= issued /\ (m.op \in DOMAIN operations => operations[m.op].state = "tasengines")
      BY <1>6 DEF RequestSays
    <3>2. k.topic = "SCHEMAREPLY" /\ k.op = m.op
      BY <2>1
    <3>3. ReplySays(k)'
      BY <1>3, <3>1, <3>2 DEF ReplySays
    <3>4. QED
      BY <3>2, <3>3 DEF SaysSo
  <2>7. Truthful({x}, {Agent(m.op)}, k)
    BY <1>3, <1>7, <2>5, <2>6 DEF Truthful
  <2>8. QED
    BY <1>3, <1>9, <2>7, HonestCopies
<1>10. copy' = copy => CopiesAreTheManagers'
  BY <1>1, <1>7, CopiesStill
<1>11. CASE m.cmd = "createschema" /\ CopyCreateSchema(x, m)
  <2>1. CASE copy' = copy
    BY <1>9, <1>10, <1>11, <2>1 DEF CopyCreateSchema
  <2>2. CASE copy' = [copy EXCEPT ![x].schema = "made"] /\ Acknowledge(x, m, TRUE, 0)
    <3>1. ChangeAt(x, m)
      BY <1>1, <1>11, <2>2, ChangeSchema
    <3>2. CopiesAreTheManagers'
      BY <1>1, <1>3, <1>4, <1>6, <1>11, <3>1, ChangedAsTheManager
    <3>3. QED
      BY <1>9, <2>2, <3>2
  <2>3. QED
    BY <1>11, <2>1, <2>2 DEF CopyCreateSchema
<1>12. CASE m.cmd = "createtable" /\ CopyCreateTable(x, m)
  <2>1. CASE copy[x].schema # "made"
    BY <1>8, <1>12, <2>1 DEF CopyCreateTable
  <2>2. CASE copy[x].schema = "made"
    <3>1. /\ copy' = [copy EXCEPT ![x].fields =
                        IF m.tableid \in DOMAIN @ THEN @ ELSE With(@, m.tableid, <<>>)]
          /\ \E ok : Acknowledge(x, m, ok, 0)
      BY <1>12, <2>2 DEF CopyCreateTable
    <3>2. CASE m.tableid \in DOMAIN copy[x].fields
      <4>1. \A z \in Actors : copy'[z].fields = copy[z].fields
        BY <1>1, <3>1, <3>2 DEF Shape
      <4>2. QED
        BY <1>1, <1>7, <1>9, <3>1, <4>1, CopiesStill
    <3>3. CASE m.tableid \notin DOMAIN copy[x].fields
      <4>1. ChangeAt(x, m)
        BY <1>1, <1>12, <3>1, <3>3, ChangeTable
      <4>2. CopiesAreTheManagers'
        BY <1>1, <1>3, <1>4, <1>6, <1>12, <4>1, ChangedAsTheManager
      <4>3. QED
        BY <1>9, <3>1, <4>2
    <3>4. QED
      BY <3>2, <3>3
  <2>3. QED
    BY <2>1, <2>2
<1>13. CASE m.cmd = "addcolumn" /\ CopyAddColumn(x, m)
  <2>1. CASE ~(copy[x].schema = "made" /\ m.tableid \in DOMAIN copy[x].fields)
    BY <1>8, <1>13, <2>1 DEF CopyAddColumn
  <2>2. CASE copy[x].schema = "made" /\ m.tableid \in DOMAIN copy[x].fields
    <3>1. /\ copy' = [copy EXCEPT ![x].fields[m.tableid] = addfield(@, m.column)]
          /\ \E fid : Acknowledge(x, m, TRUE, fid)
      BY <1>13, <2>2 DEF CopyAddColumn
    <3>2. ChangeAt(x, m)
      BY <1>1, <1>13, <2>2, <3>1, ChangeColumn
    <3>3. CopiesAreTheManagers'
      BY <1>1, <1>3, <1>4, <1>6, <2>2, <3>2, ChangedAsTheManager
    <3>4. QED
      BY <1>9, <3>1, <3>3
  <2>3. QED
    BY <2>1, <2>2
<1>14. CASE m.cmd = "deletetable" /\ CopyDelete(x, m)
  BY <1>9, <1>10, <1>14 DEF CopyDelete
<1>15. QED
  BY <1>2, <1>11, <1>12, <1>13, <1>14 DEF SchemaRequest

LEMMA OpsEnd ==
  ASSUME Honest, NEW u, operations' = Without(operations, u), issued' = issued
  PROVE  OpsGoOn
<1>1. issued \in Nat /\ operations \in Partial(OpId, Operation)
  BY IssuedNat DEF Honest, Shape
<1>2. \A op \in DOMAIN operations' : op \in DOMAIN operations /\ operations'[op] = operations[op]
  <2>1. PICK g : g = Without(operations, u)
    OBVIOUS
  <2>2. DOMAIN g = DOMAIN operations \ {u} /\ \A op \in DOMAIN operations : op # u => g[op] = operations[op]
    BY <1>1, <2>1, WithoutFun
  <2>3. operations' = g
    BY <2>1
  <2>4. QED
    BY <2>2, <2>3
<1>3. \A op \in DOMAIN operations' : op[2] <= issued'
  BY <1>2 DEF Honest, OpsAreIssued
<1>4. QED
  BY <1>1, <1>2, <1>3 DEF OpsGoOn

LEMMA OpsChange ==
  ASSUME Honest, NEW u \in DOMAIN operations, NEW y \in Operation, y.cmd = operations[u].cmd,
         y.state = "tasengines", operations' = [operations EXCEPT ![u] = y], issued' = issued
  PROVE  OpsGoOn /\ u \in DOMAIN operations' /\ operations'[u] = y
<1>1. issued \in Nat /\ operations \in Partial(OpId, Operation)
  BY IssuedNat DEF Honest, Shape
<1>2. /\ DOMAIN operations' = DOMAIN operations /\ operations'[u] = y
      /\ \A op \in DOMAIN operations : op # u => operations'[op] = operations[op]
  BY <1>1, ChangedFun
<1>3. \A op \in DOMAIN operations' : op[2] <= issued'
  BY <1>2 DEF Honest, OpsAreIssued
<1>4. QED
  BY <1>1, <1>2, <1>3 DEF OpsGoOn

LEMMA HonestReply ==
  ASSUME Honest, Shape', NEW a \in Agents, SchemaReply(a)
  PROVE  Honest'
<1>1. Shape /\ MboxSaysSo /\ a \in Actors /\ operations \in Partial(OpId, Operation)
  BY DEF Honest, Actors, Shape
<1>2. PICK m, u : m = Head(mbox[a]) /\ u = m.op
  OBVIOUS
<1>3. /\ mbox[a] # <<>> /\ m.topic = "SCHEMAREPLY" /\ mbox' = [mbox EXCEPT ![a] = Tail(@)]
      /\ UNCHANGED <<manager, copy, names, statements, usmMbox, issued>>
  BY <1>2 DEF SchemaReply, Receives, managerVars, copyVars
<1>4. m \in ReplyMsg
  BY <1>1, <1>2, <1>3, HeadType, Topics
<1>5. ReplySays(m)
  <2>1. 1 \in DOMAIN mbox[a] /\ m = mbox[a][1]
    BY <1>1, <1>2, <1>3, Boxes, TailFirst
  <2>2. SaysSo(m)
    BY <1>1, <2>1 DEF MboxSaysSo
  <2>3. QED
    BY <1>3, <2>2 DEF SaysSo
<1>6. Mail({a}, {}, <<>>) /\ ManagerGrows
  BY <1>1, <1>3, MailTail, GrowsSame
<1>7. ASSUME OpsGoOn, sending' = sending PROVE Honest'
  <2>1. Truthful({a}, {}, <<>>)
    BY <1>3, <1>6, <1>7 DEF Truthful
  <2>2. QED
    BY <1>3, <2>1, HonestSame
<1>8. ASSUME OpsGoOn, NEW s, sending' = [sending EXCEPT ![a] = s], \A i \in DOMAIN s : SaysSo(s[i].m)'
      PROVE  Honest'
  <2>1. Truthful({a}, {}, <<>>)
    BY <1>1, <1>3, <1>6, <1>8, Broadcasts
  <2>2. QED
    BY <1>3, <2>1, HonestSame
<1>9. CASE u \notin DOMAIN operations
  <2>1. operations' = operations /\ sending' = sending
    BY <1>2, <1>9 DEF SchemaReply
  <2>2. OpsGoOn
    BY <1>3, <2>1, OpsSame
  <2>3. QED
    BY <1>7, <2>1, <2>2
<1>10. CASE u \in DOMAIN operations
  <2>1. PICK o, cmd : o = operations[u] /\ cmd = o.cmd
    OBVIOUS
  <2>2. o \in Operation /\ cmd \in SchemaCommands /\ o.msgwaits \in Int
    <3>1. operations[u] \in Operation
      BY <1>1, <1>10, PartialFun
    <3>2. QED
      BY <2>1, <3>1 DEF Operation
  <2>3. PICK q : q = NameOf(m, cmd)
    OBVIOUS
  <2>4. q.name = m.name /\ q.tableid = m.tableid /\ q.fieldid = m.fieldid
        /\ q.topic = IF cmd = "createtable" THEN "TABLENAME" ELSE "FIELDNAME"
    BY <2>3 DEF NameOf
  <2>5. CASE o.state = "usm" /\ UsmResponse(a, m) /\ ~m.ok
    <3>1. PICK s : s = NamesToo(m, cmd)
      OBVIOUS
    <3>2. operations' = Without(operations, u) /\ sending' = [sending EXCEPT ![a] = s]
      BY <1>2, <2>1, <2>5, <3>1 DEF UsmResponse, Answer
    <3>3. OpsGoOn
      BY <1>3, <3>2, OpsEnd
    <3>4. m.name = NoName
      BY <1>2, <1>5, <1>10, <2>1, <2>5 DEF ReplySays
    <3>5. SaysSo(q)'
      BY <2>4, <3>4 DEF SaysSo
    <3>6. \A i \in DOMAIN s : s[i].m = q
      BY <2>3, <3>1, NamesTooSeq
    <3>7. \A i \in DOMAIN s : SaysSo(s[i].m)'
      BY <3>5, <3>6 DEF SaysSo, ReplySays, RequestSays, MadeTable, MadeColumn, HasColumn
    <3>8. QED
      BY <1>8, <3>2, <3>3, <3>7
  <2>6. CASE o.state = "usm" /\ UsmResponse(a, m) /\ m.ok
    <3>1. PICK s, y, p : /\ s = PassOn(m, cmd) /\ y = [o EXCEPT !.state = "tasengines", !.msgwaits = Msgwaits]
                         /\ p = Passes(m, cmd)
      OBVIOUS
    <3>2. operations' = [operations EXCEPT ![u] = y] /\ sending' = [sending EXCEPT ![a] = s]
      BY <1>2, <1>10, <2>1, <2>2, <2>6, <3>1 DEF UsmResponse, Operation
    <3>3. Msgwaits \in Int
      BY FS_CardinalityType, ActorsFinite DEF Msgwaits
    <3>4. y \in Operation /\ y.cmd = cmd /\ y.state = "tasengines"
      BY <2>1, <2>2, <3>1, <3>3 DEF Operation
    <3>5. OpsGoOn /\ operations'[u] = y
      BY <1>3, <1>10, <2>1, <3>2, <3>4, OpsChange
    <3>6. /\ cmd = "createtable" => MadeTable(m.tableid, m.name)
          /\ cmd = "addcolumn" => MadeColumn(m.tableid, m.fieldid, m.name)
          /\ u[2] <= issued
      BY <1>2, <1>5, <1>10, <2>1, <2>6 DEF ReplySays
    <3>7. /\ p.topic = "SCHEMAREQUEST" /\ p.op = u /\ p.cmd = cmd /\ p.tableid = m.tableid
          /\ p.column = m.name
      BY <1>2, <3>1 DEF Passes
    <3>8. SaysSo(p)'
      <4>1. cmd = "createtable" => p.tableid \in DOMAIN manager.tables
        BY <3>6, <3>7 DEF MadeTable
      <4>2. cmd = "addcolumn" => HasColumn(p.tableid, p.column)
        BY <3>6, <3>7 DEF MadeColumn, HasColumn
      <4>3. cmd = "addcolumn" => HasColumn(p.tableid, p.column)'
        BY <1>6, <4>2, ManagerKeeps
      <4>4. RequestSays(p)'
        BY <1>3, <3>4, <3>5, <3>6, <3>7, <4>1, <4>3 DEF RequestSays
      <4>5. QED
        BY <3>7, <4>4 DEF SaysSo
    <3>9. Named(cmd) => SaysSo(q)'
      <4>1. /\ cmd = "createtable" => MadeTable(q.tableid, q.name)'
            /\ cmd = "addcolumn" => MadeColumn(q.tableid, q.fieldid, q.name)'
        BY <1>3, <2>4, <3>6 DEF MadeTable, MadeColumn
      <4>2. QED
        BY <2>4, <4>1 DEF SaysSo, Named
    <3>10. Broadcast(s, p, q, cmd)
      BY <2>3, <3>1, PassOnSeq
    <3>11. \A i \in DOMAIN s : s[i].m = p \/ (s[i].m = q /\ Named(cmd))
      <4>1. PICK M : M = [to : Actors, m : {p, q}]
        OBVIOUS
      <4>2. s \in Seq(M) /\ \A i \in DOMAIN s : s[i].m = q => Named(cmd)
        BY <3>10, <4>1 DEF Broadcast
      <4>3. \A i \in DOMAIN s : s[i] \in M
        BY <4>2
      <4>4. \A i \in DOMAIN s : s[i].m \in {p, q}
        BY <4>1, <4>3
      <4>5. QED
        BY <4>2, <4>4
    <3>12. \A i \in DOMAIN s : SaysSo(s[i].m)'
      BY <3>8, <3>9, <3>11 DEF SaysSo, ReplySays, RequestSays, MadeTable, MadeColumn, HasColumn
    <3>13. QED
      BY <1>8, <3>2, <3>5, <3>12
  <2>7. CASE o.state = "tasengines" /\ TasEnginesResponse(a, m)
    <3>1. sending' = sending
      BY <2>7 DEF TasEnginesResponse
    <3>2. CASE operations' = Without(operations, u)
      BY <1>3, <1>7, <3>1, <3>2, OpsEnd
    <3>3. CASE operations' = [operations EXCEPT ![u].msgwaits = @ - 1]
      <4>1. PICK y : y = [o EXCEPT !.msgwaits = @ - 1]
        OBVIOUS
      <4>2. y \in Operation /\ y.cmd = cmd /\ y.state = "tasengines"
        BY <2>1, <2>2, <2>7, <4>1 DEF Operation
      <4>3. operations' = [operations EXCEPT ![u] = y]
        BY <1>10, <2>1, <3>3, <4>1
      <4>4. OpsGoOn
        BY <1>3, <1>10, <2>1, <4>2, <4>3, OpsChange
      <4>5. QED
        BY <1>7, <3>1, <4>4
    <3>4. QED
      BY <1>2, <2>7, <3>2, <3>3 DEF TasEnginesResponse, Answer
  <2>8. QED
    BY <1>2, <1>10, <2>1, <2>5, <2>6, <2>7 DEF SchemaReply
<1>11. QED
  BY <1>9, <1>10

LEMMA HonestName ==
  ASSUME Honest, Shape', NEW a \in Agents, NEW topic \in NameTopics, Name(a, topic)
  PROVE  Honest'
<1>1. Shape /\ MboxSaysSo /\ a \in Actors /\ OfTheManager
  BY DEF Honest, Actors
<1>2. PICK m : m = Head(mbox[a])
  OBVIOUS
<1>3. /\ mbox[a] # <<>> /\ m.topic = topic
      /\ UNCHANGED <<manager, copy, statements, operations, usmMbox, sending, issued>>
  BY <1>2 DEF Name, Receives, managerVars
<1>4. ManagerGrows /\ OpsGoOn
  BY <1>3, OpsAlone
<1>5. CASE copy[a].schema # "made"
  <2>1. mbox' = mbox /\ names' = names
    BY <1>5 DEF Name
  <2>2. Truthful({}, {}, <<>>)
    BY <1>1, <1>3, <1>4, <2>1, MailSame DEF Truthful
  <2>3. QED
    BY <1>3, <2>1, <2>2, HonestSame
<1>6. CASE copy[a].schema = "made"
  <2>1. /\ names' = IF topic = "TABLENAME"
                    THEN [names EXCEPT ![a].tables = With(@, m.name, m.tableid)]
                    ELSE [names EXCEPT ![a].fields = With(@, <<m.tableid, m.name>>, m.fieldid)]
        /\ mbox' = [mbox EXCEPT ![a] = Tail(@)]
    BY <1>2, <1>6 DEF Name
  <2>2. NameTaken(a, m)
    BY <1>1, <1>3, <2>1, NameChange
  <2>3. Truthful({a}, {}, <<>>)
    BY <1>1, <1>3, <1>4, <2>1, MailTail DEF Truthful
  <2>4. SaysSo(m)
    <3>1. 1 \in DOMAIN mbox[a] /\ m = mbox[a][1]
      BY <1>1, <1>2, <1>3, Boxes, TailFirst
    <3>2. QED
      BY <1>1, <3>1 DEF MboxSaysSo
  <2>5. CopiesAreTheManagers' /\ \A b \in Agents : StatementsOfTheManager(b)'
    BY <1>1, <1>3, <1>4, CopiesStill, StatementsStill DEF OfTheManager
  <2>6. \A b \in Agents : b # a => TablesOfTheManager(b)' /\ ColumnsOfTheManager(b)'
    BY <1>1, <1>4, <2>2, NamesStill DEF OfTheManager, NameTaken
  <2>7. TablesOfTheManager(a)' /\ ColumnsOfTheManager(a)'
    <3>1. PICK n, f : n = names[a].tables /\ f = names[a].fields
      OBVIOUS
    <3>2. PICK n2, f2 : n2 = names'[a].tables /\ f2 = names'[a].fields
      OBVIOUS
    <3>3. /\ \A t \in DOMAIN n : t = NoName \/ MadeTable(n[t], t)
          /\ \A c \in DOMAIN f : c[2] = NoName \/ MadeColumn(c[1], f[c], c[2])
      BY <1>1, <3>1 DEF OfTheManager, TablesOfTheManager, ColumnsOfTheManager
    <3>4. \A t \in DOMAIN n2 : t = NoName \/ MadeTable(n2[t], t)
      <4>1. CASE topic = "TABLENAME"
        <5>1. Extended(n2, n, m.name, m.tableid)
          BY <1>3, <2>2, <3>1, <3>2, <4>1 DEF NameTaken
        <5>2. m.name = NoName \/ MadeTable(m.tableid, m.name)
          BY <1>3, <2>4, <4>1 DEF SaysSo
        <5>3. QED
          BY <3>3, <5>1, <5>2 DEF Extended
      <4>2. CASE topic = "FIELDNAME"
        BY <1>3, <2>2, <3>1, <3>2, <3>3, <4>2 DEF NameTaken
      <4>3. QED
        BY <4>1, <4>2 DEF NameTopics
    <3>5. \A c \in DOMAIN f2 : c[2] = NoName \/ MadeColumn(c[1], f2[c], c[2])
      <4>1. CASE topic = "FIELDNAME"
        <5>1. PICK c : c = <<m.tableid, m.name>>
          OBVIOUS
        <5>2. Extended(f2, f, c, m.fieldid)
          BY <1>3, <2>2, <3>1, <3>2, <4>1, <5>1 DEF NameTaken
        <5>3. c[2] = NoName \/ MadeColumn(c[1], m.fieldid, c[2])
          BY <1>3, <2>4, <4>1, <5>1 DEF SaysSo
        <5>4. QED
          BY <3>3, <5>2, <5>3 DEF Extended
      <4>2. CASE topic = "TABLENAME"
        BY <1>3, <2>2, <3>1, <3>2, <3>3, <4>2 DEF NameTaken
      <4>3. QED
        BY <4>1, <4>2 DEF NameTopics
    <3>6. TablesOfTheManager(a)'
      BY <1>3, <3>2, <3>4 DEF TablesOfTheManager, MadeTable
    <3>7. ColumnsOfTheManager(a)'
      BY <1>3, <3>2, <3>5 DEF ColumnsOfTheManager, MadeColumn
    <3>8. QED
      BY <3>6, <3>7
  <2>8. OfTheManager'
    BY <2>5, <2>6, <2>7 DEF OfTheManager
  <2>9. QED
    BY <2>3, <2>8, HonestStill
<1>7. QED
  BY <1>5, <1>6

LEMMA HonestStatement ==
  ASSUME Honest, Shape', NEW a \in Agents, NewStatement(a)
  PROVE  Honest'
<1>1. Shape /\ a \in Actors /\ OfTheManager
  BY DEF Honest, Actors
<1>2. PICK m : m = Head(mbox[a])
  OBVIOUS
<1>3. /\ mbox[a] # <<>>
      /\ UNCHANGED <<manager, copy, names, operations, usmMbox, sending, issued>>
  BY <1>2 DEF NewStatement, Receives, managerVars
<1>4. ManagerGrows /\ OpsGoOn
  BY <1>3, OpsAlone
<1>5. CASE copy[a].schema # "made"
  <2>1. mbox' = mbox /\ statements' = statements
    BY <1>5 DEF NewStatement
  <2>2. Truthful({}, {}, <<>>)
    BY <1>1, <1>3, <1>4, <2>1, MailSame DEF Truthful
  <2>3. QED
    BY <1>3, <2>1, <2>2, HonestSame
<1>6. CASE copy[a].schema = "made"
  <2>1. PICK st, ids, g : /\ st = <<m.table, m.column>> /\ ids = Resolved(a, m.table, m.column)
                          /\ g = With(statements[a], st, ids)
    OBVIOUS
  <2>2. /\ statements' = [statements EXCEPT ![a] = g] /\ mbox' = [mbox EXCEPT ![a] = Tail(@)]
    BY <1>2, <1>6, <2>1 DEF NewStatement
  <2>3. Truthful({a}, {}, <<>>)
    BY <1>1, <1>3, <1>4, <2>2, MailTail DEF Truthful
  <2>4. StatementSays(st, ids)
    <3>1. PICK t, c, n, f : t = m.table /\ c = m.column /\ n = names[a].tables /\ f = names[a].fields
      OBVIOUS
    <3>2. st[1] = t /\ st[2] = c
      BY <2>1, <3>1
    <3>3. /\ \A x \in DOMAIN n : x = NoName \/ MadeTable(n[x], x)
          /\ \A x \in DOMAIN f : x[2] = NoName \/ MadeColumn(x[1], f[x], x[2])
      BY <1>1, <3>1 DEF OfTheManager, TablesOfTheManager, ColumnsOfTheManager
    <3>4. ids = IF t \notin DOMAIN n THEN <<-1, -1>>
                ELSE <<n[t], IF <<n[t], c>> \in DOMAIN f THEN f[<<n[t], c>>] ELSE -1>>
      BY <2>1, <3>1 DEF Resolved
    <3>5. CASE t \notin DOMAIN n
      BY <3>4, <3>5 DEF StatementSays
    <3>6. CASE t \in DOMAIN n
      <4>1. PICK id : id = n[t]
        OBVIOUS
      <4>2. ids[1] = id /\ ids[2] = (IF <<id, c>> \in DOMAIN f THEN f[<<id, c>>] ELSE -1)
        BY <3>4, <3>6, <4>1
      <4>3. t = NoName \/ MadeTable(id, t)
        BY <3>3, <3>6, <4>1
      <4>4. <<id, c>> \in DOMAIN f => c = NoName \/ MadeColumn(id, f[<<id, c>>], c)
        BY <3>3
      <4>5. QED
        BY <3>2, <4>2, <4>3, <4>4 DEF StatementSays
    <3>7. QED
      BY <3>5, <3>6
  <2>5. CopiesAreTheManagers' /\ \A b \in Agents : TablesOfTheManager(b)' /\ ColumnsOfTheManager(b)'
    BY <1>1, <1>3, <1>4, CopiesStill, NamesStill DEF OfTheManager
  <2>6. statements'[a] = g /\ \A b \in Agents : b # a => statements'[b] = statements[b]
    BY <1>1, <2>2 DEF Shape
  <2>7. StatementsOfTheManager(a)'
    <3>1. PICK s : s = statements[a]
      OBVIOUS
    <3>2. \A x \in DOMAIN s : StatementSays(x, s[x])
      BY <1>1, <3>1 DEF OfTheManager, StatementsOfTheManager
    <3>3. Extended(g, s, st, ids)
      BY <2>1, <3>1, WithDom
    <3>4. \A x \in DOMAIN g : StatementSays(x, g[x])
      BY <2>4, <3>2, <3>3 DEF Extended
    <3>5. QED
      BY <1>3, <2>6, <3>4 DEF StatementsOfTheManager, StatementSays, MadeTable, MadeColumn
  <2>8. \A b \in Agents : StatementsOfTheManager(b)'
    BY <1>1, <1>4, <2>6, <2>7, StatementsStill DEF OfTheManager
  <2>9. OfTheManager'
    BY <2>5, <2>8 DEF OfTheManager
  <2>10. QED
    BY <2>3, <2>9, HonestStill
<1>7. QED
  BY <1>5, <1>6

LEMMA HonestNext == Honest /\ [Next]_vars => Honest'
<1> SUFFICES ASSUME Honest, [Next]_vars PROVE Honest'
  OBVIOUS
<1>0. Shape /\ Shape'
  BY ShapeNext DEF Honest
<1>1. CASE UNCHANGED vars
  <2>1. UNCHANGED <<manager, copy, names, statements, operations, usmMbox, mbox, sending, issued>>
    BY <1>1 DEF vars, managerVars, copyVars
  <2>2. Truthful({}, {}, <<>>)
    BY <1>0, <2>1, MailSame, OpsAlone DEF Truthful
  <2>3. QED
    BY <1>0, <2>1, <2>2, HonestSame
<1>2. ASSUME NEW c \in Clients,
             \/ CreateSchema(c)
             \/ \E t \in TableNames : CreateTable(c, t)
             \/ DeleteTable(c)
             \/ \E id \in DOMAIN manager.tables, column \in Columns : AddColumn(c, id, column)
      PROVE  Honest'
  <2>0. NoName \in AnyName /\ 0 \in Nat /\ Columns \subseteq AnyName
        /\ {"createschema", "createtable", "deletetable", "addcolumn"} \subseteq SchemaCommands
    BY DEF AnyName, SchemaCommands
  <2>1. CASE CreateSchema(c)
    BY <1>0, <2>0, <2>1, HonestStart DEF CreateSchema
  <2>2. ASSUME NEW t \in TableNames, CreateTable(c, t) PROVE Honest'
    BY <1>0, <2>0, <2>2, HonestStart DEF CreateTable
  <2>3. CASE DeleteTable(c)
    BY <1>0, <2>0, <2>3, HonestStart DEF DeleteTable
  <2>4. ASSUME NEW id \in DOMAIN manager.tables, NEW column \in Columns, AddColumn(c, id, column)
        PROVE  Honest'
    <3>1. id \in Nat
      BY <1>0, FieldsTypes
    <3>2. QED
      BY <1>0, <2>0, <2>4, <3>1, HonestStart DEF AddColumn
  <2>5. QED
    BY <1>2, <2>1, <2>2, <2>3, <2>4
<1>3. CASE ClientNext
  BY <1>0, <1>2, <1>3, HonestCompile, HonestLoad, HonestLogin DEF ClientNext
<1>4. CASE UserSchemaMgr
  BY <1>0, <1>4, HonestManager
<1>5. ASSUME NEW a \in Agents, AgentNext(a) PROVE Honest'
  <2>1. a \in Actors /\ "TABLENAME" \in NameTopics /\ "FIELDNAME" \in NameTopics
    BY DEF Actors, NameTopics
  <2>2. QED
    BY <1>0, <1>5, <2>1, HonestSend, HonestRequest, HonestReply, HonestName, HonestStatement,
       HonestProcedure
    DEF AgentNext
<1>6. ASSUME NEW e \in Engines, SchemaRequest(e) PROVE Honest'
  BY <1>0, <1>6, HonestRequest DEF Actors
<1>7. QED
  BY <1>1, <1>3, <1>4, <1>5, <1>6 DEF Next

LEMMA HonestTypes == Honest => TypeOK
<1>1. SUFFICES ASSUME Honest PROVE TypeOK
  OBVIOUS
<1>2. Shape /\ CopiesAreTheManagers
  BY <1>1 DEF Honest, OfTheManager
<1>3. ASSUME NEW x \in Actors, NEW id \in DOMAIN copy[x].fields
      PROVE  copy[x].fields[id] \in Seq(Columns)
  <2>1. PICK s, t : s = copy[x].fields[id] /\ t = manager.fields[id]
    OBVIOUS
  <2>2. id \in DOMAIN manager.fields /\ \A i \in DOMAIN s : \E k \in DOMAIN t : t[k] = s[i]
    BY <1>2, <2>1 DEF CopiesAreTheManagers, HasColumn
  <2>3. s \in Seq(AnyName) /\ t \in Seq(Columns)
    BY <1>2, <2>1, <2>2, FieldsTypes
  <2>4. Len(s) \in Nat /\ DOMAIN s = 1 .. Len(s) /\ s = [k \in 1 .. Len(s) |-> s[k]]
    BY <2>3
  <2>5. \A k \in 1 .. Len(s) : s[k] \in Columns
    BY <2>2, <2>3, <2>4
  <2>6. s \in Seq(Columns)
    BY <2>4, <2>5
  <2>7. QED
    BY <2>1, <2>6
<1>4. \A x \in Actors : copy[x].schema \in {"none", "null", "made"}
  BY <1>2, CopyAt DEF CopyType
<1>5. \A op \in DOMAIN operations : operations[op].state \in {"usm", "tasengines"}
  BY <1>2, OpsInOpId DEF Operation
<1>6. /\ manager.schema \in BOOLEAN /\ manager.tables \in Seq(TableNames)
      /\ manager.fields \in Seq(Seq(Columns)) /\ Len(manager.fields) = Len(manager.tables)
  BY <1>2 DEF Shape
<1>7. \A a \in Agents : procedures[a] \subseteq Procedures
  BY <1>2 DEF Shape
<1>8. waiting \in [Clients -> BOOLEAN] /\ issued \in 0 .. MaxOps /\ up \in BOOLEAN
  BY <1>2 DEF Shape
<1>9. QED
  BY <1>3, <1>4, <1>5, <1>6, <1>7, <1>8 DEF TypeOK

LEMMA HonestAlways == Spec => []Honest
<1>1. Init => Honest
  BY HonestInit
<1>2. Honest /\ [Next]_vars => Honest'
  BY HonestNext
<1>3. QED
  BY <1>1, <1>2, PTL DEF Spec

\* Whatever clients do, also two that have columns added to one table at once: every table
\* and column an actor's copy has is one the User and schema manager has made (TAaddcolumn,
\* Engine::addcolumn), and the numbers an agent's maps and statements have for names are the
\* manager's (UserSchemaMgr.cc, TransactionAgent.cc, Larxer.cc).
THEOREM NothingIsInvented == Spec => []OfTheManager
<1>1. Honest => OfTheManager
  BY DEF Honest
<1>2. QED
  BY <1>1, HonestAlways, PTL

\* Schemata: every variable has its type, whatever the clients do.
THEOREM TypesHold == Spec => []TypeOK
  BY HonestAlways, HonestTypes, PTL

=============================================================================
