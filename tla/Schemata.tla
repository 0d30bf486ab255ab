----------------------------- MODULE Schemata -----------------------------
(***************************************************************************)
(* Schema changes: a Transaction Agent asks the User and schema manager    *)
(* (src/infinisqld/UserSchemaMgr.cc), which numbers tables and columns,    *)
(* and passes the answer on to every Transaction Agent and Engine          *)
(* (TransactionAgent.cc, Engine.cc), each of which changes its own copy.   *)
(* Names, compiled statements and stored procedures are passed on as well. *)
(*                                                                         *)
(* One domain: every map is by domainid and the domains share nothing.  A  *)
(* column is its name; its type and index type go wherever the name goes.  *)
(* All actors are on one node.                                             *)
(***************************************************************************)
EXTENDS Integers, Sequences, FiniteSets, Functions, SequencesExt

CONSTANTS Agents, Engines,
          Loader,       \* the agent that loads procedures, the node's first
          Clients,
          AgentOf,      \* the agent a client is connected to
          TableNames, Columns, Procedures,
          Commands,     \* of a client: the builtins it sends, and "pglogin"
          Disciplined,  \* clients wait for the schema, and use the tables they made
          MaxOps        \* bound on the commands

ASSUME SchemataAssumption ==
  /\ Loader \in Agents /\ Agents \cap Engines = {}
  /\ IsFiniteSet(Agents) /\ IsFiniteSet(Engines)
  /\ AgentOf \in [Clients -> Agents]
  /\ Commands \in [Clients -> SUBSET {"createschema", "createtable", "addcolumn", "deletetable",
                                      "compile", "loadprocedure", "pglogin"}]
  /\ Disciplined \in BOOLEAN /\ MaxOps \in Nat

VARIABLES manager,   \* UserSchemaMgr: [schema, tables, fields]
          copy,      \* of an agent or Engine: [schema, fields]
          names,     \* of an agent: tableNameToId and fieldNameToId
          statements,\* of an agent
          procedures,\* of an agent: domainidsToProcedures
          operations,\* pendingOperations of all agents
          usmMbox, mbox,
          sending,   \* what an agent still has to send in toAllOfType
          waiting,   \* of a client: its command is not answered yet
          issued,    \* commands so far
          answers,   \* what clients were answered
          up         \* nobody has used a NULL pointer

managerVars == <<manager>>
copyVars    == <<copy, names, statements, procedures>>
vars        == <<managerVars, copyVars, operations, usmMbox, mbox, sending, waiting, issued, answers, up>>

-----------------------------------------------------------------------------
Actors        == Agents \cup Engines
Nothing       == [x \in {} |-> 0]
Without(f, x) == Restrict(f, DOMAIN f \ {x})
With(f, x, y) == [z \in DOMAIN f \cup {x} |-> IF z = x THEN y ELSE f[z]]
NoName        == "" \* the empty argstring of a message nobody filled in

Init ==
  /\ manager = [schema |-> FALSE, tables |-> <<>>, fields |-> <<>>]
  /\ copy = [x \in Actors |-> [schema |-> "none", fields |-> Nothing]]
  /\ names = [a \in Agents |-> [tables |-> Nothing, fields |-> Nothing]]
  /\ statements = [a \in Agents |-> Nothing]
  /\ procedures = [a \in Agents |-> {}]
  /\ operations = Nothing
  /\ usmMbox = <<>> /\ mbox = [x \in Actors |-> <<>>]
  /\ sending = [a \in Agents |-> <<>>]
  /\ waiting = [c \in Clients |-> FALSE] /\ issued = 0
  /\ answers = {}
  /\ up = TRUE

-----------------------------------------------------------------------------
(* UserSchemaMgr.  r is [cmd, op, table, column], table being the name for *)
(* createtable and the tableid for addcolumn.  An operationid is the client*)
(* and the number of its command.                                          *)

Reply(r, ok, tableid, fieldid, name) ==
  mbox' = [mbox EXCEPT ![AgentOf[r.op[1]]] =
             Append(@, [topic |-> "SCHEMAREPLY", op |-> r.op, ok |-> ok,
                        tableid |-> tableid, fieldid |-> fieldid, name |-> name])]

Refuse(r) == Reply(r, FALSE, 0, 0, NoName) /\ UNCHANGED manager

\* createSchema
createschema(r) ==
  \/ manager.schema /\ Refuse(r)
  \/ /\ ~manager.schema
     /\ manager' = [manager EXCEPT !.schema = TRUE]
     /\ Reply(r, TRUE, 0, 0, NoName)

createtable(r) ==
  \/ (~manager.schema \/ Contains(manager.tables, r.table)) /\ Refuse(r)
  \/ /\ manager.schema /\ ~Contains(manager.tables, r.table)
     /\ manager' = [manager EXCEPT !.tables = Append(@, r.table), !.fields = Append(@, <<>>)]
     /\ Reply(r, TRUE, Len(manager'.tables), 0, r.table)

\* A column is numbered from 0.
addcolumn(r) ==
  LET known == /\ manager.schema /\ r.table \in DOMAIN manager.fields
               /\ ~Contains(manager.fields[r.table], r.column) IN
  \/ ~known /\ Refuse(r)
  \/ /\ known
     /\ manager' = [manager EXCEPT !.fields[r.table] = Append(@, r.column)]
     /\ Reply(r, TRUE, r.table, Len(manager.fields[r.table]), r.column)

\* deleteindex, deletetable and deleteschema delete nothing.
deletetable(r) == Reply(r, TRUE, 0, 0, NoName) /\ UNCHANGED manager

UserSchemaMgr ==
  /\ up /\ usmMbox # <<>>
  /\ usmMbox' = Tail(usmMbox)
  /\ LET r == Head(usmMbox) IN
       \/ r.cmd = "createschema" /\ createschema(r)
       \/ r.cmd = "createtable"  /\ createtable(r)
       \/ r.cmd = "addcolumn"    /\ addcolumn(r)
       \/ r.cmd = "deletetable"  /\ deletetable(r)
  /\ UNCHANGED <<copyVars, operations, sending, waiting, issued, answers, up>>

-----------------------------------------------------------------------------
(* Clients' commands at their Transaction Agent.                           *)

\* What a client has been told: the schema is there, the tableids of its tables.
ToldSchema   == \E an \in answers : an.cmd = "createschema" /\ an.ok
TablesOf(c)  == {an.tableid : an \in {x \in answers : x.client = c /\ x.cmd = "createtable" /\ x.ok}}
ToldTables   == UNION {TablesOf(c) : c \in Clients}

\* Clients send a command when the agent, with nothing left to send, reads its socket.
Sends(c, cmd) ==
  /\ up /\ cmd \in Commands[c]
  /\ ~waiting[c] /\ issued < MaxOps /\ issued' = issued + 1
  /\ sending[AgentOf[c]] = <<>>
  /\ cmd # "createschema" => (Disciplined => ToldSchema)

\* schemaBoilerplate(STARTCMD)
Start(c, cmd, table, column) ==
  /\ Sends(c, cmd)
  /\ waiting' = [waiting EXCEPT ![c] = TRUE]
  /\ LET op == <<c, issued'>> IN
       /\ operations' = With(operations, op, [cmd |-> cmd, state |-> "usm", msgwaits |-> 0])
       /\ usmMbox' = Append(usmMbox, [cmd |-> cmd, op |-> op, table |-> table, column |-> column])
  /\ UNCHANGED <<managerVars, copyVars, mbox, sending, answers, up>>

CreateSchema(c)         == Start(c, "createschema", 0, NoName)
CreateTable(c, t)       == Start(c, "createtable", t, NoName)
DeleteTable(c)          == Start(c, "deletetable", 0, NoName)
AddColumn(c, id, column) ==
  /\ id \in (IF Disciplined THEN TablesOf(c) ELSE ToldTables)
  /\ Start(c, "addcolumn", id, column)

\* toAllOfType: the agent sends one copy after the other.
ToAll(actors, m) == LET to == SetToSeq(actors) IN
                      [i \in DOMAIN to |-> [to |-> to[i], m |-> m]]

\* compile parses the statement, passes it on and answers; the domain's entry in
\* domainidsToSchemata is made by looking at it.
Compile(c, t, column) ==
  /\ Sends(c, "compile")
  /\ Disciplined => \E id \in TablesOf(c) :
                      manager.tables[id] = t /\ Contains(manager.fields[id], column)
  /\ LET a == AgentOf[c] IN
       /\ sending' = [sending EXCEPT ![a] =
                        ToAll(Agents, [topic |-> "COMPILE", table |-> t, column |-> column])]
       /\ copy' = [copy EXCEPT ![a].schema = IF @ = "none" THEN "null" ELSE @]
  /\ UNCHANGED <<managerVars, names, statements, procedures, operations, usmMbox, mbox, waiting,
                 answers, up>>

\* newprocedure(1)
LoadProcedure(c, proc) ==
  /\ Sends(c, "loadprocedure")
  /\ mbox' = [mbox EXCEPT ![Loader] = Append(@, [topic |-> "PROCEDURE1", proc |-> proc])]
  /\ UNCHANGED <<managerVars, copyVars, operations, usmMbox, sending, waiting, answers, up>>

\* Pg::continueLogin looks the domain's schema up, which makes an entry that is NULL.
PgLogin(c) ==
  /\ Sends(c, "pglogin")
  /\ copy' = [copy EXCEPT ![AgentOf[c]].schema = IF @ = "none" THEN "null" ELSE @]
  /\ UNCHANGED <<managerVars, names, statements, procedures, operations, usmMbox, mbox,
                 sending, waiting, answers, up>>

-----------------------------------------------------------------------------
(* What agents and Engines do with a message.                              *)

\* The next message of an actor; an agent in the middle of toAllOfType reads none.
Receives(x, topic) ==
  /\ up /\ mbox[x] # <<>> /\ Head(mbox[x]).topic = topic
  /\ x \in Agents => sending[x] = <<>>

SendOne(a) ==
  /\ up /\ sending[a] # <<>>
  /\ LET s == Head(sending[a]) IN mbox' = [mbox EXCEPT ![s.to] = Append(@, s.m)]
  /\ sending' = [sending EXCEPT ![a] = Tail(@)]
  /\ UNCHANGED <<managerVars, copyVars, operations, usmMbox, waiting, issued, answers, up>>

\* x answers the agent that sent m, which can be x itself.
Acknowledge(x, m, ok, fieldid) ==
  LET to == AgentOf[m.op[1]]
      reply == [topic |-> "SCHEMAREPLY", op |-> m.op, ok |-> ok,
                tableid |-> m.tableid, fieldid |-> fieldid, name |-> NoName]
      rest  == [mbox EXCEPT ![x] = Tail(@)]
  IN mbox' = [rest EXCEPT ![to] = Append(@, reply)]

\* TAcreateschema and Engine::createschema; an agent forgets the domain's procedures.
CopyCreateSchema(x, m) ==
  /\ \/ /\ copy[x].schema = "none"
        /\ copy' = [copy EXCEPT ![x].schema = "made"]
        /\ Acknowledge(x, m, TRUE, 0)
     \/ copy[x].schema # "none" /\ Acknowledge(x, m, FALSE, 0) /\ UNCHANGED copy
  /\ procedures' = IF x \in Agents THEN [procedures EXCEPT ![x] = {}] ELSE procedures
  /\ UNCHANGED up

\* TAcreatetable and Engine::createtable
CopyCreateTable(x, m) ==
  /\ \/ /\ copy[x].schema = "made"
        /\ copy' = [copy EXCEPT ![x].fields =
                      IF m.tableid \in DOMAIN @ THEN @ ELSE With(@, m.tableid, <<>>)]
        /\ Acknowledge(x, m, m.tableid \notin DOMAIN copy[x].fields, 0) /\ UNCHANGED up
     \/ /\ copy[x].schema # "made" /\ up' = FALSE /\ UNCHANGED <<copy, mbox>>
  /\ UNCHANGED procedures

\* A bug: the newest column gets the lowest number.
AddInFront(columns, column) == <<column>> \o columns

\* Table::addfield
addfield(columns, column) == Append(columns, column)

\* TAaddcolumn and Engine::addcolumn: the column gets the number this actor gives it.
CopyAddColumn(x, m) ==
  /\ \/ /\ copy[x].schema = "made" /\ m.tableid \in DOMAIN copy[x].fields
        /\ copy' = [copy EXCEPT ![x].fields[m.tableid] = addfield(@, m.column)]
        /\ Acknowledge(x, m, TRUE, Len(copy[x].fields[m.tableid])) /\ UNCHANGED up
     \/ /\ ~(copy[x].schema = "made" /\ m.tableid \in DOMAIN copy[x].fields)
        /\ up' = FALSE /\ UNCHANGED <<copy, mbox>>
  /\ UNCHANGED procedures

CopyDelete(x, m) == Acknowledge(x, m, TRUE, 0) /\ UNCHANGED <<copy, procedures, up>>

SchemaRequest(x) ==
  /\ Receives(x, "SCHEMAREQUEST")
  /\ LET m == Head(mbox[x]) IN
       \/ m.cmd = "createschema" /\ CopyCreateSchema(x, m)
       \/ m.cmd = "createtable"  /\ CopyCreateTable(x, m)
       \/ m.cmd = "addcolumn"    /\ CopyAddColumn(x, m)
       \/ m.cmd = "deletetable"  /\ CopyDelete(x, m)
  /\ UNCHANGED <<managerVars, names, statements, operations, usmMbox, sending, waiting, issued,
                 answers>>

-----------------------------------------------------------------------------
(* The agent that has the client's Operation.                              *)

Answer(m, ok) ==
  LET op == operations[m.op] IN
  /\ answers' = answers \cup {[client |-> m.op[1], cmd |-> op.cmd, ok |-> ok, state |-> op.state,
                               tableid |-> m.tableid, fieldid |-> m.fieldid]}
  /\ waiting' = [waiting EXCEPT ![m.op[1]] = FALSE]
  /\ operations' = Without(operations, m.op)   \* endOperation

Passes(m, cmd) == [topic |-> "SCHEMAREQUEST", op |-> m.op, cmd |-> cmd, tableid |-> m.tableid,
                   column |-> m.name]

\* The names go to the agents in a second round, whatever the manager has answered.
NamesToo(m, cmd) ==
  IF cmd \in {"createtable", "addcolumn"}
  THEN ToAll(Agents, [topic |-> IF cmd = "createtable" THEN "TABLENAME" ELSE "FIELDNAME",
                      tableid |-> m.tableid, fieldid |-> m.fieldid, name |-> m.name])
  ELSE <<>>

\* A bug: the names go first.
PassOnNamesFirst(m, cmd) ==
  NamesToo(m, cmd) \o ToAll(Agents, Passes(m, cmd)) \o ToAll(Engines, Passes(m, cmd))

PassOn(m, cmd) ==
  ToAll(Agents, Passes(m, cmd)) \o ToAll(Engines, Passes(m, cmd)) \o NamesToo(m, cmd)

\* A bug: a reply of the manager is waited for as well.
MsgwaitsOneMore == Cardinality(Actors) + 1

Msgwaits == Cardinality(Actors)

\* schemaBoilerplate(USMRESPONSECMD), and the rest of createtable and addcolumn
UsmResponse(a, m) ==
  LET cmd == operations[m.op].cmd IN
  \/ /\ ~m.ok
     /\ Answer(m, FALSE)
     /\ sending' = [sending EXCEPT ![a] = NamesToo(m, cmd)]
  \/ /\ m.ok
     /\ operations' = [operations EXCEPT ![m.op].state = "tasengines",
                                         ![m.op].msgwaits = Msgwaits]
     /\ sending' = [sending EXCEPT ![a] = PassOn(m, cmd)]
     /\ UNCHANGED <<waiting, answers>>

\* A bug: one reply too few is waited for.
LastReplyButOne(m) == operations[m.op].msgwaits = 2

LastReply(m) == operations[m.op].msgwaits = 1

\* schemaBoilerplate(TASENGINESRESPONSECMD)
TasEnginesResponse(a, m) ==
  /\ \/ ~m.ok /\ Answer(m, FALSE)
     \/ m.ok /\ LastReply(m) /\ Answer(m, TRUE)
     \/ /\ m.ok /\ ~LastReply(m)
        /\ operations' = [operations EXCEPT ![m.op].msgwaits = @ - 1]
        /\ UNCHANGED <<waiting, answers>>
  /\ UNCHANGED sending

SchemaReply(a) ==
  /\ Receives(a, "SCHEMAREPLY")
  /\ mbox' = [mbox EXCEPT ![a] = Tail(@)]
  /\ LET m == Head(mbox[a]) IN
       IF m.op \notin DOMAIN operations
       THEN UNCHANGED <<operations, sending, waiting, answers>>
       ELSE \/ operations[m.op].state = "usm" /\ UsmResponse(a, m)
            \/ operations[m.op].state = "tasengines" /\ TasEnginesResponse(a, m)
  /\ UNCHANGED <<managerVars, copyVars, usmMbox, issued, up>>

-----------------------------------------------------------------------------
(* Names, statements and procedures.                                       *)

\* TOPIC_TABLENAME and TOPIC_FIELDNAME
Name(a, topic) ==
  /\ Receives(a, topic)
  /\ LET m == Head(mbox[a]) IN
       \/ /\ copy[a].schema = "made"
          /\ names' = IF topic = "TABLENAME"
                      THEN [names EXCEPT ![a].tables = With(@, m.name, m.tableid)]
                      ELSE [names EXCEPT ![a].fields = With(@, <<m.tableid, m.name>>, m.fieldid)]
          /\ mbox' = [mbox EXCEPT ![a] = Tail(@)] /\ UNCHANGED up
       \/ copy[a].schema # "made" /\ up' = FALSE /\ UNCHANGED <<names, mbox>>
  /\ UNCHANGED <<managerVars, copy, statements, procedures, operations, usmMbox, sending, waiting, issued,
                 answers>>

\* resolveTableFields: the ids an agent's maps have for the names; -1 where it gives up.
Resolved(a, table, column) ==
  IF table \notin DOMAIN names[a].tables THEN <<-1, -1>>
  ELSE LET id == names[a].tables[table] IN
       <<id, IF <<id, column>> \in DOMAIN names[a].fields
             THEN names[a].fields[<<id, column>>] ELSE -1>>

\* newstatement keeps the statement also when it is not resolved.
NewStatement(a) ==
  /\ Receives(a, "COMPILE")
  /\ LET m == Head(mbox[a]) IN
       \/ /\ copy[a].schema = "made"
          /\ statements' = [statements EXCEPT ![a] =
               With(@, <<m.table, m.column>>, Resolved(a, m.table, m.column))]
          /\ mbox' = [mbox EXCEPT ![a] = Tail(@)] /\ UNCHANGED up
       \/ copy[a].schema # "made" /\ up' = FALSE /\ UNCHANGED <<statements, mbox>>
  /\ UNCHANGED <<managerVars, copy, names, procedures, operations, usmMbox, sending, waiting, issued,
                 answers>>

\* newprocedure(2): the library is loaded once for the node.
Procedure1(a) ==
  /\ Receives(a, "PROCEDURE1")
  /\ sending' = [sending EXCEPT ![a] =
                   ToAll(Agents, [topic |-> "PROCEDURE2", proc |-> Head(mbox[a]).proc])]
  /\ mbox' = [mbox EXCEPT ![a] = Tail(@)]
  /\ UNCHANGED <<managerVars, copyVars, operations, usmMbox, waiting, issued, answers, up>>

\* newprocedure(3)
Procedure2(a) ==
  /\ Receives(a, "PROCEDURE2")
  /\ procedures' = [procedures EXCEPT ![a] = @ \cup {Head(mbox[a]).proc}]
  /\ mbox' = [mbox EXCEPT ![a] = Tail(@)]
  /\ UNCHANGED <<managerVars, copy, names, statements, operations, usmMbox, sending, waiting, issued,
                 answers, up>>

-----------------------------------------------------------------------------
ClientNext ==
  \E c \in Clients :
    \/ CreateSchema(c)
    \/ \E t \in TableNames : CreateTable(c, t)
    \/ DeleteTable(c)
    \/ \E id \in DOMAIN manager.tables, column \in Columns : AddColumn(c, id, column)
    \/ \E t \in TableNames, column \in Columns : Compile(c, t, column)
    \/ \E proc \in Procedures : LoadProcedure(c, proc)
    \/ PgLogin(c)

AgentNext(a) ==
  \/ SendOne(a)
  \/ SchemaRequest(a)
  \/ SchemaReply(a)
  \/ Name(a, "TABLENAME")
  \/ Name(a, "FIELDNAME")
  \/ NewStatement(a)
  \/ Procedure1(a)
  \/ Procedure2(a)

Next == \/ ClientNext
        \/ UserSchemaMgr
        \/ \E a \in Agents : AgentNext(a)
        \/ \E e \in Engines : SchemaRequest(e)

\* Every actor's thread polls its mailbox for ever.
Fairness == /\ WF_vars(UserSchemaMgr)
            /\ \A a \in Agents : WF_vars(AgentNext(a))
            /\ \A e \in Engines : WF_vars(SchemaRequest(e))

Spec == Init /\ [][Next]_vars /\ Fairness

-----------------------------------------------------------------------------
\* Every variable has its type.
TypeOK ==
  /\ manager.schema \in BOOLEAN /\ manager.tables \in Seq(TableNames)
  /\ manager.fields \in Seq(Seq(Columns)) /\ Len(manager.fields) = Len(manager.tables)
  /\ \A x \in Actors : /\ copy[x].schema \in {"none", "null", "made"}
                       /\ \A id \in DOMAIN copy[x].fields : copy[x].fields[id] \in Seq(Columns)
  /\ \A a \in Agents : procedures[a] \subseteq Procedures
  /\ \A op \in DOMAIN operations : operations[op].state \in {"usm", "tasengines"}
  /\ waiting \in [Clients -> BOOLEAN] /\ issued \in 0 .. MaxOps
  /\ up \in BOOLEAN

\* The columns an agent or an Engine has of a table are those of the User and schema
\* manager, in its order, up to where the actor has got.
CopiesFollowTheManager ==
  \A x \in Actors : \A id \in DOMAIN copy[x].fields :
    id \in DOMAIN manager.fields /\ IsPrefix(copy[x].fields[id], manager.fields[id])

\* When a client is told OK, every agent and every Engine has the table, and the column
\* the client was given the number of is the column the manager gave that number.
AnswersHoldEverywhere ==
  \A an \in answers : \A x \in Actors : an.ok =>
    /\ an.cmd = "createschema" => copy[x].schema = "made"
    /\ an.cmd \in {"createtable", "addcolumn"} => an.tableid \in DOMAIN copy[x].fields
    /\ an.cmd = "addcolumn" =>
         /\ an.fieldid + 1 \in DOMAIN copy[x].fields[an.tableid]
         /\ copy[x].fields[an.tableid][an.fieldid + 1] = manager.fields[an.tableid][an.fieldid + 1]

\* What an agent's names and statements say is what the manager's numbers mean, and the
\* agent has the table and the column it names.
NamesResolve ==
  \A a \in Agents :
    /\ \A t \in DOMAIN names[a].tables \ {NoName} :
         /\ names[a].tables[t] \in DOMAIN copy[a].fields
         /\ manager.tables[names[a].tables[t]] = t
    /\ \A st \in DOMAIN statements[a] :
         LET ids == statements[a][st] IN
           /\ ids[1] \in DOMAIN copy[a].fields /\ manager.tables[ids[1]] = st[1]
           /\ ids[2] + 1 \in DOMAIN copy[a].fields[ids[1]]
           /\ copy[a].fields[ids[1]][ids[2] + 1] = st[2]

\* What the manager has done is not refused by an agent or an Engine, and nobody uses a
\* schema or a table that is not there.
OnlyTheManagerRefuses == up /\ \A an \in answers : ~an.ok => an.state = "usm"

\* What a client is told is true: an OK in every copy of the schema, and a refusal of
\* the manager's own (TransactionAgent::schemaBoilerplate).
AnswersAreTrue == AnswersHoldEverywhere /\ OnlyTheManagerRefuses

\* Every command is answered.
CommandsAreAnswered == \A c \in Clients : waiting[c] ~> (~waiting[c] \/ ~up)

\* A procedure an agent has been given stays.
ProceduresStay == [][\A a \in Agents : procedures[a] \subseteq procedures'[a]]_vars
=============================================================================
