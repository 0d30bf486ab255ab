# A TLA+ verification project for InfiniSQL

InfiniSQL is an in-memory, partitioned SQL database. Its node process
(`src/infinisqld`) is a set of single-threaded actors that talk only through
mailboxes. This directory has TLA+ models of its data path, TLC configurations
that check them on small instances, and TLAPS proofs about the innermost part.
Around the data path it models sessions, accounts, schema changes, replication
and the indexes of character columns.
Paths without a directory below are under `src/infinisqld/`.

## 1. The system

| component | state | operations | talks to |
|---|---|---|---|
| **Table** (`Table.cc`) | rows with lock bits, holders, flags; shadow table of staged rows; a lock queue per row | newrow, updaterow, deleterow, selectrows, commitRollbackUnlock | called by SubTransaction |
| **Index** (`Index.cc`) | one map per field and partition, unique entries with a lock, a set of nulls | insert, commit, rollback, replace, the searches | called by SubTransaction |
| **SubTransaction**, **Engine** | the tables and indexes of one partition; the subtransactions alive in it | one handler per payload of a message | replies to Transaction Agents |
| **Transaction** (`Transaction.cc`) | staged rows, subtransaction of every Engine, the pending command and its count of awaited answers | SQL primitives and their continuations, commit in two rounds, rollback | messages to Engines |
| **Statement, Ast** (`Asts.cc`) | the query being executed, results of its predicates | execute, search expression, continueSelect / Delete / Update, abortQuery | calls Transaction |
| **Pg** (`Pg.cc`) | session with its transaction, in a block or not; a request half read, an answer half written | read, log in, start a statement, end it, write, close the socket | calls Statement |
| **Transaction Agent** | the transactions alive in it; sessions of raw sockets; its copy of the schemata, names, statements, procedures | routes answers, drops those of dead transactions; builtins for accounts and schemata; handledispatch | all |
| **Mbox, MboxProducer** (`Mbox.cc`) | a linked list with head, tail and counted pointers | sendMsg, receive | all actors |
| **Replication** (`Applier.cc`, parts of Engine and TransactionAgent) | changes not applied yet | dispatch, apply, background apply | replicas |
| **Gateways** (`ObGateway.cc`, `IbGateway.cc`), **Message** | batches to and from other nodes | send, receive, serialise | other nodes |
| **UserSchemaMgr**, **Operation** | domains, users, digests, the numbers of tables and columns; requests in progress | one handler per topic | Transaction Agents, which pass schema changes on to all agents and Engines |
| **Topology Manager, Listener, Actor** | configuration, threads | one handler per topic | all |
| **Larxer, parser** | - | SQL text to Statement | - |
| **manager** (`src/manager`) | cluster membership, leader | Python process beside the nodes | nodes over sockets |

What is hard: messages to one Engine keep their order but different Engines answer in
any order; an answer may come after its transaction was rolled back; a row is found in
the Engine of its index entry and locked later in the Engine of the row; commit reaches
the Engines one message at a time and an UPDATE that changes the key takes two rounds;
replicas get the changes of different transactions in any order; schema changes reach
every copy on their own; socket numbers are used again; requests arrive in pieces and
answers block half-way; clients hang up at any moment; mailboxes are lock-free. Nothing
waits for a lock: a statement that meets one is aborted. `PROJECT.json` lists these as
hazards, each at its line.

What makes each part correct:

* Table: lock word, holders, flags and shadow row agree; strict two-phase
  locking; a staged change always has a living owner.
* Index and Transaction: at rest every row has exactly its index entries; a
  commit is atomic, keys are unique, reads are repeatable until the transaction
  ends, nothing stays locked afterwards, every command is answered.
* Search expressions: a statement works on exactly the rows its WHERE is true of.
* Mbox: a FIFO queue per producer that loses nothing.
* Character indexes: the entries follow the rows through padding and trimming, and a
  search returns what the column holds.
* Replication: what a client was told is committed is at every replica; a replica
  that has applied everything has what was inserted; commits end.
* Accounts: the manager's maps agree, a session means the user it was given to and
  belongs to the connection that asked, every Operation ends.
* Schemata: all copies follow the manager, an OK is true everywhere.
* Pg: one answer to every query, ReadyForQuery tells the truth, an aborted block
  rests, a closed session leaves no transaction.

## 2. Modules

| module | models | kind |
|---|---|---|
| `RowOps` | what Table does to one row, as functions from cell to cell | operators |
| `Table` | one Engine's table under concurrent subtransactions | state machine |
| `LockedStore` | a store under two-phase locking | abstract specification of `Table` |
| `EngineProofs`, `TransactionsProofs`, `SearchProofs`, `TextProofs`, `ReplicationProofs`, `UsersProofs`, `SchemataProofs`, `PgProofs` | theorems about the module named, `EngineProofs` about `Table` and `Mbox`, `TextProofs` about `TextIndex` and `TextSearch`, `PgProofs` about `PgSession` | proofs |
| `IndexOps` | what Index does to one unique entry | operators (extends `RowOps`) |
| `Transactions` | client sessions, transactions, the messages between them and several Engines | composition of `RowOps`, `IndexOps` |
| `AtomicStore` | a database that commits atomically with unique keys | abstract specification of `Transactions` |
| `Search` | the WHERE of one SELECT or UPDATE, with AND, OR and every predicate but LIKE | state machine over `RowOps` |
| `Mbox` | the mailbox, one atomic memory access per step | state machine |
| `Fifo` | a FIFO queue of numbered messages | abstract specification of `Mbox` |
| `TextIndex` | the index of one CHAR, CHARX or VARCHAR column under transactions | state machine |
| `TextSearch` | what every search on that index returns, LIKE among them | operators and properties over `TextIndex` |
| `Replication` | commit with replicas, handledispatch, Engine::apply, Applier | state machine |
| `Users` | UserSchemaMgr's accounts, sessions and Operations of the agents | composition of manager, agents and clients |
| `Schemata` | schema changes from a client through the manager to all copies | composition of manager, agents, Engines and clients |
| `PgSession` | one Pg object, its socket and its client | state machine |
| `MCTable`, `MCTransactions`, `MCSearch`, `MCTextSearch`, `MCReplication`, `MCSchemata`, `MCPgSession` | the instances TLC checks; `Mbox` and `Users` need no definitions for theirs | |

Definitions called `...Early`, `...Always`, `...Blindly` and the like, marked "a
slip in", are plausible bugs. Each property of a passing run is violated when one
of them replaces the operator after it; no specification uses them.

The source repeats most of `Index.cc`, `SubTransaction::uniqueIndex` and
`Ast::evaluate` for seven field types and up to three kinds of map. An operator
stands for all copies; where several operators model one such function, `map`
gives each a part of its lines.

### Table

`table[r]` is the cell of a rowid: `rows[r]`, `shadowTable->rows[r]` and
`lockQueue[r]` in one record. `staged[s]` is what the Transaction behind
subtransaction `s` has in its stagedRows here, `sub[s]` where it is in its life,
`crashed` what undefined behaviour the Engine has met (a row dereferenced that is
gone, one freed twice, an empty reply written to); nothing happens after that.
Actions are the messages an Engine gets: `NewRow`, `SelectRows` (a set of rows,
any of the three lock types), `UpdateRow`, `DeleteRow`, `ReplaceDeleteRow`,
`CommitRows`, `RollbackRow`, `EndSubTransaction`. A commit is one message for
all rows, a rollback one per row, as in the source.

### Transactions

A transaction is a record: phase, pending command and its id, awaited answers,
results, staged rows, subtransaction ids learnt. `mail[t][e]` and the reply
channels are FIFO sequences, one for each transaction and Engine. An Engine has
a cell for each row, a unique entry for each value and the set of nonunique pairs.
`StartStatement`, `ClientCommit`, `ClientRollback` and `HangUp` are the client's;
`Receive` and `DropReply` the agent's; the others (`NewRow`, `UniqueIndex`,
`IndexSearch`, `SelectRows`, `SearchReturn1`, `UpdateRow`, `DeleteRow`,
`ReplaceDeleteRow`, `CommitRofsAt`, `RollbackRofAt`, `EndSubTransaction`) the
Engine's handlers. A handler runs to its end in one step: actors are
single-threaded and share nothing. Operators such as `ContinueDelete`, `OnHits`
and `NextUpdate` are the continuation functions of the source.

Left out: several tables; replicas (`numreplicas` is 1); NULL; predicates other
than equality on one field and no WHERE at all; statements after a DELETE in the
same transaction (they read the blank row the DELETE has left in stagedRows);
the queue of an index entry (what it sends is dropped by the agent); UNLOCKCMD
and REVERTCMD (never sent for SQL).

### Search

Ast::evaluate visits left child, right child, operator. An expression is the
sequence of its nodes in that order; `code` is what is left of it, `stack` the
predicateResults of finished nodes. `StartPredicate` is sqlPredicate with its
INDEXSEARCH round, `SelectRows` an Engine's SELECTROWS with its answer,
`SelectRowsPending` and `SelectRowsLate` the abort and what arrives after it,
`NoHits` the branch of continueSqlPredicate for an empty index result,
`EvaluateAnd` and `EvaluateOr` the operators with the rollback messages AND sends,
`Finish` and `End` the rest of the statement and the commit. The index round is
one step because rows do not change in this model: another transaction only takes
and releases locks. `Holds` and `Matches` are the reference definition.

Left out: rows staged by earlier statements, LIKE (`TextSearch` has it), a second IN (both
would read the one list of the statement), subqueries. Larxer gives a SELECT read
locks and an UPDATE or DELETE write locks, so `UPDATE` stands for both.

### Mbox

The heap of messages is a variable; `prod[p]` has the local variables of sendMsg
and where the producer is in it. Each load, store and compare-and-swap is an
action (the counter that goes with a pointer changes in the same step). `receive`
is one step: only the consumer touches head. A deleted message keeps its content
until the address is used again. `Recycle` says when the allocator does that: never,
once neither tail nor a producer's copy of it holds the address, or at any time.

### TextIndex and TextSearch

`entries` is the content of the std::map, std::multimap or unordered_map of one column,
`rows` what the rows hold, as bytes. The type of the column and of its index are chosen
in `Init`. `InsertRow`, `UpdateRow`, `MoveRow` (the REPLACE of a row that changes its
partition), `DeleteRow`, `Commit` and `Rollback` are statements and ends of transactions
with the index messages they send: one step each, because the races between Engines are
the subject of `Transactions`; what is kept is which key each of the functions involved
computes (`KeyOf`, `MakeRow`, `RowKey`: trimmed, padded or cut). `TextSearch` has the
methods of Index over that content as sets of rows, with the order of bytes each map
uses, the range LIKE walks and the regular expression it matches. pcrecpp's full match
is external (`FullMatch`). The rollback of a key that is staged in an unordered index on
a CHARX crashes the Engine (§5, 45): `down` is TRUE from then on and nothing happens any
more.

### Replication

A row is a function of two fields of which the first places it. A transaction
stages changes, `Commit` makes the MessageDispatch and counts the answers it
waits for, `HandleDispatch` at a replica works out index changes and sends a MessageApply to
each partition, `Apply` is Engine::apply: its records, its index items, then the
background list with what did not fit. `up` turns FALSE where the code dies
(`HandleDispatchDies`, a NULL message; `UpdateDies`, a missing row). Every
transaction has an agent of its own, so applies arrive in any order.

### Users

`accounts` joins the manager's maps by domainid; `userIdToPassword` and `pwdStruct` are
its members that outlive a request. Actions: connections and hang-ups, the seven account
builtins and the PostgreSQL login on the agents' side, one step of the manager per
request, one step of the agent per answer (`AgentReply`). A digest is its password.

### Schemata

`manager` numbers tables and columns; `copy` is the schema of each agent and
Engine, `names`, `statements` and `procedures` those of each agent. A command goes
to the manager, from there back to the agent (`UsmResponse`), which sends it to
all (`ToAll`, one message at a time: between two of them others run) and counts
answers (`TasEnginesResponse`). Compiled statements and procedures are passed on in the
same way. One domain: the maps of different domains share nothing.

### PgSession

The client's bytes are units of a stream and a read delivers any prefix of what has arrived;
a write stops anywhere if the socket may be full. `pg` is the object: state, input
and output buffers, the size awaited, transaction, statement, commits in progress. A
callback of a statement or commit is a step of its own (`StatementEnds`, `CommitEnds`).
`got` is what the client has received. A write that fails for good closes the session in the
middle of the handler (`Pg.cc:778`); `Eof` does that at the next read, to the same end but
for the use of the freed Pg (end of §5).

## 3. Runs

| run | question | bounds | distinct states |
|---|---|---|---|
| `table` | lock discipline, owners of changes, implements `LockedStore` | 3 subtransactions, 2 rows, 2 values, symmetric | 119,280 |
| `transactions` | atomicity, indexes, nothing left behind, one subtransaction per Engine | 3 transactions of one statement by key, 2 Engines, 4 rowids | 417,631 |
| `transactions_block` | staged changes are locked and commits atomic, for blocks whose clients may hang up during commit | 2 transactions of 2 statements | 202,270 |
| `transactions_live` | every command ends; reads are repeatable and commits atomic for rows found in one Engine and locked in another | 2 transactions, fair | 42,319 |
| `search` | results and locks of search expressions | all 64 tables of 3 rows, 42 queries, 2 Engines, another transaction locking | 465,042 |
| `mbox` | FIFO, nothing lost, everything arrives | 3 producers, 3 messages in all, 4 addresses, reused when nothing points there, fair | 286,768 |
| `textsearch` | index of a character column, all its searches | 3 column types, 3 kinds of map, 2 rows, 3 transactions, literals with blanks and several lengths | 18,187 |
| `replication` | what a replica has, when; commits end | 2 transactions of up to 2 changes, 2 partitions, 1 replica, fair | 61,560 |
| `users` | accounts, sessions, Operations | 1 agent, 2 sockets, 2 connections, 5 requests, 2 domains, 2 names, fair | 453,794 |
| `schemata` | copies of the schema, names, statements, procedures | 2 agents, 1 Engine, 2 clients, 4 commands, fair | 202,697 |
| `pgsession` | protocol of a session | 4 queries in any order and portions, hang-ups, fair server | 43,373 |
| `transactions_select_update` | expected violation, 5.4 | | |

Each module has a `TypeOK`; it is proved for `Table`, where its run checks it too, and
for `Transactions`. In the other modules it holds under the same configurations (add
`INVARIANT TypeOK`, `MboxTypeOK` in `Mbox`), as do `TailLagsByOne` of `Mbox` and
`IndexesMatchRows`, `StagedChangesAreLocked` and `ReadsAreRepeatable` in all three runs
of `Transactions`.

Two Engines are enough for every race between index and row and between two Engines'
answers; two writers and one reader meet on a row in every order; three producers are
needed for a tail that two others have moved on. Two transactions suffice for changes of
a row that reach a replica in the wrong order; five requests for make, log in, delete,
make again and log in; four queries for BEGIN, a failure, another statement and the end
of the block; two clients at two agents for every crossing of schema messages. Rowids,
subtransaction ids and messages are bounded by constants (`MaxRowid`, `Subs`,
`MaxStmts`, `MaxMsgs`, `Addrs`, `MaxSubs`, `MaxChanges`, `MaxConns`, `MaxOps`,
`MaxQueries`). CHECK_DEADLOCK is off where all sessions may be over.

Fairness. Engines, agents and the mailbox's consumer poll for ever (the loops of
`Engine::Engine`, `TransactionAgent::TransactionAgent` and their mailboxes), so their
steps are weakly fair, and so are those of the User and schema manager and of a
replica's actors; a producer runs sendMsg to its end on a thread of its own. Clients are
never fair. `EveryMessageArrives` needs no more than that because a producer that fails
a compare-and-swap has been overtaken by one that succeeded, and the messages are
bounded.

The constants of passing runs keep out of what section 5 lists: a new nonunique value
has its entry in the row's Engine (5.7), a block does not change a row twice (5.5) or
update what it has read (5.4), a SELECT has no AND (5.9), AND is not the right operand
of OR (5.10); there is one replica (5.18) and commits in question have changes (5.20);
clients hang up only when they have their answer (5.22, 5.26); memory of a message is
reused only when neither tail nor a producer still points to it (5.17); clients that
change a schema wait for it to be there and use their own tables (5.27 to 5.32); no
update changes only blanks, no literal is longer than its column, patterns are not empty
and have neither `.` nor a last byte 255, NOT LIKE is checked in one direction (5.33 to
5.39); a Pg client waits for its answers, and writes block only before login (5.40 to
5.42). In `pgsession` the client may ask for SSL: it gets no further (5.41).

## 4. Proofs

`EngineProofs` proves about `Table`, for any number of subtransactions, rows and values (the
only assumptions are that `NoSub`, `NoVal` are none of them and the bounds are
naturals):

* `TypeAndLocks`: `Spec => [](TypeOK /\ LockDiscipline)`. The inductive invariant
  is `CellsOK`, the conjunction of the two; with it a lemma for each row operation
  (`SelectCellOK`, `CommitCellOK`, ...) says that it maps well-locked cells to
  well-locked cells, and each action applies these to its rows. `Typed` adds
  `FreshRowids`, that rowids not handed out yet are absent: without it NewRow could
  overwrite a row.
* `NoOrphanedChange`: `Spec => []ChangesHaveAnOwner`. `Owned` adds to `Typed` that
  only a living subtransaction has staged rows. It is needed because the property
  speaks of a row's writer and its Transaction's stagedRows, two variables that a
  commit or a rollback changes together. The lemmas `ForeignCell` and
  `ChangerIsWriter` say that an operation of one subtransaction leaves another's
  change alone.
* `TableImplementsLockedStore`: `Spec => ImplementsLockedStore`. The mapping takes
  a cell to its committed content (`Visible`), its writer and its readers. Updates
  and deletes map to stuttering steps (`ChangeStutters`), selects to acquiring
  locks, commit and rollback to releasing them, of which only the writer's may
  change the content.

and about `Mbox`, whose specification is called `MboxSpec` there, for any number of
producers and messages and any finite number of addresses. What the allocator does is
not assumed; each theorem has in its statement the condition on the steps that is
needed, `ReusesUnreferenced`: a message is made only at an address that neither tail nor
what a producer has read of it holds. (A deleted message may be just such an address,
and the memory is then used again: without the condition messages are lost, §5, 17.)

* With `Good == MboxSpec /\ [][ReusesUnreferenced]_mboxVars`: `NothingIsLost`: `Good =>
  []NoMessageLost`, `TailStaysNear`: `Good => [](MboxTypeOK /\ TailLagsByOne)`, and
  `MailboxIsAFifo`: `Good => ImplementsFifo`. The inductive invariant `IInv` says that
  there is a chain of addresses `c`, all messages ever linked in their order, of which
  those received are the beginning: consecutive ones point to each other and the last
  one to none (`ChainOK`), tail is the last or the last but one (`TailOK`), each
  producer's message is its own until it is linked (`OwnOK`, `Apart`), what a producer
  has read of tail and its next is a place of the chain, however old (`SeenOK`), and
  every message is in the chain once (`OnceEach`, `Counted`). The chain is needed
  because neither head, which moves on, nor tail, which lags, says what was linked. The
  refinement maps the queue to the part of the chain after what was received; only the
  compare-and-swap of nextmsg and receive are steps of it.

`TransactionsProofs` proves, for any transactions, Engines, rows, indices and statements
the parser makes (`StatementsAssumption`; `LoadedAssumption` says that the rows there at
the start were inserted one after the other):

* `TypeCorrect`: `Spec => []TypeOK`. The inductive invariant `TypeInv` has a half for each
  side. `EngineTypes`: rows are well locked, those not handed out yet are absent, index
  entries name rows, and a lock is held by a subtransaction the Engine has given out.
  `AgentTypes`: a message or an answer is about something its handler can use (`Body`,
  `Answers`), it fits the command its transaction is in if it has that command's pendingcmdid
  (`Fits`), subtransactions it names are its transaction's (`SubOK`), and there are never
  more of them than the transaction waits for (`Expected`). The last is what the types
  rest on: an answer too many would be taken by a continuation that is not meant for
  it, or take a count below zero. Counting goes over the places of all queues
  (`DueIn`), with lemmas for what a push or a pop does to it (`DueAppend`, `DueTail`). Each
  continuation of a statement has a lemma that it sends as many messages as it
  counts (`Onward`, `Moves`).

`SearchProofs` proves, for any table, any spreading over the Engines, any behaviour of
the other transaction and every expression that is the postfix form of a tree
(`IsTree`: AND and OR find two results, one is left at the end):

* `SearchesFindTheMatches`: `Spec => []ResultIsTheMatchesOrGivenUp`, if every range
  predicate is on an ordered index with signed keys (`IndexesAnswer`; §5, 12) and no
  SELECT has an AND (§5, 9). The invariant `EvalInv` says that the stack agrees with the
  evaluation of the nodes done (`Agreement`: equal to it for an UPDATE; with the same
  rows for a SELECT, whose later predicates skip rows it has locked), and that while
  Engines are asked one answer is outstanding for each Engine with rows asked for
  and every row of the predicate is found, asked for or on the stack (`Fetching`).
  That the recursive function `Evaluation` has a value for every tree is proved by
  induction over a set of numbers (`NatSetInduction`, from the library's `WFMin`).
* `RowsStayLocked`: `Spec => []ReturnedRowsAreLocked`, for every tree that has no AND to
  the right of an OR (`NoAndRightOfOr`, part of the statement; §5, 10). The invariant is
  that everything on the stack is write-locked (`Held`): with two results on the stack
  an AND can only release what it does not return.
* `LocksAreGivenBack`: `Spec => []NoLockIsLeftBehind`, under `IndexesAnswer`. `Remembered`
  says that without an AND every row locked is on the stack or found, then in the
  result.

`TextProofs` proves, for any literals, column length, number of rows and transactions,
signed or unsigned bytes, if no CHARX literal is longer than its column (`Fits`;
necessary, §5, 39). For a nonunique index the first and the last also need, in their
statements, that no UPDATE changes only trailing blanks (§5, 33). A rollback that
crashes the Engine (§5, 45) is a step of the specification and ends the behaviour:

* `IndexFollowsTheRows`, `NoKeyStaysStaged`, `UniqueMeansUnique`. The inductive invariant
  `TextInv` says entry by entry where each comes from: a row (`RowsHaveEntries`) or
  an open transaction (`WorkHasEntries`), and nothing else (`NoOthers`), that the work
  of two transactions never meets (`Apart`), that a transaction still knows the key
  it staged (`WorkFits`) and that a unique index has one entry for a key (`OneForAKey`).
* `ComparisonsStayExact`: `Spec => []ComparisonsAreExact`, the conjunct of
  `SearchesAreExact` without LIKE. It rests on the proof that the order of the map,
  lexicographic by signed or unsigned bytes, is a total order, so that the walk
  between two iterators is the range it stands for.

`ReplicationProofs` proves, for any transactions, rows and deaths of replicas:

* `DispatchedBeforeCommitted`: what is committed has reached every replica that is up
  and is sent to; `CommittedIsDispatchedWithTwo`: `Spec => []CommittedIsDispatched` for
  `NumReplicas <= 2` (with more one is left out, §5, 18). The invariant counts: messages
  and answers on their way are no more than what the transaction waits for
  (`Counted`), and where the change has not arrived a message is still on its way
  (`Covered`).
* `ServedReplicasHaveTheInserts`: a replica that is sent to has, when nothing is on its
  way to it, the rows and keys that were inserted; `ReplicasHaveTheInserts`:
  `Spec => []ReplicaHasTheInserts` for `NumReplicas <= 2`. The inductive invariant has two
  parts. `PrimaryInv`: every row of the primary was inserted by one committed
  transaction and has its key still, no two transactions insert the same row, use the same
  subtransaction of a partition or, while nothing is deleted, insert the same key
  (`Distinct`). `ReplicaInv`: messages say what their transaction has staged (`DispatchInv`,
  `ApplyInv`), Engines hold and have put aside only what was sent under that
  subtransaction (`StoreInv`, `BackgroundInv`), and an insert that was sent is in a
  dispatch, in a message to its partition's Engine, or there (`Delivered`). It
  is needed because the order of arrival is arbitrary: a row or key is there only
  because no item of any other message, put aside or new, can take its place.
  Engine::apply is two folds over sequences and a walk over the background map; each is
  proved equal to the last of a sequence of steps (`RecordsInTurn`, `ItemsInTurn`,
  `RecordsAgainInTurn`, `ItemsAgainInTurn`, `SubsInTurn`), and `EngineApplies` goes through
  those steps by induction.

`UsersProofs` proves, for any agents, sockets, domains and users:

* `DirectoryStaysSound`: `Spec => []DirectoryAgrees`, without further assumption;
* `SessionsTakeNoNewUser`, also without assumption, for clients that hang up at any time: when
  the user of a session or Pg object has been deleted, its ids never name anybody again,
  and while they name a user they name the same one. `IdentitiesGiven` says that every
  identity an agent keeps, or is about to get, was given by the manager (`Meant`: it names
  what it named then, or nobody); that holds for the session that a late answer makes of a
  closed connection, too.
* `SessionsNeverChangeUser`: `Spec => []SessionsKeepTheirUser` and
  `SessionsStayWithTheAskers`: `Spec => []SessionsAreTheAskers`, which speak of the
  connection that asked, if clients wait for an answer before they hang up (`Patient =
  TRUE`). The code does not make them wait and both are violated when they do not (§5,
  22). `UsersInv` adds `Messages`, that an id in any message was given by the manager,
  and `Flow`, that every Operation has one message on its way, about the connection that
  asked, which is still open. It is needed because a session is made from a message that
  was sent when other connections, users and domains existed.

`SchemataProofs` proves, for any agents, Engines (finitely many), clients and names,
whatever the clients do:

* `NothingIsInvented`: `Spec => []OfTheManager`, that every schema, table and column in
  a copy, every number an agent has for a name and every number in a statement is one
  that the manager has made; and `TypesHold`. The invariant `Honest` adds that every
  message speaks only of what the manager has made, or that its Operation no longer
  heeds it; the manager takes nothing back.

If moreover clients send no command before they have been told that the schema is there and
add columns only to tables they made (`Disciplined`; the code does not enforce it, and it is
necessary, §5, 27 to 31):

* `AnswersHold`: `Spec => []AnswersAreTrue`, and `CopiesFollow`: `Spec =>
  []CopiesFollowTheManager`. The inductive invariant `CoreInv` follows
  every Operation from the manager to the last answer. `Operational`: one message of
  each kind is on its way to each actor it is due at, and the agent's msgwaits is the
  number of requests and answers still to come (`CountOk`), so that the last answer
  comes after the last copy has changed. `Done`: what the manager has granted is done at the
  manager, and at exactly those actors the request has reached (`DoneOp`): a copy
  differs from the manager's only by a column whose request is on its way (`CopyInv`).
  That there is at most one such request, and the column therefore gets
  the manager's number, follows from the owner of the table having one command at
  a time (`OneEach`); the owner (`own`) and what the manager has answered (`job`) are in no
  variable, so the invariant says that there are such functions. `TalkInv`: no name
  or statement is on its way before the schema has reached everyone, so that nobody
  uses a NULL pointer.
* `NamesStayResolved`: `Spec => []NamesResolve`, if no table has the empty name
  (`TablesAreNamed`; necessary, §5, 44). The part `Naming` of `CoreInv` says that a name
  that is on its way is right and comes after the request that makes what it names, in
  the mailbox or in what its agent still sends (`NameMsgInv`); that what an agent has
  taken note of is right and there (`KnownInv`); that what the manager has is known to
  every agent, in its mailbox, or still to come from the agent of the table's owner
  (`NamedInv`); and so that a statement, which the owner compiles when its agent has
  nothing left to send, finds its names at every agent (`CompileInv`, `StatementsInv`).

`PgProofs` proves, for any queries and any number of them, SSL or not, hanging up at any
time, and any way in which the stream arrives:

* `AnswersAreAskedFor`: `Spec => [](Count({"C", "E", "OK"}) <= Len(asked) + 1)`,
  whatever writes find the socket full and however the client pipelines: a session never
  sends more answers than it was sent requests (the 1 is the startup message's). The
  invariant `Counted` is a potential: bytes of a request on the wire, in inbuf or in
  execution, an answer in outbuf and one received count alike, and no step of the
  session makes the sum larger.

If the client waits for its answers (`Waits`) and only a write before the startup
message is answered may find the socket full (`WritesFit`); the code guarantees neither,
and `OneAnswerEach` is violated with `Pipelines = TRUE`, and with any other state in
`BlockStates` (§5, 40):

* `ReadyForQueryIsTrue`: `Spec => []ReadyTellsTheTruth`; `FailedBlocksRest`: `Spec =>
  AbortedBlocksRest`; `EveryRequestIsAnsweredOnce`: `Spec => []OneAnswerEach`. The
  inductive invariant `PgInv` follows the session through its states. What is in
  inbuf and on the wire together (`Rest`) is always the rest of one message, and the
  size and type that `initcmd` has read belong to it (`Reading`): this is why a request
  that arrives in pieces is executed once. An open session (`Open`) is at rest with
  the ReadyForQuery it has sent, has a query on the way, or is executing one, with at
  most one transaction that is the session's own (`ItsBlock`, `Working`, `Committing`)
  or none after a failure (`FailedBlock`). After a refused SSL request one unit stays in
  inbuf and is taken for the size of the startup message (`Beginning`; §5, 41).

Every inductive invariant was checked with TLC on the instance of its run before it
was proved.

Only model-checked: liveness (outside the prover); LIKE and NOT LIKE (two recursive
functions over pattern and text that would have to be compared step by step); and the
safety properties of `Transactions`, whose invariants relate Engines, agents and
statements of every transaction.

## 5. Where the code and its documentation disagree

Number 4 is a run with `"expect": "violation"` and has its finding in `PROJECT.json`;
the others violate the property named. Up to 15 they are reproduced with the
configuration named, on the module in brackets (`tlc -config TableOrphanLock.cfg
MCTable`), from 16 on with that property and the given changes of a run's
configuration.

1. `TableOrphanLock.cfg` [MCTable], `LocksHaveAnOwner`. A pending lock aborts
   the query before the rows the same reply has locked are staged
   (`Transaction.cc:2939`); rollback walks stagedRows and never unlocks them.
2. `TransactionsLeakedKey.cfg` [MCTransactions], `NothingLeftBehind`. An INSERT refused
    for one key rolls back while the answer about another key is on its way
    (`Asts.cc:5803`); that key stays locked. The comment at `TransactionAgent.cc:473`
    describes the missing step.
3. `TransactionsTwoSubs.cfg` [MCTransactions], `SingleSubTransaction`. Two unique
   values of one INSERT in an Engine not talked to before make two subtransactions
   (`Transaction.cc:702`, `Engine.cc:117`); `overview.xml:420` promises one.
4. `TransactionsSelectUpdate.cfg` [MCTransactions] (run). `Larxer.cc:600` sets READLOCK
   whatever the clause was. UPDATE then takes the row from stagedRows, has no write
   lock, changes nothing and reports success.
5. `TransactionsUpdateTwice.cfg` [MCTransactions], `IndexesMatchRows`. A second UPDATE
   of a row in one transaction takes the first one's result for the original
   (`Asts.cc:5452`): the index entry of the committed row is never deleted.
6. `TransactionsDeleteNone.cfg` [MCTransactions], `EveryCommandEnds`. A DELETE whose
   rows have gone between the index search and the lock sends no DELETEROW and waits
   for ever (`Asts.cc:5264`).
7. `TransactionsIndexOrder.cfg` [MCTransactions], `IndexesMatchRows`. The row's Engine
    unlocks before the index Engine has its message (`Transaction.cc:1985`): the next
    transaction's index change can overtake and leave an entry behind.
8. `TransactionsPredicate.cfg` [MCTransactions], `RowsMatchPredicate`. A row that was
   changed between index search and lock is updated although it no longer matches
   (`Transaction.cc:2971`).
9. `SearchReadAnd.cfg` [MCSearch], `ResultIsTheMatches`. `WHERE a AND b` under read
    locks drops the rows that match both: the second search skips rows the first has
    locked (`Asts.cc:501`, `Table.cc:536`).
10. `SearchOrAnd.cfg` [MCSearch], `ReturnedRowsAreLocked`. In `c OR (a AND b)` the AND
    unlocks rows that `c` has found (`Asts.cc:509`): an UPDATE goes on with a row that is not
    locked, and does nothing to it.
11. `SearchEmptyOr.cfg` [MCSearch], `ResultIsTheMatches`. `a OR b` returns nothing when
    nothing matches `a`: `Transaction.cc:2853` clears pendingcmd and then tests it.
12. `SearchUnsigned.cfg` [MCSearch], `ResultIsTheMatches`. On unsigned and boolean fields
    `<` and `>=` find nothing and `<=` only the equal (`Index.cc:1990`); BETWEEN leaves
    out the upper bound and finds nothing on booleans.
13. `TransactionsHangUp.cfg` [MCTransactions], `IndexesMatchRows`. A client that hangs up
    between the two rounds of a commit makes `Pg.cc:384` roll the second one back: the
    old and the new row both stay.
14. `TableNoLock.cfg` [MCTable], `CommittedRowsExist`. A row read with NOLOCK, as stored
    procedures can (`api.cc:300`), is part of the commit (`Table.cc:658`) and may be
    gone by then. SQL's NO LOCK takes a read lock (5.4).
15. `TableDrain.cfg` [MCTable], `DrainReachesWaiters`. Draining the queue of a deleted
    row writes the first element of an empty reply (`SubTransaction.cc:1914`).

16. `RowsAreFreedOnce`, `Table.cfg`. Insert, delete and commit in one transaction free
    the row twice (`Table.cc:702`).
17. `NoMessageLost`, `Mbox.cfg` with `Recycle = "any"`. If the allocator hands out a deleted
    message's memory while tail points to it (`Mbox.cc:99`), messages are lost.
18. `CommittedIsDispatched`, `Replication.cfg` with `NumReplicas = 3`. With more than two
    replicas the loop starts at 1 (`Transaction.cc:3590`): the last replica gets the
    changes twice, the first none, and the count of answers is met all the same.
19. `ReplicaIsTheSame`, `Replication.cfg`. `Engine.cc:277` has the test for an existing
    row inverted: no UPDATE is applied, and DELETEs are put aside.
20. `EveryCommitEnds`, `Replication.cfg`. A commit that has changed nothing sends no
    MessageDispatch and waits for its answer (`Transaction.cc:3575`).
21. `AppliersEnd`, `Replication.cfg`. partitioncount is 0 when the Applier is made
    (`TransactionAgent.cc:1570`), so counting down never meets 0 (`Applier.cc:63`).
22. `SessionsAreTheAskers`, `Users.cfg` with `Listeners = {"raw"}`, `MaxOps = 3`, `Patient
    = FALSE`. The answer to a login arrives when its socket number has become another
    connection's, which is then logged in (`TransactionAgent.cc:682`).
23. `LoggedInCannotLogin`, `Users.cfg` with `Listeners = {"raw"}`, `MaxOps = 3`. The
    comment at `TransactionAgent.cc:148` says "if user logged in, then cannot login";
    login is one of the builtins all the same.
24. `PasswordsAreTheirUsers`, `Users.cfg` with `Listeners = {"raw"}`. changepassword looks
    the user up in the map the previous request left in userIdToPassword
    (`UserSchemaMgr.cc:277`).
25. `PgLoginIsExact`, `Users.cfg` with `MaxOps = 3`. operationLogin compares with the
    member pwdStruct and not with the entry it has found (`UserSchemaMgr.cc:868`).
26. `OperationsEnd`, `Users.cfg` with `Listeners = {"pg"}`, `MaxOps = 2`, `Patient =
    FALSE`. When its Pg is gone the Operation is neither erased nor deleted
    (`Operation.cc:85`).
27. `CopiesFollowTheManager`, `Schemata.cfg` with `Commands <- MCBothAdd`, `Disciplined =
    FALSE`. Two agents add columns to a table at once; each copy numbers them in its own
    order of arrival (`TransactionAgent.cc:1163`, `Engine.cc:204`).
28. `AnswersHoldEverywhere`, `Schemata.cfg` with `Commands <- MCBothAdd`, `Disciplined =
    FALSE`. `docs/pubs/reference.xml:1499` says addcolumn "Returns numeric columnid of
    newly created column"; when two agents add columns at once, the number returned is
    another column's in some copies.
29. `NamesResolve`, `Schemata.cfg` with `Commands <- MCOtherCompiles`, `Disciplined =
    FALSE`. A statement compiled before a name has arrived resolves differently in
    different agents.
30. `OnlyTheManagerRefuses`, `Schemata.cfg` with `Commands <- MCLoginFirst`, `Disciplined
    = FALSE`, `MaxOps = 2`. A login before the schema has arrived inserts NULL for it
    (`Pg.cc:826`); the schema is then refused.
31. `OnlyTheManagerRefuses`, `Schemata.cfg` with `Commands <- MCNoSchema`, `Disciplined =
    FALSE`, `MaxOps = 2`. A name that overtakes its schema dereferences NULL
    (`TransactionAgent.cc:566`).
32. `ProceduresStay`, `Schemata.cfg` with `Commands <- MCLoadFirst`, `Disciplined =
    FALSE`, `MaxOps = 2`. Making the schema empties the procedures loaded before
    (`TransactionAgent.cc:1135`).
33. `EntriesFollowTheRows`, `TextSearch.cfg` with `BlankUpdates = TRUE`. An UPDATE that
    changes only trailing blanks of a nonunique VARCHAR inserts and then deletes the same
    trimmed key (`Transaction.cc:1699`): the row is lost from the index.
34. `NotInIsExact`, `TextSearch.cfg`. getnotin does not trim its operands for unordered
    maps and nonunique VARCHARs (`Index.cc:3552`).
35. `LikeIsExact`, `TextSearch.cfg` with `Literals <- DotLiterals`, `Patterns <-
    DotPatterns`. like2Regex escapes nothing (`globals.cc:176`).
36. `LikeIsExact`, `TextSearch.cfg` with `FieldTypes = {"CHARX"}`, `IndexTypes =
    {"NONUNIQUE"}`, `Literals <- TopLiterals`, `Patterns <- TopPatterns`. A prefix whose
    last byte is 255: the test is never true of a signed char (`Index.h:1190`) and the end
    of the walk wraps to 0.
37. `LikeIsExact`, `TextSearch.cfg` with `Patterns <- NoPatterns`. LIKE '' leaves the
    iterators unset (`Index.h:1166`).
38. `NotLikeIsExact`, `TextSearch.cfg`. The expression of NOT LIKE also drops values with
    a match inside, and keeps the empty one (`Index.cc:3057`).
39. `StagedKeysHaveWork`, `TextSearch.cfg` with `FieldTypes = {"CHARX"}`, `Literals <-
    LongLiterals`. A value longer than its CHARACTER column is locked whole and committed
    cut (`Table.cc:228`, `Transaction.cc:3123`): its key stays locked.
40. `OneAnswerEach`, `PgSession.cfg` with `BlockStates = {"ESTABLISHED"}`, `HangsUp =
    FALSE`, `MaxQueries = 3`, `UsesSsl = FALSE`. Taking up a blocked write adds another
    ReadyForQuery (`Pg.cc:789`); an explicit commit clears an answer that is blocked
    (`Pg.cc:1473`).
41. `LoginsAreAnswered`, `PgSession.cfg` with `MaxQueries = 1`. The bytes of a refused SSL
    request stay in the buffer and are taken for the size of the startup packet
    (`Pg.cc:155`).
42. `NoneIsCutOff`, `PgSession.cfg` with `HangsUp = FALSE`, `MaxQueries = 3`, `Pipelines =
    TRUE`. Two queries in one read close the connection (`Pg.cc:415`).
43. `SessionsAreFreed`, `PgSession.cfg` with `MaxQueries = 2`. Closing inside a block, or
    after a statement that was deleted but not forgotten, never deletes the Pg
    (`Pg.cc:322`, `Pg.cc:384`).
44. `NamesResolve`, `Schemata.cfg` with `TableNames = {""}`, `Columns = {x}`, `MaxOps = 5`.
    A refused createtable announces the empty name for table 0 to every agent
    (`TransactionAgent.cc:993`), also when there is a table of that name.
45. `RollbacksAreSurvived`, `TextSearch.cfg`. Rolling back a key staged in an unordered
    index on a CHARX has no break (`Index.cc:4230`) and goes on to uniqueStringIndex, which is
    NULL for such an index (`Index.cc:234`): the Engine crashes.

Seen while reading, not modelled: an equality that a staged row satisfies is not
looked up in the index at all (`Asts.cc:598`); a NULL in a staged row compares like 0;
setting a unique field to NULL locks the value 0; replacing a NULL entry passes the
wrong Engine (`SubTransaction.cc:288`); an empty index result continues every
statement as a SELECT; createdomain and createuser answer with the number of a
message just made (`TransactionAgent.cc:788`); unordered indexes answer ranges, and
CHAR indexes LIKE, with nothing; a Pg is used after closesocket has freed it.

## 6. Plan

Done: Table and its proofs, the SQL transaction over several Engines, search
expressions, mailboxes, character indexes, replication, accounts, schemata, the
PostgreSQL session. Left, in this order:

1. Proofs: staged changes are locked in `Transactions`; LIKE in `TextSearch`.
2. Rows staged by earlier statements and NULL in `Search` and `Transactions`.
3. Moves between partitions in `Replication`.

Not modelled, and why:

* Message serialisation copies members one by one, in the same order in both
  directions; the gateways are compression and socket I/O around it. Batching in
  MboxProducer delays messages to other nodes and belongs to them.
* Topology Manager and Actor start-up run once, before there is any data; Listener
  accepts sockets and passes them on.
* The stored procedure interface (`api.cc`) repeats the SQL commands for shared
  libraries that are not part of the repository.
* Arithmetic, aggregates, ORDER BY, subqueries and result formatting are
  single-threaded computation that no other actor can disturb.
* The lexer and parser are generated from `lexer.ll` and `parser.yy`; SpookyHash is
  vendored and any function will do (`EngineOf`); the Deadlock Manager is
  documented and not implemented; the cluster manager is another program.
