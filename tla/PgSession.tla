------------------------------ MODULE PgSession ------------------------------
(***************************************************************************)
(* One PostgreSQL frontend session: class Pg (src/infinisqld/Pg.cc), which *)
(* puts requests together from what the socket delivers, keeps the state   *)
(* of the session and of its transaction, and writes the answers, and the  *)
(* client at the other end.                                                *)
(*                                                                         *)
(* The client's byte stream is a sequence of units <<message, i>>: before  *)
(* the password a message is its size and its body, afterwards its type,   *)
(* its size and its body.  A read delivers as much of the stream as has    *)
(* arrived.  What the server writes is a sequence of replies; a write may  *)
(* stop after any of them when the socket is full.                         *)
(*                                                                         *)
(* Statements and commits go to the Engines and end later (Transactions);  *)
(* a rollback is done when Transaction::rollback returns.                  *)
(***************************************************************************)
EXTENDS Integers, Sequences, FiniteSets, SequencesExt

CONSTANTS
  Queries,       \* of BEGIN, COMMIT, ROLLBACK, CHANGE, SYNTAX, UNKNOWN: what the client asks
  MaxQueries,    \* bound on them
  UsesSsl,       \* TRUE: the client may first ask for SSL, as libpq does by default
  Pipelines,     \* TRUE: it sends a query without waiting for the answer
  HangsUp,       \* TRUE: it may go at any time
  BlockStates    \* the states of the session in which a write may block

ASSUME PgAssumption ==
  /\ Queries \subseteq {"BEGIN", "COMMIT", "ROLLBACK", "CHANGE", "SYNTAX", "UNKNOWN"}
  /\ MaxQueries \in Nat
  /\ UsesSsl \in BOOLEAN /\ Pipelines \in BOOLEAN /\ HangsUp \in BOOLEAN
  /\ BlockStates \subseteq {"BEGIN", "AUTH", "ESTABLISHED", "ABORTED"}

\* Body lengths; the size in a message counts itself.
BodyLength(m) == CASE m \in {"SSL", "PASSWORD"} -> 1
                   [] m = "STARTUP"             -> 2
                   [] m = "TERMINATE"           -> 0
                   [] m \in Queries             -> 1
Typed(m)      == m \notin {"SSL", "STARTUP"}
Units(m)      == [i \in 1..((IF Typed(m) THEN 2 ELSE 1) + BodyLength(m)) |-> <<m, i>>]

\* A unit read as a size: that of its message, or what other bytes amount to.
Huge      == 99
SizeIn(u) == IF u[2] = (IF Typed(u[1]) THEN 2 ELSE 1) THEN 1 + BodyLength(u[1]) ELSE Huge
TypeIn(u) == IF Typed(u[1]) /\ u[2] = 1 THEN u[1] ELSE "?"

VARIABLES
  pg,        \* the Pg object, and the transactions and statements it has started
  wire,      \* units on their way to the server
  client,    \* what the client does next
  asked,     \* the queries it has sent
  got        \* the replies it has received

vars == <<pg, wire, client, asked, got>>

Txns == 1..(MaxQueries + 1)
NoTxn == 0

\* tp is transactionPtr, stmt whether statementPtr is not NULL, txns the Transaction
\* objects there are, running the statements at work and commits the commits at work,
\* each with its transaction; freed: the object is deleted.
Fresh == [state |-> "BEGIN", tp |-> NoTxn, stmt |-> FALSE, inblock |-> FALSE,
          size |-> 0, type |-> "?", inbuf |-> <<>>, out |-> <<>>, epoll |-> "IN",
          login |-> FALSE, txns |-> {}, running |-> {}, commits |-> {}, made |-> 0,
          freed |-> FALSE]

-----------------------------------------------------------------------------
(* The socket.                                                             *)

\* Slip: closesocket leaves the transaction to itself.
CloseSocketForgets(p) == [p EXCEPT !.state = "EXITING", !.out = <<>>]

\* Pg::closesocket: an open transaction is rolled back and deletes itself, with the
\* statement or the commit that waits on it; the Pg object then stays.
CloseSocket(p) ==
  IF p.tp # NoTxn
  THEN [p EXCEPT !.state = "EXITING", !.out = <<>>, !.txns = @ \ {p.tp},
                 !.running = {w \in @ : w.txn # p.tp}, !.commits = {w \in @ : w.txn # p.tp}]
  ELSE [p EXCEPT !.state = "EXITING", !.out = <<>>, !.freed = ~p.stmt]

\* Slip: writesocket takes every established session for an idle one.
ReadyIdle(st, tp) == CASE st = "ESTABLISHED" -> <<"ZI">>
                       [] st = "ABORTED"     -> <<"ZE">>
                       [] OTHER              -> <<>>

\* Pg::writesocket puts ReadyForQuery at the end.
Ready(st, tp) == CASE st = "ESTABLISHED" -> <<IF tp = NoTxn THEN "ZI" ELSE "ZT">>
                   [] st = "ABORTED"     -> <<"ZE">>
                   [] OTHER              -> <<>>

\* Pg::writesocket in state st, after which the object is p: send takes all of outbuf
\* and ReadyForQuery, or as much as fits, the rest to be written when the socket is
\* ready; unless the caller goes on to clear outbuf.
Write(st, p, clears) ==
  LET all == p.out \o Ready(st, p.tp)
  IN  \/ /\ pg' = [p EXCEPT !.out = <<>>]
         /\ got' = got \o all
      \/ /\ st \in BlockStates
         /\ \E k \in 0..(Len(all) - 1) :
              /\ pg' = [p EXCEPT !.out = IF clears THEN <<>> ELSE SubSeq(all, k + 1, Len(all)),
                                 !.epoll = "OUT"]
              /\ got' = got \o SubSeq(all, 1, k)

WriteSocket(p)   == Write(p.state, p, FALSE)
WriteAndClear(p) == Write(p.state, p, TRUE)

\* Pg::replymsg appends one reply to outbuf.
Put(p, reply) == [p EXCEPT !.out = Append(@, reply)]

\* Pg::putErrorResponse.
PutError(p) == WriteSocket(Put(p, "E"))

\* Nothing is written.
Silently(p) == pg' = p /\ UNCHANGED got

-----------------------------------------------------------------------------
(* Transactions.                                                           *)

\* Pg::sqlrollbackimplicit and continuePgRollbackimplicit.
RollbackImplicit(p) ==
  [p EXCEPT !.state = IF p.inblock THEN "ABORTED" ELSE @,
            !.txns = @ \ {p.tp}, !.tp = NoTxn, !.out = <<>>]

\* Pg::sqlcommitimplicit, sqlcommitexplicit: Transaction::commit, which ends later.
StartCommit(p, how) == [p EXCEPT !.commits = @ \cup {[txn |-> p.tp, how |-> how]}]

\* Pg::continuePgCommitimplicit and continuePgCommitexplicit, when the session lives.
CommitEnds(w) ==
  LET p == [pg EXCEPT !.commits = @ \ {w}, !.txns = @ \ {w.txn}, !.tp = NoTxn]
  IN  /\ w \in pg.commits
      /\ IF pg.state = "EXITING" THEN Silently([p EXCEPT !.freed = ~p.stmt])
         ELSE IF w.how = "implicit" THEN WriteSocket(p)
         ELSE WriteAndClear(Put(p, "C"))
      /\ UNCHANGED <<wire, client, asked>>

\* Pg::sqlrollbackexplicit and continuePgRollbackexplicit.
RollbackExplicit(p) ==
  LET q == [p EXCEPT !.txns = @ \ {p.tp}, !.tp = NoTxn]
  IN  IF p.state = "EXITING" THEN Silently([q EXCEPT !.freed = ~q.stmt])
      ELSE WriteAndClear(Put(q, "C"))

\* Slip: the answer does not wait for the commit.
ContinueChangeAtOnce(p, ok) ==
  IF ~ok THEN PutError(RollbackImplicit(p))
  ELSE IF p.inblock THEN WriteSocket(Put(p, "C"))
  ELSE WriteSocket(StartCommit(Put(p, "C"), "implicit"))

\* Pg::continuePgFunc after SELECT, INSERT, UPDATE, DELETE or a stored procedure: the
\* answer waits for the commit outside a transaction block.
ContinueChange(p, ok) ==
  IF ~ok THEN PutError(RollbackImplicit(p))
  ELSE IF p.inblock THEN WriteSocket(Put(p, "C"))
  ELSE Silently(StartCommit(Put(p, "C"), "implicit"))

\* Pg::continuePgFunc after BEGIN, COMMIT and ROLLBACK.
ContinueBegin(p) ==
  IF p.tp = NoTxn
  THEN WriteSocket(Put([p EXCEPT !.made = @ + 1, !.tp = p.made + 1, !.inblock = TRUE,
                                 !.txns = @ \cup {p.made + 1}], "C"))
  ELSE WriteSocket(Put(Put(p, "N"), "C"))
ContinueCommit(p) ==
  IF p.tp = NoTxn THEN WriteSocket(Put(Put(p, "N"), "C"))
  ELSE Silently(StartCommit([p EXCEPT !.inblock = FALSE], "explicit"))
ContinueRollback(p) ==
  IF p.tp = NoTxn THEN WriteSocket(Put(Put(p, "N"), "C"))
  ELSE RollbackExplicit([p EXCEPT !.inblock = FALSE])

\* Statement::reenter, then Pg::continuePgFunc, whose transactionPtr is that of the
\* statement; a session that is closed by now rolls it back.
StatementEnds(w, ok) ==
  LET p == [pg EXCEPT !.running = @ \ {w}, !.stmt = FALSE, !.tp = w.txn]
  IN  /\ w \in pg.running
      /\ IF pg.state = "EXITING"
         THEN IF w.txn = NoTxn THEN Silently([p EXCEPT !.freed = TRUE]) ELSE RollbackExplicit(p)
         ELSE ContinueChange(p, ok)
      /\ UNCHANGED <<wire, client, asked>>

\* Pg::executeStatement and Statement::execute.  BEGIN, COMMIT and ROLLBACK need no
\* Engine and come back at once; the others begin a transaction unless there is one.
\* A statement that cannot be resolved is deleted and statementPtr left as it is.
ExecuteStatement(p, q) ==
  CASE q = "SYNTAX"   -> PutError(p)
    [] q = "UNKNOWN"  -> PutError([RollbackImplicit(p) EXCEPT !.stmt = TRUE])
    [] q = "BEGIN"    -> ContinueBegin([p EXCEPT !.stmt = FALSE])
    [] q = "COMMIT"   -> ContinueCommit([p EXCEPT !.stmt = FALSE])
    [] q = "ROLLBACK" -> ContinueRollback([p EXCEPT !.stmt = FALSE])
    [] q = "CHANGE"   ->
         LET n == IF p.tp = NoTxn THEN p.made + 1 ELSE p.tp
         IN  Silently([p EXCEPT !.stmt = TRUE, !.txns = @ \cup {n},
                                !.made = IF p.tp = NoTxn THEN n ELSE @,
                                !.running = @ \cup {[txn |-> n]}])

\* Slip: any statement ends the aborted block and is executed.
AbortedExecutes(p, q) == ExecuteStatement([p EXCEPT !.state = "ESTABLISHED"], q)

\* Pg::cont in STATE_ABORTED: only COMMIT and ROLLBACK leave it; the statement is
\* deleted and statementPtr left as it is.
AbortedStatement(p, q) ==
  CASE q = "SYNTAX" -> PutError(p)
    [] q \in {"COMMIT", "ROLLBACK"} ->
         WriteSocket(Put([p EXCEPT !.state = "ESTABLISHED", !.inblock = FALSE,
                                   !.stmt = TRUE], "C"))
    [] q \in {"BEGIN", "CHANGE", "UNKNOWN"} -> PutError([p EXCEPT !.stmt = TRUE])

-----------------------------------------------------------------------------
(* Requests.                                                               *)

\* Slip: initcmd drops a header that is not complete.
InitCmdDrops(new) ==
  LET need == IF pg.state = "BEGIN" THEN 1 ELSE 2
      data == pg.inbuf \o new
      p    == IF pg.size # 0 THEN [pg EXCEPT !.inbuf = data]
              ELSE IF Len(data) < need THEN pg
              ELSE [pg EXCEPT !.type  = IF need = 2 THEN TypeIn(data[1]) ELSE @,
                              !.size  = SizeIn(data[need]),
                              !.inbuf = SubSeq(data, need + 1, Len(data))]
  IN  [p |-> p, ret |-> IF Len(p.inbuf) + 1 = p.size THEN 1 ELSE 0]

\* Pg::initcmd: the object with what was read, and whether a request is complete (1),
\* not yet (0) or bogus (-1).
InitCmd(new) ==
  LET need == IF pg.state = "BEGIN" THEN 1 ELSE 2
      data == pg.inbuf \o new
      p    == IF pg.size # 0 THEN [pg EXCEPT !.inbuf = data]
              ELSE IF Len(data) < need THEN [pg EXCEPT !.inbuf = data]
              ELSE [pg EXCEPT !.type  = IF need = 2 THEN TypeIn(data[1]) ELSE @,
                              !.size  = SizeIn(data[need]),
                              !.inbuf = SubSeq(data, need + 1, Len(data))]
      have == Len(p.inbuf) + 1
  IN  [p   |-> p,
       ret |-> IF p.size = 0 \/ have < p.size THEN 0 ELSE IF have = p.size THEN 1 ELSE -1]

NextRequest(p) == [p EXCEPT !.inbuf = <<>>, !.size = 0]

\* Pg::cont on a complete request.
Request(p) ==
  CASE p.state = "BEGIN" ->
         IF p.inbuf[1][1] = "SSL" THEN WriteSocket([Put(p, "NOSSL") EXCEPT !.size = 0])
         ELSE Write("BEGIN", NextRequest([Put(p, "AUTH") EXCEPT !.state = "AUTH"]), FALSE)
    [] p.state = "AUTH" -> IF p.type = "PASSWORD" THEN Silently([p EXCEPT !.login = TRUE])
                           ELSE Silently(CloseSocket(p))
    [] p.state \in {"ESTABLISHED", "ABORTED"} ->
         CASE p.type = "TERMINATE" -> Silently(CloseSocket(p))
           [] p.type \in Queries   ->
                IF p.state = "ABORTED" THEN AbortedStatement(NextRequest(p), p.type)
                ELSE ExecuteStatement(NextRequest(p), p.type)
           [] OTHER                -> Silently(p)

\* Pg::cont when the socket is readable: readsocket takes the n units that are there,
\* and a complete request clears outbuf.
Read(n) ==
  LET c == InitCmd(SubSeq(wire, 1, n))
  IN  /\ pg.state # "EXITING" /\ pg.epoll = "IN"
      /\ wire' = SubSeq(wire, n + 1, Len(wire))
      /\ CASE c.ret = -1 -> Silently(CloseSocket(c.p))
           [] c.ret = 0  -> Silently(c.p)
           [] c.ret = 1  -> Request([c.p EXCEPT !.out = <<>>])
      /\ UNCHANGED <<client, asked>>

\* Pg::cont when the socket is writable again: rewritesocket.
Writable ==
  /\ pg.state # "EXITING" /\ pg.epoll = "OUT"
  /\ WriteSocket([pg EXCEPT !.epoll = "IN"])
  /\ UNCHANGED <<wire, client, asked>>

\* Pg::cont at the end of the stream, or when the connection is lost; what was read
\* before the end is dropped.
Eof ==
  /\ client = "gone" /\ pg.state # "EXITING"
  /\ Silently(CloseSocket(pg))
  /\ wire' = <<>>
  /\ UNCHANGED <<client, asked>>

\* Pg::continueLogin and putAuthenticationOk: the state changes when the write is done.
LoginReply(ok) ==
  LET p == [pg EXCEPT !.login = FALSE]
  IN  /\ pg.login /\ pg.state = "AUTH"
      /\ IF ok
         THEN Write("AUTH", NextRequest([p EXCEPT !.state = "ESTABLISHED",
                                                  !.out = <<"OK", "ZI">>]), FALSE)
         ELSE PutError(p)
      /\ UNCHANGED <<wire, client, asked>>

-----------------------------------------------------------------------------
(* The client.                                                             *)

Readies     == {"ZI", "ZT", "ZE"}
Count(rs)   == Cardinality({i \in DOMAIN got : got[i] \in rs})
Answered    == Count(Readies) - 1
HasGot(r)   == got # <<>> /\ Last(got) = r

Send(m, next) ==
  /\ wire' = wire \o Units(m)
  /\ client' = next
  /\ UNCHANGED <<pg, got>>

ClientStarts ==
  \/ /\ client = "new" /\ UsesSsl
     /\ Send("SSL", "ssl") /\ UNCHANGED asked
  \/ /\ client = "new" \/ (client = "ssl" /\ HasGot("NOSSL"))
     /\ Send("STARTUP", "started") /\ UNCHANGED asked
  \/ /\ client = "started" /\ HasGot("AUTH")
     /\ Send("PASSWORD", "loggingin") /\ UNCHANGED asked

ClientAsks(q) ==
  /\ client = "loggingin" /\ Count(Readies) > 0
  /\ Len(asked) < MaxQueries
  /\ Pipelines \/ Answered = Len(asked)
  /\ Send(q, client)
  /\ asked' = Append(asked, q)

ClientEnds ==
  /\ client = "loggingin" /\ Answered = Len(asked)
  /\ Send("TERMINATE", "gone")
  /\ UNCHANGED asked

\* A client whose login failed goes, and any may if HangsUp.
ClientHangsUp ==
  /\ client # "gone"
  /\ HangsUp \/ (client = "loggingin" /\ HasGot("E") /\ Count(Readies) = 0)
  /\ client' = "gone"
  /\ UNCHANGED <<pg, wire, asked, got>>

Init == pg = Fresh /\ wire = <<>> /\ client = "new" /\ asked = <<>> /\ got = <<>>

Server ==
  \/ \E n \in 1..Len(wire) : Read(n)
  \/ Writable
  \/ Eof
  \/ \E ok \in BOOLEAN : LoginReply(ok)
  \/ \E w \in pg.running, ok \in BOOLEAN : StatementEnds(w, ok)
  \/ \E w \in pg.commits : CommitEnds(w)

Next == Server \/ ClientStarts \/ (\E q \in Queries : ClientAsks(q)) \/ ClientEnds \/ ClientHangsUp

\* epoll wakes the Transaction Agent for what arrives, it takes its mail in turn, and
\* the User and Schema Manager and the Engines answer.
Spec == Init /\ [][Next]_vars /\ WF_vars(Server)
-----------------------------------------------------------------------------
(* Properties.                                                             *)

TypeOK ==
  /\ pg.state \in {"BEGIN", "AUTH", "ESTABLISHED", "ABORTED", "EXITING"}
  /\ pg.txns \subseteq Txns
  /\ pg.state # "EXITING" => pg.tp \in pg.txns \cup {NoTxn}
  /\ pg.size \in 0..3 \cup {Huge} /\ pg.epoll \in {"IN", "OUT"}
  /\ client \in {"new", "ssl", "started", "loggingin", "gone"}
  /\ Len(asked) <= MaxQueries

\* Every request gets one answer, CommandComplete or an error, and one ReadyForQuery,
\* in this order; what the client is told is neither more nor less than it asked
\* (Pg::writesocket, putErrorResponse, continuePgFunc).
OneAnswerEach ==
  /\ Answered <= Len(asked)
  /\ HasGot("ZI") \/ HasGot("ZT") \/ HasGot("ZE") => Count({"C", "E"}) = Answered

\* Between requests the ReadyForQuery the client has last seen is the truth: T in a
\* block with its transaction, E in one that failed and has none, I otherwise
\* (Pg::writesocket looks at state and transactionPtr, the commit and the statements
\* change them and isintransactionblock).
ReadyTellsTheTruth ==
  Answered >= 0 /\ Answered = Len(asked) /\ wire = <<>> /\ pg.state # "EXITING" =>
    /\ HasGot("ZT") => pg.inblock /\ pg.tp \in pg.txns
    /\ HasGot("ZE") => pg.inblock /\ pg.txns = {}
    /\ HasGot("ZI") => ~pg.inblock /\ pg.txns = {}

\* A client that waits for its answers is not cut off, however its requests arrive
\* (Pg::initcmd puts them together).
NoneIsCutOff == pg.state = "EXITING" => client = "gone"

\* In a block that failed nothing is executed until the client ends it (Pg::cont,
\* STATE_ABORTED).
AbortedBlocksRest ==
  [][pg.state = "ABORTED" => pg'.running = {} /\ pg'.txns = {}]_vars

\* Every query is answered unless the client goes (Pg::cont, continuePgFunc).
QueriesAreAnswered ==
  \A n \in 1..MaxQueries :
    Len(asked) >= n ~> (Answered >= n \/ client = "gone")

\* When the client is gone its transaction is, too (Pg::closesocket, continuePgFunc in
\* STATE_EXITING): nothing stays locked for it.
ClosedSessionsRollBack == client = "gone" ~> (pg.state = "EXITING" /\ pg.txns = {})

\* Every client gets an answer to its login.
LoginsAreAnswered == client = "started" ~> (client = "gone" \/ HasGot("AUTH"))

\* A session that is closed is deleted.
SessionsAreFreed == client = "gone" ~> pg.freed
=============================================================================
