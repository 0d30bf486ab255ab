------------------------------ MODULE PgProofs ------------------------------
(***************************************************************************)
(* Proofs about PgSession.  To a client that waits for its answers, and as *)
(* long as no write to an open session finds the socket full, every        *)
(* request is answered once, ReadyForQuery tells the truth, and a block    *)
(* that failed does nothing.  To any client, over any socket, no more      *)
(* answers come than it has asked for.                                     *)
(***************************************************************************)
EXTENDS PgSession, TLAPS, FiniteSetTheorems, SequenceTheorems

\* The client waits for an answer before it asks again.
Waits == Pipelines = FALSE

\* Only a write before the password may find the socket full.
WritesFit == BlockStates \subseteq {"BEGIN"}

Kinds   == {"SSL", "STARTUP", "PASSWORD", "TERMINATE"} \cup Queries
Types   == Kinds \cup {"?"}
Unit    == Kinds \X Nat
Replies == {"NOSSL", "AUTH", "OK", "ZI", "ZT", "ZE", "C", "E", "N"}
Works   == [txn : Nat]
Hows    == [txn : Nat, how : {"implicit", "explicit"}]

PgType == [state : {"BEGIN", "AUTH", "ESTABLISHED", "ABORTED", "EXITING"}, tp : Nat,
           stmt : BOOLEAN, inblock : BOOLEAN, size : Nat, type : Types,
           inbuf : Seq(Unit), out : Seq(Replies), epoll : {"IN", "OUT"}, login : BOOLEAN,
           txns : SUBSET Nat, running : SUBSET Works, commits : SUBSET Hows, made : Nat,
           freed : BOOLEAN]

Shape ==
  /\ pg \in PgType
  /\ wire \in Seq(Unit)
  /\ client \in {"new", "ssl", "started", "loggingin", "gone"}
  /\ asked \in Seq(Queries)
  /\ got \in Seq(Replies)

\* What the client has sent and the server has not understood yet.
Rest == pg.inbuf \o wire

\* No transaction, no statement and no commit.
AtEase == pg.txns = {} /\ pg.running = {} /\ pg.commits = {}

\* The last unit of the typed message m, which has a body.
BodyOf(m) == <<<<m, 3>>>>

\* The typed message m of one unit is on its way: nothing of it, or its header, is read.
Reading(m) ==
  \/ pg.size = 0 /\ Rest = Units(m)
  \/ pg.size = 2 /\ pg.type = m /\ Rest = BodyOf(m)

\* Before the startup message.  After a request for SSL one unit stays in inbuf, and
\* the startup message that follows is never complete.
Beginning ==
  /\ AtEase /\ pg.tp = NoTxn /\ ~pg.inblock /\ ~pg.login
  /\ asked = <<>>
  /\ \A i \in DOMAIN got : got[i] = "NOSSL"
  /\ \A i \in DOMAIN pg.out : pg.out[i] = "NOSSL"
  /\ \/ pg.size = 0 /\ Rest = <<>> /\ got = <<>> /\ pg.epoll = "IN"
     \/ pg.size = 0 /\ Rest = Units("SSL") /\ got = <<>> /\ pg.epoll = "IN" /\ client # "new"
     \/ pg.size = 2 /\ Rest = <<<<"SSL", 2>>>> /\ got = <<>> /\ pg.epoll = "IN" /\ client # "new"
     \/ pg.size = 0 /\ Rest = <<<<"SSL", 2>>>> /\ wire = <<>> /\ client # "new"
     \/ pg.size = 0 /\ Rest = <<<<"SSL", 2>>>> \o Units("STARTUP")
          /\ client \in {"started", "gone"}
     \/ pg.size = Huge /\ Rest = Units("STARTUP") /\ client \in {"started", "gone"}
     \/ pg.size = 0 /\ Rest = Units("STARTUP") /\ client \in {"started", "gone"}
     \/ pg.size = 3 /\ Rest = <<<<"STARTUP", 2>>, <<"STARTUP", 3>>>>
          /\ client \in {"started", "gone"}
  /\ client # "loggingin"

\* Between the startup message and the answer to the password.
LoggingIn ==
  /\ AtEase /\ pg.tp = NoTxn /\ ~pg.inblock
  /\ asked = <<>>
  /\ \A i \in DOMAIN got : got[i] \in {"NOSSL", "AUTH", "E"}
  /\ \A i \in DOMAIN pg.out : pg.out[i] \in {"NOSSL", "AUTH"}
  /\ client \in {"started", "loggingin", "gone"}
  /\ pg.login => pg.epoll = "IN"
  /\ \/ /\ ~pg.login /\ pg.size = 0 /\ Rest = <<>>
        /\ \A i \in DOMAIN got : got[i] # "E" /\ (pg.epoll = "OUT" => got[i] # "AUTH")
     \/ /\ ~pg.login /\ client # "started" /\ pg.epoll = "IN" /\ Reading("PASSWORD")
        /\ \A i \in DOMAIN got : got[i] # "E"
     \/ /\ client # "started" /\ pg.epoll = "IN" /\ wire = <<>>
        /\ pg.login => \A i \in DOMAIN got : got[i] # "E"

\* The transaction of a session at rest.
ItsBlock(p) ==
  /\ p.running = {} /\ p.commits = {}
  /\ p.inblock <=> p.tp # NoTxn
  /\ p.txns = IF p.tp = NoTxn THEN {} ELSE {p.tp}

\* A block that failed.
FailedBlock(p) ==
  p.inblock /\ p.tp = NoTxn /\ p.txns = {} /\ p.running = {} /\ p.commits = {}

\* A statement at work; outside a block its transaction is not in transactionPtr.
Working(p) ==
  \E n \in Nat \ {0} :
    /\ p.running = {[txn |-> n]} /\ p.commits = {} /\ p.txns = {n}
    /\ p.tp \in {NoTxn, n} /\ (p.inblock <=> p.tp # NoTxn)
    /\ p.out = <<>>

\* A commit at work.
Committing(p) ==
  \E n \in Nat \ {0}, how \in {"implicit", "explicit"} :
    /\ p.commits = {[txn |-> n, how |-> how]} /\ p.running = {} /\ p.txns = {n}
    /\ p.tp = n /\ ~p.inblock
    /\ p.out = IF how = "implicit" THEN <<"C">> ELSE <<>>

LastReady == got # <<>> /\ got[Len(got)] = Ready(pg.state, pg.tp)[1]

\* An open session: the client waits for nothing, its query is on the way, or it is
\* being executed.
Open ==
  /\ client \in {"loggingin", "gone"} /\ pg.epoll = "IN" /\ ~pg.login
  /\ Count(Readies) >= 1 /\ Count({"C", "E"}) = Count(Readies) - 1
  /\ pg.state = "ABORTED" => FailedBlock(pg)
  /\ \/ /\ Count(Readies) = Len(asked) + 1
        /\ pg.state = "ESTABLISHED" => ItsBlock(pg)
        /\ pg.size = 0 /\ LastReady
        /\ Rest = <<>> \/ (client = "gone" /\ Rest = Units("TERMINATE"))
     \/ /\ Count(Readies) = Len(asked)
        /\ pg.state = "ESTABLISHED" => ItsBlock(pg)
        /\ \E q \in Queries : Reading(q)
     \/ /\ Count(Readies) = Len(asked)
        /\ pg.state = "ESTABLISHED" /\ pg.size = 0 /\ Rest = <<>>
        /\ Working(pg) \/ Committing(pg)

Closed ==
  /\ Count(Readies) <= Len(asked) + 1
  /\ Count(Readies) >= 1 => Count({"C", "E"}) = Count(Readies) - 1

PgInv ==
  /\ Shape
  /\ pg.state = "BEGIN" => Beginning
  /\ pg.state = "AUTH" => LoggingIn
  /\ pg.state \in {"ESTABLISHED", "ABORTED"} => Open
  /\ pg.state = "EXITING" => Closed

-----------------------------------------------------------------------------
(* Sequences of replies.                                                   *)

CountIn(g, rs) == Cardinality({i \in DOMAIN g : g[i] \in rs})

\* One more reply is counted if it is one of those.
LEMMA CountOneMore ==
  ASSUME NEW g \in Seq(Replies), NEW r \in Replies, NEW rs
  PROVE  /\ CountIn(g, rs) \in Nat
         /\ r \in rs => CountIn(Append(g, r), rs) = CountIn(g, rs) + 1
         /\ r \notin rs => CountIn(Append(g, r), rs) = CountIn(g, rs)
<1> DEFINE S == {i \in DOMAIN g : g[i] \in rs}
           h == Append(g, r)
           T == {i \in DOMAIN h : h[i] \in rs}
           n == Len(g) + 1
<1>1. DOMAIN g = 1 .. Len(g) /\ Len(g) \in Nat /\ S \subseteq 1 .. Len(g)
  OBVIOUS
<1>2. IsFiniteSet(S)
  <2>1. IsFiniteSet(1 .. Len(g))
    BY <1>1, FS_Interval
  <2> QED BY <1>1, <2>1, FS_Subset
<1>3. DOMAIN h = 1 .. n /\ h[n] = r /\ \A i \in 1 .. Len(g) : h[i] = g[i]
  BY <1>1
<1>4. n \notin S
  BY <1>1
<1>5. T = IF r \in rs THEN S \cup {n} ELSE S
  BY <1>1, <1>3
<1>6. Cardinality(S \cup {n}) = Cardinality(S) + 1
  BY <1>2, <1>4, FS_AddElement
<1>7. Cardinality(S) \in Nat
  BY <1>2, FS_CardinalityType
<1>8. CountIn(g, rs) = Cardinality(S) /\ CountIn(Append(g, r), rs) = Cardinality(T)
  BY DEF CountIn
<1> HIDE DEF S, T
<1> QED BY <1>5, <1>6, <1>7, <1>8

\* None of them, none counted.
LEMMA CountNone ==
  ASSUME NEW g, NEW rs, \A i \in DOMAIN g : g[i] \notin rs
  PROVE  CountIn(g, rs) = 0
<1>1. {i \in DOMAIN g : g[i] \in rs} = {}
  OBVIOUS
<1> QED BY <1>1, FS_EmptySet DEF CountIn

\* The last reply.
LEMMA LastReply ==
  ASSUME NEW g \in Seq(Replies), NEW r \in Replies, NEW h, h = Append(g, r)
  PROVE  h \in Seq(Replies) /\ h # <<>> /\ h[Len(h)] = r
OBVIOUS

\* An answer and a ReadyForQuery, with or without a notice before them.
LEMMA OneAnswer ==
  ASSUME NEW g \in Seq(Replies), NEW a \in {"C", "E"}, NEW z \in Readies, NEW h,
         h = Append(Append(g, a), z) \/ h = Append(Append(Append(g, "N"), a), z)
  PROVE  /\ h \in Seq(Replies) /\ h # <<>> /\ h[Len(h)] = z
         /\ CountIn(h, Readies) = CountIn(g, Readies) + 1
         /\ CountIn(h, {"C", "E"}) = CountIn(g, {"C", "E"}) + 1
<1>0. a \in Replies /\ z \in Replies /\ "N" \in Replies /\ a \notin Readies /\ z \notin {"C", "E"}
      /\ "N" \notin Readies /\ a \in {"C", "E"} /\ z \in Readies /\ "N" \notin {"C", "E"}
  BY DEF Replies, Readies
<1> DEFINE R == Readies
           A == {"C", "E"}
<1>1. CASE h = Append(Append(g, a), z)
  <2> DEFINE k == Append(g, a)
  <2>1. h = Append(k, z) /\ k \in Seq(Replies)
    BY <1>0, <1>1
  <2>2. CountIn(k, R) = CountIn(g, R) /\ CountIn(k, A) = CountIn(g, A) + 1
    BY <1>0, CountOneMore
  <2> HIDE DEF k
  <2>3. h \in Seq(Replies) /\ h # <<>> /\ h[Len(h)] = z
    BY <1>0, <2>1, LastReply
  <2>4. CountIn(h, R) = CountIn(k, R) + 1 /\ CountIn(h, A) = CountIn(k, A)
    BY <1>0, <2>1, CountOneMore
  <2> QED BY <2>2, <2>3, <2>4
<1>2. CASE h = Append(Append(Append(g, "N"), a), z)
  <2> DEFINE j == Append(g, "N")
             k == Append(j, a)
  <2>1. h = Append(k, z) /\ j \in Seq(Replies) /\ k \in Seq(Replies)
    BY <1>0, <1>2
  <2>2. CountIn(j, R) = CountIn(g, R) /\ CountIn(j, A) = CountIn(g, A)
    BY <1>0, CountOneMore
  <2> HIDE DEF j
  <2>3. CountIn(k, R) = CountIn(j, R) /\ CountIn(k, A) = CountIn(j, A) + 1
    BY <1>0, <2>1, CountOneMore
  <2> HIDE DEF k
  <2>4. h \in Seq(Replies) /\ h # <<>> /\ h[Len(h)] = z
    BY <1>0, <2>1, LastReply
  <2>5. CountIn(h, R) = CountIn(k, R) + 1 /\ CountIn(h, A) = CountIn(k, A)
    BY <1>0, <2>1, CountOneMore
  <2> QED BY <2>2, <2>3, <2>4, <2>5
<1> QED BY <1>1, <1>2

\* A write that no full socket can stop takes all there is and ReadyForQuery.
LEMMA Writes ==
  ASSUME WritesFit, NEW st \in {"AUTH", "ESTABLISHED", "ABORTED"}, NEW p, NEW clears,
         Write(st, p, clears)
  PROVE  pg' = [p EXCEPT !.out = <<>>] /\ got' = got \o (p.out \o Ready(st, p.tp))
BY DEF WritesFit, Write

-----------------------------------------------------------------------------
(* Answers.                                                                *)

\* The query of an open session waits for its answer.
Waiting ==
  /\ client \in {"loggingin", "gone"}
  /\ Count(Readies) >= 1 /\ Count({"C", "E"}) = Count(Readies) - 1
  /\ Count(Readies) = Len(asked)

\* The session is open, has read everything and can write.
Free(p) == /\ p \in PgType /\ p.state \in {"ESTABLISHED", "ABORTED"}
           /\ p.inbuf = <<>> /\ p.size = 0 /\ p.epoll = "IN" /\ ~p.login

\* The step answers the query.
LEMMA Answers ==
  ASSUME Shape, Waiting, UNCHANGED <<client, asked>>, wire' = <<>>, Free(pg'),
         pg'.state = "ESTABLISHED" => ItsBlock(pg'), pg'.state = "ABORTED" => FailedBlock(pg'),
         NEW a \in {"C", "E"}, NEW z, <<z>> = Ready(pg'.state, pg'.tp),
         got' = Append(Append(got, a), z) \/ got' = Append(Append(Append(got, "N"), a), z)
  PROVE  PgInv'
<1>1. z \in Readies /\ z = Ready(pg.state, pg.tp)'[1]
  BY DEF Ready, Readies, Free
<1>2. /\ got' \in Seq(Replies) /\ got' # <<>> /\ got'[Len(got')] = z
      /\ CountIn(got', Readies) = CountIn(got, Readies) + 1
      /\ CountIn(got', {"C", "E"}) = CountIn(got, {"C", "E"}) + 1
  <2>1. got \in Seq(Replies)
    BY DEF Shape
  <2>2. PICK h : h = got' /\ (h = Append(Append(got, a), z) \/ h = Append(Append(Append(got, "N"), a), z))
    OBVIOUS
  <2>3. /\ h \in Seq(Replies) /\ h # <<>> /\ h[Len(h)] = z
        /\ CountIn(h, Readies) = CountIn(got, Readies) + 1
        /\ CountIn(h, {"C", "E"}) = CountIn(got, {"C", "E"}) + 1
    <3>1. z \in Readies /\ a \in {"C", "E"}
      BY <1>1
    <3>2. PICK g \in Seq(Replies) : g = got
      BY <2>1
    <3>3. CASE h = Append(Append(g, a), z)
      BY ONLY g \in Seq(Replies), <3>1, <3>2, <3>3, OneAnswer
    <3>4. CASE h = Append(Append(Append(g, "N"), a), z)
      BY ONLY g \in Seq(Replies), <3>1, <3>2, <3>4, OneAnswer, ZenonT(40)
    <3> QED BY <2>2, <3>2, <3>3, <3>4
  <2> QED BY <2>2, <2>3
<1>3. CountIn(got, Readies) \in Nat /\ CountIn(got, {"C", "E"}) \in Nat
  BY CountOneMore DEF Shape, Replies
<1>4. /\ Count(Readies) = CountIn(got, Readies) /\ Count({"C", "E"}) = CountIn(got, {"C", "E"})
      /\ Count(Readies)' = CountIn(got', Readies) /\ Count({"C", "E"})' = CountIn(got', {"C", "E"})
  BY DEF Count, CountIn, Readies
<1>5. /\ Count(Readies)' = Len(asked)' + 1 /\ Count({"C", "E"})' = Count(Readies)' - 1
      /\ Count(Readies)' >= 1
  BY <1>2, <1>3, <1>4 DEF Waiting, Shape
<1>6. Shape'
  BY <1>2 DEF Shape, Free
<1>7. Rest' = <<>>
  BY DEF Rest, Free
<1>8. LastReady'
  BY <1>1, <1>2 DEF LastReady
<1>9. Open'
  BY <1>5, <1>7, <1>8 DEF Open, Waiting, Free
<1> QED BY <1>6, <1>9 DEF PgInv, Free

\* The step leaves the query at work.
LEMMA GoesOn ==
  ASSUME Shape, Waiting, UNCHANGED <<client, asked, got>>, wire' = <<>>, Free(pg'),
         pg'.state = "ESTABLISHED", Working(pg') \/ Committing(pg')
  PROVE  PgInv'
<1>1. Count(Readies)' = Count(Readies) /\ Count({"C", "E"})' = Count({"C", "E"})
  BY DEF Count, Readies
<1>2. Rest' = <<>>
  BY DEF Rest, Free
<1>3. Open'
  BY <1>1, <1>2 DEF Open, Waiting, Free
<1>4. Shape'
  BY DEF Shape, Free
<1> QED BY <1>3, <1>4 DEF PgInv

\* A session that is closed while it is open.
LEMMA Closes ==
  ASSUME PgInv, UNCHANGED <<asked, got>>, pg' \in PgType, pg'.state = "EXITING",
         wire' \in Seq(Unit), client' \in {client, "gone"}
  PROVE  PgInv'
<1>1. Count(Readies)' = Count(Readies) /\ Count({"C", "E"})' = Count({"C", "E"})
  BY DEF Count, Readies
<1>2. Closed
  <2>1. ASSUME Beginning \/ LoggingIn PROVE Closed
    <3>1. CountIn(got, Readies) = 0
      BY <2>1, CountNone DEF Beginning, LoggingIn, Readies
    <3>2. asked = <<>> /\ Count(Readies) = 0
      BY <2>1, <3>1 DEF Beginning, LoggingIn, CountIn, Count
    <3> QED BY <3>2 DEF Closed
  <2>2. Open => Closed
    <3>1. CountIn(got, Readies) \in Nat /\ CountIn(got, Readies) = Count(Readies)
      BY CountOneMore DEF PgInv, Shape, Count, CountIn, Replies
    <3>2. Len(asked) \in Nat
      BY DEF PgInv, Shape
    <3> QED BY <3>1, <3>2 DEF Open, Closed
  <2>3. Beginning \/ LoggingIn \/ Open \/ Closed
    BY DEF PgInv, Shape, PgType
  <2> QED BY <2>1, <2>2, <2>3
<1>3. Closed' /\ Shape'
  BY <1>1, <1>2 DEF Closed, PgInv, Shape
<1> QED BY <1>3 DEF PgInv

-----------------------------------------------------------------------------
(* Reading.                                                                *)

LEMMA Cut ==
  ASSUME NEW S, NEW s \in Seq(S), NEW n \in 0 .. Len(s)
  PROVE  /\ SubSeq(s, 1, n) \in Seq(S) /\ SubSeq(s, n + 1, Len(s)) \in Seq(S)
         /\ Len(SubSeq(s, 1, n)) = n /\ Len(SubSeq(s, n + 1, Len(s))) = Len(s) - n
         /\ SubSeq(s, 1, n) \o SubSeq(s, n + 1, Len(s)) = s
<1>1. Len(s) \in Nat /\ n \in Nat /\ n <= Len(s) /\ \A i \in 1 .. Len(s) : s[i] \in S
  OBVIOUS
<1> DEFINE a == SubSeq(s, 1, n)
           b == SubSeq(s, n + 1, Len(s))
<1>2. a \in Seq(S) /\ Len(a) = n /\ \A i \in 1 .. n : a[i] = s[i]
  BY <1>1, SubSeqProperties
<1>3. /\ b \in Seq(S) /\ Len(b) = Len(s) - n
      /\ \A i \in 1 .. Len(s) - n : b[i] = s[n + i]
  BY <1>1, SubSeqProperties
<1> HIDE DEF a, b
<1>4. /\ a \o b \in Seq(S) /\ Len(a \o b) = Len(s)
      /\ \A i \in 1 .. Len(s) : (a \o b)[i] = IF i <= n THEN a[i] ELSE b[i - n]
  <2>1. /\ a \o b \in Seq(S) /\ Len(a \o b) = Len(a) + Len(b)
        /\ \A i \in 1 .. Len(a) + Len(b) : (a \o b)[i] = IF i <= Len(a) THEN a[i] ELSE b[i - Len(a)]
    BY <1>2, <1>3, ConcatProperties
  <2> QED BY <1>1, <1>2, <1>3, <2>1
<1>5. \A i \in 1 .. Len(s) : (a \o b)[i] = s[i]
  BY <1>1, <1>2, <1>3, <1>4
<1>6. a \o b = s
  BY <1>4, <1>5, SeqEqual
<1> QED BY <1>2, <1>3, <1>6 DEF a, b

LEMMA CutFront ==
  ASSUME NEW S, NEW s \in Seq(S), NEW t \in Seq(S), NEW k \in 0 .. Len(s)
  PROVE  /\ SubSeq(s, k + 1, Len(s)) \o t = SubSeq(s \o t, k + 1, Len(s \o t))
         /\ \A i \in 1 .. Len(s) : (s \o t)[i] = s[i]
<1>1. Len(s) \in Nat /\ Len(t) \in Nat /\ k \in Nat /\ k <= Len(s) /\ \A i \in 1 .. Len(s) : s[i] \in S
  OBVIOUS
<1> DEFINE a == SubSeq(s, k + 1, Len(s))
           u == s \o t
           b == SubSeq(u, k + 1, Len(u))
<1>2. /\ a \in Seq(S) /\ Len(a) = Len(s) - k
      /\ \A i \in 1 .. Len(s) - k : a[i] = s[k + i]
  BY <1>1, SubSeqProperties
<1>3. /\ u \in Seq(S) /\ Len(u) = Len(s) + Len(t)
      /\ \A i \in 1 .. Len(s) + Len(t) : u[i] = IF i <= Len(s) THEN s[i] ELSE t[i - Len(s)]
  BY ConcatProperties
<1> HIDE DEF u
<1>4. /\ b \in Seq(S) /\ Len(b) = Len(s) + Len(t) - k
      /\ \A i \in 1 .. Len(s) + Len(t) - k : b[i] = u[k + i]
  <2>1. \A i \in k + 1 .. Len(u) : u[i] \in S
    BY <1>1, <1>3
  <2> QED BY <1>1, <1>3, <2>1, SubSeqProperties
<1> HIDE DEF a, b
<1>5. /\ a \o t \in Seq(S) /\ Len(a \o t) = Len(b)
      /\ \A i \in 1 .. Len(b) : (a \o t)[i] = IF i <= Len(s) - k THEN a[i] ELSE t[i - (Len(s) - k)]
  <2>1. /\ a \o t \in Seq(S) /\ Len(a \o t) = Len(a) + Len(t)
        /\ \A i \in 1 .. Len(a) + Len(t) : (a \o t)[i] = IF i <= Len(a) THEN a[i] ELSE t[i - Len(a)]
    BY <1>2, ConcatProperties
  <2> QED BY <1>1, <1>2, <1>4, <2>1
<1>6. ASSUME NEW i \in 1 .. Len(b) PROVE (a \o t)[i] = b[i]
  <2>1. b[i] = u[k + i] /\ (a \o t)[i] = IF i <= Len(s) - k THEN a[i] ELSE t[i - (Len(s) - k)]
    BY <1>4, <1>5
  <2>2. CASE i <= Len(s) - k
    BY <1>1, <1>2, <1>3, <1>4, <2>1, <2>2
  <2>3. CASE ~(i <= Len(s) - k)
    BY <1>1, <1>2, <1>3, <1>4, <2>1, <2>3
  <2> QED BY <2>2, <2>3
<1>7. a \o t = b
  BY <1>4, <1>5, <1>6, SeqEqual
<1>8. \A i \in 1 .. Len(s) : u[i] = s[i]
  BY <1>1, <1>3
<1> QED BY <1>7, <1>8 DEF a, b, u

\* The stream all, of which data is read and w is not, whatever header is cut off.
Parts(S, data, w, all) ==
  /\ data \in Seq(S) /\ w \in Seq(S) /\ all \in Seq(S)
  /\ data \o w = all /\ Len(all) = Len(data) + Len(w) /\ Len(data) >= 1
  /\ Len(data) \in Nat /\ Len(w) \in Nat
  /\ \A k \in 1 .. Len(data) :
       /\ all[k] = data[k] /\ SubSeq(data, k + 1, Len(data)) \in Seq(S)
       /\ SubSeq(data, k + 1, Len(data)) \o w = SubSeq(all, k + 1, Len(all))
       /\ Len(SubSeq(data, k + 1, Len(data)) \o w) = Len(SubSeq(data, k + 1, Len(data))) + Len(w)

\* n units of the stream v join what has been read before, b.
LEMMA Stream ==
  ASSUME NEW S, NEW b \in Seq(S), NEW v \in Seq(S), NEW n \in 1 .. Len(v), NEW w, NEW data, NEW all,
         w = SubSeq(v, n + 1, Len(v)), data = b \o SubSeq(v, 1, n), all = b \o v
  PROVE  Parts(S, data, w, all)
<1> DEFINE new == SubSeq(v, 1, n)
<1>1. new \in Seq(S) /\ w \in Seq(S) /\ Len(new) = n /\ new \o w = v /\ n >= 1 /\ n \in Nat
  <2>1. n \in 0 .. Len(v)
    OBVIOUS
  <2> QED BY <2>1, Cut
<1>2. data = b \o new
  OBVIOUS
<1> HIDE DEF new
<1>3. data \in Seq(S) /\ Len(data) = Len(b) + Len(new)
  BY <1>1, <1>2, ConcatProperties
<1>4. Len(data) >= 1 /\ Len(data) \in Nat /\ Len(w) \in Nat
  BY <1>1, <1>3
<1>5. data \o w = all
  <2>0. b \in Seq(S) /\ new \in Seq(S) /\ w \in Seq(S)
    BY <1>1
  <2>1. (b \o new) \o w = b \o (new \o w)
    <3>1. PICK x \in Seq(S), y \in Seq(S), z \in Seq(S) : x = b /\ y = new /\ z = w
      BY <2>0
    <3>2. (x \o y) \o z = x \o (y \o z)
      BY ONLY x \in Seq(S), y \in Seq(S), z \in Seq(S), ConcatAssociative, SMTT(30)
    <3> QED BY <3>1, <3>2
  <2> QED BY <1>1, <1>2, <2>1
<1>6. all \in Seq(S) /\ Len(all) = Len(data) + Len(w)
  <2>1. data \in Seq(S) /\ w \in Seq(S)
    BY <1>1, <1>3
  <2>2. data \o w \in Seq(S) /\ Len(data \o w) = Len(data) + Len(w)
    BY ONLY <2>1, ConcatProperties
  <2> QED BY <1>5, <2>2
<1>7. ASSUME NEW k \in 1 .. Len(data)
      PROVE  /\ all[k] = data[k] /\ SubSeq(data, k + 1, Len(data)) \in Seq(S)
             /\ SubSeq(data, k + 1, Len(data)) \o w = SubSeq(all, k + 1, Len(all))
             /\ Len(SubSeq(data, k + 1, Len(data)) \o w)
                  = Len(SubSeq(data, k + 1, Len(data))) + Len(w)
  <2> DEFINE buf == SubSeq(data, k + 1, Len(data))
  <2>1. k \in 0 .. Len(data)
    BY <1>4
  <2>2. buf \in Seq(S)
    BY <1>3, <2>1, Cut
  <2>3. buf \o w = SubSeq(data \o w, k + 1, Len(data \o w)) /\ (data \o w)[k] = data[k]
    <3>1. data \in Seq(S) /\ w \in Seq(S) /\ k \in 0 .. Len(data) /\ k \in 1 .. Len(data)
      BY <1>1, <1>3, <2>1
    <3> QED BY ONLY <3>1, CutFront
  <2> HIDE DEF buf
  <2>4. Len(buf \o w) = Len(buf) + Len(w)
    BY <1>1, <2>2, ConcatProperties
  <2>5. /\ all[k] = data[k] /\ buf \in Seq(S)
        /\ buf \o w = SubSeq(all, k + 1, Len(all)) /\ Len(buf \o w) = Len(buf) + Len(w)
    BY <1>5, <2>2, <2>3, <2>4
  <2> QED BY <2>5 DEF buf
<1> QED BY <1>1, <1>3, <1>4, <1>5, <1>6, <1>7 DEF Parts

\* What initcmd makes of the stream: it takes the header off as soon as it is there,
\* and the request is complete when there are as many units as the header says.
Understood(c, buf, w, need) ==
  /\ buf \in Seq(Unit) /\ w \in Seq(Unit) /\ Len(buf \o w) = Len(buf) + Len(w)
  /\ c.ret = IF c.p.size = 0 \/ Len(buf) + 1 < c.p.size THEN 0
             ELSE IF Len(buf) + 1 = c.p.size THEN 1 ELSE -1
  /\ \/ c.p = [pg EXCEPT !.inbuf = buf] /\ buf \o w = Rest
     \/ /\ pg.size = 0 /\ Len(Rest) >= need
        /\ c.p = [pg EXCEPT !.type = IF need = 2 THEN TypeIn(Rest[1]) ELSE @,
                            !.size = SizeIn(Rest[need]), !.inbuf = buf]
        /\ buf \o w = SubSeq(Rest, need + 1, Len(Rest))

LEMMA Understands ==
  ASSUME Shape, NEW n \in 1 .. Len(wire), NEW need, need = IF pg.state = "BEGIN" THEN 1 ELSE 2,
         NEW w, w = SubSeq(wire, n + 1, Len(wire)), NEW c, c = InitCmd(SubSeq(wire, 1, n)),
         NEW buf, buf = c.p.inbuf
  PROVE  Understood(c, buf, w, need)
<1>1. PICK data : data = pg.inbuf \o SubSeq(wire, 1, n)
  OBVIOUS
<1>2. Parts(Unit, data, w, Rest)
  <2>1. pg.inbuf \in Seq(Unit) /\ wire \in Seq(Unit)
    BY DEF Shape, PgType
  <2>2. w = SubSeq(wire, n + 1, Len(wire)) /\ n \in 1 .. Len(wire) /\ Rest = pg.inbuf \o wire
    BY DEF Rest
  <2> QED BY ONLY <1>1, <2>1, <2>2, Stream
<1> DEFINE cut == [pg EXCEPT !.type = IF need = 2 THEN TypeIn(data[1]) ELSE @,
                             !.size = SizeIn(data[need]),
                             !.inbuf = SubSeq(data, need + 1, Len(data))]
<1>5. /\ c.p = IF pg.size # 0 \/ Len(data) < need THEN [pg EXCEPT !.inbuf = data] ELSE cut
      /\ c.ret = IF c.p.size = 0 \/ Len(buf) + 1 < c.p.size THEN 0
                 ELSE IF Len(buf) + 1 = c.p.size THEN 1 ELSE -1
  BY <1>1 DEF InitCmd
<1>6. CASE pg.size # 0 \/ Len(data) < need
  <2>1. c.p = [pg EXCEPT !.inbuf = data]
    BY <1>5, <1>6
  <2>2. buf = data
    BY <2>1 DEF Shape, PgType
  <2>3. Len(buf \o w) = Len(buf) + Len(w)
    BY <1>2, <2>2 DEF Parts
  <2> QED BY <1>2, <1>5, <2>1, <2>2, <2>3 DEF Parts, Understood
<1>7. CASE pg.size = 0 /\ ~(Len(data) < need)
  <2>1. c.p = cut
    BY <1>5, <1>7
  <2>2. buf = SubSeq(data, need + 1, Len(data))
    BY <2>1 DEF Shape, PgType
  <2>3. 1 \in 1 .. Len(data) /\ need \in 1 .. Len(data)
    BY <1>2, <1>7 DEF Parts
  <2>4. /\ Rest[need] = data[need] /\ buf \in Seq(Unit) /\ Rest[1] = data[1]
        /\ buf \o w = SubSeq(Rest, need + 1, Len(Rest))
        /\ Len(buf \o w) = Len(buf) + Len(w)
    BY <1>2, <2>2, <2>3 DEF Parts
  <2>8. Len(Rest) >= need
    <3>1. need \in Nat /\ Len(data) >= need /\ Len(Rest) = Len(data) + Len(w) /\ Len(data) \in Nat /\ Len(w) \in Nat
      BY <1>2, <1>7 DEF Parts
    <3> QED BY ONLY <3>1
  <2> QED BY <1>2, <1>5, <1>7, <2>1, <2>2, <2>4, <2>8 DEF Parts, Understood
<1> QED BY <1>6, <1>7

-----------------------------------------------------------------------------
(* Queries.                                                                *)

\* What Free and the blocks depend on.
SameSession(r, p) == /\ r \in PgType /\ r.state = p.state /\ r.inbuf = p.inbuf /\ r.size = p.size
                     /\ r.epoll = p.epoll /\ r.login = p.login
SameTxns(r, p) == /\ r.tp = p.tp /\ r.inblock = p.inblock /\ r.txns = p.txns
                  /\ r.running = p.running /\ r.commits = p.commits

LEMMA Written ==
  ASSUME NEW g \in Seq(Replies), NEW a \in Replies, NEW z \in Replies, NEW o
  PROVE  /\ o = Append(<<>>, a) => g \o (o \o <<z>>) = Append(Append(g, a), z)
         /\ o = Append(Append(<<>>, "N"), a)
              => g \o (o \o <<z>>) = Append(Append(Append(g, "N"), a), z)
<1>0. "N" \in Replies
  BY DEF Replies
<1>1. ASSUME o = Append(<<>>, a) PROVE g \o (o \o <<z>>) = Append(Append(g, a), z)
  BY <1>1
<1>2. ASSUME o = Append(Append(<<>>, "N"), a)
      PROVE  g \o (o \o <<z>>) = Append(Append(Append(g, "N"), a), z)
  BY <1>0, <1>2
<1> QED BY <1>1, <1>2

LEMMA SetOut ==
  ASSUME NEW p \in PgType, NEW x \in Seq(Replies), NEW r, r = [p EXCEPT !.out = x]
  PROVE  SameSession(r, p) /\ SameTxns(r, p) /\ r.out = x
<1>1. r \in PgType
  BY DEF PgType
<1> QED BY <1>1 DEF PgType, SameSession, SameTxns

LEMMA PutOne ==
  ASSUME NEW p \in PgType, NEW x \in Replies, NEW r, r = Put(p, x)
  PROVE  /\ SameSession(r, p) /\ SameTxns(r, p) /\ r.out = Append(p.out, x)
<1>1. Append(p.out, x) \in Seq(Replies) /\ r = [p EXCEPT !.out = Append(p.out, x)]
  BY DEF PgType, Put
<1> QED BY <1>1, SetOut

LEMMA SameBlock ==
  ASSUME NEW p, NEW r, SameTxns(r, p)
  PROVE  (ItsBlock(p) => ItsBlock(r)) /\ (FailedBlock(p) => FailedBlock(r))
BY DEF SameTxns, ItsBlock, FailedBlock

LEMMA SameFree ==
  ASSUME NEW p, NEW r, SameSession(r, p), Free(p)
  PROVE  Free(r)
BY DEF SameSession, Free

\* The object p, with an answer in outbuf, is written.
LEMMA AnswersWith ==
  ASSUME WritesFit, Shape, Waiting, UNCHANGED <<client, asked>>, wire' = <<>>,
         NEW p, Free(p), p.state = "ESTABLISHED" => ItsBlock(p), p.state = "ABORTED" => FailedBlock(p),
         NEW a \in {"C", "E"}, p.out = Append(<<>>, a) \/ p.out = Append(Append(<<>>, "N"), a), NEW clears, Write(p.state, p, clears)
  PROVE  PgInv'
<1>1. /\ pg' = [p EXCEPT !.out = <<>>] /\ got' = got \o (p.out \o Ready(p.state, p.tp))
      /\ p.state \in {"ESTABLISHED", "ABORTED"} /\ p \in PgType
  BY Writes, Zenon DEF Free
<1>2. PICK z : <<z>> = Ready(p.state, p.tp)
  BY <1>1 DEF Ready
<1>3. SameSession(pg', p) /\ SameTxns(pg', p)
  <2>1. <<>> \in Seq(Replies)
    OBVIOUS
  <2> QED BY <1>1, <2>1, SetOut
<1>4. Free(pg')
  BY <1>3, SameFree
<1>5. /\ pg'.state = "ESTABLISHED" => ItsBlock(pg')
      /\ pg'.state = "ABORTED" => FailedBlock(pg')
  BY <1>3, SameBlock DEF SameSession
<1>6. got' = Append(Append(got, a), z) \/ got' = Append(Append(Append(got, "N"), a), z)
  <2>1. got' = got \o (p.out \o <<z>>) /\ got \in Seq(Replies)
    BY <1>1, <1>2 DEF Shape
  <2>2. a \in Replies /\ z \in Replies
    BY <1>1, <1>2 DEF Replies, Ready
  <2>3. PICK g, o : g = got /\ o = p.out
    OBVIOUS
  <2>4. g \in Seq(Replies)
    BY <2>1, <2>3
  <2>5. /\ o = Append(<<>>, a) => g \o (o \o <<z>>) = Append(Append(g, a), z)
        /\ o = Append(Append(<<>>, "N"), a)
             => g \o (o \o <<z>>) = Append(Append(Append(g, "N"), a), z)
    BY ONLY <2>2, <2>4, Written, ZenonT(40)
  <2> QED BY <2>1, <2>3, <2>5
<1>7. <<z>> = Ready(pg'.state, pg'.tp)
  BY <1>2, <1>3 DEF SameSession, SameTxns
<1> QED BY <1>4, <1>5, <1>6, <1>7, Answers

\* The same, when p has yet to get the answer.
LEMMA PutAndWrite ==
  ASSUME WritesFit, Shape, Waiting, UNCHANGED <<client, asked>>, wire' = <<>>,
         NEW p, Free(p), p.state = "ESTABLISHED" => ItsBlock(p), p.state = "ABORTED" => FailedBlock(p),
         p.out = <<>>, NEW a \in {"C", "E"}, NEW r, r = Put(p, a) \/ r = Put(Put(p, "N"), a),
         NEW clears, Write(r.state, r, clears)
  PROVE  PgInv'
<1>0. a \in Replies /\ "N" \in Replies /\ p \in PgType
  BY DEF Replies, Free
<1>1. SameSession(r, p) /\ SameTxns(r, p) /\ (r.out = Append(<<>>, a) \/ r.out = Append(Append(<<>>, "N"), a))
  <2>1. CASE r = Put(p, a)
    BY <1>0, <2>1, PutOne
  <2>2. CASE r = Put(Put(p, "N"), a)
    <3>1. PICK k : k = Put(p, "N")
      OBVIOUS
    <3>2. SameSession(k, p) /\ SameTxns(k, p) /\ k.out = Append(<<>>, "N") /\ k \in PgType
      BY <1>0, <3>1, PutOne DEF SameSession
    <3>3. SameSession(r, k) /\ SameTxns(r, k) /\ r.out = Append(Append(<<>>, "N"), a)
      BY <1>0, <2>2, <3>1, <3>2, PutOne
    <3> QED BY <3>2, <3>3 DEF SameSession, SameTxns
  <2> QED BY <2>1, <2>2
<1>2. Free(r) /\ r.state = p.state
  BY <1>1, SameFree DEF SameSession
<1>3. /\ r.state = "ESTABLISHED" => ItsBlock(r)
      /\ r.state = "ABORTED" => FailedBlock(r)
  BY <1>1, <1>2, SameBlock
<1> QED BY <1>1, <1>2, <1>3, AnswersWith

\* BEGIN, COMMIT, ROLLBACK, a change, and what cannot be executed.
LEMMA Executes ==
  ASSUME WritesFit, Shape, Waiting, UNCHANGED <<client, asked>>, wire' = <<>>,
         NEW p, Free(p), p.state = "ESTABLISHED", ItsBlock(p), p.out = <<>>,
         NEW q \in Queries, ExecuteStatement(p, q)
  PROVE  PgInv'
<1>0. /\ p \in PgType /\ p.made \in Nat /\ p.tp \in Nat /\ (p.tp # NoTxn => p.tp \in Nat \ {0})
      /\ q \in {"BEGIN", "COMMIT", "ROLLBACK", "CHANGE", "SYNTAX", "UNKNOWN"}
  BY PgAssumption DEF Free, PgType, NoTxn
<1>1. CASE q = "SYNTAX"
  <2>1. Write(Put(p, "E").state, Put(p, "E"), FALSE)
    BY <1>0, <1>1 DEF ExecuteStatement, PutError, WriteSocket
  <2> QED BY <2>1, PutAndWrite
<1>2. CASE q = "UNKNOWN"
  <2> DEFINE r == [RollbackImplicit(p) EXCEPT !.stmt = TRUE]
  <2>1. Write(Put(r, "E").state, Put(r, "E"), FALSE)
    BY <1>0, <1>2 DEF ExecuteStatement, PutError, WriteSocket
  <2>2. r \in PgType
    BY <1>0 DEF PgType, RollbackImplicit, NoTxn
  <2>3. /\ r.state = (IF p.inblock THEN "ABORTED" ELSE p.state) /\ r.txns = p.txns \ {p.tp}
        /\ r.tp = NoTxn /\ r.out = <<>> /\ r.inbuf = p.inbuf /\ r.size = p.size
        /\ r.epoll = p.epoll /\ r.login = p.login /\ r.inblock = p.inblock
        /\ r.running = p.running /\ r.commits = p.commits
    BY <1>0 DEF PgType, RollbackImplicit
  <2> HIDE DEF r
  <2>4. Free(r)
    BY <2>2, <2>3 DEF Free
  <2>5. /\ r.state = "ESTABLISHED" => ItsBlock(r)
        /\ r.state = "ABORTED" => FailedBlock(r)
    BY <2>3 DEF ItsBlock, FailedBlock
  <2> QED BY <2>1, <2>3, <2>4, <2>5, PutAndWrite
<1>3. CASE q = "CHANGE"
  <2> DEFINE n == IF p.tp = NoTxn THEN p.made + 1 ELSE p.tp
             r == [p EXCEPT !.stmt = TRUE, !.txns = @ \cup {n},
                            !.made = IF p.tp = NoTxn THEN n ELSE @,
                            !.running = @ \cup {[txn |-> n]}]
  <2>1. pg' = r /\ got' = got
    BY <1>3 DEF ExecuteStatement, Silently
  <2>2. n \in Nat \ {0} /\ (p.tp # NoTxn => n = p.tp)
    BY <1>0 DEF NoTxn
  <2> HIDE DEF n
  <2>3. /\ r.state = p.state /\ r.inbuf = p.inbuf /\ r.size = p.size
        /\ r.epoll = p.epoll /\ r.login = p.login /\ r.tp = p.tp /\ r.inblock = p.inblock
        /\ r.out = p.out /\ r.commits = p.commits
        /\ r.running = p.running \cup {[txn |-> n]} /\ r.txns = p.txns \cup {n}
    BY <1>0 DEF PgType
  <2>4. r \in PgType
    <3>1. /\ p.txns \cup {n} \in SUBSET Nat /\ (IF p.tp = NoTxn THEN n ELSE p.made) \in Nat
          /\ p.running \cup {[txn |-> n]} \in SUBSET Works
      BY <1>0, <2>2 DEF PgType, Works
    <3> QED BY <1>0, <3>1 DEF PgType
  <2> HIDE DEF r
  <2>5. Free(r) /\ Working(r)
    BY <2>2, <2>3, <2>4 DEF Free, Working, ItsBlock
  <2> QED BY <2>1, <2>3, <2>5, GoesOn
<1> DEFINE p0 == [p EXCEPT !.stmt = FALSE]
<1>4. /\ p0 \in PgType /\ Free(p0) /\ ItsBlock(p0) /\ p0.state = p.state /\ p0.tp = p.tp
      /\ p0.out = <<>> /\ p0.made = p.made
  <2>1. p0 \in PgType
    BY <1>0 DEF PgType
  <2>2. SameSession(p0, p) /\ SameTxns(p0, p) /\ p0.out = p.out /\ p0.made = p.made
    BY <1>0, <2>1 DEF PgType, SameSession, SameTxns
  <2> QED BY <2>1, <2>2, SameFree, SameBlock DEF SameSession, SameTxns
<1>5. /\ q = "BEGIN" => ContinueBegin(p0)
      /\ q = "COMMIT" => ContinueCommit(p0)
      /\ q = "ROLLBACK" => ContinueRollback(p0)
  BY DEF ExecuteStatement
<1> HIDE DEF p0
<1>6. CASE q \in {"BEGIN", "COMMIT", "ROLLBACK"} /\ (q = "BEGIN" <=> p0.tp # NoTxn)
  <2> DEFINE r == Put(Put(p0, "N"), "C")
  <2>1. Write(r.state, r, FALSE)
    BY <1>5, <1>6 DEF ContinueBegin, ContinueCommit, ContinueRollback, WriteSocket
  <2> QED BY <1>4, <2>1, PutAndWrite
<1>7. CASE q = "BEGIN" /\ p0.tp = NoTxn
  <2> DEFINE r == [p0 EXCEPT !.made = @ + 1, !.tp = p0.made + 1, !.inblock = TRUE,
                             !.txns = @ \cup {p0.made + 1}]
  <2>1. Write(Put(r, "C").state, Put(r, "C"), FALSE)
    BY <1>5, <1>7 DEF ContinueBegin, WriteSocket
  <2>2. r \in PgType
    <3>1. p0.made + 1 \in Nat /\ p0.txns \cup {p0.made + 1} \in SUBSET Nat
      BY <1>0, <1>4 DEF PgType
    <3> QED BY <1>4, <3>1 DEF PgType
  <2>3. /\ r.state = p0.state /\ r.inbuf = p0.inbuf /\ r.size = p0.size
        /\ r.epoll = p0.epoll /\ r.login = p0.login /\ r.tp = p0.made + 1 /\ r.inblock = TRUE
        /\ r.out = p0.out /\ r.commits = p0.commits
        /\ r.running = p0.running /\ r.txns = p0.txns \cup {p0.made + 1}
    BY <1>4 DEF PgType
  <2> HIDE DEF r
  <2>4. Free(r)
    BY <1>4, <2>2, <2>3 DEF Free
  <2>5. ItsBlock(r)
    <3>1. p0.made + 1 # NoTxn
      BY <1>0, <1>4 DEF NoTxn
    <3> QED BY <1>4, <1>7, <2>3, <3>1 DEF ItsBlock
  <2> QED BY <1>4, <2>1, <2>3, <2>4, <2>5, PutAndWrite
<1>8. CASE q = "COMMIT" /\ p0.tp # NoTxn
  <2> DEFINE r == StartCommit([p0 EXCEPT !.inblock = FALSE], "explicit")
  <2>1. pg' = r /\ got' = got
    BY <1>5, <1>8 DEF ContinueCommit, Silently
  <2>2. r \in PgType
    <3>1. p0.commits \cup {[txn |-> p0.tp, how |-> "explicit"]} \in SUBSET Hows
      BY <1>4 DEF PgType, Hows
    <3> QED BY <1>4, <3>1 DEF PgType, StartCommit
  <2>3. /\ r.state = p0.state /\ r.inbuf = p0.inbuf /\ r.size = p0.size
        /\ r.epoll = p0.epoll /\ r.login = p0.login /\ r.tp = p0.tp /\ r.inblock = FALSE
        /\ r.out = p0.out /\ r.running = p0.running /\ r.txns = p0.txns
        /\ r.commits = p0.commits \cup {[txn |-> p0.tp, how |-> "explicit"]}
    BY <1>4 DEF PgType, StartCommit
  <2> HIDE DEF r
  <2>4. Free(r)
    BY <1>4, <2>2, <2>3 DEF Free
  <2>5. Committing(r)
    BY <1>0, <1>4, <1>8, <2>3 DEF Committing, ItsBlock
  <2> QED BY <1>4, <2>1, <2>3, <2>4, <2>5, GoesOn
<1>9. CASE q = "ROLLBACK" /\ p0.tp # NoTxn
  <2> DEFINE p1 == [p0 EXCEPT !.inblock = FALSE]
             r  == [p1 EXCEPT !.txns = @ \ {p1.tp}, !.tp = NoTxn]
  <2>1. Write(Put(r, "C").state, Put(r, "C"), TRUE)
    <3>1. p1.state # "EXITING"
      BY <1>4 DEF PgType
    <3> QED BY <1>5, <1>9, <3>1 DEF ContinueRollback, RollbackExplicit, WriteAndClear
  <2>2. r \in PgType
    BY <1>4 DEF PgType, NoTxn
  <2>3. /\ r.state = p0.state /\ r.inbuf = p0.inbuf /\ r.size = p0.size
        /\ r.epoll = p0.epoll /\ r.login = p0.login /\ r.tp = NoTxn /\ r.inblock = FALSE
        /\ r.out = p0.out /\ r.running = p0.running /\ r.txns = p0.txns \ {p0.tp}
        /\ r.commits = p0.commits
    BY <1>4 DEF PgType
  <2> HIDE DEF r
  <2>4. Free(r) /\ ItsBlock(r)
    BY <1>4, <2>2, <2>3 DEF Free, ItsBlock
  <2> QED BY <1>4, <2>1, <2>3, <2>4, PutAndWrite
<1> QED BY <1>0, <1>1, <1>2, <1>3, <1>6, <1>7, <1>8, <1>9

\* A query in a block that failed.
LEMMA Refuses ==
  ASSUME WritesFit, Shape, Waiting, UNCHANGED <<client, asked>>, wire' = <<>>,
         NEW p, Free(p), p.state = "ABORTED", FailedBlock(p), p.out = <<>>,
         NEW q \in Queries, AbortedStatement(p, q)
  PROVE  PgInv' /\ pg'.running = {} /\ pg'.txns = {}
<1>0. p \in PgType /\ q \in {"BEGIN", "COMMIT", "ROLLBACK", "CHANGE", "SYNTAX", "UNKNOWN"}
  BY PgAssumption DEF Free
<1>1. PICK r, a : /\ r = p \/ r = [p EXCEPT !.stmt = TRUE]
                       \/ r = [p EXCEPT !.state = "ESTABLISHED", !.inblock = FALSE, !.stmt = TRUE]
                  /\ a \in {"C", "E"} /\ Write(Put(r, a).state, Put(r, a), FALSE)
  <2>1. CASE q = "SYNTAX"
    BY <1>0, <2>1 DEF AbortedStatement, PutError, WriteSocket
  <2>2. CASE q \in {"COMMIT", "ROLLBACK"}
    BY <1>0, <2>2 DEF AbortedStatement, WriteSocket
  <2>3. CASE q \in {"BEGIN", "CHANGE", "UNKNOWN"}
    BY <1>0, <2>3 DEF AbortedStatement, PutError, WriteSocket
  <2> QED BY <1>0, <2>1, <2>2, <2>3
<1>2. r \in PgType
  <2>1. CASE r = p
    BY <1>0, <2>1
  <2>2. CASE r = [p EXCEPT !.stmt = TRUE]
    BY <1>0, <2>2 DEF PgType
  <2>3. CASE r = [p EXCEPT !.state = "ESTABLISHED", !.inblock = FALSE, !.stmt = TRUE]
    BY <1>0, <2>3 DEF PgType
  <2> QED BY <1>1, <2>1, <2>2, <2>3
<1>3. /\ r.inbuf = p.inbuf /\ r.size = p.size /\ r.epoll = p.epoll /\ r.login = p.login
      /\ r.tp = p.tp /\ r.txns = p.txns /\ r.running = p.running /\ r.commits = p.commits
      /\ r.out = p.out
      /\ \/ r.state = p.state /\ r.inblock = p.inblock
         \/ r.state = "ESTABLISHED" /\ r.inblock = FALSE
  BY <1>0, <1>1 DEF PgType
<1>4. Free(r)
  BY <1>2, <1>3 DEF Free
<1>5. /\ r.state = "ESTABLISHED" => ItsBlock(r)
      /\ r.state = "ABORTED" => FailedBlock(r)
  BY <1>3 DEF FailedBlock, ItsBlock
<1>6. PgInv'
  BY <1>1, <1>3, <1>4, <1>5, PutAndWrite
<1>7. pg'.running = {} /\ pg'.txns = {}
  <2>1. PICK k : k = Put(r, a)
    OBVIOUS
  <2>2. SameSession(k, r) /\ SameTxns(k, r)
    BY <1>1, <1>2, <2>1, PutOne DEF Replies
  <2>3. k.state \in {"ESTABLISHED", "ABORTED"} /\ k \in PgType
    BY <1>4, <2>2 DEF SameSession, Free
  <2>4. pg' = [k EXCEPT !.out = <<>>]
    <3>1. Write(k.state, k, FALSE)
      BY <1>1, <2>1
    <3>2. k.state \in {"AUTH", "ESTABLISHED", "ABORTED"}
      BY <2>3
    <3> QED BY <3>1, <3>2, Writes
  <2>5. SameTxns(pg', k)
    <3>1. <<>> \in Seq(Replies)
      OBVIOUS
    <3> QED BY <2>3, <2>4, <3>1, SetOut
  <2> QED BY <1>3, <2>2, <2>5 DEF SameTxns, FailedBlock
<1> QED BY <1>6, <1>7

\* The statement ends: its answer, or its commit, or the end of the block.
LEMMA StatementEnded ==
  ASSUME WritesFit, PgInv, NEW w \in pg.running, NEW ok \in BOOLEAN, StatementEnds(w, ok),
         pg.state # "EXITING"
  PROVE  PgInv'
<1>1. /\ Open /\ pg.state = "ESTABLISHED" /\ pg.size = 0 /\ Rest = <<>>
      /\ Working(pg) /\ Waiting /\ Shape
  BY DEF PgInv, Shape, PgType, Open, Beginning, LoggingIn, AtEase, ItsBlock, FailedBlock,
         Committing, Waiting
<1>2. pg \in PgType /\ pg.inbuf = <<>> /\ wire = <<>> /\ Free(pg)
  <2>1. pg.inbuf \in Seq(Unit) /\ wire \in Seq(Unit) /\ pg \in PgType
    BY <1>1 DEF Shape, PgType
  <2>2. pg.inbuf = <<>> /\ wire = <<>>
    BY <1>1, <2>1, ConcatEqualIffEmpty DEF Rest
  <2> QED BY <1>1, <2>1, <2>2 DEF Free, Open
<1>3. PICK n \in Nat \ {0} :
        /\ pg.running = {[txn |-> n]} /\ pg.commits = {} /\ pg.txns = {n}
        /\ pg.tp \in {NoTxn, n} /\ (pg.inblock <=> pg.tp # NoTxn)
        /\ pg.out = <<>>
  BY <1>1 DEF Working
<1>4. w = [txn |-> n] /\ w.txn = n
  BY <1>3
<1> DEFINE p == [pg EXCEPT !.running = @ \ {w}, !.stmt = FALSE, !.tp = w.txn]
<1>5. ContinueChange(p, ok) /\ UNCHANGED <<client, asked>> /\ wire' = <<>>
  BY <1>2 DEF StatementEnds
<1>6. p \in PgType
  BY <1>2, <1>4 DEF PgType
<1>7. /\ p.state = "ESTABLISHED" /\ p.inbuf = <<>> /\ p.size = 0 /\ p.epoll = pg.epoll
      /\ p.login = pg.login /\ p.tp = n /\ p.txns = {n} /\ p.running = {} /\ p.commits = {}
      /\ p.inblock = pg.inblock /\ p.out = <<>>
  BY <1>1, <1>2, <1>3, <1>4 DEF PgType
<1> HIDE DEF p
<1>8. Free(p)
  BY <1>2, <1>6, <1>7 DEF Free
<1>9. CASE ~ok
  <2> DEFINE r == RollbackImplicit(p)
  <2>1. Write(Put(r, "E").state, Put(r, "E"), FALSE)
    BY <1>5, <1>9 DEF ContinueChange, PutError, WriteSocket
  <2>2. r \in PgType
    <3>1. /\ p.txns \ {p.tp} \in SUBSET Nat /\ NoTxn \in Nat /\ <<>> \in Seq(Replies)
          /\ (IF p.inblock THEN "ABORTED" ELSE p.state) \in {"ESTABLISHED", "ABORTED"}
      BY <1>6, <1>7 DEF PgType, NoTxn
    <3> QED BY <1>6, <3>1 DEF PgType, RollbackImplicit
  <2>3. /\ r.state = (IF p.inblock THEN "ABORTED" ELSE p.state) /\ r.txns = p.txns \ {p.tp}
        /\ r.tp = NoTxn /\ r.out = <<>> /\ r.inbuf = p.inbuf /\ r.size = p.size
        /\ r.epoll = p.epoll /\ r.login = p.login /\ r.inblock = p.inblock
        /\ r.running = p.running /\ r.commits = p.commits
    BY <1>6 DEF PgType, RollbackImplicit
  <2> HIDE DEF r
  <2>4. Free(r)
    BY <1>8, <2>2, <2>3 DEF Free
  <2>5. /\ r.state = "ESTABLISHED" => ItsBlock(r)
        /\ r.state = "ABORTED" => FailedBlock(r)
    BY <1>6, <1>7, <2>3 DEF ItsBlock, FailedBlock, PgType
  <2> QED BY <1>1, <1>5, <2>1, <2>3, <2>4, <2>5, PutAndWrite
<1>10. CASE ok /\ p.inblock
  <2>1. Write(Put(p, "C").state, Put(p, "C"), FALSE)
    BY <1>5, <1>10 DEF ContinueChange, WriteSocket
  <2>2. ItsBlock(p)
    BY <1>7, <1>10 DEF ItsBlock, NoTxn
  <2> QED BY <1>1, <1>5, <1>7, <1>8, <2>1, <2>2, PutAndWrite
<1>11. CASE ok /\ ~p.inblock
  <2>1. PICK k : k = Put(p, "C")
    OBVIOUS
  <2>2. SameSession(k, p) /\ SameTxns(k, p) /\ k.out = Append(<<>>, "C") /\ k \in PgType
    BY <1>6, <1>7, <2>1, PutOne DEF Replies, SameSession
  <2>3. pg' = StartCommit(k, "implicit") /\ got' = got
    BY <1>5, <1>11, <2>1 DEF ContinueChange, Silently
  <2>4. pg' \in PgType
    <3>1. k.commits \cup {[txn |-> k.tp, how |-> "implicit"]} \in SUBSET Hows
      BY <2>2 DEF PgType, Hows
    <3> QED BY <2>2, <2>3, <3>1 DEF PgType, StartCommit
  <2>5. /\ SameSession(pg', k) /\ pg'.tp = k.tp /\ pg'.inblock = k.inblock /\ pg'.txns = k.txns
        /\ pg'.running = k.running /\ pg'.out = k.out
        /\ pg'.commits = k.commits \cup {[txn |-> k.tp, how |-> "implicit"]}
    BY <2>2, <2>3, <2>4 DEF PgType, StartCommit, SameSession
  <2>6. Free(pg') /\ pg'.state = "ESTABLISHED"
    BY <1>7, <1>8, <2>2, <2>5, SameFree DEF SameSession
  <2>7. Committing(pg')
    <3>1. pg'.out = <<"C">>
      BY <2>2, <2>5
    <3>2. /\ pg'.commits = {[txn |-> n, how |-> "implicit"]} /\ pg'.running = {} /\ pg'.txns = {n}
          /\ pg'.tp = n /\ ~pg'.inblock
      BY <1>7, <1>11, <2>2, <2>5 DEF SameTxns
    <3> QED BY <3>1, <3>2 DEF Committing
  <2> QED BY <1>1, <1>5, <2>3, <2>6, <2>7, GoesOn
<1>12. p.inblock \in BOOLEAN
  BY <1>6 DEF PgType
<1> QED BY <1>9, <1>10, <1>11, <1>12

\* The commit ends, and the answer goes out.
LEMMA CommitEnded ==
  ASSUME WritesFit, PgInv, NEW w \in pg.commits, CommitEnds(w), pg.state # "EXITING"
  PROVE  PgInv'
<1>1. /\ Open /\ pg.state = "ESTABLISHED" /\ pg.size = 0 /\ Rest = <<>>
      /\ Committing(pg) /\ Waiting /\ Shape
  BY DEF PgInv, Shape, PgType, Open, Beginning, LoggingIn, AtEase, ItsBlock, FailedBlock,
         Working, Waiting
<1>2. pg \in PgType /\ pg.inbuf = <<>> /\ wire = <<>> /\ Free(pg)
  <2>1. pg.inbuf \in Seq(Unit) /\ wire \in Seq(Unit) /\ pg \in PgType
    BY <1>1 DEF Shape, PgType
  <2>2. pg.inbuf = <<>> /\ wire = <<>>
    BY <1>1, <2>1, ConcatEqualIffEmpty DEF Rest
  <2> QED BY <1>1, <2>1, <2>2 DEF Free, Open
<1>3. PICK n \in Nat \ {0}, how \in {"implicit", "explicit"} :
        /\ pg.commits = {[txn |-> n, how |-> how]} /\ pg.running = {} /\ pg.txns = {n}
        /\ pg.tp = n /\ ~pg.inblock
        /\ pg.out = IF how = "implicit" THEN <<"C">> ELSE <<>>
  BY <1>1 DEF Committing
<1>4. w = [txn |-> n, how |-> how] /\ w.txn = n /\ w.how = how
  BY <1>3
<1> DEFINE p == [pg EXCEPT !.commits = @ \ {w}, !.txns = @ \ {w.txn}, !.tp = NoTxn]
<1>5. /\ how = "implicit" => Write(p.state, p, FALSE)
      /\ how = "explicit" => Write(Put(p, "C").state, Put(p, "C"), TRUE)
      /\ UNCHANGED <<client, asked>> /\ wire' = <<>>
  BY <1>2, <1>4 DEF CommitEnds, WriteSocket, WriteAndClear
<1>6. p \in PgType
  BY <1>2, <1>4 DEF PgType, NoTxn
<1>7. /\ p.state = "ESTABLISHED" /\ p.inbuf = <<>> /\ p.size = 0 /\ p.epoll = pg.epoll
      /\ p.login = pg.login /\ p.tp = NoTxn /\ p.txns = {} /\ p.running = {} /\ p.commits = {}
      /\ p.inblock = FALSE /\ p.out = pg.out
  BY <1>1, <1>2, <1>3, <1>4 DEF PgType
<1> HIDE DEF p
<1>8. Free(p) /\ ItsBlock(p)
  BY <1>2, <1>6, <1>7 DEF Free, ItsBlock
<1>9. CASE how = "implicit"
  <2>1. p.out = Append(<<>>, "C")
    BY <1>3, <1>7, <1>9
  <2> QED BY <1>1, <1>5, <1>7, <1>8, <1>9, <2>1, AnswersWith
<1>10. CASE how = "explicit"
  <2>1. p.out = <<>>
    BY <1>3, <1>7, <1>10
  <2> QED BY <1>1, <1>5, <1>7, <1>8, <1>10, <2>1, PutAndWrite
<1> QED BY <1>9, <1>10

-----------------------------------------------------------------------------
(* Messages.                                                               *)

\* The units of each message, and what initcmd makes of its header.
LEMMA UnitsOf ==
  ASSUME NEW m \in Kinds
  PROVE  /\ Units(m) \in Seq(Unit)
         /\ m = "SSL" => Len(Units(m)) = 2
         /\ m = "STARTUP" => Len(Units(m)) = 3
         /\ m = "TERMINATE" => Len(Units(m)) = 2
         /\ m \in {"PASSWORD"} \cup Queries => Len(Units(m)) = 3
         /\ \A i \in 1 .. Len(Units(m)) : Units(m)[i] = <<m, i>>
<1>1. m \in {"SSL", "STARTUP", "PASSWORD", "TERMINATE", "BEGIN", "COMMIT", "ROLLBACK", "CHANGE", "SYNTAX",
             "UNKNOWN"}
  BY PgAssumption DEF Kinds
<1>2. PICK k : k = (IF Typed(m) THEN 2 ELSE 1) + BodyLength(m)
  OBVIOUS
<1>3. /\ k \in Nat
      /\ m = "SSL" => k = 2
      /\ m = "STARTUP" => k = 3
      /\ m = "TERMINATE" => k = 2
      /\ m \in {"PASSWORD"} \cup Queries => k = 3
  BY <1>1, <1>2, PgAssumption DEF Typed, BodyLength, Kinds
<1>4. Units(m) = [i \in 1 .. k |-> <<m, i>>]
  BY <1>2 DEF Units
<1>5. Units(m) \in Seq(Unit) /\ Len(Units(m)) = k
  BY <1>3, <1>4 DEF Unit
<1> QED BY <1>3, <1>4, <1>5

LEMMA Headers ==
  /\ SizeIn(<<"SSL", 1>>) = 2 /\ SizeIn(<<"SSL", 2>>) = Huge /\ SizeIn(<<"STARTUP", 1>>) = 3
  /\ SizeIn(<<"TERMINATE", 2>>) = 1 /\ TypeIn(<<"TERMINATE", 1>>) = "TERMINATE"
  /\ \A q \in {"PASSWORD"} \cup Queries : SizeIn(<<q, 2>>) = 2 /\ TypeIn(<<q, 1>>) = q
<1>1. "SSL" \notin Queries /\ "STARTUP" \notin Queries /\ "TERMINATE" \notin Queries /\ "PASSWORD" \notin Queries
  BY PgAssumption
<1>2. SizeIn(<<"SSL", 1>>) = 2 /\ SizeIn(<<"SSL", 2>>) = Huge /\ SizeIn(<<"STARTUP", 1>>) = 3
  BY <1>1 DEF SizeIn, Typed, BodyLength
<1>3. SizeIn(<<"TERMINATE", 2>>) = 1 /\ TypeIn(<<"TERMINATE", 1>>) = "TERMINATE"
  BY <1>1 DEF SizeIn, TypeIn, Typed, BodyLength
<1>4. ASSUME NEW q \in {"PASSWORD"} \cup Queries PROVE SizeIn(<<q, 2>>) = 2 /\ TypeIn(<<q, 1>>) = q
  BY <1>1, PgAssumption DEF SizeIn, TypeIn, Typed, BodyLength
<1> QED BY <1>2, <1>3, <1>4

\* A message joins the stream.
LEMMA Sent ==
  ASSUME Shape, NEW m \in Kinds, NEW next, Send(m, next)
  PROVE  /\ wire' \in Seq(Unit) /\ Rest' = Rest \o Units(m) /\ pg' = pg /\ got' = got
         /\ client' = next
<1>1. pg.inbuf \in Seq(Unit) /\ wire \in Seq(Unit) /\ Units(m) \in Seq(Unit)
  BY UnitsOf DEF Shape, PgType
<1>2. wire' = wire \o Units(m) /\ pg' = pg /\ got' = got /\ client' = next
  BY DEF Send
<1>3. wire \o Units(m) \in Seq(Unit)
  BY ONLY <1>1, ConcatProperties
<1>4. (pg.inbuf \o wire) \o Units(m) = pg.inbuf \o (wire \o Units(m))
  <2>1. PICK b \in Seq(Unit), v \in Seq(Unit), u \in Seq(Unit) :
          b = pg.inbuf /\ v = wire /\ u = Units(m)
    BY <1>1
  <2>2. (b \o v) \o u = b \o (v \o u)
    BY ONLY b \in Seq(Unit), v \in Seq(Unit), u \in Seq(Unit), ConcatAssociative
  <2> QED BY <2>1, <2>2
<1> QED BY <1>2, <1>3, <1>4 DEF Rest

-----------------------------------------------------------------------------
(* Closing.                                                                *)

LEMMA CloseSocketIs ==
  ASSUME NEW p \in PgType
  PROVE  CloseSocket(p) \in PgType /\ CloseSocket(p).state = "EXITING"
<1>1. CASE p.tp # NoTxn
  <2>1. /\ p.txns \ {p.tp} \in SUBSET Nat /\ {w \in p.running : w.txn # p.tp} \in SUBSET Works
        /\ {w \in p.commits : w.txn # p.tp} \in SUBSET Hows /\ <<>> \in Seq(Replies)
    BY DEF PgType
  <2> QED BY <1>1, <2>1 DEF CloseSocket, PgType
<1>2. CASE p.tp = NoTxn
  <2>1. (~p.stmt) \in BOOLEAN /\ <<>> \in Seq(Replies)
    BY DEF PgType
  <2> QED BY <1>2, <2>1 DEF CloseSocket, PgType
<1> QED BY <1>1, <1>2

\* A closed session says nothing any more.
LEMMA StaysClosed ==
  ASSUME PgInv, pg.state = "EXITING", [Next]_vars
  PROVE  PgInv'
<1>0. Shape /\ Closed /\ pg \in PgType /\ wire \in Seq(Unit)
  BY DEF PgInv, Shape
<1>1. SUFFICES /\ pg' \in PgType /\ pg'.state = "EXITING" /\ wire' \in Seq(Unit) /\ got' = got
               /\ client' \in {"new", "ssl", "started", "loggingin", "gone"}
               /\ asked' \in Seq(Queries) /\ Len(asked') >= Len(asked)
  <2>1. Count(Readies)' = Count(Readies) /\ Count({"C", "E"})' = Count({"C", "E"})
    BY <1>1 DEF Count, Readies
  <2>2. CountIn(got, Readies) \in Nat /\ CountIn(got, Readies) = Count(Readies)
    BY <1>0, CountOneMore DEF Shape, Count, CountIn, Replies
  <2>3. Shape'
    BY <1>0, <1>1 DEF Shape
  <2>4. Len(asked) \in Nat /\ Len(asked') \in Nat
    BY <1>0, <1>1 DEF Shape
  <2>5. Closed'
    BY <1>0, <1>1, <2>1, <2>2, <2>4 DEF Closed
  <2> QED BY <1>1, <2>3, <2>5 DEF PgInv
<1> DEFINE Goal == /\ pg' \in PgType /\ pg'.state = "EXITING" /\ wire' \in Seq(Unit) /\ got' = got
                   /\ client' \in {"new", "ssl", "started", "loggingin", "gone"}
                   /\ asked' \in Seq(Queries) /\ Len(asked') >= Len(asked)
<1>2. Len(asked) \in Nat /\ asked \in Seq(Queries)
      /\ client \in {"new", "ssl", "started", "loggingin", "gone"}
  BY <1>0 DEF Shape
<1>3. ASSUME NEW m \in Kinds, NEW next \in {"started", "ssl", "loggingin", "gone", client}, Send(m, next),
             asked' = asked \/ (m \in Queries /\ asked' = Append(asked, m))
      PROVE  Goal
  <2>1. wire' \in Seq(Unit) /\ pg' = pg /\ got' = got /\ client' = next
    BY <1>0, <1>3, Sent
  <2>2. asked' \in Seq(Queries) /\ Len(asked') >= Len(asked)
    BY <1>2, <1>3
  <2> QED BY <1>0, <1>2, <2>1, <2>2
<1>4. CASE UNCHANGED vars
  BY <1>0, <1>2, <1>4 DEF vars
<1>5. ASSUME NEW w \in pg.running, NEW ok \in BOOLEAN, StatementEnds(w, ok) PROVE Goal
  <2> DEFINE p == [pg EXCEPT !.running = @ \ {w}, !.stmt = FALSE, !.tp = w.txn]
  <2>0. w.txn \in Nat
    BY <1>0 DEF PgType, Works
  <2>1. p \in PgType /\ p.state = "EXITING"
    BY <1>0, <2>0 DEF PgType
  <2>2. /\ UNCHANGED <<wire, client, asked>>
        /\ IF w.txn = NoTxn THEN Silently([p EXCEPT !.freed = TRUE]) ELSE RollbackExplicit(p)
    BY <1>5 DEF StatementEnds
  <2> HIDE DEF p
  <2>3. [p EXCEPT !.freed = TRUE] \in PgType /\ [p EXCEPT !.freed = TRUE].state = "EXITING"
    BY <2>1 DEF PgType
  <2> DEFINE q == [p EXCEPT !.txns = @ \ {p.tp}, !.tp = NoTxn]
  <2>4. q \in PgType /\ q.state = "EXITING"
    BY <2>1 DEF PgType, NoTxn
  <2>5. RollbackExplicit(p) => Silently([q EXCEPT !.freed = ~q.stmt])
    BY <2>1 DEF RollbackExplicit
  <2> HIDE DEF q
  <2>6. [q EXCEPT !.freed = ~q.stmt] \in PgType /\ [q EXCEPT !.freed = ~q.stmt].state = "EXITING"
    BY <2>4 DEF PgType
  <2>7. /\ \/ pg' = [p EXCEPT !.freed = TRUE]
           \/ pg' = [q EXCEPT !.freed = ~q.stmt]
        /\ got' = got
    BY <2>2, <2>5 DEF Silently
  <2>8. pg' \in PgType /\ pg'.state = "EXITING"
    BY <2>3, <2>6, <2>7
  <2> QED BY <1>0, <1>2, <2>2, <2>7, <2>8
<1>6. ASSUME NEW w \in pg.commits, CommitEnds(w) PROVE Goal
  <2> DEFINE p == [pg EXCEPT !.commits = @ \ {w}, !.txns = @ \ {w.txn}, !.tp = NoTxn]
  <2>1. p \in PgType /\ p.state = "EXITING"
    BY <1>0 DEF PgType, NoTxn
  <2>2. UNCHANGED <<wire, client, asked>> /\ Silently([p EXCEPT !.freed = ~p.stmt])
    BY <1>6 DEF CommitEnds
  <2> HIDE DEF p
  <2>3. [p EXCEPT !.freed = ~p.stmt] \in PgType /\ [p EXCEPT !.freed = ~p.stmt].state = "EXITING"
    BY <2>1 DEF PgType
  <2> QED BY <1>0, <1>2, <2>2, <2>3 DEF Silently
<1>7. CASE Server
  BY <1>5, <1>6, <1>7 DEF Server, Read, Writable, Eof, LoginReply
<1>8. CASE ClientStarts
  BY <1>3, <1>8 DEF ClientStarts, Kinds
<1>9. ASSUME NEW q \in Queries, ClientAsks(q) PROVE Goal
  BY <1>3, <1>9 DEF ClientAsks, Kinds
<1>10. CASE ClientEnds
  BY <1>3, <1>10 DEF ClientEnds, Kinds
<1>11. CASE ClientHangsUp
  BY <1>0, <1>2, <1>11 DEF ClientHangsUp
<1> QED BY <1>4, <1>7, <1>8, <1>9, <1>10, <1>11 DEF Next

-----------------------------------------------------------------------------
(* Requests.                                                               *)

\* What follows a header of k units.
LEMMA AfterHeader ==
  ASSUME NEW S, NEW u \in Seq(S), NEW k \in Nat, k <= Len(u), NEW v, v = SubSeq(u, k + 1, Len(u))
  PROVE  /\ v \in Seq(S) /\ Len(v) = Len(u) - k
         /\ \A i \in 1 .. Len(u) - k : v[i] = u[k + i]
<1>1. Len(u) \in Nat /\ \A i \in 1 .. Len(u) : u[i] \in S
  OBVIOUS
<1> QED BY <1>1, SubSeqProperties

LEMMA ShortSeqs ==
  ASSUME NEW S, NEW v \in Seq(S)
  PROVE  /\ Len(v) \in Nat
         /\ Len(v) = 0 => v = <<>>
         /\ Len(v) = 1 => v = <<v[1]>>
         /\ Len(v) = 2 => v = <<v[1], v[2]>>
<1>1. ASSUME Len(v) = 1 PROVE v = <<v[1]>>
  BY <1>1
<1>2. ASSUME Len(v) = 2 PROVE v = <<v[1], v[2]>>
  BY <1>2
<1> QED BY <1>1, <1>2

\* A read that completes nothing changes inbuf, and size and type with the header.
ReadMore(p) ==
  /\ p \in PgType /\ p.state = pg.state /\ p.tp = pg.tp /\ p.inblock = pg.inblock
  /\ p.txns = pg.txns /\ p.running = pg.running /\ p.commits = pg.commits /\ p.out = pg.out
  /\ p.epoll = pg.epoll /\ p.login = pg.login

WithHeader(p, t, k, b) == [p EXCEPT !.type = t, !.size = k, !.inbuf = b]

LEMMA SetRead ==
  ASSUME NEW p \in PgType, NEW t \in Types, NEW k \in Nat, NEW b \in Seq(Unit), NEW r,
         r = WithHeader(p, t, k, b)
  PROVE  /\ r \in PgType /\ r.state = p.state /\ r.out = p.out /\ r.epoll = p.epoll /\ r.login = p.login
         /\ SameTxns(r, p) /\ r.type = t /\ r.size = k /\ r.inbuf = b
<1>1. r \in PgType
  BY DEF PgType, WithHeader
<1> QED BY <1>1 DEF PgType, SameTxns, WithHeader

\* Any unit can be read as a header.
LEMMA AnyHeader ==
  ASSUME NEW u \in Unit
  PROVE  SizeIn(u) \in Nat /\ TypeIn(u) \in Types
<1>1. PICK m \in Kinds, i \in Nat : u = <<m, i>>
  BY DEF Unit
<1>2. BodyLength(m) \in Nat
  BY PgAssumption DEF Kinds, BodyLength
<1>3. u[1] = m /\ u[2] = i
  BY <1>1
<1> QED BY <1>2, <1>3 DEF SizeIn, TypeIn, Huge, Types

\* After a read the header is of type t and says k, and rest is yet to be understood.
Reads(c, w, t, k, rest) ==
  /\ ReadMore(c.p) /\ w \in Seq(Unit) /\ c.p.inbuf \in Seq(Unit)
  /\ c.p.type = t /\ c.p.size = k /\ c.p.inbuf \o w = rest
  /\ Len(c.p.inbuf) \in Nat /\ Len(w) \in Nat /\ Len(c.p.inbuf) + Len(w) = Len(rest)
  /\ c.ret = IF k = 0 \/ Len(c.p.inbuf) + 1 < k THEN 0
             ELSE IF Len(c.p.inbuf) + 1 = k THEN 1 ELSE -1

LEMMA ReadsOn ==
  ASSUME Shape, NEW n \in 1 .. Len(wire), NEW need, need = IF pg.state = "BEGIN" THEN 1 ELSE 2,
         NEW w, w = SubSeq(wire, n + 1, Len(wire)), NEW c, c = InitCmd(SubSeq(wire, 1, n))
  PROVE  \/ Reads(c, w, pg.type, pg.size, Rest)
         \/ /\ pg.size = 0 /\ Len(Rest) >= need
            /\ Reads(c, w, IF need = 2 THEN TypeIn(Rest[1]) ELSE pg.type, SizeIn(Rest[need]),
                     SubSeq(Rest, need + 1, Len(Rest)))
<1>0. pg \in PgType /\ Rest \in Seq(Unit) /\ need \in 1 .. 2
  <2>1. pg \in PgType /\ pg.inbuf \in Seq(Unit) /\ wire \in Seq(Unit)
    BY DEF Shape, PgType
  <2>2. pg.inbuf \o wire \in Seq(Unit)
    BY ONLY <2>1, ConcatProperties
  <2> QED BY <2>1, <2>2 DEF Rest
<1>1. PICK buf : buf = c.p.inbuf
  OBVIOUS
<1>2. Understood(c, buf, w, need)
  BY <1>1, Understands
<1>3. buf \in Seq(Unit) /\ w \in Seq(Unit) /\ Len(buf) \in Nat /\ Len(w) \in Nat /\ Len(buf \o w) = Len(buf) + Len(w)
  BY <1>2 DEF Understood
<1>4. c.ret = IF c.p.size = 0 \/ Len(buf) + 1 < c.p.size THEN 0
              ELSE IF Len(buf) + 1 = c.p.size THEN 1 ELSE -1
  BY <1>2 DEF Understood
<1>5. CASE c.p = [pg EXCEPT !.inbuf = buf] /\ buf \o w = Rest
  <2>1. PICK t \in Types, k \in Nat : t = pg.type /\ k = pg.size
    BY <1>0 DEF PgType
  <2>2. c.p = [pg EXCEPT !.type = t, !.size = k, !.inbuf = buf]
    BY <1>0, <1>5, <2>1 DEF PgType
  <2>3. ReadMore(c.p) /\ c.p.type = t /\ c.p.size = k
    <3>1. pg \in PgType /\ t \in Types /\ k \in Nat /\ buf \in Seq(Unit)
      BY <1>0, <1>3, <2>1
    <3>2. PICK r, old : r = c.p /\ old = pg
      OBVIOUS
    <3>3. /\ r \in PgType /\ r.state = old.state /\ r.out = old.out /\ r.epoll = old.epoll
          /\ r.login = old.login /\ SameTxns(r, old) /\ r.type = t /\ r.size = k
      <4>1. old \in PgType /\ r = WithHeader(old, t, k, buf)
        BY <2>2, <3>1, <3>2 DEF WithHeader
      <4> QED BY ONLY <3>1, <4>1, SetRead
    <3> QED BY <3>2, <3>3 DEF ReadMore, SameTxns
  <2> QED BY <1>1, <1>3, <1>4, <1>5, <2>1, <2>3 DEF Reads
<1>6. CASE /\ pg.size = 0 /\ Len(Rest) >= need
           /\ c.p = [pg EXCEPT !.type = IF need = 2 THEN TypeIn(Rest[1]) ELSE @,
                               !.size = SizeIn(Rest[need]), !.inbuf = buf]
           /\ buf \o w = SubSeq(Rest, need + 1, Len(Rest))
  <2>0. Rest[1] \in Unit /\ Rest[need] \in Unit
    BY <1>0, <1>6
  <2>1. PICK t \in Types, k \in Nat : t = (IF need = 2 THEN TypeIn(Rest[1]) ELSE pg.type) /\ k = SizeIn(Rest[need])
    BY <1>0, <2>0, AnyHeader DEF PgType
  <2>2. c.p = [pg EXCEPT !.type = t, !.size = k, !.inbuf = buf]
    BY <1>0, <1>6, <2>1 DEF PgType
  <2>3. ReadMore(c.p) /\ c.p.type = t /\ c.p.size = k
    <3>1. pg \in PgType /\ t \in Types /\ k \in Nat /\ buf \in Seq(Unit)
      BY <1>0, <1>3, <2>1
    <3>2. PICK r, old : r = c.p /\ old = pg
      OBVIOUS
    <3>3. /\ r \in PgType /\ r.state = old.state /\ r.out = old.out /\ r.epoll = old.epoll
          /\ r.login = old.login /\ SameTxns(r, old) /\ r.type = t /\ r.size = k
      <4>1. old \in PgType /\ r = WithHeader(old, t, k, buf)
        BY <2>2, <3>1, <3>2 DEF WithHeader
      <4> QED BY ONLY <3>1, <4>1, SetRead
    <3> QED BY <3>2, <3>3 DEF ReadMore, SameTxns
  <2>4. PICK rest : rest = SubSeq(Rest, need + 1, Len(Rest)) /\ buf \o w = rest
    BY <1>6
  <2>5. Reads(c, w, t, k, rest)
    BY <1>1, <1>3, <1>4, <2>3, <2>4 DEF Reads
  <2> QED BY <1>6, <2>1, <2>4, <2>5
<1> QED BY <1>2, <1>5, <1>6 DEF Understood

\* What is left of a message when its header is taken off.
LEMMA Bodies ==
  /\ SubSeq(Units("SSL"), 2, Len(Units("SSL"))) = <<<<"SSL", 2>>>>
  /\ SubSeq(Units("STARTUP"), 2, Len(Units("STARTUP"))) = <<<<"STARTUP", 2>>, <<"STARTUP", 3>>>>
  /\ SubSeq(Units("TERMINATE"), 3, Len(Units("TERMINATE"))) = <<>>
  /\ \A m \in {"PASSWORD"} \cup Queries : SubSeq(Units(m), 3, Len(Units(m))) = BodyOf(m)
<1>1. ASSUME NEW m \in Kinds, NEW k \in 1 .. 2, NEW u, u = Units(m), k <= Len(u),
             NEW v, v = SubSeq(u, k + 1, Len(u))
      PROVE  /\ v \in Seq(Unit) /\ Len(v) = Len(u) - k
             /\ Len(u) - k >= 1 => v[1] = <<m, k + 1>>
             /\ Len(u) - k >= 2 => v[2] = <<m, k + 2>>
  <2>1. u \in Seq(Unit) /\ Len(u) \in Nat /\ \A i \in 1 .. Len(u) : u[i] = <<m, i>>
    BY <1>1, UnitsOf
  <2>2. k \in Nat
    OBVIOUS
  <2>3. v \in Seq(Unit) /\ Len(v) = Len(u) - k /\ \A i \in 1 .. Len(u) - k : v[i] = u[k + i]
    BY ONLY <1>1, <2>1, <2>2, AfterHeader
  <2> QED BY <2>1, <2>2, <2>3
<1>2. SubSeq(Units("SSL"), 2, Len(Units("SSL"))) = <<<<"SSL", 2>>>>
  <2>0. PICK k \in 1 .. 2, m \in Kinds : k = 1 /\ m = "SSL" /\ Len(Units(m)) = 2
    BY UnitsOf DEF Kinds
  <2>1. PICK v : v = SubSeq(Units(m), k + 1, Len(Units(m)))
    OBVIOUS
  <2>2. v \in Seq(Unit) /\ Len(v) = 1 /\ v[1] = <<m, 2>>
    BY <1>1, <2>0, <2>1
  <2>3. v = <<v[1]>>
    BY ONLY <2>2, ShortSeqs
  <2>4. k + 1 = 2
    BY <2>0
  <2> QED BY <2>0, <2>1, <2>2, <2>3, <2>4
<1>3. SubSeq(Units("STARTUP"), 2, Len(Units("STARTUP"))) = <<<<"STARTUP", 2>>, <<"STARTUP", 3>>>>
  <2>0. PICK k \in 1 .. 2, m \in Kinds : k = 1 /\ m = "STARTUP" /\ Len(Units(m)) = 3
    BY UnitsOf DEF Kinds
  <2>1. PICK v : v = SubSeq(Units(m), k + 1, Len(Units(m)))
    OBVIOUS
  <2>2. v \in Seq(Unit) /\ Len(v) = 2 /\ v[1] = <<m, 2>> /\ v[2] = <<m, 3>>
    BY <1>1, <2>0, <2>1
  <2>3. v = <<v[1], v[2]>>
    BY ONLY <2>2, ShortSeqs
  <2>4. k + 1 = 2
    BY <2>0
  <2> QED BY <2>0, <2>1, <2>2, <2>3, <2>4
<1>4. SubSeq(Units("TERMINATE"), 3, Len(Units("TERMINATE"))) = <<>>
  <2>0. PICK k \in 1 .. 2, m \in Kinds : k = 2 /\ m = "TERMINATE" /\ Len(Units(m)) = 2
    BY UnitsOf DEF Kinds
  <2>1. PICK v : v = SubSeq(Units(m), k + 1, Len(Units(m)))
    OBVIOUS
  <2>2. v \in Seq(Unit) /\ Len(v) = 0
    BY <1>1, <2>0, <2>1
  <2>3. v = <<>> /\ k + 1 = 3
    BY <2>0, <2>2, ShortSeqs
  <2> QED BY <2>0, <2>1, <2>3
<1>5. ASSUME NEW m \in {"PASSWORD"} \cup Queries PROVE SubSeq(Units(m), 3, Len(Units(m))) = BodyOf(m)
  <2>0. PICK k \in 1 .. 2 : k = 2 /\ m \in Kinds /\ Len(Units(m)) = 3
    BY UnitsOf DEF Kinds
  <2>1. PICK v : v = SubSeq(Units(m), k + 1, Len(Units(m)))
    OBVIOUS
  <2>2. v \in Seq(Unit) /\ Len(v) = 1 /\ v[1] = <<m, 3>>
    <3>1. PICK u : u = Units(m) /\ k <= Len(u) /\ Len(u) - k = 1 /\ k + 1 = 3
      BY <2>0
    <3>2. m \in Kinds /\ k \in 1 .. 2 /\ u = Units(m) /\ v = SubSeq(u, k + 1, Len(u)) /\ k <= Len(u)
      BY <2>0, <2>1, <3>1
    <3>3. v \in Seq(Unit) /\ Len(v) = Len(u) - k /\ (Len(u) - k >= 1 => v[1] = <<m, k + 1>>)
      BY ONLY <1>1, <3>2
    <3> QED BY <3>1, <3>3
  <2>3. v = <<v[1]>>
    BY ONLY <2>2, ShortSeqs
  <2>4. k + 1 = 3
    BY <2>0
  <2> QED BY <2>0, <2>1, <2>2, <2>3, <2>4 DEF BodyOf
<1> QED BY <1>2, <1>3, <1>4, <1>5

\* Without a header no request is complete.
LEMMA NothingYet ==
  ASSUME NEW c, NEW w, NEW t, NEW k, k = 0, NEW rest, Reads(c, w, t, k, rest)
  PROVE  /\ ReadMore(c.p) /\ w \in Seq(Unit) /\ c.ret = 0 /\ c.p.size = 0 /\ c.p.inbuf \o w = rest
         /\ c.p.type = t
<1>1. c.ret = IF k = 0 \/ Len(c.p.inbuf) + 1 < k THEN 0
             ELSE IF Len(c.p.inbuf) + 1 = k THEN 1 ELSE -1
  BY DEF Reads
<1>2. c.ret = 0
  BY <1>1
<1> QED BY <1>2 DEF Reads

\* A request is complete when all there is of it is read.
LEMMA AllOfIt ==
  ASSUME NEW c, NEW w, NEW t, NEW k \in Nat \ {0}, NEW rest, Reads(c, w, t, k, rest), Len(rest) = k - 1
  PROVE  c.ret \in {0, 1} /\ (c.ret = 1 => w = <<>>) /\ (w = <<>> => c.ret = 1)
<1>1. PICK a, b, ret : a = Len(c.p.inbuf) /\ b = Len(w) /\ ret = c.ret
  OBVIOUS
<1>2. /\ a \in Nat /\ b \in Nat /\ a + b = k - 1
      /\ ret = IF k = 0 \/ a + 1 < k THEN 0 ELSE IF a + 1 = k THEN 1 ELSE -1
  BY <1>1 DEF Reads
<1>3. ret \in {0, 1} /\ (ret = 1 <=> b = 0)
  BY ONLY k \in Nat \ {0}, <1>2
<1>4. w \in Seq(Unit)
  BY DEF Reads
<1>5. Len(w) = 0 <=> w = <<>>
  BY ONLY <1>4
<1> QED BY <1>1, <1>3, <1>5

\* The message m is on its way, with the header in p and what is left of it in inbuf and w.
OnItsWay(p, w, m) ==
  \/ p.size = 0 /\ p.inbuf \o w = Units(m)
  \/ p.size = 2 /\ p.type = m /\ p.inbuf \o w = BodyOf(m)

\* A read of the message m completes it, and then nothing is left, or leaves it on its way.
ReadsMessage(c, w, m) ==
  /\ ReadMore(c.p) /\ w \in Seq(Unit) /\ c.ret \in {0, 1}
  /\ c.ret = 0 => OnItsWay(c.p, w, m)
  /\ c.ret = 1 => c.p.type = m /\ w = <<>>

LEMMA ReadsTyped ==
  ASSUME Shape, pg.state # "BEGIN", NEW m \in {"PASSWORD"} \cup Queries, Reading(m),
         NEW n \in 1 .. Len(wire), NEW w, w = SubSeq(wire, n + 1, Len(wire)),
         NEW c, c = InitCmd(SubSeq(wire, 1, n))
  PROVE  ReadsMessage(c, w, m)
<1>1. PICK need : need = 2
  OBVIOUS
<1>2. m \in Kinds /\ Len(BodyOf(m)) = 1 /\ Len(Units(m)) = 3 /\ Units(m)[1] = <<m, 1>> /\ Units(m)[2] = <<m, 2>>
  <2>1. m \in Kinds
    BY DEF Kinds
  <2>2. Len(Units(m)) = 3 /\ \A i \in 1 .. Len(Units(m)) : Units(m)[i] = <<m, i>>
    BY <2>1, UnitsOf
  <2>3. Len(BodyOf(m)) = 1
    BY DEF BodyOf
  <2> QED BY <2>1, <2>2, <2>3
<1>3. ASSUME Reads(c, w, m, 2, BodyOf(m)) PROVE ReadsMessage(c, w, m)
  <2>1. PICK k \in Nat \ {0} : k = 2 /\ Len(BodyOf(m)) = k - 1
    BY <1>2
  <2>2. c.ret \in {0, 1} /\ (c.ret = 1 => w = <<>>)
    <3>1. PICK rest : rest = BodyOf(m)
      OBVIOUS
    <3>2. Reads(c, w, m, k, rest) /\ Len(rest) = k - 1
      BY <1>3, <2>1, <3>1
    <3> QED BY ONLY k \in Nat \ {0}, <3>2, AllOfIt
  <2>3. OnItsWay(c.p, w, m) /\ ReadMore(c.p) /\ w \in Seq(Unit) /\ c.p.type = m
    BY <1>3 DEF Reads, OnItsWay
  <2> QED BY <2>2, <2>3 DEF ReadsMessage
<1>4. CASE Reads(c, w, pg.type, pg.size, Rest)
  <2>1. CASE pg.size = 0 /\ Rest = Units(m)
    <3>1. ReadMore(c.p) /\ w \in Seq(Unit) /\ c.ret = 0 /\ c.p.size = 0 /\ c.p.inbuf \o w = Rest
      BY <1>4, <2>1, NothingYet
    <3>2. OnItsWay(c.p, w, m)
      BY <2>1, <3>1 DEF OnItsWay
    <3> QED BY <3>1, <3>2 DEF ReadsMessage
  <2>2. CASE pg.size = 2 /\ pg.type = m /\ Rest = BodyOf(m)
    BY <1>3, <1>4, <2>2
  <2> QED BY <2>1, <2>2 DEF Reading
<1>5. CASE /\ pg.size = 0
           /\ Reads(c, w, IF need = 2 THEN TypeIn(Rest[1]) ELSE pg.type, SizeIn(Rest[need]),
                    SubSeq(Rest, need + 1, Len(Rest)))
  <2>1. Rest = Units(m)
    BY <1>5 DEF Reading
  <2>2. TypeIn(Rest[1]) = m /\ SizeIn(Rest[need]) = 2
    BY <1>1, <1>2, <2>1, Headers
  <2>3. SubSeq(Rest, need + 1, Len(Rest)) = BodyOf(m)
    <3>1. need + 1 = 3
      BY <1>1
    <3> QED BY <2>1, <3>1, Bodies
  <2> QED BY <1>1, <1>3, <1>5, <2>2, <2>3
<1>6. need = IF pg.state = "BEGIN" THEN 1 ELSE 2
  BY <1>1
<1> QED BY <1>4, <1>5, <1>6, ReadsOn

\* A message without a body is complete with its header.
LEMMA ReadsTerminate ==
  ASSUME Shape, pg.state # "BEGIN", pg.size = 0, Rest = Units("TERMINATE"),
         NEW n \in 1 .. Len(wire), NEW w, w = SubSeq(wire, n + 1, Len(wire)),
         NEW c, c = InitCmd(SubSeq(wire, 1, n))
  PROVE  ReadsMessage(c, w, "TERMINATE") /\ (c.ret = 0 => c.p.size = 0)
<1>1. PICK need : need = 2
  OBVIOUS
<1>2. "TERMINATE" \in Kinds /\ Units("TERMINATE")[1] = <<"TERMINATE", 1>> /\ Units("TERMINATE")[2] = <<"TERMINATE", 2>>
  BY UnitsOf DEF Kinds
<1>3. CASE Reads(c, w, pg.type, pg.size, Rest)
  <2>1. ReadMore(c.p) /\ w \in Seq(Unit) /\ c.ret = 0 /\ c.p.size = 0 /\ c.p.inbuf \o w = Rest
    BY <1>3, NothingYet
  <2>2. OnItsWay(c.p, w, "TERMINATE")
    BY <2>1 DEF OnItsWay
  <2> QED BY <2>1, <2>2 DEF ReadsMessage
<1>4. CASE Reads(c, w, IF need = 2 THEN TypeIn(Rest[1]) ELSE pg.type, SizeIn(Rest[need]),
                 SubSeq(Rest, need + 1, Len(Rest)))
  <2>1. TypeIn(Rest[1]) = "TERMINATE" /\ SizeIn(Rest[need]) = 1
    BY <1>1, <1>2, Headers
  <2>2. SubSeq(Rest, need + 1, Len(Rest)) = <<>>
    <3>1. need + 1 = 3
      BY <1>1
    <3> QED BY <3>1, Bodies
  <2>3. Reads(c, w, "TERMINATE", 1, <<>>)
    BY <1>1, <1>4, <2>1, <2>2
  <2>4. PICK k \in Nat \ {0} : k = 1
    OBVIOUS
  <2>5. c.ret \in {0, 1} /\ (c.ret = 1 => w = <<>>) /\ (w = <<>> => c.ret = 1)
    <3>1. PICK rest : rest = <<>>
      OBVIOUS
    <3>2. Reads(c, w, "TERMINATE", k, rest) /\ Len(rest) = k - 1
      BY <2>3, <2>4, <3>1
    <3> QED BY ONLY k \in Nat \ {0}, <3>2, AllOfIt
  <2>6. w \in Seq(Unit) /\ ReadMore(c.p) /\ c.p.type = "TERMINATE"
    BY <2>3 DEF Reads
  <2>7. w = <<>> /\ c.ret = 1
    <3>1. Len(c.p.inbuf) \in Nat /\ Len(w) \in Nat /\ Len(c.p.inbuf) + Len(w) = Len(<<>>)
      BY <2>3 DEF Reads
    <3>2. Len(w) = 0
      BY ONLY <3>1
    <3>3. w = <<>>
      BY ONLY <2>6, <3>2
    <3> QED BY <2>5, <3>3
  <2> QED BY <2>6, <2>7 DEF ReadsMessage
<1>5. need = IF pg.state = "BEGIN" THEN 1 ELSE 2
  BY <1>1
<1> QED BY <1>3, <1>4, <1>5, ReadsOn

LEMMA Emptied ==
  ASSUME NEW p \in PgType, NEW r, r = [p EXCEPT !.out = <<>>]
  PROVE  SameSession(r, p) /\ SameTxns(r, p) /\ r.out = <<>> /\ r.type = p.type
<1>1. <<>> \in Seq(Replies)
  OBVIOUS
<1>2. r \in PgType
  BY <1>1 DEF PgType
<1> QED BY <1>2 DEF PgType, SameSession, SameTxns

LEMMA NextOf ==
  ASSUME NEW p \in PgType, NEW r, r = NextRequest(p)
  PROVE  /\ r \in PgType /\ r.state = p.state /\ r.epoll = p.epoll /\ r.login = p.login /\ r.out = p.out
         /\ SameTxns(r, p) /\ r.inbuf = <<>> /\ r.size = 0
<1>1. <<>> \in Seq(Unit) /\ 0 \in Nat
  OBVIOUS
<1>2. r = [p EXCEPT !.inbuf = <<>>, !.size = 0]
  BY DEF NextRequest
<1>3. r \in PgType
  BY <1>1, <1>2 DEF PgType
<1> QED BY <1>1, <1>2, <1>3 DEF PgType, SameTxns

\* A read of an open session, as far as it completes nothing.
LEMMA StaysOpen ==
  ASSUME PgInv, pg.state \in {"ESTABLISHED", "ABORTED"}, UNCHANGED <<client, asked, got>>,
         wire' \in Seq(Unit), ReadMore(pg'), Rest # <<>>,
         \/ /\ Rest = Units("TERMINATE") /\ Count(Readies) = Len(asked) + 1
            /\ pg'.size = 0 /\ Rest' = Units("TERMINATE") /\ client = "gone"
         \/ Count(Readies) = Len(asked) /\ \E q \in Queries : Reading(q)'
  PROVE  PgInv' /\ (pg.state = "ABORTED" => pg'.running = {} /\ pg'.txns = {})
<1>0. Open
  BY DEF PgInv
<1>1. Count(Readies)' = Count(Readies) /\ Count({"C", "E"})' = Count({"C", "E"})
  BY DEF Count, Readies
<1>2. Shape'
  BY DEF PgInv, Shape, ReadMore
<1>3. LastReady => LastReady'
  BY DEF LastReady, ReadMore
<1>4. (ItsBlock(pg) => ItsBlock(pg')) /\ (FailedBlock(pg) => FailedBlock(pg'))
  BY DEF ItsBlock, FailedBlock, ReadMore
<1>5. Len(asked) \in Nat
  BY DEF PgInv, Shape
<1>6. Open'
  <2>1. /\ client' \in {"loggingin", "gone"} /\ pg'.epoll = "IN" /\ ~pg'.login /\ pg'.state = pg.state
        /\ Count(Readies)' >= 1 /\ Count({"C", "E"})' = Count(Readies)' - 1
        /\ pg'.state = "ABORTED" => FailedBlock(pg')
    BY <1>0, <1>1, <1>4 DEF Open, ReadMore
  <2>2. CASE /\ Rest = Units("TERMINATE") /\ Count(Readies) = Len(asked) + 1
             /\ pg'.size = 0 /\ Rest' = Units("TERMINATE") /\ client = "gone"
    <3>1. (pg'.state = "ESTABLISHED" => ItsBlock(pg')) /\ LastReady'
      BY <1>0, <1>3, <1>4, <1>5, <2>1, <2>2 DEF Open
    <3> QED BY <1>1, <2>1, <2>2, <3>1 DEF Open
  <2>3. CASE Count(Readies) = Len(asked) /\ \E q \in Queries : Reading(q)'
    <3>1. pg'.state = "ESTABLISHED" => ItsBlock(pg')
      BY <1>0, <1>4, <1>5, <2>1, <2>3 DEF Open
    <3> QED BY <1>1, <2>1, <2>3, <3>1 DEF Open
  <2> QED BY <2>2, <2>3
<1>7. pg'.state = pg.state /\ pg'.running = pg.running /\ pg'.txns = pg.txns
  BY DEF ReadMore
<1>8. pg.state = "ABORTED" => pg.running = {} /\ pg.txns = {}
  BY <1>0 DEF Open, FailedBlock
<1> QED BY <1>2, <1>6, <1>7, <1>8 DEF PgInv

\* What a read does.
LEMMA ReadIs ==
  ASSUME Shape, NEW n \in 1 .. Len(wire), Read(n), NEW c, c = InitCmd(SubSeq(wire, 1, n))
  PROVE  /\ wire' = SubSeq(wire, n + 1, Len(wire)) /\ UNCHANGED <<client, asked>> /\ pg.epoll = "IN"
         /\ c.ret = 0 => pg' = c.p /\ got' = got
         /\ c.ret = 1 => Request([c.p EXCEPT !.out = <<>>])
         /\ wire # <<>> /\ Rest # <<>>
<1>1. /\ wire' = SubSeq(wire, n + 1, Len(wire)) /\ UNCHANGED <<client, asked>> /\ pg.epoll = "IN"
      /\ CASE c.ret = -1 -> Silently(CloseSocket(c.p))
           [] c.ret = 0  -> Silently(c.p)
           [] c.ret = 1  -> Request([c.p EXCEPT !.out = <<>>])
  BY DEF Read
<1>2. ASSUME c.ret = 0 PROVE pg' = c.p /\ got' = got
  <2>1. c.ret # -1 /\ c.ret # 1
    BY <1>2
  <2> QED BY <1>1, <1>2, <2>1 DEF Silently
<1>3. ASSUME c.ret = 1 PROVE Request([c.p EXCEPT !.out = <<>>])
  <2>1. c.ret # -1 /\ c.ret # 0
    BY <1>3
  <2> QED BY <1>1, <1>3, <2>1
<1>4. wire # <<>> /\ Rest # <<>>
  <2>1. pg.inbuf \in Seq(Unit) /\ wire \in Seq(Unit)
    BY DEF Shape, PgType
  <2>2. wire # <<>>
    BY <2>1
  <2>3. Len(pg.inbuf \o wire) = Len(pg.inbuf) + Len(wire) /\ Len(wire) # 0 /\ Len(wire) \in Nat /\ Len(pg.inbuf) \in Nat
    BY <2>1
  <2>4. pg.inbuf \o wire # <<>>
    BY <2>3
  <2> QED BY <2>2, <2>4 DEF Rest
<1> QED BY <1>1, <1>2, <1>3, <1>4

\* What a complete request of an open session does.
LEMMA RequestIs ==
  ASSUME NEW p, p.state \in {"ESTABLISHED", "ABORTED"}, Request(p)
  PROVE  /\ p.type = "TERMINATE" => pg' = CloseSocket(p) /\ got' = got
         /\ p.type \in Queries /\ p.state = "ABORTED" => AbortedStatement(NextRequest(p), p.type)
         /\ p.type \in Queries /\ p.state = "ESTABLISHED" => ExecuteStatement(NextRequest(p), p.type)
<1>1. "TERMINATE" \notin Queries
  BY PgAssumption
<1>2. (CASE p.type = "TERMINATE" -> Silently(CloseSocket(p))
         [] p.type \in Queries   ->
              IF p.state = "ABORTED" THEN AbortedStatement(NextRequest(p), p.type)
              ELSE ExecuteStatement(NextRequest(p), p.type)
         [] OTHER                -> Silently(p))
  BY DEF Request
<1>3. ASSUME p.type = "TERMINATE" PROVE pg' = CloseSocket(p) /\ got' = got
  BY <1>1, <1>2, <1>3 DEF Silently
<1>4. ASSUME p.type \in Queries
      PROVE  IF p.state = "ABORTED" THEN AbortedStatement(NextRequest(p), p.type)
             ELSE ExecuteStatement(NextRequest(p), p.type)
  BY <1>1, <1>2, <1>4
<1> QED BY <1>3, <1>4

\* A read of an open session.
LEMMA ReadsOpen ==
  ASSUME WritesFit, PgInv, pg.state \in {"ESTABLISHED", "ABORTED"}, NEW n \in 1 .. Len(wire), Read(n)
  PROVE  PgInv' /\ (pg.state = "ABORTED" => pg'.running = {} /\ pg'.txns = {})
<1>1. PICK c, w : c = InitCmd(SubSeq(wire, 1, n)) /\ w = SubSeq(wire, n + 1, Len(wire))
  OBVIOUS
<1>2. Shape /\ Open /\ pg.state # "BEGIN"
  BY DEF PgInv
<1>3. /\ wire' = w /\ UNCHANGED <<client, asked>> /\ Rest # <<>>
      /\ c.ret = 0 => pg' = c.p /\ got' = got
      /\ c.ret = 1 => Request([c.p EXCEPT !.out = <<>>])
  BY <1>1, <1>2, ReadIs
<1>4. \/ /\ Count(Readies) = Len(asked) + 1 /\ pg.size = 0 /\ client = "gone" /\ Rest = Units("TERMINATE")
      \/ /\ Count(Readies) = Len(asked) /\ (pg.state = "ESTABLISHED" => ItsBlock(pg))
         /\ \E q \in Queries : Reading(q)
  BY <1>2, <1>3 DEF Open
<1>5. PICK p : p = [c.p EXCEPT !.out = <<>>]
  OBVIOUS
<1>6. ASSUME ReadMore(c.p)
      PROVE  /\ p \in PgType /\ p.state = pg.state /\ SameTxns(p, pg) /\ p.out = <<>>
             /\ p.epoll = pg.epoll /\ p.login = pg.login /\ p.type = c.p.type
  <2>1. c.p \in PgType
    BY <1>6 DEF ReadMore
  <2>2. SameSession(p, c.p) /\ SameTxns(p, c.p) /\ p.out = <<>> /\ p.type = c.p.type
    <3>1. PICK b : b = c.p
      OBVIOUS
    <3>2. b \in PgType /\ p = [b EXCEPT !.out = <<>>]
      BY <1>5, <2>1, <3>1
    <3>3. SameSession(p, b) /\ SameTxns(p, b) /\ p.out = <<>> /\ p.type = b.type
      BY ONLY <3>2, Emptied
    <3> QED BY <3>1, <3>3
  <2> QED BY <1>6, <2>2 DEF ReadMore, SameSession, SameTxns
<1>7. CASE Count(Readies) = Len(asked) + 1 /\ pg.size = 0 /\ client = "gone" /\ Rest = Units("TERMINATE")
  <2>1. ReadsMessage(c, w, "TERMINATE") /\ (c.ret = 0 => c.p.size = 0)
    BY <1>1, <1>2, <1>7, ReadsTerminate
  <2>2. ReadMore(c.p) /\ w \in Seq(Unit) /\ c.ret \in {0, 1}
    BY <2>1 DEF ReadsMessage
  <2>3. CASE c.ret = 0
    <3>1. OnItsWay(c.p, w, "TERMINATE") /\ c.p.size = 0
      BY <2>1, <2>3 DEF ReadsMessage
    <3>2. pg' = c.p /\ got' = got /\ wire' = w
      BY <1>3, <2>3
    <3>3. pg'.size = 0 /\ Rest' = Units("TERMINATE") /\ ReadMore(pg')
      BY <2>2, <3>1, <3>2 DEF OnItsWay, Rest
    <3> QED BY <1>3, <1>7, <2>2, <3>2, <3>3, StaysOpen
  <2>4. CASE c.ret = 1
    <3>0. p \in PgType /\ p.state = pg.state /\ p.type = "TERMINATE" /\ SameTxns(p, pg)
      BY <1>6, <2>1, <2>2, <2>4 DEF ReadsMessage
    <3>1. Request(p)
      BY <1>3, <1>5, <2>4
    <3>2. pg' = CloseSocket(p) /\ got' = got
      BY <3>0, <3>1, RequestIs
    <3>3. pg' \in PgType /\ pg'.state = "EXITING"
      BY <3>0, <3>2, CloseSocketIs
    <3>4. PgInv'
      BY <1>3, <2>2, <3>2, <3>3, Closes
    <3>5. ASSUME pg.state = "ABORTED" PROVE pg'.running = {} /\ pg'.txns = {}
      <4>1. p.tp = NoTxn /\ p.running = {} /\ p.txns = {}
        BY <1>2, <3>0, <3>5 DEF Open, FailedBlock, SameTxns
      <4> QED BY <3>0, <3>2, <4>1 DEF CloseSocket, PgType
    <3> QED BY <3>4, <3>5
  <2> QED BY <2>2, <2>3, <2>4
<1>8. CASE /\ Count(Readies) = Len(asked) /\ (pg.state = "ESTABLISHED" => ItsBlock(pg))
           /\ \E q \in Queries : Reading(q)
  <2>0. PICK q \in Queries : Reading(q)
    BY <1>8
  <2>1. ReadsMessage(c, w, q)
    BY <1>1, <1>2, <2>0, ReadsTyped
  <2>2. ReadMore(c.p) /\ w \in Seq(Unit) /\ c.ret \in {0, 1}
    BY <2>1 DEF ReadsMessage
  <2>3. CASE c.ret = 0
    <3>1. OnItsWay(c.p, w, q)
      BY <2>1, <2>3 DEF ReadsMessage
    <3>2. pg' = c.p /\ got' = got /\ wire' = w
      BY <1>3, <2>3
    <3>3. Reading(q)' /\ ReadMore(pg')
      BY <2>2, <3>1, <3>2 DEF OnItsWay, Rest, Reading
    <3> QED BY <1>3, <1>8, <2>2, <3>2, <3>3, StaysOpen
  <2>4. CASE c.ret = 1
    <3>0. /\ p \in PgType /\ p.state = pg.state /\ p.type = q /\ SameTxns(p, pg) /\ p.out = <<>>
          /\ p.epoll = pg.epoll /\ p.login = pg.login /\ w = <<>>
      BY <1>6, <2>1, <2>2, <2>4 DEF ReadsMessage
    <3>1. PICK r : r = NextRequest(p)
      OBVIOUS
    <3>2. /\ r \in PgType /\ r.inbuf = <<>> /\ r.size = 0 /\ r.state = pg.state /\ r.epoll = pg.epoll
          /\ r.login = pg.login /\ r.out = <<>> /\ SameTxns(r, p)
      BY <3>0, <3>1, NextOf
    <3>3. Free(r)
      BY <1>2, <3>2 DEF Free, Open
    <3>4. /\ pg.state = "ABORTED" => AbortedStatement(r, q)
          /\ pg.state = "ESTABLISHED" => ExecuteStatement(r, q)
      <4>1. Request(p)
        BY <1>3, <1>5, <2>4
      <4> QED BY <3>0, <3>1, <4>1, RequestIs
    <3>5. Waiting
      BY <1>2, <1>8 DEF Open, Waiting
    <3>6. SameTxns(r, pg)
      BY <3>0, <3>2 DEF SameTxns
    <3>7. CASE pg.state = "ABORTED"
      <4>1. FailedBlock(r)
        BY <1>2, <3>6, <3>7, SameBlock DEF Open
      <4> QED BY <1>2, <1>3, <3>0, <3>2, <3>3, <3>4, <3>5, <3>7, <4>1, Refuses
    <3>8. CASE pg.state = "ESTABLISHED"
      <4>1. ItsBlock(r)
        BY <1>8, <3>6, <3>8, SameBlock
      <4> QED BY <1>2, <1>3, <3>0, <3>2, <3>3, <3>4, <3>5, <3>8, <4>1, Executes
    <3> QED BY <3>7, <3>8
  <2> QED BY <2>2, <2>3, <2>4
<1> QED BY <1>4, <1>7, <1>8

-----------------------------------------------------------------------------
(* Logins.                                                                 *)

LEMMA AllIn ==
  ASSUME NEW S, NEW g \in Seq(Replies), NEW h \in Seq(Replies),
         \A i \in DOMAIN g : g[i] \in S, \A i \in DOMAIN h : h[i] \in S
  PROVE  g \o h \in Seq(Replies) /\ \A i \in DOMAIN (g \o h) : (g \o h)[i] \in S
<1>1. g \o h \in Seq(Replies) /\ Len(g \o h) = Len(g) + Len(h) /\ Len(g) \in Nat /\ Len(h) \in Nat
  OBVIOUS
<1>2. DOMAIN g = 1 .. Len(g) /\ DOMAIN h = 1 .. Len(h) /\ DOMAIN (g \o h) = 1 .. (Len(g) + Len(h))
  BY <1>1
<1>3. ASSUME NEW i \in 1 .. (Len(g) + Len(h)) PROVE (g \o h)[i] \in S
  <2>1. CASE i <= Len(g)
    <3>1. (g \o h)[i] = g[i] /\ i \in DOMAIN g
      BY <1>1, <1>2, <2>1
    <3> QED BY <3>1
  <2>2. CASE i > Len(g)
    <3>1. (g \o h)[i] = h[i - Len(g)] /\ i - Len(g) \in DOMAIN h
      BY <1>1, <1>2, <2>2
    <3> QED BY <3>1
  <2> QED BY <1>1, <2>1, <2>2
<1> QED BY <1>1, <1>2, <1>3

\* A read of a session that logs in.
LEMMA ReadsPassword ==
  ASSUME PgInv, pg.state = "AUTH", NEW n \in 1 .. Len(wire), Read(n)
  PROVE  PgInv'
<1>1. PICK c, w : c = InitCmd(SubSeq(wire, 1, n)) /\ w = SubSeq(wire, n + 1, Len(wire))
  OBVIOUS
<1>2. Shape /\ LoggingIn /\ pg.state # "BEGIN"
  BY DEF PgInv
<1>3. /\ wire' = w /\ UNCHANGED <<client, asked>> /\ Rest # <<>> /\ wire # <<>>
      /\ c.ret = 0 => pg' = c.p /\ got' = got
      /\ c.ret = 1 => Request([c.p EXCEPT !.out = <<>>])
  BY <1>1, <1>2, ReadIs
<1>4. /\ ~pg.login /\ client # "started" /\ pg.epoll = "IN" /\ Reading("PASSWORD")
      /\ \A i \in DOMAIN got : got[i] # "E"
  BY <1>2, <1>3 DEF LoggingIn
<1>5. ReadsMessage(c, w, "PASSWORD")
  BY <1>1, <1>2, <1>4, ReadsTyped
<1>6. ReadMore(c.p) /\ w \in Seq(Unit) /\ c.ret \in {0, 1}
  BY <1>5 DEF ReadsMessage
<1>7. CASE c.ret = 0
  <2>1. OnItsWay(c.p, w, "PASSWORD")
    BY <1>5, <1>7 DEF ReadsMessage
  <2>2. pg' = c.p /\ got' = got /\ wire' = w
    BY <1>3, <1>7
  <2>3. Reading("PASSWORD")' /\ ReadMore(pg')
    BY <1>6, <2>1, <2>2 DEF OnItsWay, Rest, Reading
  <2>4. Shape'
    BY <1>2, <1>3, <1>6, <2>2, <2>3 DEF Shape, ReadMore
  <2>5. LoggingIn'
    BY <1>2, <1>3, <1>4, <2>2, <2>3 DEF LoggingIn, ReadMore, AtEase
  <2> QED BY <2>3, <2>4, <2>5 DEF PgInv, ReadMore
<1>8. CASE c.ret = 1
  <2>1. PICK b, p : b = c.p /\ p = [b EXCEPT !.out = <<>>]
    OBVIOUS
  <2>2. b \in PgType /\ b.type = "PASSWORD" /\ w = <<>> /\ ReadMore(b)
    BY <1>5, <1>6, <1>8, <2>1 DEF ReadsMessage, ReadMore
  <2>3. SameSession(p, b) /\ SameTxns(p, b) /\ p.out = <<>> /\ p.type = b.type
    BY ONLY <2>1, <2>2, Emptied
  <2>4. p \in PgType /\ p.state = "AUTH" /\ p.type = "PASSWORD"
    BY <2>2, <2>3 DEF SameSession, ReadMore
  <2>5. Request(p)
    BY <1>3, <1>8, <2>1
  <2>6. Silently([p EXCEPT !.login = TRUE])
    BY <2>4, <2>5 DEF Request
  <2>7. pg' = [p EXCEPT !.login = TRUE] /\ got' = got
    BY <2>6 DEF Silently
  <2>8. pg' \in PgType
    BY <2>4, <2>7 DEF PgType
  <2>9. /\ pg'.state = "AUTH" /\ SameTxns(pg', p) /\ pg'.out = p.out /\ pg'.epoll = p.epoll
    BY <2>4, <2>7, <2>8 DEF PgType, SameTxns
  <2>10. /\ AtEase' /\ pg'.tp = NoTxn /\ ~pg'.inblock /\ pg'.epoll = "IN" /\ pg'.out = <<>>
    BY <1>2, <1>4, <2>2, <2>3, <2>9 DEF ReadMore, SameSession, SameTxns, LoggingIn, AtEase
  <2>11. \A i \in DOMAIN pg'.out : pg'.out[i] \in {"NOSSL", "AUTH"}
    BY <2>10
  <2>12. Shape'
    BY <1>2, <1>3, <1>6, <2>7, <2>8 DEF Shape
  <2>13. LoggingIn'
    BY <1>2, <1>3, <1>4, <2>2, <2>7, <2>10, <2>11 DEF LoggingIn
  <2> QED BY <2>9, <2>12, <2>13 DEF PgInv
<1> QED BY <1>6, <1>7, <1>8

\* A write before the session is open has no ReadyForQuery.
LEMMA WritesAll ==
  ASSUME WritesFit, NEW p \in PgType, NEW clears, Write("AUTH", p, clears)
  PROVE  pg' = [p EXCEPT !.out = <<>>] /\ got' = got \o p.out
<1>1. pg' = [p EXCEPT !.out = <<>>] /\ got' = got \o (p.out \o Ready("AUTH", p.tp))
  BY Writes
<1>2. Ready("AUTH", p.tp) = <<>>
  BY DEF Ready
<1>3. p.out \in Seq(Replies)
  BY DEF PgType
<1>4. p.out \o <<>> = p.out
  BY ONLY <1>3
<1> QED BY <1>1, <1>2, <1>4

\* What was left of the request for the password is written.
LEMMA WritesRest ==
  ASSUME WritesFit, PgInv, pg.state = "AUTH", Writable
  PROVE  PgInv'
<1>1. Shape /\ LoggingIn /\ pg \in PgType /\ pg.out \in Seq(Replies) /\ got \in Seq(Replies)
  BY DEF PgInv, Shape, PgType
<1>2. PICK p : p = [pg EXCEPT !.epoll = "IN"]
  OBVIOUS
<1>3. p \in PgType
  BY <1>1, <1>2 DEF PgType
<1>4. /\ p.state = "AUTH" /\ SameTxns(p, pg) /\ p.out = pg.out /\ p.epoll = "IN" /\ p.login = pg.login
      /\ p.inbuf = pg.inbuf /\ p.size = pg.size
  BY <1>1, <1>2, <1>3 DEF PgType, SameTxns
<1>5. Write("AUTH", p, FALSE) /\ UNCHANGED <<wire, client, asked>> /\ pg.epoll = "OUT"
  BY <1>2, <1>4 DEF Writable, WriteSocket
<1>6. pg' = [p EXCEPT !.out = <<>>] /\ got' = got \o pg.out
  BY <1>3, <1>4, <1>5, WritesAll
<1>7. SameSession(pg', p) /\ SameTxns(pg', p) /\ pg'.out = <<>>
  BY <1>3, <1>6, Emptied
<1>8. /\ ~pg.login /\ pg.size = 0 /\ Rest = <<>>
      /\ \A i \in DOMAIN got : got[i] \in {"NOSSL", "AUTH"}
  BY <1>1, <1>5 DEF LoggingIn
<1>9. \A i \in DOMAIN pg.out : pg.out[i] \in {"NOSSL", "AUTH"}
  BY <1>1 DEF LoggingIn
<1>10. got' \in Seq(Replies) /\ \A i \in DOMAIN got' : got'[i] \in {"NOSSL", "AUTH"}
  BY <1>1, <1>6, <1>8, <1>9, AllIn
<1>11. /\ AtEase' /\ pg'.tp = NoTxn /\ ~pg'.inblock /\ pg'.epoll = "IN" /\ ~pg'.login /\ pg'.size = 0
       /\ Rest' = <<>> /\ pg'.state = "AUTH" /\ pg' \in PgType
  BY <1>1, <1>4, <1>5, <1>7, <1>8 DEF SameSession, SameTxns, LoggingIn, AtEase, Rest
<1>12. \A i \in DOMAIN pg'.out : pg'.out[i] \in {"NOSSL", "AUTH"}
  BY <1>7
<1>13. Shape'
  BY <1>1, <1>5, <1>10, <1>11 DEF Shape
<1>14. LoggingIn'
  BY <1>1, <1>5, <1>10, <1>11, <1>12 DEF LoggingIn
<1> QED BY <1>11, <1>13, <1>14 DEF PgInv

\* The password is wrong.
LEMMA LoginFails ==
  ASSUME WritesFit, PgInv, LoginReply(FALSE)
  PROVE  PgInv'
<1>1. Shape /\ LoggingIn /\ pg \in PgType /\ pg.out \in Seq(Replies) /\ got \in Seq(Replies) /\ pg.state = "AUTH"
  BY DEF PgInv, Shape, PgType, LoginReply
<1>2. PICK p, r : p = [pg EXCEPT !.login = FALSE] /\ r = Put(p, "E")
  OBVIOUS
<1>3. p \in PgType
  BY <1>1, <1>2 DEF PgType
<1>4. /\ p.state = "AUTH" /\ SameTxns(p, pg) /\ p.out = pg.out /\ p.epoll = pg.epoll /\ ~p.login
  BY <1>1, <1>2, <1>3 DEF PgType, SameTxns
<1>5. SameSession(r, p) /\ SameTxns(r, p) /\ r.out = Append(p.out, "E")
  <2>1. "E" \in Replies
    BY DEF Replies
  <2> QED BY <1>2, <1>3, <2>1, PutOne
<1>6. Write("AUTH", r, FALSE) /\ UNCHANGED <<wire, client, asked>> /\ pg.login
  BY <1>2, <1>4, <1>5 DEF LoginReply, PutError, WriteSocket, SameSession
<1>7. pg' = [r EXCEPT !.out = <<>>] /\ got' = got \o Append(pg.out, "E") /\ r \in PgType
  BY <1>4, <1>5, <1>6, WritesAll DEF SameSession
<1>8. SameSession(pg', r) /\ SameTxns(pg', r) /\ pg'.out = <<>>
  BY <1>7, Emptied
<1>9. PICK h : h = Append(pg.out, "E")
  OBVIOUS
<1>10. h \in Seq(Replies) /\ \A i \in DOMAIN h : h[i] \in {"NOSSL", "AUTH", "E"}
  <2>1. \A i \in DOMAIN pg.out : pg.out[i] \in {"NOSSL", "AUTH"}
    BY <1>1 DEF LoggingIn
  <2>2. PICK o \in Seq(Replies) : o = pg.out
    BY <1>1
  <2>3. h = Append(o, "E") /\ \A i \in 1 .. Len(o) : o[i] \in {"NOSSL", "AUTH"}
    BY <1>9, <2>1, <2>2
  <2>4. h \in Seq(Replies) /\ \A i \in DOMAIN h : h[i] \in {"NOSSL", "AUTH", "E"}
    BY ONLY o \in Seq(Replies), <2>3 DEF Replies
  <2> QED BY <2>4
<1>11. got' \in Seq(Replies) /\ \A i \in DOMAIN got' : got'[i] \in {"NOSSL", "AUTH", "E"}
  <2>1. \A i \in DOMAIN got : got[i] \in {"NOSSL", "AUTH", "E"}
    BY <1>1 DEF LoggingIn
  <2>2. got' = got \o h
    BY <1>7, <1>9
  <2> QED BY <1>1, <1>10, <2>1, <2>2, AllIn
<1>12. client # "started" /\ pg.epoll = "IN" /\ wire = <<>>
  BY <1>1, <1>6 DEF LoggingIn
<1>13. /\ AtEase' /\ pg'.tp = NoTxn /\ ~pg'.inblock /\ pg'.epoll = "IN" /\ ~pg'.login
       /\ pg'.state = "AUTH" /\ pg' \in PgType
  BY <1>1, <1>4, <1>5, <1>8, <1>12 DEF SameSession, SameTxns, LoggingIn, AtEase
<1>14. \A i \in DOMAIN pg'.out : pg'.out[i] \in {"NOSSL", "AUTH"}
  BY <1>8
<1>15. Shape'
  BY <1>1, <1>6, <1>11, <1>13 DEF Shape
<1>16. LoggingIn'
  BY <1>1, <1>6, <1>11, <1>12, <1>13, <1>14 DEF LoggingIn
<1> QED BY <1>13, <1>15, <1>16 DEF PgInv

\* The password is right: the session opens.
LEMMA LoginSucceeds ==
  ASSUME WritesFit, PgInv, LoginReply(TRUE)
  PROVE  PgInv'
<1>1. Shape /\ LoggingIn /\ pg \in PgType /\ got \in Seq(Replies) /\ pg.state = "AUTH"
  BY DEF PgInv, Shape, LoginReply
<1>2. PICK o, a, b, p, r :
        /\ a = "OK" /\ b = "ZI" /\ o = <<a, b>>
        /\ p = [[pg EXCEPT !.login = FALSE] EXCEPT !.state = "ESTABLISHED", !.out = o]
        /\ r = NextRequest(p)
  OBVIOUS
<1>3. a \in Replies /\ b \in Replies /\ o \in Seq(Replies)
  BY <1>2 DEF Replies
<1>4. p \in PgType
  BY <1>1, <1>2, <1>3 DEF PgType
<1>5. p.state = "ESTABLISHED" /\ SameTxns(p, pg) /\ p.out = o /\ p.epoll = pg.epoll /\ ~p.login
  BY <1>1, <1>2, <1>4 DEF PgType, SameTxns
<1>6. /\ r \in PgType /\ r.state = "ESTABLISHED" /\ r.epoll = pg.epoll /\ ~r.login /\ r.out = o
      /\ SameTxns(r, p) /\ r.inbuf = <<>> /\ r.size = 0
  BY <1>2, <1>4, <1>5, NextOf
<1>7. Write("AUTH", r, FALSE) /\ UNCHANGED <<wire, client, asked>> /\ pg.login
  BY <1>2 DEF LoginReply
<1>8. pg' = [r EXCEPT !.out = <<>>] /\ got' = got \o o
  BY <1>6, <1>7, WritesAll
<1>9. SameSession(pg', r) /\ SameTxns(pg', r) /\ pg'.out = <<>>
  BY <1>6, <1>8, Emptied
<1>10. /\ client \in {"loggingin", "gone"} /\ pg.epoll = "IN" /\ wire = <<>> /\ asked = <<>>
       /\ \A i \in DOMAIN got : got[i] \in {"NOSSL", "AUTH"}
  BY <1>1, <1>7 DEF LoggingIn
<1>11. got' = Append(Append(got, a), b)
  <2>1. PICK g \in Seq(Replies) : g = got
    BY <1>1
  <2>2. o = <<a, b>>
    BY <1>2
  <2>3. g \o <<a, b>> = Append(Append(g, a), b)
    BY ONLY g \in Seq(Replies), <1>3
  <2> QED BY <1>8, <2>1, <2>2, <2>3
<1>12. /\ got' \in Seq(Replies) /\ got' # <<>> /\ got'[Len(got')] = "ZI"
       /\ CountIn(got', Readies) = 1 /\ CountIn(got', {"C", "E"}) = 0
  <2>1. PICK g, h, k : g = got /\ h = Append(g, a) /\ k = Append(h, b)
    OBVIOUS
  <2>2. g \in Seq(Replies) /\ h \in Seq(Replies)
    BY <1>1, <1>3, <2>1
  <2>3. CountIn(g, Readies) = 0 /\ CountIn(g, {"C", "E"}) = 0
    BY <1>10, <2>1, CountNone DEF Readies
  <2>4. a \notin Readies /\ a \notin {"C", "E"} /\ b \in Readies /\ b \notin {"C", "E"}
    BY <1>2 DEF Readies
  <2>5. CountIn(h, Readies) = 0 /\ CountIn(h, {"C", "E"}) = 0
    BY <1>3, <2>1, <2>2, <2>3, <2>4, CountOneMore
  <2>6. CountIn(k, Readies) = 0 + 1 /\ CountIn(k, {"C", "E"}) = 0
    <3>1. CountIn(Append(h, b), Readies) = CountIn(h, Readies) + 1
      BY ONLY <1>3, <2>2, <2>4, CountOneMore
    <3>2. CountIn(Append(h, b), {"C", "E"}) = CountIn(h, {"C", "E"})
      BY ONLY <1>3, <2>2, <2>4, CountOneMore
    <3> QED BY <2>1, <2>5, <3>1, <3>2
  <2>7. k \in Seq(Replies) /\ k # <<>> /\ k[Len(k)] = b
    BY <1>3, <2>1, <2>2, LastReply
  <2>8. k = got'
    BY <1>11, <2>1
  <2> QED BY <1>2, <2>6, <2>7, <2>8
<1>13. Count(Readies)' = 1 /\ Count({"C", "E"})' = 0
  BY <1>12 DEF Count, CountIn, Readies
<1>14. /\ pg' \in PgType /\ pg'.state = "ESTABLISHED" /\ pg'.epoll = "IN" /\ ~pg'.login /\ pg'.size = 0
       /\ Rest' = <<>> /\ pg'.tp = NoTxn /\ AtEase' /\ ~pg'.inblock
  BY <1>1, <1>5, <1>6, <1>7, <1>9, <1>10 DEF SameSession, SameTxns, LoggingIn, AtEase, Rest
<1>15. ItsBlock(pg')
  BY <1>14 DEF ItsBlock, AtEase
<1>16. LastReady'
  <2>1. Ready(pg'.state, pg'.tp) = <<"ZI">>
    BY <1>14 DEF Ready
  <2> QED BY <1>12, <2>1 DEF LastReady
<1>17. Shape'
  BY <1>1, <1>7, <1>12, <1>14 DEF Shape
<1>18. Len(asked') = 0
  BY <1>7, <1>10
<1>19. Open'
  BY <1>7, <1>10, <1>13, <1>14, <1>15, <1>16, <1>18 DEF Open
<1> QED BY <1>14, <1>17, <1>19 DEF PgInv

-----------------------------------------------------------------------------
(* Beginnings.                                                             *)

LEMMA FirstOnes ==
  ASSUME NEW S, NEW o \in Seq(S), NEW k \in Nat, k <= Len(o), NEW v, v = SubSeq(o, 1, k)
  PROVE  v \in Seq(S) /\ Len(v) = k /\ \A i \in 1 .. k : v[i] = o[i]
<1>1. Len(o) \in Nat /\ \A i \in 1 .. Len(o) : o[i] \in S
  OBVIOUS
<1> QED BY <1>1, SubSeqProperties

\* The replies o, all of them in S, are written, or some of them: then the rest stays.
LEMMA SomeOf ==
  ASSUME NEW S, NEW g \in Seq(Replies), NEW o \in Seq(Replies), NEW k \in 0 .. (Len(o) - 1),
         \A i \in DOMAIN g : g[i] \in S, \A i \in DOMAIN o : o[i] \in S
  PROVE  /\ g \o SubSeq(o, 1, k) \in Seq(Replies)
         /\ \A i \in DOMAIN (g \o SubSeq(o, 1, k)) : (g \o SubSeq(o, 1, k))[i] \in S
         /\ SubSeq(o, k + 1, Len(o)) \in Seq(Replies)
         /\ \A i \in DOMAIN SubSeq(o, k + 1, Len(o)) : SubSeq(o, k + 1, Len(o))[i] \in S
         /\ Len(o) = 1 => g \o SubSeq(o, 1, k) = g
<1>0. k \in Nat /\ k <= Len(o) /\ Len(o) \in Nat /\ DOMAIN o = 1 .. Len(o)
  OBVIOUS
<1>1. PICK v, t : v = SubSeq(o, 1, k) /\ t = SubSeq(o, k + 1, Len(o))
  OBVIOUS
<1>2. v \in Seq(Replies) /\ Len(v) = k /\ \A i \in 1 .. k : v[i] = o[i]
  BY ONLY o \in Seq(Replies), <1>0, <1>1, FirstOnes
<1>3. t \in Seq(Replies) /\ Len(t) = Len(o) - k /\ \A i \in 1 .. Len(o) - k : t[i] = o[k + i]
  BY ONLY o \in Seq(Replies), <1>0, <1>1, AfterHeader
<1>4. \A i \in DOMAIN v : v[i] \in S
  BY <1>0, <1>2
<1>5. ASSUME NEW i \in DOMAIN t PROVE t[i] \in S
  <2>1. i \in 1 .. Len(o) - k
    BY <1>3
  <2>2. t[i] = o[k + i] /\ k + i \in DOMAIN o
    BY <1>0, <1>3, <2>1
  <2> QED BY <2>2
<1>6. g \o v \in Seq(Replies) /\ \A i \in DOMAIN (g \o v) : (g \o v)[i] \in S
  BY <1>2, <1>4, AllIn
<1>7. ASSUME Len(o) = 1 PROVE g \o v = g
  <2>1. Len(v) = 0
    BY <1>2, <1>7
  <2>2. v = <<>>
    BY ONLY <1>2, <2>1
  <2>3. g \o <<>> = g
    BY ONLY g \in Seq(Replies)
  <2> QED BY <2>2, <2>3
<1> QED BY <1>1, <1>3, <1>5, <1>6, <1>7

\* A write that the socket may stop.
LEMMA WritesSome ==
  ASSUME got \in Seq(Replies), NEW p \in PgType, Write("BEGIN", p, FALSE), NEW S,
         \A i \in DOMAIN got : got[i] \in S, \A i \in DOMAIN p.out : p.out[i] \in S
  PROVE  /\ pg' \in PgType /\ SameTxns(pg', p) /\ pg'.state = p.state /\ pg'.inbuf = p.inbuf
         /\ pg'.size = p.size /\ pg'.login = p.login
         /\ got' \in Seq(Replies) /\ \A i \in DOMAIN got' : got'[i] \in S
         /\ \A i \in DOMAIN pg'.out : pg'.out[i] \in S
         /\ \/ pg'.epoll = p.epoll
            \/ pg'.epoll = "OUT" /\ (Len(p.out) = 1 => got' = got)
<1>1. PICK o : o = p.out
  OBVIOUS
<1>2. o \in Seq(Replies) /\ Ready("BEGIN", p.tp) = <<>> /\ p.out \o <<>> = o
  <2>1. o \in Seq(Replies)
    BY <1>1 DEF PgType
  <2>2. o \o <<>> = o
    BY ONLY <2>1
  <2> QED BY <1>1, <2>1, <2>2 DEF Ready
<1>3. \/ pg' = [p EXCEPT !.out = <<>>] /\ got' = got \o o
      \/ \E k \in 0 .. (Len(o) - 1) :
           /\ pg' = [p EXCEPT !.out = SubSeq(o, k + 1, Len(o)), !.epoll = "OUT"]
           /\ got' = got \o SubSeq(o, 1, k)
  BY <1>2 DEF Write
<1>4. CASE pg' = [p EXCEPT !.out = <<>>] /\ got' = got \o o
  <2>1. SameSession(pg', p) /\ SameTxns(pg', p) /\ pg'.out = <<>>
    BY <1>4, Emptied
  <2>2. got' \in Seq(Replies) /\ \A i \in DOMAIN got' : got'[i] \in S
    BY <1>1, <1>2, <1>4, AllIn
  <2>3. \A i \in DOMAIN pg'.out : pg'.out[i] \in S
    BY <2>1
  <2> QED BY <2>1, <2>2, <2>3 DEF SameSession
<1>5. ASSUME NEW k \in 0 .. (Len(o) - 1),
             pg' = [p EXCEPT !.out = SubSeq(o, k + 1, Len(o)), !.epoll = "OUT"],
             got' = got \o SubSeq(o, 1, k)
      PROVE  /\ pg' \in PgType /\ SameTxns(pg', p) /\ pg'.state = p.state /\ pg'.inbuf = p.inbuf
             /\ pg'.size = p.size /\ pg'.login = p.login
             /\ got' \in Seq(Replies) /\ \A i \in DOMAIN got' : got'[i] \in S
             /\ \A i \in DOMAIN pg'.out : pg'.out[i] \in S
             /\ pg'.epoll = "OUT" /\ (Len(p.out) = 1 => got' = got)
  <2>1. PICK t, g : t = SubSeq(o, k + 1, Len(o)) /\ g = got \o SubSeq(o, 1, k)
    OBVIOUS
  <2>2. /\ g \in Seq(Replies) /\ \A i \in DOMAIN g : g[i] \in S
        /\ t \in Seq(Replies) /\ \A i \in DOMAIN t : t[i] \in S
        /\ Len(o) = 1 => g = got
    <3>1. /\ got \in Seq(Replies) /\ o \in Seq(Replies) /\ k \in 0 .. (Len(o) - 1)
          /\ \A i \in DOMAIN got : got[i] \in S
      BY <1>2
    <3>2. \A i \in DOMAIN o : o[i] \in S
      BY <1>1
    <3> QED BY ONLY <2>1, <3>1, <3>2, SomeOf, SMTT(30)
  <2>3. pg' = [p EXCEPT !.out = t, !.epoll = "OUT"] /\ got' = g
    BY <1>5, <2>1
  <2>4. pg' \in PgType
    BY <2>2, <2>3 DEF PgType
  <2>5. /\ SameTxns(pg', p) /\ pg'.state = p.state /\ pg'.inbuf = p.inbuf
        /\ pg'.size = p.size /\ pg'.login = p.login /\ pg'.out = t /\ pg'.epoll = "OUT"
    BY <2>3, <2>4 DEF PgType, SameTxns
  <2> QED BY <1>1, <2>2, <2>3, <2>4, <2>5
<1> QED BY <1>3, <1>4, <1>5

\* A request for SSL: the answer is no, and its last unit stays in inbuf.
LEMMA RefusesSsl ==
  ASSUME PgInv, pg.state = "BEGIN", UNCHANGED <<client, asked>>, client # "new", wire' = <<>>,
         NEW b, ReadMore(b), b.inbuf = <<<<"SSL", 2>>>>, Request([b EXCEPT !.out = <<>>])
  PROVE  PgInv'
<1>1. Shape /\ Beginning /\ got \in Seq(Replies) /\ b \in PgType
  BY DEF PgInv, Shape, ReadMore
<1>2. PICK p, q, r : p = [b EXCEPT !.out = <<>>] /\ q = Put(p, "NOSSL") /\ r = [q EXCEPT !.size = 0]
  OBVIOUS
<1>3. SameSession(p, b) /\ SameTxns(p, b) /\ p.out = <<>>
  BY ONLY <1>1, <1>2, Emptied
<1>4. p \in PgType /\ p.state = "BEGIN" /\ p.inbuf = <<<<"SSL", 2>>>>
  BY <1>3 DEF SameSession, ReadMore
<1>5. SameSession(q, p) /\ SameTxns(q, p) /\ q.out = <<"NOSSL">>
  <2>1. "NOSSL" \in Replies
    BY DEF Replies
  <2>2. SameSession(q, p) /\ SameTxns(q, p) /\ q.out = Append(p.out, "NOSSL")
    BY <1>2, <1>4, <2>1, PutOne
  <2> QED BY <1>3, <2>2
<1>6. q \in PgType /\ 0 \in Nat
  BY <1>5 DEF SameSession
<1>7. r \in PgType
  BY <1>2, <1>6 DEF PgType
<1>8. /\ r.state = q.state /\ r.inbuf = q.inbuf /\ r.size = 0 /\ r.login = q.login /\ r.out = q.out
      /\ SameTxns(r, q)
  BY <1>2, <1>6, <1>7 DEF PgType, SameTxns
<1>9. r.state = "BEGIN" /\ r.inbuf = <<<<"SSL", 2>>>> /\ r.out = <<"NOSSL">>
  BY <1>4, <1>5, <1>8 DEF SameSession
<1>10. Write("BEGIN", r, FALSE)
  <2>1. p.inbuf[1][1] = "SSL"
    BY <1>4
  <2>2. WriteSocket(r)
    BY <1>2, <1>4, <2>1 DEF Request
  <2> QED BY <1>9, <2>2 DEF WriteSocket
<1>11. PICK S : S = {"NOSSL"}
  OBVIOUS
<1>12. (\A i \in DOMAIN got : got[i] \in S) /\ (\A i \in DOMAIN r.out : r.out[i] \in S)
  BY <1>1, <1>9, <1>11 DEF Beginning
<1>13. /\ pg' \in PgType /\ SameTxns(pg', r) /\ pg'.state = r.state /\ pg'.inbuf = r.inbuf
       /\ pg'.size = r.size /\ pg'.login = r.login
       /\ got' \in Seq(Replies) /\ \A i \in DOMAIN got' : got'[i] \in S
  BY <1>1, <1>7, <1>10, <1>12, WritesSome
<1>14. \A i \in DOMAIN pg'.out : pg'.out[i] \in S
  BY <1>1, <1>7, <1>10, <1>12, WritesSome
<1>15. AtEase' /\ pg'.tp = NoTxn /\ ~pg'.inblock /\ ~pg'.login
  BY <1>1, <1>3, <1>5, <1>8, <1>13 DEF SameTxns, SameSession, ReadMore, Beginning, AtEase
<1>16. Rest' = <<<<"SSL", 2>>>>
  <2>1. PICK x : x = <<<<"SSL", 2>>>>
    OBVIOUS
  <2>2. pg'.inbuf = x /\ x \in Seq(Unit)
    BY <1>9, <1>13, <2>1 DEF PgType
  <2>3. x \o <<>> = x
    BY ONLY <2>2
  <2>4. Rest' = pg'.inbuf \o wire'
    BY DEF Rest
  <2> QED BY <2>1, <2>2, <2>3, <2>4
<1>17. Shape'
  BY <1>1, <1>13 DEF Shape
<1>18. pg'.state = "BEGIN" /\ pg'.size = 0
  BY <1>8, <1>9, <1>13
<1>19. /\ \A i \in DOMAIN got' : got'[i] = "NOSSL"
       /\ \A i \in DOMAIN pg'.out : pg'.out[i] = "NOSSL"
  BY <1>11, <1>13, <1>14
<1>20. asked' = <<>> /\ client' # "new" /\ client' # "loggingin"
  BY <1>1 DEF Beginning
<1>21. Beginning'
  BY <1>15, <1>16, <1>18, <1>19, <1>20 DEF Beginning
<1> QED BY <1>17, <1>18, <1>21 DEF PgInv

\* The startup message: the answer is a request for the password.
LEMMA AsksForPassword ==
  ASSUME PgInv, pg.state = "BEGIN", pg.epoll = "IN", UNCHANGED <<client, asked>>,
         client \in {"started", "gone"}, wire' = <<>>,
         NEW b, ReadMore(b), b.inbuf = <<<<"STARTUP", 2>>, <<"STARTUP", 3>>>>,
         Request([b EXCEPT !.out = <<>>])
  PROVE  PgInv'
<1>1. Shape /\ Beginning /\ got \in Seq(Replies) /\ b \in PgType
  BY DEF PgInv, Shape, ReadMore
<1>2. PICK p, q, a, r : /\ p = [b EXCEPT !.out = <<>>] /\ q = Put(p, "AUTH")
                        /\ a = [q EXCEPT !.state = "AUTH"] /\ r = NextRequest(a)
  OBVIOUS
<1>3. SameSession(p, b) /\ SameTxns(p, b) /\ p.out = <<>>
  BY ONLY <1>1, <1>2, Emptied
<1>4. p \in PgType /\ p.state = "BEGIN" /\ p.inbuf = <<<<"STARTUP", 2>>, <<"STARTUP", 3>>>>
  BY <1>3 DEF SameSession, ReadMore
<1>5. SameSession(q, p) /\ SameTxns(q, p) /\ q.out = <<"AUTH">>
  <2>1. "AUTH" \in Replies
    BY DEF Replies
  <2>2. SameSession(q, p) /\ SameTxns(q, p) /\ q.out = Append(p.out, "AUTH")
    BY <1>2, <1>4, <2>1, PutOne
  <2> QED BY <1>3, <2>2
<1>6. q \in PgType
  BY <1>5 DEF SameSession
<1>7. a \in PgType
  BY <1>2, <1>6 DEF PgType
<1>8. /\ a.state = "AUTH" /\ a.epoll = q.epoll /\ a.login = q.login /\ a.out = q.out /\ SameTxns(a, q)
  BY <1>2, <1>6, <1>7 DEF PgType, SameTxns
<1>9. /\ r \in PgType /\ r.state = a.state /\ r.epoll = a.epoll /\ r.login = a.login /\ r.out = a.out
      /\ SameTxns(r, a) /\ r.inbuf = <<>> /\ r.size = 0
  BY ONLY <1>2, <1>7, NextOf
<1>10. Write("BEGIN", r, FALSE)
  <2>1. p.inbuf[1][1] # "SSL"
    BY <1>4
  <2> QED BY <1>2, <1>4, <2>1 DEF Request
<1>11. PICK S : S = {"NOSSL", "AUTH"}
  OBVIOUS
<1>12. /\ (\A i \in DOMAIN got : got[i] \in S) /\ (\A i \in DOMAIN r.out : r.out[i] \in S)
       /\ Len(r.out) = 1
  BY <1>1, <1>5, <1>8, <1>9, <1>11 DEF Beginning
<1>13. /\ pg' \in PgType /\ SameTxns(pg', r) /\ pg'.state = r.state /\ pg'.inbuf = r.inbuf
       /\ pg'.size = r.size /\ pg'.login = r.login
       /\ got' \in Seq(Replies) /\ \A i \in DOMAIN got' : got'[i] \in S
  BY <1>1, <1>9, <1>10, <1>12, WritesSome
<1>14. \A i \in DOMAIN pg'.out : pg'.out[i] \in S
  BY <1>1, <1>9, <1>10, <1>12, WritesSome
<1>15. pg'.epoll = r.epoll \/ (pg'.epoll = "OUT" /\ got' = got)
  BY <1>1, <1>9, <1>10, <1>12, WritesSome
<1>16. AtEase' /\ pg'.tp = NoTxn /\ ~pg'.inblock /\ ~pg'.login /\ r.epoll = "IN"
  BY <1>1, <1>3, <1>5, <1>8, <1>9, <1>13 DEF SameTxns, SameSession, ReadMore, Beginning, AtEase
<1>17. Rest' = <<>> /\ pg'.size = 0 /\ pg'.state = "AUTH"
  BY <1>8, <1>9, <1>13 DEF Rest
<1>18. Shape'
  BY <1>1, <1>13 DEF Shape
<1>19. ASSUME NEW i \in DOMAIN got' PROVE got'[i] # "E" /\ (pg'.epoll = "OUT" => got'[i] # "AUTH")
  <2>1. got'[i] # "E"
    BY <1>11, <1>13
  <2>2. ASSUME pg'.epoll = "OUT" PROVE got'[i] # "AUTH"
    <3>1. got' = got
      BY <1>15, <1>16, <2>2
    <3> QED BY <1>1, <3>1 DEF Beginning
  <2> QED BY <2>1, <2>2
<1>20. /\ \A i \in DOMAIN got' : got'[i] \in {"NOSSL", "AUTH", "E"}
       /\ \A i \in DOMAIN pg'.out : pg'.out[i] \in {"NOSSL", "AUTH"}
  BY <1>11, <1>13, <1>14
<1>21. asked' = <<>> /\ client' \in {"started", "loggingin", "gone"}
  BY <1>1 DEF Beginning
<1>22. LoggingIn'
  BY <1>16, <1>17, <1>19, <1>20, <1>21 DEF LoggingIn
<1> QED BY <1>17, <1>18, <1>22 DEF PgInv

\* The unit that a request for SSL leaves, taken for the size of what follows.
LEMMA TakenForASize ==
  ASSUME NEW s, s = <<<<"SSL", 2>>>>, NEW t \in Seq(Unit), NEW u, u = s \o t
  PROVE  SubSeq(u, 2, Len(u)) = t /\ u[1] = <<"SSL", 2>>
<1>1. s \in Seq(Unit) /\ Len(s) = 1 /\ s[1] = <<"SSL", 2>>
  BY DEF Unit, Kinds
<1>2. PICK k \in 0 .. Len(s) : k = 1 /\ k + 1 = 2 /\ k = Len(s)
  BY <1>1
<1>3. /\ SubSeq(s, k + 1, Len(s)) \o t = SubSeq(u, k + 1, Len(u))
      /\ \A i \in 1 .. Len(s) : u[i] = s[i]
  BY <1>1, CutFront
<1>4. PICK v : v = SubSeq(s, k + 1, Len(s))
  OBVIOUS
<1>5. v \in Seq(Unit) /\ Len(v) = Len(s) - k
  <2>1. k \in Nat /\ k <= Len(s)
    BY <1>1, <1>2
  <2> QED BY ONLY <1>1, <1>4, <2>1, AfterHeader
<1>6. Len(v) = 0
  BY <1>1, <1>2, <1>5
<1>7. v = <<>>
  BY ONLY <1>5, <1>6
<1>8. <<>> \o t = t
  BY ONLY t \in Seq(Unit)
<1> QED BY <1>1, <1>2, <1>3, <1>4, <1>7, <1>8

\* The startup message is on its way, perhaps behind what a request for SSL has left.
Starting(k, rest) ==
  \/ k = 0 /\ rest = <<<<"SSL", 2>>>> \o Units("STARTUP")
  \/ k = Huge /\ rest = Units("STARTUP")
  \/ k = 0 /\ rest = Units("STARTUP")
  \/ k = 3 /\ rest = <<<<"STARTUP", 2>>, <<"STARTUP", 3>>>>

\* A read before the startup message, as far as it completes nothing.
LEMMA StillBegins ==
  ASSUME PgInv, pg.state = "BEGIN", pg.epoll = "IN", UNCHANGED <<client, asked, got>>,
         wire' \in Seq(Unit), ReadMore(pg'),
         \/ /\ got = <<>> /\ client # "new"
            /\ \/ pg'.size = 0 /\ Rest' = Units("SSL")
               \/ pg'.size = 2 /\ Rest' = <<<<"SSL", 2>>>>
         \/ client \in {"started", "gone"} /\ Starting(pg'.size, Rest')
  PROVE  PgInv'
<1>1. Shape /\ Beginning
  BY DEF PgInv
<1>2. Shape'
  BY <1>1 DEF Shape, ReadMore
<1>3. /\ pg'.epoll = "IN" /\ pg'.state = "BEGIN" /\ AtEase' /\ pg'.tp = NoTxn /\ ~pg'.inblock
      /\ ~pg'.login /\ pg'.out = pg.out
  BY <1>1 DEF ReadMore, Beginning, AtEase
<1>4. /\ \A i \in DOMAIN got' : got'[i] = "NOSSL"
      /\ \A i \in DOMAIN pg'.out : pg'.out[i] = "NOSSL"
      /\ asked' = <<>> /\ client' # "loggingin"
  BY <1>1, <1>3 DEF Beginning
<1>5. Beginning'
  BY <1>3, <1>4 DEF Beginning, Starting
<1> QED BY <1>2, <1>3, <1>5 DEF PgInv

\* A read before the startup message is complete.
LEMMA ReadsBegin ==
  ASSUME PgInv, pg.state = "BEGIN", NEW n \in 1 .. Len(wire), Read(n)
  PROVE  PgInv'
<1>1. PICK c, w, need : /\ c = InitCmd(SubSeq(wire, 1, n)) /\ w = SubSeq(wire, n + 1, Len(wire))
                        /\ need = 1
  OBVIOUS
<1>2. Shape /\ Beginning
  BY DEF PgInv
<1>3. /\ wire' = w /\ UNCHANGED <<client, asked>> /\ Rest # <<>> /\ wire # <<>> /\ pg.epoll = "IN"
      /\ c.ret = 0 => pg' = c.p /\ got' = got
      /\ c.ret = 1 => Request([c.p EXCEPT !.out = <<>>])
  BY <1>1, <1>2, ReadIs
<1>4. \/ Reads(c, w, pg.type, pg.size, Rest)
      \/ pg.size = 0 /\ Reads(c, w, pg.type, SizeIn(Rest[1]), SubSeq(Rest, 2, Len(Rest)))
  <2>1. need = IF pg.state = "BEGIN" THEN 1 ELSE 2
    BY <1>1
  <2>2. \/ Reads(c, w, pg.type, pg.size, Rest)
        \/ /\ pg.size = 0 /\ Len(Rest) >= need
           /\ Reads(c, w, IF need = 2 THEN TypeIn(Rest[1]) ELSE pg.type, SizeIn(Rest[need]),
                    SubSeq(Rest, need + 1, Len(Rest)))
    BY <1>1, <1>2, <2>1, ReadsOn
  <2>3. (IF need = 2 THEN TypeIn(Rest[1]) ELSE pg.type) = pg.type /\ need + 1 = 2
    BY <1>1
  <2> QED BY <1>1, <2>2, <2>3
<1> DEFINE Asking(k, rest) == /\ got = <<>> /\ client # "new"
                              /\ \/ k = 0 /\ rest = Units("SSL")
                                 \/ k = 2 /\ rest = <<<<"SSL", 2>>>>
<1>5. ASSUME NEW k, NEW rest, Reads(c, w, pg.type, k, rest), c.ret = 0,
             Asking(k, rest) \/ (client \in {"started", "gone"} /\ Starting(k, rest))
      PROVE  PgInv'
  <2>1. pg' = c.p /\ got' = got /\ wire' = w
    BY <1>3, <1>5
  <2>2. ReadMore(c.p) /\ w \in Seq(Unit) /\ c.p.size = k /\ c.p.inbuf \o w = rest
    BY <1>5 DEF Reads
  <2>3. ReadMore(pg') /\ wire' \in Seq(Unit) /\ pg'.size = k /\ Rest' = rest
    BY <2>1, <2>2 DEF Rest
  <2> QED BY <1>3, <1>5, <2>1, <2>3, StillBegins
<1>6. ASSUME NEW k, k = 0, NEW rest, Reads(c, w, pg.type, k, rest) PROVE c.ret = 0
  BY <1>6, NothingYet
<1>7. ASSUME c.ret = 1, NEW rest, rest \in Seq(Unit), NEW k, Reads(c, w, pg.type, k, rest), w = <<>>
      PROVE  c.p.inbuf = rest /\ ReadMore(c.p)
  <2>1. c.p.inbuf \in Seq(Unit) /\ c.p.inbuf \o w = rest /\ ReadMore(c.p)
    BY <1>7 DEF Reads
  <2>2. PICK b : b = c.p.inbuf
    OBVIOUS
  <2>3. b \in Seq(Unit) /\ b \o <<>> = rest
    BY <1>7, <2>1, <2>2
  <2>4. b = rest
    BY ONLY <2>3
  <2> QED BY <2>1, <2>2, <2>4
<1>8. ASSUME Reads(c, w, pg.type, 2, <<<<"SSL", 2>>>>), got = <<>>, client # "new"
      PROVE  PgInv'
  <2>0. PICK rest : rest = <<<<"SSL", 2>>>>
    OBVIOUS
  <2>1. PICK k \in Nat \ {0} : k = 2 /\ rest = <<<<"SSL", 2>>>> /\ rest \in Seq(Unit) /\ Len(rest) = 1
    <3>1. rest \in Seq(Unit) /\ Len(rest) = 1
      BY <2>0 DEF Unit, Kinds
    <3> QED BY <2>0, <3>1
  <2>2. Reads(c, w, pg.type, k, rest) /\ Len(rest) = k - 1
    BY <1>8, <2>1
  <2>3. c.ret \in {0, 1} /\ (c.ret = 1 => w = <<>>)
    BY <2>2, AllOfIt
  <2>4. CASE c.ret = 0
    BY <1>5, <1>8, <2>1, <2>2, <2>4
  <2>5. CASE c.ret = 1
    <3>1. w = <<>> /\ Request([c.p EXCEPT !.out = <<>>])
      BY <1>3, <2>3, <2>5
    <3>2. c.p.inbuf = rest /\ ReadMore(c.p)
      BY <1>7, <2>1, <2>2, <2>5, <3>1
    <3> QED BY <1>3, <1>8, <2>1, <3>1, <3>2, RefusesSsl
  <2> QED BY <2>3, <2>4, <2>5
<1>9. ASSUME Reads(c, w, pg.type, 3, <<<<"STARTUP", 2>>, <<"STARTUP", 3>>>>), client \in {"started", "gone"}
      PROVE  PgInv'
  <2>0. PICK rest : rest = <<<<"STARTUP", 2>>, <<"STARTUP", 3>>>>
    OBVIOUS
  <2>1. PICK k \in Nat \ {0} : /\ k = 3 /\ rest = <<<<"STARTUP", 2>>, <<"STARTUP", 3>>>>
                              /\ rest \in Seq(Unit) /\ Len(rest) = 2
    <3>1. rest \in Seq(Unit) /\ Len(rest) = 2
      BY <2>0 DEF Unit, Kinds
    <3> QED BY <2>0, <3>1
  <2>2. Reads(c, w, pg.type, k, rest) /\ Len(rest) = k - 1
    BY <1>9, <2>1
  <2>3. c.ret \in {0, 1} /\ (c.ret = 1 => w = <<>>)
    BY <2>2, AllOfIt
  <2>4. CASE c.ret = 0
    <3>1. Starting(k, rest)
      BY <2>1 DEF Starting
    <3> QED BY <1>5, <1>9, <2>2, <2>4, <3>1
  <2>5. CASE c.ret = 1
    <3>1. w = <<>> /\ Request([c.p EXCEPT !.out = <<>>])
      BY <1>3, <2>3, <2>5
    <3>2. c.p.inbuf = rest /\ ReadMore(c.p)
      BY <1>7, <2>1, <2>2, <2>5, <3>1
    <3> QED BY <1>3, <1>9, <2>1, <3>1, <3>2, AsksForPassword
  <2> QED BY <2>3, <2>4, <2>5
<1>10. ASSUME Reads(c, w, pg.type, Huge, Units("STARTUP")), client \in {"started", "gone"}
       PROVE  PgInv'
  <2>1. Len(Units("STARTUP")) = 3
    BY UnitsOf DEF Kinds
  <2>2. PICK a, b, ret : a = Len(c.p.inbuf) /\ b = Len(w) /\ ret = c.ret
    OBVIOUS
  <2>3. /\ a \in Nat /\ b \in Nat /\ a + b = 3
        /\ ret = IF Huge = 0 \/ a + 1 < Huge THEN 0 ELSE IF a + 1 = Huge THEN 1 ELSE -1
    BY <1>10, <2>1, <2>2 DEF Reads
  <2>4. ret = 0
    BY ONLY <2>3 DEF Huge
  <2>5. Starting(Huge, Units("STARTUP"))
    BY DEF Starting
  <2> QED BY <1>5, <1>10, <2>2, <2>4, <2>5
<1>11. /\ Units("SSL")[1] = <<"SSL", 1>> /\ Units("STARTUP")[1] = <<"STARTUP", 1>>
       /\ Units("STARTUP") \in Seq(Unit)
  BY UnitsOf DEF Kinds
<1>12. CASE pg.size = 0 /\ Rest = Units("SSL") /\ got = <<>> /\ client # "new"
  <2>1. CASE Reads(c, w, pg.type, pg.size, Rest)
    BY <1>5, <1>6, <1>12, <2>1
  <2>2. CASE Reads(c, w, pg.type, SizeIn(Rest[1]), SubSeq(Rest, 2, Len(Rest)))
    BY <1>8, <1>11, <1>12, <2>2, Headers, Bodies
  <2> QED BY <1>4, <2>1, <2>2
<1>13. CASE pg.size = 2 /\ Rest = <<<<"SSL", 2>>>> /\ got = <<>> /\ client # "new"
  BY <1>4, <1>8, <1>13
<1>14. CASE /\ pg.size = 0 /\ Rest = <<<<"SSL", 2>>>> \o Units("STARTUP")
            /\ client \in {"started", "gone"}
  <2>1. CASE Reads(c, w, pg.type, pg.size, Rest)
    BY <1>5, <1>6, <1>14, <2>1 DEF Starting
  <2>2. CASE Reads(c, w, pg.type, SizeIn(Rest[1]), SubSeq(Rest, 2, Len(Rest)))
    <3>1. SubSeq(Rest, 2, Len(Rest)) = Units("STARTUP") /\ Rest[1] = <<"SSL", 2>>
      BY <1>11, <1>14, TakenForASize
    <3> QED BY <1>10, <1>14, <2>2, <3>1, Headers
  <2> QED BY <1>4, <2>1, <2>2
<1>15. CASE pg.size = Huge /\ Rest = Units("STARTUP") /\ client \in {"started", "gone"}
  <2>1. Huge # 0
    BY DEF Huge
  <2> QED BY <1>4, <1>10, <1>15, <2>1
<1>16. CASE pg.size = 0 /\ Rest = Units("STARTUP") /\ client \in {"started", "gone"}
  <2>1. CASE Reads(c, w, pg.type, pg.size, Rest)
    BY <1>5, <1>6, <1>16, <2>1 DEF Starting
  <2>2. CASE Reads(c, w, pg.type, SizeIn(Rest[1]), SubSeq(Rest, 2, Len(Rest)))
    BY <1>9, <1>11, <1>16, <2>2, Headers, Bodies
  <2> QED BY <1>4, <2>1, <2>2
<1>17. CASE /\ pg.size = 3 /\ Rest = <<<<"STARTUP", 2>>, <<"STARTUP", 3>>>>
            /\ client \in {"started", "gone"}
  BY <1>4, <1>9, <1>17
<1> QED BY <1>2, <1>3, <1>12, <1>13, <1>14, <1>15, <1>16, <1>17 DEF Beginning

\* What was left of the answer to a request for SSL is written.
LEMMA WritesNoSsl ==
  ASSUME PgInv, pg.state = "BEGIN", Writable
  PROVE  PgInv'
<1>1. Shape /\ Beginning /\ pg \in PgType /\ got \in Seq(Replies)
  BY DEF PgInv, Shape
<1>2. PICK p : p = [pg EXCEPT !.epoll = "IN"]
  OBVIOUS
<1>3. p \in PgType
  BY <1>1, <1>2 DEF PgType
<1>4. /\ p.state = "BEGIN" /\ SameTxns(p, pg) /\ p.out = pg.out /\ p.login = pg.login
      /\ p.inbuf = pg.inbuf /\ p.size = pg.size
  BY <1>1, <1>2, <1>3 DEF PgType, SameTxns
<1>5. Write("BEGIN", p, FALSE) /\ UNCHANGED <<wire, client, asked>> /\ pg.epoll = "OUT"
  BY <1>2, <1>4 DEF Writable, WriteSocket
<1>6. PICK S : S = {"NOSSL"}
  OBVIOUS
<1>7. (\A i \in DOMAIN got : got[i] \in S) /\ (\A i \in DOMAIN p.out : p.out[i] \in S)
  BY <1>1, <1>4, <1>6 DEF Beginning
<1>8. /\ pg' \in PgType /\ SameTxns(pg', p) /\ pg'.state = p.state /\ pg'.inbuf = p.inbuf
      /\ pg'.size = p.size /\ pg'.login = p.login
      /\ got' \in Seq(Replies) /\ \A i \in DOMAIN got' : got'[i] \in S
  BY <1>1, <1>3, <1>5, <1>7, WritesSome
<1>9. \A i \in DOMAIN pg'.out : pg'.out[i] \in S
  BY <1>1, <1>3, <1>5, <1>7, WritesSome
<1>10. /\ AtEase' /\ pg'.tp = NoTxn /\ ~pg'.inblock /\ ~pg'.login /\ pg'.state = "BEGIN"
       /\ pg'.size = pg.size /\ Rest' = Rest
  BY <1>1, <1>4, <1>5, <1>8 DEF SameTxns, Beginning, AtEase, Rest
<1>11. /\ \A i \in DOMAIN got' : got'[i] = "NOSSL"
       /\ \A i \in DOMAIN pg'.out : pg'.out[i] = "NOSSL"
  BY <1>6, <1>8, <1>9
<1>12. Shape'
  BY <1>1, <1>5, <1>8 DEF Shape
<1>13. Beginning'
  BY <1>1, <1>5, <1>10, <1>11 DEF Beginning
<1> QED BY <1>10, <1>12, <1>13 DEF PgInv

-----------------------------------------------------------------------------
(* The client.                                                             *)

\* Before the session is open there is no ReadyForQuery.
LEMMA NotReadyYet ==
  ASSUME PgInv, pg.state \in {"BEGIN", "AUTH"}
  PROVE  Count(Readies) = 0 /\ asked = <<>> /\ Len(asked) = 0
<1>1. Beginning \/ LoggingIn
  BY DEF PgInv
<1>2. CountIn(got, Readies) = 0
  BY <1>1, CountNone DEF Beginning, LoggingIn, Readies
<1>3. asked = <<>>
  BY <1>1 DEF Beginning, LoggingIn
<1> QED BY <1>2, <1>3 DEF Count, CountIn

\* A message of a client that begins.
LEMMA ClientBegins ==
  ASSUME PgInv, pg.state = "BEGIN", ClientStarts
  PROVE  PgInv' /\ pg' = pg
<1>1. Shape /\ Beginning
  BY DEF PgInv
<1>2. ASSUME NEW r, HasGot(r) PROVE r = "NOSSL" /\ got # <<>>
  <2>1. got \in Seq(Replies) /\ got # <<>> /\ got[Len(got)] = r
    BY <1>1, <1>2 DEF HasGot, Last, Shape
  <2>2. Len(got) \in DOMAIN got
    BY <2>1
  <2> QED BY <1>1, <2>1, <2>2 DEF Beginning
<1>3. ASSUME NEW m \in Kinds, NEW next \in {"ssl", "started"}, Send(m, next), UNCHANGED asked
      PROVE  /\ Shape' /\ pg' = pg /\ got' = got /\ client' = next /\ Rest' = Rest \o Units(m)
             /\ AtEase' /\ asked' = asked
  BY <1>1, <1>3, Sent DEF Shape, Beginning, AtEase
<1>4. "SSL" \in Kinds /\ "STARTUP" \in Kinds /\ Units("SSL") \in Seq(Unit) /\ Units("STARTUP") \in Seq(Unit)
  BY UnitsOf DEF Kinds
<1>5. <<>> \o Units("SSL") = Units("SSL") /\ <<>> \o Units("STARTUP") = Units("STARTUP")
  BY <1>4
<1>6. CASE client = "new" /\ Send("SSL", "ssl") /\ UNCHANGED asked
  <2>1. pg.size = 0 /\ Rest = <<>> /\ got = <<>> /\ pg.epoll = "IN"
    BY <1>1, <1>6 DEF Beginning
  <2>2. /\ Shape' /\ pg' = pg /\ got' = got /\ client' = "ssl" /\ Rest' = Units("SSL")
        /\ AtEase' /\ asked' = asked
    BY <1>3, <1>4, <1>5, <1>6, <2>1
  <2>3. Beginning'
    BY <1>1, <2>1, <2>2 DEF Beginning
  <2> QED BY <2>2, <2>3 DEF PgInv
<1>7. CASE client = "new" /\ Send("STARTUP", "started") /\ UNCHANGED asked
  <2>1. pg.size = 0 /\ Rest = <<>> /\ got = <<>> /\ pg.epoll = "IN"
    BY <1>1, <1>7 DEF Beginning
  <2>2. /\ Shape' /\ pg' = pg /\ got' = got /\ client' = "started" /\ Rest' = Units("STARTUP")
        /\ AtEase' /\ asked' = asked
    BY <1>3, <1>4, <1>5, <1>7, <2>1
  <2>3. Beginning'
    BY <1>1, <2>1, <2>2 DEF Beginning
  <2> QED BY <2>2, <2>3 DEF PgInv
<1>8. CASE client = "ssl" /\ HasGot("NOSSL") /\ Send("STARTUP", "started") /\ UNCHANGED asked
  <2>1. pg.size = 0 /\ Rest = <<<<"SSL", 2>>>>
    BY <1>1, <1>2, <1>8 DEF Beginning
  <2>2. /\ Shape' /\ pg' = pg /\ got' = got /\ client' = "started"
        /\ Rest' = <<<<"SSL", 2>>>> \o Units("STARTUP") /\ AtEase' /\ asked' = asked
    BY <1>3, <1>4, <1>8, <2>1
  <2>3. Beginning'
    BY <1>1, <2>1, <2>2 DEF Beginning
  <2> QED BY <2>2, <2>3 DEF PgInv
<1> QED BY <1>2, <1>6, <1>7, <1>8 DEF ClientStarts

\* The client sends its password.
LEMMA ClientLogsIn ==
  ASSUME PgInv, pg.state = "AUTH", ClientStarts
  PROVE  PgInv' /\ pg' = pg
<1>1. Shape /\ LoggingIn
  BY DEF PgInv
<1>2. client = "started" /\ HasGot("AUTH") /\ Send("PASSWORD", "loggingin") /\ UNCHANGED asked
  BY <1>1 DEF ClientStarts, LoggingIn
<1>3. pg.epoll = "IN" /\ ~pg.login /\ pg.size = 0 /\ Rest = <<>> /\ \A i \in DOMAIN got : got[i] # "E"
  <2>1. got \in Seq(Replies) /\ got # <<>> /\ got[Len(got)] = "AUTH"
    BY <1>1, <1>2 DEF HasGot, Last, Shape
  <2>2. Len(got) \in DOMAIN got
    BY <2>1
  <2>3. pg.epoll \in {"IN", "OUT"}
    BY <1>1 DEF Shape, PgType
  <2> QED BY <1>1, <1>2, <2>1, <2>2, <2>3 DEF LoggingIn
<1>4. "PASSWORD" \in Kinds /\ Units("PASSWORD") \in Seq(Unit)
  BY UnitsOf DEF Kinds
<1>5. <<>> \o Units("PASSWORD") = Units("PASSWORD")
  BY <1>4
<1>6. /\ wire' \in Seq(Unit) /\ pg' = pg /\ got' = got /\ client' = "loggingin" /\ Rest' = Units("PASSWORD")
  BY <1>1, <1>2, <1>3, <1>4, <1>5, Sent
<1>7. Shape' /\ AtEase' /\ Reading("PASSWORD")'
  BY <1>1, <1>2, <1>3, <1>6 DEF Shape, LoggingIn, AtEase, Reading
<1>8. LoggingIn'
  BY <1>1, <1>2, <1>3, <1>6, <1>7 DEF LoggingIn
<1> QED BY <1>6, <1>7, <1>8 DEF PgInv

\* The client has all its answers when it asks again, or leaves.
LEMMA AllAnswered ==
  ASSUME PgInv, pg.state # "EXITING", client = "loggingin", Count(Readies) > 0, Answered = Len(asked)
  PROVE  /\ Open /\ pg.state \in {"ESTABLISHED", "ABORTED"} /\ Count(Readies) = Len(asked) + 1
         /\ pg.state = "ESTABLISHED" => ItsBlock(pg)
         /\ pg.size = 0 /\ LastReady /\ Rest = <<>>
<1>1. Shape /\ pg \in PgType
  BY DEF PgInv, Shape
<1>2. pg.state \in {"ESTABLISHED", "ABORTED"}
  <2>1. pg.state \in {"BEGIN", "AUTH", "ESTABLISHED", "ABORTED", "EXITING"}
    BY <1>1 DEF PgType
  <2>2. pg.state \notin {"BEGIN", "AUTH"}
    BY NotReadyYet
  <2> QED BY <2>1, <2>2
<1>3. Open
  BY <1>2 DEF PgInv
<1>4. Count(Readies) \in Nat /\ Len(asked) \in Nat
  <2>1. CountIn(got, Readies) \in Nat
    BY <1>1, CountOneMore DEF Shape, Replies
  <2> QED BY <1>1, <2>1 DEF Count, CountIn, Shape
<1>5. Count(Readies) = Len(asked) + 1
  BY <1>4 DEF Answered
<1> QED BY <1>2, <1>3, <1>4, <1>5 DEF Open

\* A client that waits for its answers asks.
LEMMA Asks ==
  ASSUME Waits, PgInv, pg.state # "EXITING", NEW q \in Queries, ClientAsks(q)
  PROVE  PgInv' /\ pg' = pg
<1>1. /\ client = "loggingin" /\ Count(Readies) > 0 /\ Answered = Len(asked) /\ Send(q, client)
      /\ asked' = Append(asked, q)
  BY DEF ClientAsks, Waits
<1>2. /\ Open /\ pg.state \in {"ESTABLISHED", "ABORTED"} /\ Count(Readies) = Len(asked) + 1
      /\ pg.state = "ESTABLISHED" => ItsBlock(pg)
      /\ pg.size = 0 /\ Rest = <<>>
  BY <1>1, AllAnswered
<1>3. Shape /\ q \in Kinds
  BY DEF PgInv, Kinds
<1>4. Units(q) \in Seq(Unit)
  BY <1>3, UnitsOf
<1>5. <<>> \o Units(q) = Units(q)
  BY <1>4
<1>6. wire' \in Seq(Unit) /\ Rest' = Units(q) /\ pg' = pg /\ got' = got /\ client' = client
  BY <1>1, <1>2, <1>3, <1>5, Sent
<1>7. asked' \in Seq(Queries) /\ Len(asked') = Len(asked) + 1
  BY <1>1, <1>3 DEF Shape
<1>8. Shape'
  BY <1>3, <1>6, <1>7 DEF Shape
<1>9. Count(Readies)' = Count(Readies) /\ Count({"C", "E"})' = Count({"C", "E"})
  BY <1>6 DEF Count, Readies
<1>10. Reading(q)'
  BY <1>2, <1>6 DEF Reading
<1>11. Open'
  BY <1>2, <1>6, <1>7, <1>9, <1>10 DEF Open
<1> QED BY <1>2, <1>6, <1>8, <1>11 DEF PgInv

\* A client that has its answers ends the session.
LEMMA Ends ==
  ASSUME PgInv, pg.state # "EXITING", ClientEnds
  PROVE  PgInv' /\ pg' = pg
<1>1. client = "loggingin" /\ Answered = Len(asked) /\ Send("TERMINATE", "gone") /\ asked' = asked
  BY DEF ClientEnds
<1>2. Shape /\ "TERMINATE" \in Kinds
  BY DEF PgInv, Kinds
<1>3. Count(Readies) > 0
  <2>1. CountIn(got, Readies) \in Nat
    BY <1>2, CountOneMore DEF Shape, Replies
  <2>2. Len(asked) \in Nat /\ Count(Readies) \in Nat
    BY <1>2, <2>1 DEF Shape, Count, CountIn
  <2> QED BY <1>1, <2>2 DEF Answered
<1>4. /\ Open /\ pg.state \in {"ESTABLISHED", "ABORTED"} /\ Count(Readies) = Len(asked) + 1
      /\ pg.state = "ESTABLISHED" => ItsBlock(pg)
      /\ pg.size = 0 /\ LastReady /\ Rest = <<>>
  BY <1>1, <1>3, AllAnswered
<1>5. <<>> \o Units("TERMINATE") = Units("TERMINATE")
  <2>1. Units("TERMINATE") \in Seq(Unit)
    BY <1>2, UnitsOf
  <2> QED BY <2>1
<1>6. wire' \in Seq(Unit) /\ Rest' = Units("TERMINATE") /\ pg' = pg /\ got' = got /\ client' = "gone"
  BY <1>1, <1>2, <1>4, <1>5, Sent
<1>7. Shape'
  BY <1>1, <1>2, <1>6 DEF Shape
<1>8. Count(Readies)' = Count(Readies) /\ Count({"C", "E"})' = Count({"C", "E"})
  BY <1>6 DEF Count, Readies
<1>9. LastReady'
  BY <1>4, <1>6 DEF LastReady
<1>10. Open'
  BY <1>1, <1>4, <1>6, <1>8, <1>9 DEF Open
<1> QED BY <1>4, <1>6, <1>7, <1>10 DEF PgInv

\* The client goes.
LEMMA HangsUpAnyTime ==
  ASSUME PgInv, ClientHangsUp
  PROVE  PgInv' /\ pg' = pg
<1>1. client' = "gone" /\ UNCHANGED <<pg, wire, asked, got>>
  BY DEF ClientHangsUp
<1>2. /\ Count(Readies)' = Count(Readies) /\ Count({"C", "E"})' = Count({"C", "E"}) /\ Rest' = Rest
      /\ AtEase' = AtEase /\ LastReady' = LastReady
  BY <1>1 DEF Count, Readies, Rest, AtEase, LastReady
<1>3. Shape => Shape'
  BY <1>1 DEF Shape
<1>4. Beginning => Beginning'
  BY <1>1, <1>2 DEF Beginning
<1>5. \A m : Reading(m)' = Reading(m)
  BY <1>1, <1>2 DEF Reading
<1>6. LoggingIn => LoggingIn'
  BY <1>1, <1>2, <1>5 DEF LoggingIn
<1>7. Open => Open'
  BY <1>1, <1>2, <1>5 DEF Open
<1>8. Closed => Closed'
  BY <1>1, <1>2 DEF Closed
<1> QED BY <1>1, <1>3, <1>4, <1>6, <1>7, <1>8 DEF PgInv

\* The end of the stream.
LEMMA Eofs ==
  ASSUME PgInv, Eof
  PROVE  PgInv' /\ (pg.state = "ABORTED" => pg'.running = {} /\ pg'.txns = {})
<1>1. pg \in PgType /\ pg' = CloseSocket(pg) /\ got' = got /\ wire' = <<>> /\ UNCHANGED <<client, asked>>
  BY DEF PgInv, Shape, Eof, Silently
<1>2. pg' \in PgType /\ pg'.state = "EXITING"
  BY <1>1, CloseSocketIs
<1>3. wire' \in Seq(Unit)
  BY <1>1
<1>4. PgInv'
  BY <1>1, <1>2, <1>3, Closes
<1>5. ASSUME pg.state = "ABORTED" PROVE pg'.running = {} /\ pg'.txns = {}
  <2>1. pg.tp = NoTxn /\ pg.running = {} /\ pg.txns = {}
    BY <1>5 DEF PgInv, Open, FailedBlock
  <2> QED BY <1>1, <2>1 DEF CloseSocket, PgType
<1> QED BY <1>4, <1>5

-----------------------------------------------------------------------------
(* The session.                                                            *)

LEMMA InitHolds == Init => PgInv
<1>1. SUFFICES ASSUME Init PROVE PgInv
  OBVIOUS
<1>2. pg = Fresh /\ wire = <<>> /\ client = "new" /\ asked = <<>> /\ got = <<>>
  BY <1>1 DEF Init
<1>3. /\ <<>> \in Seq(Unit) /\ <<>> \in Seq(Replies) /\ <<>> \in Seq(Queries)
      /\ "?" \in Types /\ {} \in SUBSET Nat /\ {} \in SUBSET Works /\ {} \in SUBSET Hows
  BY DEF Types
<1>4. pg \in PgType
  BY <1>2, <1>3 DEF Fresh, PgType, NoTxn
<1>5. Shape
  BY <1>2, <1>3, <1>4 DEF Shape
<1>6. Rest = <<>>
  BY <1>2 DEF Rest, Fresh
<1>7. Beginning
  BY <1>2, <1>6 DEF Beginning, AtEase, Fresh
<1> QED BY <1>2, <1>5, <1>7 DEF PgInv, Fresh

\* Every step keeps the invariant, and a block that failed does nothing.
LEMMA Steps ==
  ASSUME Waits, WritesFit, PgInv, [Next]_vars
  PROVE  PgInv' /\ (pg.state = "ABORTED" => pg'.running = {} /\ pg'.txns = {})
<1> DEFINE Keeps == PgInv' /\ (pg.state = "ABORTED" => pg'.running = {} /\ pg'.txns = {})
<1>1. pg.state \in {"BEGIN", "AUTH", "ESTABLISHED", "ABORTED", "EXITING"}
  BY DEF PgInv, Shape, PgType
<1>2. pg.state = "ABORTED" => pg.running = {} /\ pg.txns = {} /\ pg.commits = {}
  BY DEF PgInv, Open, FailedBlock
<1>3. CASE pg.state = "EXITING"
  BY <1>3, StaysClosed
<1>4. CASE pg.state # "EXITING" /\ UNCHANGED vars
  <2>1. PgInv'
    BY <1>4 DEF vars, PgInv, Shape, Beginning, LoggingIn, Open, Closed, Rest, AtEase, Reading, Count,
                LastReady, Readies
  <2> QED BY <1>2, <1>4, <2>1 DEF vars
<1>5. ASSUME pg.state # "EXITING", NEW n \in 1 .. Len(wire), Read(n) PROVE Keeps
  <2>1. CASE pg.state = "BEGIN"
    BY <1>5, <2>1, ReadsBegin
  <2>2. CASE pg.state = "AUTH"
    BY <1>5, <2>2, ReadsPassword
  <2>3. CASE pg.state \in {"ESTABLISHED", "ABORTED"}
    BY <1>5, <2>3, ReadsOpen
  <2> QED BY <1>1, <1>5, <2>1, <2>2, <2>3
<1>6. ASSUME pg.state # "EXITING", Writable PROVE Keeps
  <2>1. pg.state \in {"BEGIN", "AUTH"}
    BY <1>1, <1>6 DEF Writable, PgInv, Open
  <2> QED BY <1>6, <2>1, WritesNoSsl, WritesRest
<1>7. ASSUME NEW ok \in BOOLEAN, LoginReply(ok) PROVE Keeps
  <2>1. pg.state # "ABORTED"
    BY <1>7 DEF LoginReply
  <2>2. CASE ok = TRUE
    BY <1>7, <2>1, <2>2, LoginSucceeds
  <2>3. CASE ok = FALSE
    BY <1>7, <2>1, <2>3, LoginFails
  <2> QED BY <2>2, <2>3
<1>8. ASSUME pg.state # "EXITING", NEW w \in pg.running, NEW ok \in BOOLEAN, StatementEnds(w, ok) PROVE Keeps
  BY <1>2, <1>8, StatementEnded
<1>9. ASSUME pg.state # "EXITING", NEW w \in pg.commits, CommitEnds(w) PROVE Keeps
  BY <1>2, <1>9, CommitEnded
<1>10. CASE pg.state # "EXITING" /\ Server
  BY <1>5, <1>6, <1>7, <1>8, <1>9, <1>10, Eofs DEF Server
<1>11. CASE pg.state # "EXITING" /\ ClientStarts
  <2>1. client \in {"new", "ssl", "started"}
    BY <1>11 DEF ClientStarts
  <2>2. pg.state \in {"BEGIN", "AUTH"}
    BY <1>1, <1>11, <2>1 DEF PgInv, Open
  <2> QED BY <1>11, <2>2, ClientBegins, ClientLogsIn
<1>12. ASSUME pg.state # "EXITING", NEW q \in Queries, ClientAsks(q) PROVE Keeps
  BY <1>2, <1>12, Asks
<1>13. CASE pg.state # "EXITING" /\ ClientEnds
  BY <1>2, <1>13, Ends
<1>14. CASE pg.state # "EXITING" /\ ClientHangsUp
  BY <1>2, <1>14, HangsUpAnyTime
<1>15. CASE pg.state # "EXITING" /\ Next
  BY <1>10, <1>11, <1>12, <1>13, <1>14, <1>15 DEF Next
<1> QED BY <1>3, <1>4, <1>15

\* The invariant says what the client counts.
LEMMA SomeReady ==
  ASSUME Shape, NEW z \in Readies, HasGot(z)
  PROVE  Count(Readies) >= 1
<1>1. got \in Seq(Replies) /\ got # <<>> /\ got[Len(got)] = z
  BY DEF HasGot, Last, Shape
<1> DEFINE T == {i \in DOMAIN got : got[i] \in Readies}
<1>2. Len(got) \in T /\ T \subseteq 1 .. Len(got) /\ Len(got) \in Nat
  BY <1>1
<1>3. IsFiniteSet(T)
  <2>1. IsFiniteSet(1 .. Len(got))
    BY <1>2, FS_Interval
  <2> QED BY <1>2, <2>1, FS_Subset
<1>4. Cardinality(T) \in Nat /\ Cardinality(T) # 0
  BY <1>2, <1>3, FS_CardinalityType, FS_EmptySet
<1> QED BY <1>4 DEF Count

\* To a client that waits for its answers every request gets one answer and one
\* ReadyForQuery, as long as no write to an open session finds the socket full
\* (Pg::writesocket, putErrorResponse, continuePgFunc).
THEOREM EveryRequestIsAnsweredOnce ==
  ASSUME Waits, WritesFit
  PROVE  Spec => []OneAnswerEach
<1>1. PgInv => OneAnswerEach
  <2>1. SUFFICES ASSUME PgInv PROVE OneAnswerEach
    OBVIOUS
  <2>2. Shape /\ Len(asked) \in Nat
    BY <2>1 DEF PgInv, Shape
  <2>3. Count(Readies) \in Nat
    <3>1. CountIn(got, Readies) \in Nat
      BY <2>2, CountOneMore DEF Shape, Replies
    <3> QED BY <3>1 DEF Count, CountIn
  <2>4. HasGot("ZI") \/ HasGot("ZT") \/ HasGot("ZE") => Count(Readies) >= 1
    BY <2>2, SomeReady DEF Readies
  <2>5. CASE pg.state \in {"BEGIN", "AUTH"}
    <3>1. Count(Readies) = 0 /\ Len(asked) = 0
      BY <2>1, <2>5, NotReadyYet
    <3> QED BY <2>4, <3>1 DEF OneAnswerEach, Answered
  <2>6. CASE pg.state \in {"ESTABLISHED", "ABORTED"}
    <3>1. Open
      BY <2>1, <2>6 DEF PgInv
    <3>2. /\ Count(Readies) = Len(asked) \/ Count(Readies) = Len(asked) + 1
          /\ Count({"C", "E"}) = Count(Readies) - 1
      BY <3>1 DEF Open
    <3> QED BY <2>2, <2>3, <3>2 DEF OneAnswerEach, Answered
  <2>7. CASE pg.state = "EXITING"
    <3>1. Closed
      BY <2>1, <2>7 DEF PgInv
    <3> QED BY <2>2, <2>3, <2>4, <3>1 DEF Closed, OneAnswerEach, Answered
  <2> QED BY <2>2, <2>5, <2>6, <2>7 DEF Shape, PgType
<1>2. PgInv /\ [Next]_vars => PgInv'
  BY Steps
<1> QED BY <1>1, <1>2, InitHolds, PTL DEF Spec

\* Under the same conditions the last ReadyForQuery tells the client what the session is
\* in: a block, one that failed, or none (Pg::writesocket).
THEOREM ReadyForQueryIsTrue ==
  ASSUME Waits, WritesFit
  PROVE  Spec => []ReadyTellsTheTruth
<1>1. PgInv => ReadyTellsTheTruth
  <2>1. SUFFICES ASSUME PgInv, Answered >= 0, Answered = Len(asked), pg.state # "EXITING"
                 PROVE  /\ HasGot("ZT") => pg.inblock /\ pg.tp \in pg.txns
                        /\ HasGot("ZE") => pg.inblock /\ pg.txns = {}
                        /\ HasGot("ZI") => ~pg.inblock /\ pg.txns = {}
    BY DEF ReadyTellsTheTruth
  <2>2. Shape /\ Len(asked) \in Nat /\ pg \in PgType
    BY <2>1 DEF PgInv, Shape
  <2>3. Count(Readies) \in Nat
    <3>1. CountIn(got, Readies) \in Nat
      BY <2>2, CountOneMore DEF Shape, Replies
    <3> QED BY <3>1 DEF Count, CountIn
  <2>4. Count(Readies) = Len(asked) + 1 /\ Count(Readies) >= 1
    BY <2>1, <2>2, <2>3 DEF Answered
  <2>5. pg.state \in {"ESTABLISHED", "ABORTED"}
    <3>1. pg.state \notin {"BEGIN", "AUTH"}
      BY <2>1, <2>4, NotReadyYet
    <3> QED BY <2>1, <2>2, <3>1 DEF PgType
  <2>6. /\ LastReady /\ (pg.state = "ESTABLISHED" => ItsBlock(pg))
        /\ (pg.state = "ABORTED" => FailedBlock(pg))
    BY <2>1, <2>2, <2>4, <2>5 DEF PgInv, Open
  <2>7. got[Len(got)] = IF pg.state = "ABORTED" THEN "ZE" ELSE IF pg.tp = NoTxn THEN "ZI" ELSE "ZT"
    BY <2>5, <2>6 DEF LastReady, Ready
  <2> QED BY <2>5, <2>6, <2>7 DEF HasGot, Last, ItsBlock, FailedBlock
<1>2. PgInv /\ [Next]_vars => PgInv'
  BY Steps
<1> QED BY <1>1, <1>2, InitHolds, PTL DEF Spec

\* Under the same conditions no statement is executed in a block that failed, and none
\* begins a transaction (Pg::cont, STATE_ABORTED).
THEOREM FailedBlocksRest ==
  ASSUME Waits, WritesFit
  PROVE  Spec => AbortedBlocksRest
<1>1. PgInv /\ [Next]_vars => PgInv'
  BY Steps
<1>2. PgInv /\ [Next]_vars => [pg.state = "ABORTED" => pg'.running = {} /\ pg'.txns = {}]_vars
  BY Steps
<1> QED BY <1>1, <1>2, InitHolds, PTL DEF Spec, AbortedBlocksRest

-----------------------------------------------------------------------------
(* Counting in a sequence cut in two.                                      *)

LEMMA CountFinite ==
  ASSUME NEW S, NEW g \in Seq(S), NEW rs
  PROVE  /\ CountIn(g, rs) \in Nat
         /\ (\E i \in DOMAIN g : g[i] \in rs) => CountIn(g, rs) >= 1
<1> DEFINE T == {i \in DOMAIN g : g[i] \in rs}
<1>1. DOMAIN g = 1 .. Len(g) /\ Len(g) \in Nat /\ T \in SUBSET (1 .. Len(g))
  OBVIOUS
<1>2. IsFiniteSet(T)
  <2>1. IsFiniteSet(1 .. Len(g))
    BY <1>1, FS_Interval
  <2> QED BY <1>1, <2>1, FS_Subset
<1>3. Cardinality(T) \in Nat /\ (T # {} => Cardinality(T) # 0)
  BY <1>2, FS_CardinalityType, FS_EmptySet
<1>4. CountIn(g, rs) = Cardinality(T)
  BY DEF CountIn
<1>5. (\E i \in DOMAIN g : g[i] \in rs) => T # {}
  OBVIOUS
<1> HIDE DEF T
<1> QED BY <1>3, <1>4, <1>5

LEMMA ShiftedCard ==
  ASSUME NEW S \in SUBSET Int, IsFiniteSet(S), NEW T \in SUBSET Int, NEW k \in Int,
         \A i \in S : i - k \in T, \A i \in T : i + k \in S
  PROVE  IsFiniteSet(T) /\ Cardinality(T) = Cardinality(S)
<1> DEFINE f == [i \in S |-> i - k]
<1>1. f \in [S -> T]
  OBVIOUS
<1>2. IsInjective(f)
  BY DEF IsInjective
<1>3. ASSUME NEW t \in T PROVE \E i \in S : f[i] = t
  <2>1. t + k \in S /\ (t + k) - k = t
    OBVIOUS
  <2> QED BY <2>1
<1> HIDE DEF f
<1>4. f \in Bijection(S, T)
  BY <1>1, <1>2, <1>3 DEF Bijection, Injection, Surjection
<1> QED BY <1>4, FS_Bijection DEF ExistsBijection

\* What is counted in two sequences is counted in the one they make.
LEMMA CountBoth ==
  ASSUME NEW S, NEW g \in Seq(S), NEW h \in Seq(S), NEW rs
  PROVE  CountIn(g \o h, rs) = CountIn(g, rs) + CountIn(h, rs)
<1>1. PICK m \in Nat, n \in Nat, u \in Seq(S) : m = Len(g) /\ n = Len(h) /\ u = g \o h
  <2>1. g \o h \in Seq(S) /\ Len(g) \in Nat /\ Len(h) \in Nat
    BY ConcatProperties
  <2> QED BY <2>1
<1>2. /\ DOMAIN g = 1 .. m /\ DOMAIN h = 1 .. n /\ DOMAIN u = 1 .. m + n
      /\ \A i \in 1 .. m : u[i] = g[i]
      /\ \A i \in 1 .. n : u[m + i] = h[i]
  <2>1. Len(u) = m + n /\ \A i \in 1 .. m + n : u[i] = IF i <= m THEN g[i] ELSE h[i - m]
    BY <1>1, ConcatProperties
  <2>2. DOMAIN g = 1 .. m /\ DOMAIN h = 1 .. n /\ DOMAIN u = 1 .. m + n
    BY <1>1, <2>1
  <2>3. ASSUME NEW i \in 1 .. n PROVE u[m + i] = h[i]
    BY <1>1, <2>1
  <2> QED BY <1>1, <2>1, <2>2, <2>3
<1> DEFINE A == {i \in 1 .. m : g[i] \in rs}
           B == {i \in 1 .. n : h[i] \in rs}
           C == {i \in 1 .. m + n : u[i] \in rs}
           D == {i \in m + 1 .. m + n : u[i] \in rs}
<1>3. CountIn(g, rs) = Cardinality(A) /\ CountIn(h, rs) = Cardinality(B) /\ CountIn(u, rs) = Cardinality(C)
  BY <1>2 DEF CountIn
<1>4. IsFiniteSet(A) /\ IsFiniteSet(D)
  <2>1. IsFiniteSet(1 .. m) /\ IsFiniteSet(m + 1 .. m + n)
    BY <1>1, FS_Interval
  <2>2. A \in SUBSET (1 .. m) /\ D \in SUBSET (m + 1 .. m + n)
    OBVIOUS
  <2> HIDE DEF A, D
  <2> QED BY <2>1, <2>2, FS_Subset
<1>5. C = A \cup D /\ A \cap D = {}
  BY <1>1, <1>2
<1>6. D \in SUBSET Int /\ B \in SUBSET Int /\ m \in Int
  BY <1>1
<1>7. ASSUME NEW i \in D PROVE i - m \in B
  <2>1. i - m \in 1 .. n /\ m + (i - m) = i
    BY <1>1
  <2> QED BY <1>2, <2>1
<1>8. ASSUME NEW i \in B PROVE i + m \in D
  BY <1>1, <1>2
<1> HIDE DEF A, B, C, D
<1>9. Cardinality(B) = Cardinality(D)
  BY <1>4, <1>6, <1>7, <1>8, ShiftedCard
<1>10. Cardinality(C) = Cardinality(A) + Cardinality(D)
  <2>1. Cardinality(A \cup D) = Cardinality(A) + Cardinality(D) - Cardinality(A \cap D)
    BY <1>4, FS_Union
  <2>2. Cardinality(A) \in Nat /\ Cardinality(D) \in Nat /\ Cardinality(A \cap D) = 0
    BY <1>4, <1>5, FS_CardinalityType, FS_EmptySet
  <2> QED BY <1>5, <2>1, <2>2
<1> QED BY <1>1, <1>3, <1>9, <1>10

LEMMA CountCut ==
  ASSUME NEW S, NEW g \in Seq(S), NEW k \in 0 .. Len(g), NEW rs
  PROVE  CountIn(g, rs) = CountIn(SubSeq(g, 1, k), rs) + CountIn(SubSeq(g, k + 1, Len(g)), rs)
<1>1. PICK a \in Seq(S), b \in Seq(S) :
        a = SubSeq(g, 1, k) /\ b = SubSeq(g, k + 1, Len(g)) /\ a \o b = g
  <2>1. /\ SubSeq(g, 1, k) \in Seq(S) /\ SubSeq(g, k + 1, Len(g)) \in Seq(S)
        /\ SubSeq(g, 1, k) \o SubSeq(g, k + 1, Len(g)) = g
    BY Cut
  <2> QED BY <2>1
<1>2. CountIn(a \o b, rs) = CountIn(a, rs) + CountIn(b, rs)
  BY ONLY a \in Seq(S), b \in Seq(S), CountBoth
<1> QED BY <1>1, <1>2

-----------------------------------------------------------------------------
(* What the client is owed.                                                *)

Requests  == Queries \cup {"PASSWORD"}
Firsts    == {<<m, 1>> : m \in Requests}
AnAnswer  == {"C", "E", "OK"}

Sound == {p \in PgType : /\ IsFiniteSet(p.running) /\ IsFiniteSet(p.commits)
                         /\ p.state = "BEGIN" => p.type = "?"}

\* A request of which the header is read and the body is not.
HalfRead(p) == p.size # 0 /\ p.type \in Requests /\ Len(p.inbuf) + 1 < p.size
Explicit(p) == {w \in p.commits : w.how = "explicit"}

\* The answers that may still come of what the session holds: requests that it has not
\* understood yet, the login, statements and commits at work, and answers not written.
Unread(p)  == CountIn(p.inbuf, Firsts) + IF HalfRead(p) THEN 1 ELSE 0
AtWork(p)  == (IF p.login THEN 1 ELSE 0) + Cardinality(p.running) + Cardinality(Explicit(p))
Unwritten(p) == CountIn(p.out, AnAnswer)
Pending(p) == Unread(p) + AtWork(p) + Unwritten(p)

\* With the requests on their way and the answers that have come they are never more
\* than the client has asked for.
Due == Pending(pg) + CountIn(wire, Firsts) + CountIn(got, AnAnswer)
AskedFor == Len(asked) + IF client \in {"loggingin", "gone"} THEN 1 ELSE 0

Counted ==
  /\ pg \in Sound /\ wire \in Seq(Unit) /\ got \in Seq(Replies)
  /\ asked \in Seq(Queries) /\ client \in {"new", "ssl", "started", "loggingin", "gone"}
  /\ Due <= AskedFor

LEMMA PartsOf ==
  ASSUME NEW p \in Sound
  PROVE  /\ Unread(p) \in Nat /\ AtWork(p) \in Nat /\ Unwritten(p) \in Nat /\ Pending(p) \in Nat
         /\ CountIn(p.inbuf, Firsts) \in Nat
         /\ Cardinality(p.running) \in Nat /\ Cardinality(Explicit(p)) \in Nat
         /\ IsFiniteSet(Explicit(p))
<1>1. p.inbuf \in Seq(Unit) /\ p.out \in Seq(Replies) /\ IsFiniteSet(p.running) /\ IsFiniteSet(p.commits)
  BY DEF Sound, PgType
<1>2. CountIn(p.inbuf, Firsts) \in Nat /\ CountIn(p.out, AnAnswer) \in Nat
  BY <1>1, CountFinite
<1>3. Explicit(p) \in SUBSET p.commits
  BY DEF Explicit
<1>4. Cardinality(p.running) \in Nat /\ Cardinality(Explicit(p)) \in Nat /\ IsFiniteSet(Explicit(p))
  BY <1>1, <1>3, FS_Subset, FS_CardinalityType
<1> QED BY <1>2, <1>4 DEF Unread, AtWork, Unwritten, Pending

\* How what may come changes when only the work does.
LEMMA PendingFalls ==
  ASSUME NEW p \in Sound, NEW q \in Sound, Unread(q) = Unread(p), Unwritten(q) = Unwritten(p),
         AtWork(q) + 1 = AtWork(p)
  PROVE  Pending(q) + 1 <= Pending(p)
<1>1. PICK x, y, z, v : x = Unread(p) /\ y = AtWork(p) /\ z = Unwritten(p) /\ v = AtWork(q)
  OBVIOUS
<1>2. x \in Nat /\ y \in Nat /\ z \in Nat /\ v \in Nat
  BY <1>1, PartsOf
<1>3. Pending(p) = x + y + z /\ Pending(q) = x + v + z
  BY <1>1 DEF Pending
<1>4. v + 1 = y
  BY <1>1
<1> QED BY ONLY <1>2, <1>3, <1>4

LEMMA PendingRises ==
  ASSUME NEW p \in Sound, NEW q \in Sound, Unread(q) = Unread(p), Unwritten(q) = Unwritten(p),
         AtWork(q) <= AtWork(p) + 1
  PROVE  Pending(q) <= Pending(p) + 1
<1>1. PICK x, y, z, v : x = Unread(p) /\ y = AtWork(p) /\ z = Unwritten(p) /\ v = AtWork(q)
  OBVIOUS
<1>2. x \in Nat /\ y \in Nat /\ z \in Nat /\ v \in Nat
  BY <1>1, PartsOf
<1>3. Pending(p) = x + y + z /\ Pending(q) = x + v + z
  BY <1>1 DEF Pending
<1>4. v <= y + 1
  BY <1>1
<1> QED BY ONLY <1>2, <1>3, <1>4

\* The session q owes no more than p did, by what it reads, does and has to write.
LEMMA Sheds ==
  ASSUME NEW p \in Sound, NEW q \in Sound, q.inbuf = p.inbuf, q.size = p.size, q.type = p.type,
         q.login = p.login, q.running \subseteq p.running, q.commits \subseteq p.commits,
         q.out \in {p.out, <<>>}
  PROVE  Pending(q) <= Pending(p)
<1>1. Unread(q) = Unread(p)
  BY DEF Unread, HalfRead
<1>2. Cardinality(q.running) <= Cardinality(p.running)
  <2>1. q.running \in SUBSET p.running /\ IsFiniteSet(p.running)
    BY DEF Sound
  <2> QED BY <2>1, FS_Subset
<1>3. Cardinality(Explicit(q)) <= Cardinality(Explicit(p))
  <2>1. Explicit(q) \in SUBSET Explicit(p) /\ IsFiniteSet(Explicit(p))
    BY PartsOf DEF Explicit
  <2> QED BY <2>1, FS_Subset
<1>4. Unwritten(q) <= Unwritten(p)
  <2>1. CountIn(<<>>, AnAnswer) = 0
    BY CountNone
  <2> QED BY <2>1, PartsOf DEF Unwritten
<1>5. AtWork(q) <= AtWork(p)
  <2>1. /\ Cardinality(q.running) \in Nat /\ Cardinality(p.running) \in Nat
        /\ Cardinality(Explicit(q)) \in Nat /\ Cardinality(Explicit(p)) \in Nat
        /\ q.login = p.login
    BY PartsOf
  <2> QED BY ONLY <1>2, <1>3, <2>1 DEF AtWork
<1> QED BY <1>1, <1>4, <1>5, PartsOf DEF Pending

LEMMA Owes ==
  ASSUME NEW p \in Sound, NEW q \in Sound, q.inbuf = p.inbuf, q.size = p.size, q.type = p.type,
         q.login = p.login, q.running = p.running, q.commits = p.commits
  PROVE  Pending(q) - Unwritten(q) = Pending(p) - Unwritten(p)
<1>1. Unread(q) = Unread(p) /\ AtWork(q) = AtWork(p)
  BY DEF Unread, HalfRead, AtWork, Explicit
<1> QED BY <1>1, PartsOf DEF Pending

\* The fields that decide what is pending, but for out.
Like(q, p) ==
  /\ q.inbuf = p.inbuf /\ q.size = p.size /\ q.type = p.type /\ q.login = p.login
  /\ q.running = p.running /\ q.commits = p.commits

LEMMA PutCosts ==
  ASSUME NEW p \in Sound, NEW r \in Replies
  PROVE  /\ Put(p, r) \in Sound /\ Put(p, r).state = p.state
         /\ Pending(Put(p, r)) = Pending(p) + IF r \in AnAnswer THEN 1 ELSE 0
<1>1. PICK q : q = Put(p, r)
  OBVIOUS
<1>2. p.out \in Seq(Replies) /\ Append(p.out, r) \in Seq(Replies)
  BY DEF Sound, PgType
<1>3. q \in PgType /\ Like(q, p) /\ q.out = Append(p.out, r) /\ q.state = p.state
  BY <1>1, <1>2 DEF Put, Sound, PgType, Like
<1>4. q \in Sound
  BY <1>3 DEF Sound, Like
<1>5. Unwritten(q) = Unwritten(p) + IF r \in AnAnswer THEN 1 ELSE 0
  BY <1>2, <1>3, CountOneMore DEF Unwritten
<1>6. Pending(q) - Unwritten(q) = Pending(p) - Unwritten(p)
  BY <1>3, <1>4, Owes DEF Like
<1>7. Pending(q) \in Nat /\ Unwritten(q) \in Nat /\ Pending(p) \in Nat /\ Unwritten(p) \in Nat
  BY <1>4, PartsOf
<1> QED BY <1>1, <1>3, <1>4, <1>5, <1>6, <1>7

\* The step leaves no more to come than p had, and k.
Settles(p, k) ==
  /\ pg' \in Sound /\ got' \in Seq(Replies)
  /\ Pending(pg') + CountIn(got', AnAnswer) <= Pending(p) + CountIn(got, AnAnswer) + k

LEMMA Silent ==
  ASSUME NEW p \in Sound, got \in Seq(Replies), Silently(p)
  PROVE  Settles(p, 0)
<1>1. Pending(p) \in Nat /\ CountIn(got, AnAnswer) \in Nat
  BY PartsOf, CountFinite
<1> QED BY <1>1 DEF Settles, Silently

\* ReadyForQuery is no answer.
LEMMA ReadyIsNone ==
  ASSUME NEW st, NEW tp
  PROVE  Ready(st, tp) \in Seq(Replies) /\ CountIn(Ready(st, tp), AnAnswer) = 0
<1>1. PICK z \in Readies : Ready(st, tp) \in {<<>>, <<z>>}
  <2>1. CASE st = "ESTABLISHED" /\ tp = NoTxn
    BY <2>1 DEF Ready, Readies
  <2>2. CASE st = "ESTABLISHED" /\ tp # NoTxn
    BY <2>2 DEF Ready, Readies
  <2>3. CASE st = "ABORTED"
    BY <2>3 DEF Ready, Readies
  <2>4. CASE st \notin {"ESTABLISHED", "ABORTED"}
    BY <2>4 DEF Ready, Readies
  <2> QED BY <2>1, <2>2, <2>3, <2>4
<1>2. Ready(st, tp) \in Seq(Replies)
  <2>1. z \in Replies
    BY DEF Readies, Replies
  <2>2. <<>> \in Seq(Replies) /\ <<z>> \in Seq(Replies)
    BY <2>1
  <2> QED BY <1>1, <2>2
<1>3. \A i \in DOMAIN Ready(st, tp) : Ready(st, tp)[i] \notin AnAnswer
  BY <1>1 DEF Readies, AnAnswer
<1> QED BY <1>2, <1>3, CountNone

\* Of all there is to write some is written, the rest stays or is dropped.
LEMMA SetOutOf ==
  ASSUME NEW p \in Sound, NEW q, NEW out \in Seq(Replies),
         \E e \in {"IN", "OUT"} : q = [p EXCEPT !.out = out, !.epoll = e]
  PROVE  q \in Sound /\ Pending(q) = Pending(p) - Unwritten(p) + CountIn(out, AnAnswer)
<1>1. q \in PgType /\ Like(q, p) /\ q.out = out /\ q.state = p.state
  BY DEF Sound, PgType, Like
<1>2. q \in Sound
  BY <1>1 DEF Sound, Like
<1>3. Pending(q) - Unwritten(q) = Pending(p) - Unwritten(p)
  BY <1>1, <1>2, Owes DEF Like
<1>4. Pending(q) \in Nat /\ Unwritten(q) \in Nat /\ Pending(p) \in Nat /\ Unwritten(p) \in Nat
  BY <1>2, PartsOf
<1>5. Unwritten(q) = CountIn(out, AnAnswer)
  BY <1>1 DEF Unwritten
<1> QED BY <1>2, <1>3, <1>4, <1>5

LEMMA Wrote ==
  ASSUME NEW p \in Sound, NEW st, NEW clears \in BOOLEAN, got \in Seq(Replies), Write(st, p, clears)
  PROVE  Settles(p, 0)
<1>1. p.out \in Seq(Replies) /\ p.epoll \in {"IN", "OUT"}
  BY DEF Sound, PgType
<1>2. PICK all \in Seq(Replies) : all = p.out \o Ready(st, p.tp)
  <2>1. Ready(st, p.tp) \in Seq(Replies)
    BY ReadyIsNone
  <2> QED BY <1>1, <2>1, ConcatProperties
<1>3. CountIn(all, AnAnswer) = Unwritten(p)
  <2>1. PICK a \in Seq(Replies), b \in Seq(Replies) : a = p.out /\ b = Ready(st, p.tp)
    BY <1>1, ReadyIsNone
  <2>2. CountIn(a \o b, AnAnswer) = CountIn(a, AnAnswer) + CountIn(b, AnAnswer)
    BY ONLY a \in Seq(Replies), b \in Seq(Replies), CountBoth
  <2>3. CountIn(b, AnAnswer) = 0 /\ CountIn(a, AnAnswer) \in Nat
    BY <2>1, ReadyIsNone, CountFinite
  <2> QED BY <1>2, <2>1, <2>2, <2>3 DEF Unwritten
<1>4. Pending(p) \in Nat /\ Unwritten(p) \in Nat /\ CountIn(got, AnAnswer) \in Nat
  BY PartsOf, CountFinite
<1>5. CASE pg' = [p EXCEPT !.out = <<>>] /\ got' = got \o all
  <2>1. pg' = [p EXCEPT !.out = <<>>, !.epoll = p.epoll]
    BY <1>1, <1>5 DEF Sound, PgType
  <2>2. pg' \in Sound /\ Pending(pg') = Pending(p) - Unwritten(p) + CountIn(<<>>, AnAnswer)
    <3>0. <<>> \in Seq(Replies)
      OBVIOUS
    <3>1. PICK out \in Seq(Replies), e \in {"IN", "OUT"} : out = <<>> /\ e = p.epoll
      BY <1>1, <3>0, Zenon
    <3>2. pg' = [p EXCEPT !.out = out, !.epoll = e]
      BY <2>1, <3>1
    <3> QED BY <3>1, <3>2, SetOutOf
  <2>3. CountIn(<<>>, AnAnswer) = 0
    BY CountNone
  <2>4. CountIn(got \o all, AnAnswer) = CountIn(got, AnAnswer) + CountIn(all, AnAnswer)
    BY ONLY got \in Seq(Replies), all \in Seq(Replies), CountBoth
  <2>5. got' \in Seq(Replies)
    BY <1>5, ConcatProperties
  <2>6. CountIn(got', AnAnswer) = CountIn(got, AnAnswer) + CountIn(all, AnAnswer)
    BY <1>5, <2>4
  <2> QED BY <1>3, <1>4, <2>2, <2>3, <2>5, <2>6 DEF Settles
<1>6. ASSUME NEW k \in 0 .. (Len(all) - 1),
             pg' = [p EXCEPT !.out = IF clears THEN <<>> ELSE SubSeq(all, k + 1, Len(all)),
                             !.epoll = "OUT"],
             got' = got \o SubSeq(all, 1, k)
      PROVE  Settles(p, 0)
  <2>0. k \in 0 .. Len(all)
    OBVIOUS
  <2>1. PICK a \in Seq(Replies), b \in Seq(Replies) :
          a = SubSeq(all, 1, k) /\ b = SubSeq(all, k + 1, Len(all))
    BY <2>0, Cut
  <2>2. CountIn(all, AnAnswer) = CountIn(a, AnAnswer) + CountIn(b, AnAnswer)
    BY <2>0, <2>1, CountCut
  <2>3. PICK out \in Seq(Replies) : out = IF clears THEN <<>> ELSE b
    <3>1. <<>> \in Seq(Replies) /\ b \in Seq(Replies)
      OBVIOUS
    <3> QED BY <3>1, Zenon
  <2>4. pg' \in Sound /\ Pending(pg') = Pending(p) - Unwritten(p) + CountIn(out, AnAnswer)
    <3>1. pg' = [p EXCEPT !.out = out, !.epoll = "OUT"]
      BY <1>6, <2>1, <2>3
    <3> QED BY <3>1, SetOutOf
  <2>5. CountIn(got \o a, AnAnswer) = CountIn(got, AnAnswer) + CountIn(a, AnAnswer)
    BY ONLY got \in Seq(Replies), a \in Seq(Replies), CountBoth
  <2>6. got' \in Seq(Replies) /\ CountIn(got', AnAnswer) = CountIn(got, AnAnswer) + CountIn(a, AnAnswer)
    BY <1>6, <2>1, <2>5, ConcatProperties
  <2>7. /\ CountIn(a, AnAnswer) \in Nat /\ CountIn(b, AnAnswer) \in Nat
        /\ CountIn(<<>>, AnAnswer) = 0
    BY CountFinite, CountNone
  <2>8. CountIn(out, AnAnswer) <= CountIn(b, AnAnswer) /\ CountIn(out, AnAnswer) \in Nat
    BY <2>3, <2>7
  <2>9. Pending(pg') + CountIn(got', AnAnswer) <= Pending(p) + CountIn(got, AnAnswer) + 0
    <3>1. PICK x \in Nat, y \in Nat, g \in Nat, i \in Nat, j \in Nat, o \in Nat :
            /\ x = Pending(p) /\ y = Unwritten(p) /\ g = CountIn(got, AnAnswer)
            /\ i = CountIn(a, AnAnswer) /\ j = CountIn(b, AnAnswer) /\ o = CountIn(out, AnAnswer)
      BY <1>4, <2>7, <2>8
    <3>2. y = i + j /\ o <= j /\ Pending(pg') = x - y + o /\ CountIn(got', AnAnswer) = g + i
      BY <1>3, <2>2, <2>4, <2>6, <2>8, <3>1
    <3>3. (x - y + o) + (g + i) <= x + g + 0
      BY <3>2
    <3> QED BY ONLY <3>1, <3>2, <3>3
  <2> QED BY <2>4, <2>6, <2>9 DEF Settles
<1> QED BY <1>2, <1>5, <1>6 DEF Write

-----------------------------------------------------------------------------
(* What each of the handlers leaves to come.                               *)

LEMMA Carries ==
  ASSUME NEW p \in Sound, NEW q \in Sound, NEW k \in Nat, NEW m \in Nat, got \in Seq(Replies),
         Pending(q) <= Pending(p) + k, Settles(q, m)
  PROVE  Settles(p, k + m)
<1>1. Pending(p) \in Nat /\ Pending(q) \in Nat /\ CountIn(got, AnAnswer) \in Nat
  BY PartsOf, CountFinite
<1>2. pg' \in Sound /\ got' \in Seq(Replies)
  BY DEF Settles
<1>3. Pending(pg') \in Nat /\ CountIn(got', AnAnswer) \in Nat
  BY <1>2, PartsOf, CountFinite
<1>4. Pending(pg') + CountIn(got', AnAnswer) <= Pending(q) + CountIn(got, AnAnswer) + m
  BY DEF Settles
<1>5. Pending(pg') + CountIn(got', AnAnswer) <= Pending(p) + CountIn(got, AnAnswer) + (k + m)
  BY ONLY <1>1, <1>3, <1>4, k \in Nat, m \in Nat, Pending(q) <= Pending(p) + k
<1> QED BY <1>2, <1>5 DEF Settles

LEMMA SaysOne ==
  ASSUME NEW p \in Sound, NEW r \in Replies, NEW clears \in BOOLEAN, NEW st, got \in Seq(Replies),
         Write(st, Put(p, r), clears)
  PROVE  Settles(p, 1)
<1>1. PICK q \in Sound : q = Put(p, r) /\ Pending(q) = Pending(p) + IF r \in AnAnswer THEN 1 ELSE 0
  BY PutCosts
<1>2. Pending(q) <= Pending(p) + 1
  BY <1>1, PartsOf
<1>3. Settles(q, 0)
  BY <1>1, Wrote
<1>4. Settles(p, 1 + 0)
  BY <1>1, <1>2, <1>3, Carries
<1> QED BY <1>4

\* A notice and a reply.
LEMMA SaysTwo ==
  ASSUME NEW p \in Sound, got \in Seq(Replies), WriteSocket(Put(Put(p, "N"), "C"))
  PROVE  Settles(p, 1)
<1>1. PICK q \in Sound : q = Put(p, "N") /\ Pending(q) = Pending(p)
  <2>1. "N" \in Replies /\ "N" \notin AnAnswer
    BY DEF Replies, AnAnswer
  <2> QED BY <2>1, PutCosts, PartsOf
<1>2. Settles(q, 1)
  BY <1>1, SaysOne DEF WriteSocket, Replies
<1>3. Settles(p, 0 + 1)
  BY <1>1, <1>2, Carries, PartsOf
<1> QED BY <1>3

LEMMA PutsError ==
  ASSUME NEW p \in Sound, got \in Seq(Replies), PutError(p)
  PROVE  Settles(p, 1)
BY SaysOne DEF PutError, WriteSocket, Replies

LEMMA RollsBack ==
  ASSUME NEW p \in Sound
  PROVE  RollbackImplicit(p) \in Sound /\ Pending(RollbackImplicit(p)) <= Pending(p)
<1>1. PICK q : q = RollbackImplicit(p)
  OBVIOUS
<1>2. p.txns \ {p.tp} \in SUBSET Nat /\ <<>> \in Seq(Replies) /\ NoTxn \in Nat
  BY DEF Sound, PgType, NoTxn
<1>3. q \in PgType /\ Like(q, p) /\ q.out = <<>> /\ q.state \in {p.state, "ABORTED"}
  BY <1>1, <1>2 DEF RollbackImplicit, Sound, PgType, Like
<1>4. q \in Sound
  BY <1>3 DEF Sound, Like
<1> QED BY <1>1, <1>3, <1>4, Sheds DEF Like

LEMMA ClosesSocket ==
  ASSUME NEW p \in Sound
  PROVE  CloseSocket(p) \in Sound /\ Pending(CloseSocket(p)) <= Pending(p)
<1>1. PICK q : q = CloseSocket(p)
  OBVIOUS
<1>2. q \in PgType /\ q.state = "EXITING"
  BY <1>1, CloseSocketIs DEF Sound
<1>3. /\ q.inbuf = p.inbuf /\ q.size = p.size /\ q.type = p.type /\ q.login = p.login
      /\ q.running \subseteq p.running /\ q.commits \subseteq p.commits /\ q.out = <<>>
  <2>1. CASE p.tp # NoTxn
    BY <1>1, <2>1 DEF CloseSocket, Sound, PgType
  <2>2. CASE p.tp = NoTxn
    BY <1>1, <2>2 DEF CloseSocket, Sound, PgType
  <2> QED BY <2>1, <2>2
<1>4. q \in Sound
  <2>1. IsFiniteSet(q.running) /\ IsFiniteSet(q.commits)
    BY <1>3, FS_Subset DEF Sound
  <2> QED BY <1>2, <2>1 DEF Sound
<1> QED BY <1>1, <1>3, <1>4, Sheds

LEMMA StartsCommit ==
  ASSUME NEW p \in Sound, NEW how \in {"implicit", "explicit"}
  PROVE  /\ StartCommit(p, how) \in Sound
         /\ Pending(StartCommit(p, how)) <= Pending(p) + IF how = "explicit" THEN 1 ELSE 0
<1>1. PICK q, w : q = StartCommit(p, how) /\ w = [txn |-> p.tp, how |-> how]
  OBVIOUS
<1>2. w \in Hows /\ p.commits \in SUBSET Hows
  BY <1>1 DEF Sound, PgType, Hows
<1>3. /\ q \in PgType /\ q.commits = p.commits \cup {w} /\ q.inbuf = p.inbuf /\ q.size = p.size
      /\ q.type = p.type /\ q.login = p.login /\ q.running = p.running /\ q.out = p.out
      /\ q.state = p.state
  BY <1>1, <1>2 DEF StartCommit, Sound, PgType
<1>4. q \in Sound
  <2>1. IsFiniteSet(p.commits \cup {w})
    BY FS_AddElement DEF Sound
  <2> QED BY <1>3, <2>1 DEF Sound
<1>5. Unread(q) = Unread(p) /\ Unwritten(q) = Unwritten(p)
  BY <1>3 DEF Unread, HalfRead, Unwritten
<1>6. Cardinality(Explicit(q)) <= Cardinality(Explicit(p)) + IF how = "explicit" THEN 1 ELSE 0
  <2>1. CASE how = "explicit"
    <3>1. Explicit(q) = Explicit(p) \cup {w}
      BY <1>1, <1>3, <2>1 DEF Explicit
    <3>2. Cardinality(Explicit(p)) \in Nat /\ IsFiniteSet(Explicit(p))
      BY PartsOf
    <3>3. Cardinality(Explicit(p) \cup {w}) <= Cardinality(Explicit(p)) + 1
      BY <3>2, FS_AddElement
    <3> QED BY <2>1, <3>1, <3>3
  <2>2. CASE how = "implicit"
    <3>1. Explicit(q) = Explicit(p)
      BY <1>1, <1>3, <2>2 DEF Explicit
    <3> QED BY <2>2, <3>1, PartsOf
  <2> QED BY <2>1, <2>2
<1>7. AtWork(q) <= AtWork(p) + IF how = "explicit" THEN 1 ELSE 0
  <2>1. q.running = p.running /\ q.login = p.login
    BY <1>3
  <2>2. /\ Cardinality(Explicit(q)) \in Nat /\ Cardinality(Explicit(p)) \in Nat
        /\ Cardinality(p.running) \in Nat
    BY <1>4, PartsOf
  <2> QED BY <1>6, <2>1, <2>2 DEF AtWork
<1> QED BY <1>1, <1>4, <1>5, <1>7, PartsOf DEF Pending

\* Fields of the transaction and the block change, and nothing else.
Other(q, p) ==
  Like(q, p) /\ q \in PgType /\ q.out = p.out /\ (q.state = "BEGIN" => p.state = "BEGIN")

LEMMA OtherIsNothing ==
  ASSUME NEW p \in Sound, NEW q, Other(q, p)
  PROVE  q \in Sound /\ Pending(q) <= Pending(p)
<1>1. q \in Sound
  BY DEF Other, Like, Sound
<1> QED BY <1>1, Sheds DEF Other, Like

LEMMA RollsBackExplicit ==
  ASSUME NEW p \in Sound, got \in Seq(Replies), RollbackExplicit(p)
  PROVE  Settles(p, 1)
<1>1. PICK q : q = [p EXCEPT !.txns = @ \ {p.tp}, !.tp = NoTxn]
  OBVIOUS
<1>2. Other(q, p)
  <2>1. p.txns \ {p.tp} \in SUBSET Nat /\ NoTxn \in Nat
    BY DEF Sound, PgType, NoTxn
  <2> QED BY <1>1, <2>1 DEF Other, Like, Sound, PgType
<1>3. q \in Sound /\ Pending(q) <= Pending(p) + 0
  BY <1>2, OtherIsNothing, PartsOf
<1>4. CASE p.state = "EXITING"
  <2>1. Silently([q EXCEPT !.freed = ~q.stmt])
    BY <1>1, <1>4 DEF RollbackExplicit
  <2>2. PICK r : r = [q EXCEPT !.freed = ~q.stmt]
    OBVIOUS
  <2>3. Other(r, q)
    <3>1. (~q.stmt) \in BOOLEAN
      OBVIOUS
    <3> QED BY <1>3, <2>2, <3>1 DEF Other, Like, Sound, PgType
  <2>4. r \in Sound /\ Pending(r) <= Pending(q) + 0
    BY <1>3, <2>3, OtherIsNothing, PartsOf
  <2>5. Settles(r, 0)
    BY <2>1, <2>2, <2>4, Silent
  <2>6. Settles(q, 0 + 0)
    BY <1>3, <2>4, <2>5, Carries
  <2>7. Settles(p, 0 + 1)
    <3>1. Settles(q, 1)
      <4>1. Pending(q) \in Nat /\ CountIn(got, AnAnswer) \in Nat
        BY <1>3, PartsOf, CountFinite
      <4>2. Pending(q) <= Pending(q) + 1 /\ Settles(q, 0)
        BY <2>6, <4>1
      <4>3. Settles(q, 1 + 0)
        BY <1>3, <4>2, Carries
      <4> QED BY <4>3
    <3> QED BY <1>3, <3>1, Carries
  <2> QED BY <2>7
<1>5. CASE p.state # "EXITING"
  <2>1. Write(Put(q, "C").state, Put(q, "C"), TRUE)
    BY <1>1, <1>5 DEF RollbackExplicit, WriteAndClear
  <2>2. Settles(q, 1)
    BY <1>3, <2>1, SaysOne DEF Replies
  <2>3. Settles(p, 0 + 1)
    BY <1>3, <2>2, Carries
  <2> QED BY <2>3
<1> QED BY <1>4, <1>5

\* What settles with fewer answers settles with more.
LEMMA Weaker ==
  ASSUME NEW p \in Sound, got \in Seq(Replies), NEW k \in Nat, Settles(p, 0)
  PROVE  Settles(p, k)
<1>1. Pending(p) <= Pending(p) + k
  BY PartsOf
<1>2. Settles(p, k + 0)
  BY <1>1, Carries
<1> QED BY <1>2

LEMMA CommitsLater ==
  ASSUME NEW p \in Sound, got \in Seq(Replies), NEW how \in {"implicit", "explicit"},
         Silently(StartCommit(p, how))
  PROVE  Settles(p, IF how = "explicit" THEN 1 ELSE 0)
<1>1. PICK k \in Nat : k = IF how = "explicit" THEN 1 ELSE 0
  <2>1. 0 \in Nat /\ 1 \in Nat
    OBVIOUS
  <2> QED BY <2>1, Zenon
<1>2. StartCommit(p, how) \in Sound /\ Pending(StartCommit(p, how)) <= Pending(p) + k
  BY <1>1, StartsCommit
<1>3. Settles(StartCommit(p, how), 0)
  BY <1>2, Silent
<1>4. Settles(p, k + 0)
  BY <1>2, <1>3, Carries
<1> QED BY <1>1, <1>4

LEMMA ChangeContinues ==
  ASSUME NEW p \in Sound, got \in Seq(Replies), NEW ok \in BOOLEAN, ContinueChange(p, ok)
  PROVE  Settles(p, 1)
<1>1. CASE ~ok
  <2>1. PICK q \in Sound : q = RollbackImplicit(p) /\ Pending(q) <= Pending(p)
    BY RollsBack
  <2>2. Settles(q, 1)
    BY <1>1, <2>1, PutsError DEF ContinueChange
  <2>3. Settles(p, 0 + 1)
    BY <2>1, <2>2, PartsOf, Carries
  <2> QED BY <2>3
<1>2. CASE ok /\ p.inblock
  BY <1>2, SaysOne DEF ContinueChange, WriteSocket, Replies
<1>3. CASE ok /\ ~p.inblock
  <2>1. PICK q \in Sound : q = Put(p, "C") /\ Pending(q) = Pending(p) + 1
    <3>1. "C" \in Replies /\ "C" \in AnAnswer
      BY DEF Replies, AnAnswer
    <3> QED BY <3>1, PutCosts
  <2>2. Silently(StartCommit(q, "implicit"))
    BY <1>3, <2>1 DEF ContinueChange
  <2>3. Settles(q, 0)
    BY <2>2, CommitsLater
  <2>4. Settles(p, 1 + 0)
    BY <2>1, <2>3, PartsOf, Carries
  <2> QED BY <2>4
<1> QED BY <1>1, <1>2, <1>3

LEMMA BeginContinues ==
  ASSUME NEW p \in Sound, got \in Seq(Replies), ContinueBegin(p)
  PROVE  Settles(p, 1)
<1>1. CASE p.tp = NoTxn
  <2>1. PICK q : q = [p EXCEPT !.made = @ + 1, !.tp = p.made + 1, !.inblock = TRUE,
                               !.txns = @ \cup {p.made + 1}]
    OBVIOUS
  <2>2. Other(q, p)
    <3>1. p.made + 1 \in Nat /\ p.txns \cup {p.made + 1} \in SUBSET Nat
      BY DEF Sound, PgType
    <3> QED BY <2>1, <3>1 DEF Other, Like, Sound, PgType
  <2>3. q \in Sound /\ Pending(q) <= Pending(p) + 0
    BY <2>2, OtherIsNothing, PartsOf
  <2>4. Settles(q, 1)
    BY <1>1, <2>1, <2>3, SaysOne DEF ContinueBegin, WriteSocket, Replies
  <2>5. Settles(p, 0 + 1)
    BY <2>3, <2>4, Carries
  <2> QED BY <2>5
<1>2. CASE p.tp # NoTxn
  BY <1>2, SaysTwo DEF ContinueBegin
<1> QED BY <1>1, <1>2

LEMMA CommitContinues ==
  ASSUME NEW p \in Sound, got \in Seq(Replies), ContinueCommit(p)
  PROVE  Settles(p, 1)
<1>1. CASE p.tp = NoTxn
  BY <1>1, SaysTwo DEF ContinueCommit
<1>2. CASE p.tp # NoTxn
  <2>1. PICK q : q = [p EXCEPT !.inblock = FALSE]
    OBVIOUS
  <2>2. Other(q, p)
    BY <2>1 DEF Other, Like, Sound, PgType
  <2>3. q \in Sound /\ Pending(q) <= Pending(p) + 0
    BY <2>2, OtherIsNothing, PartsOf
  <2>4. Settles(q, IF "explicit" = "explicit" THEN 1 ELSE 0)
    BY <1>2, <2>1, <2>3, CommitsLater DEF ContinueCommit
  <2>5. Settles(p, 0 + 1)
    BY <2>3, <2>4, Carries
  <2> QED BY <2>5
<1> QED BY <1>1, <1>2

LEMMA RollbackContinues ==
  ASSUME NEW p \in Sound, got \in Seq(Replies), ContinueRollback(p)
  PROVE  Settles(p, 1)
<1>1. CASE p.tp = NoTxn
  BY <1>1, SaysTwo DEF ContinueRollback
<1>2. CASE p.tp # NoTxn
  <2>1. PICK q : q = [p EXCEPT !.inblock = FALSE]
    OBVIOUS
  <2>2. Other(q, p)
    BY <2>1 DEF Other, Like, Sound, PgType
  <2>3. q \in Sound /\ Pending(q) <= Pending(p) + 0
    BY <2>2, OtherIsNothing, PartsOf
  <2>4. Settles(q, 1)
    BY <1>2, <2>1, <2>3, RollsBackExplicit DEF ContinueRollback
  <2>5. Settles(p, 0 + 1)
    BY <2>3, <2>4, Carries
  <2> QED BY <2>5
<1> QED BY <1>1, <1>2

LEMMA StatementsStart ==
  ASSUME NEW p \in Sound, got \in Seq(Replies), NEW q \in Queries, ExecuteStatement(p, q)
  PROVE  Settles(p, 1)
<1>1. q \in {"BEGIN", "COMMIT", "ROLLBACK", "CHANGE", "SYNTAX", "UNKNOWN"}
  BY PgAssumption
<1>2. PICK r : r = [p EXCEPT !.stmt = FALSE]
  OBVIOUS
<1>3. r \in Sound /\ Pending(r) <= Pending(p) + 0
  <2>1. Other(r, p)
    BY <1>2 DEF Other, Like, Sound, PgType
  <2> QED BY <2>1, OtherIsNothing, PartsOf
<1>4. Settles(r, 1) => Settles(p, 1)
  <2>1. Settles(r, 1) => Settles(p, 0 + 1)
    BY <1>3, Carries
  <2> QED BY <2>1
<1>5. CASE q = "SYNTAX"
  BY <1>5, PutsError DEF ExecuteStatement
<1>6. CASE q = "UNKNOWN"
  <2>1. PICK b \in Sound : b = RollbackImplicit(p) /\ Pending(b) <= Pending(p)
    BY RollsBack
  <2>2. PICK s : s = [b EXCEPT !.stmt = TRUE]
    OBVIOUS
  <2>3. s \in Sound /\ Pending(s) <= Pending(p) + 0
    <3>1. Other(s, b)
      BY <2>2 DEF Other, Like, Sound, PgType
    <3>2. s \in Sound /\ Pending(s) <= Pending(b)
      BY <3>1, OtherIsNothing
    <3>3. Pending(s) \in Nat /\ Pending(b) \in Nat /\ Pending(p) \in Nat
      BY <3>2, PartsOf
    <3> QED BY <2>1, <3>2, <3>3
  <2>4. Settles(s, 1)
    BY <1>6, <2>1, <2>2, <2>3, PutsError DEF ExecuteStatement
  <2>5. Settles(p, 0 + 1)
    BY <2>3, <2>4, Carries
  <2> QED BY <2>5
<1>7. CASE q = "BEGIN"
  BY <1>2, <1>3, <1>4, <1>7, BeginContinues DEF ExecuteStatement
<1>8. CASE q = "COMMIT"
  BY <1>2, <1>3, <1>4, <1>8, CommitContinues DEF ExecuteStatement
<1>9. CASE q = "ROLLBACK"
  BY <1>2, <1>3, <1>4, <1>9, RollbackContinues DEF ExecuteStatement
<1>10. CASE q = "CHANGE"
  <2>1. PICK n : n = IF p.tp = NoTxn THEN p.made + 1 ELSE p.tp
    OBVIOUS
  <2>2. n \in Nat /\ [txn |-> n] \in Works
    BY <2>1 DEF Sound, PgType, Works
  <2>3. PICK s : s = [p EXCEPT !.stmt = TRUE, !.txns = @ \cup {n},
                               !.made = IF p.tp = NoTxn THEN n ELSE @,
                               !.running = @ \cup {[txn |-> n]}]
    OBVIOUS
  <2>4. Silently(s)
    BY <1>10, <2>1, <2>3 DEF ExecuteStatement
  <2>5. /\ s \in PgType /\ s.running = p.running \cup {[txn |-> n]} /\ s.inbuf = p.inbuf
        /\ s.size = p.size /\ s.type = p.type /\ s.login = p.login /\ s.commits = p.commits
        /\ s.out = p.out /\ s.state = p.state
    <3>1. /\ p.txns \cup {n} \in SUBSET Nat /\ p.running \cup {[txn |-> n]} \in SUBSET Works
          /\ (IF p.tp = NoTxn THEN n ELSE p.made) \in Nat
      BY <2>2 DEF Sound, PgType
    <3> QED BY <2>3, <3>1 DEF Sound, PgType
  <2>6. Cardinality(p.running \cup {[txn |-> n]}) <= Cardinality(p.running) + 1
        /\ IsFiniteSet(p.running \cup {[txn |-> n]})
    <3>1. IsFiniteSet(p.running) /\ Cardinality(p.running) \in Nat
      BY PartsOf DEF Sound
    <3>2. /\ IsFiniteSet(p.running \cup {[txn |-> n]})
          /\ Cardinality(p.running \cup {[txn |-> n]}) =
               IF [txn |-> n] \in p.running THEN Cardinality(p.running) ELSE Cardinality(p.running) + 1
      BY <3>1, FS_AddElement
    <3> QED BY <3>1, <3>2
  <2>7. s \in Sound
    BY <2>5, <2>6 DEF Sound
  <2>8. Unread(s) = Unread(p) /\ Unwritten(s) = Unwritten(p) /\ Explicit(s) = Explicit(p)
    BY <2>5 DEF Unread, HalfRead, Unwritten, Explicit
  <2>9. AtWork(s) <= AtWork(p) + 1
    <3>1. /\ Cardinality(s.running) \in Nat /\ Cardinality(p.running) \in Nat
          /\ Cardinality(Explicit(p)) \in Nat /\ s.login = p.login
          /\ Cardinality(s.running) <= Cardinality(p.running) + 1
      BY <2>5, <2>6, <2>7, PartsOf
    <3> QED BY <2>8, <3>1 DEF AtWork
  <2>10. Pending(s) <= Pending(p) + 1
    BY <2>7, <2>8, <2>9, PendingRises
  <2>11. Settles(s, 0)
    BY <2>4, <2>7, Silent
  <2>12. Settles(p, 1 + 0)
    BY <2>7, <2>10, <2>11, Carries
  <2> QED BY <2>12
<1> QED BY <1>1, <1>5, <1>6, <1>7, <1>8, <1>9, <1>10

LEMMA StatementsRest ==
  ASSUME NEW p \in Sound, got \in Seq(Replies), NEW q \in Queries, AbortedStatement(p, q)
  PROVE  Settles(p, 1)
<1>1. q \in {"BEGIN", "COMMIT", "ROLLBACK", "CHANGE", "SYNTAX", "UNKNOWN"}
  BY PgAssumption
<1>2. CASE q = "SYNTAX"
  BY <1>2, PutsError DEF AbortedStatement
<1>3. CASE q \in {"COMMIT", "ROLLBACK"}
  <2>1. PICK r : r = [p EXCEPT !.state = "ESTABLISHED", !.inblock = FALSE, !.stmt = TRUE]
    OBVIOUS
  <2>2. r \in Sound /\ Pending(r) <= Pending(p) + 0
    <3>1. Other(r, p)
      BY <2>1 DEF Other, Like, Sound, PgType
    <3> QED BY <3>1, OtherIsNothing, PartsOf
  <2>3. Settles(r, 1)
    BY <1>3, <2>1, <2>2, SaysOne DEF AbortedStatement, WriteSocket, Replies
  <2>4. Settles(p, 0 + 1)
    BY <2>2, <2>3, Carries
  <2> QED BY <2>4
<1>4. CASE q \in {"BEGIN", "CHANGE", "UNKNOWN"}
  <2>1. PICK r : r = [p EXCEPT !.stmt = TRUE]
    OBVIOUS
  <2>2. r \in Sound /\ Pending(r) <= Pending(p) + 0
    <3>1. Other(r, p)
      BY <2>1 DEF Other, Like, Sound, PgType
    <3> QED BY <3>1, OtherIsNothing, PartsOf
  <2>3. Settles(r, 1)
    BY <1>4, <2>1, <2>2, PutsError DEF AbortedStatement
  <2>4. Settles(p, 0 + 1)
    BY <2>2, <2>3, Carries
  <2> QED BY <2>4
<1> QED BY <1>1, <1>2, <1>3, <1>4

\* What ends gives way to its answer.
LEMMA GivesWay ==
  ASSUME NEW p \in Sound, NEW q \in Sound, got \in Seq(Replies),
         Pending(q) + 1 <= Pending(p), Settles(q, 1)
  PROVE  Settles(p, 0)
<1>1. Pending(p) \in Nat /\ Pending(q) \in Nat /\ CountIn(got, AnAnswer) \in Nat
  BY PartsOf, CountFinite
<1>2. pg' \in Sound /\ got' \in Seq(Replies)
  BY DEF Settles
<1>3. Pending(pg') \in Nat /\ CountIn(got', AnAnswer) \in Nat
  BY <1>2, PartsOf, CountFinite
<1>4. Pending(pg') + CountIn(got', AnAnswer) <= Pending(q) + CountIn(got, AnAnswer) + 1
  BY DEF Settles
<1>5. Pending(pg') + CountIn(got', AnAnswer) <= Pending(p) + CountIn(got, AnAnswer) + 0
  BY ONLY <1>1, <1>3, <1>4, Pending(q) + 1 <= Pending(p)
<1> QED BY <1>2, <1>5 DEF Settles

LEMMA StatementAnswered ==
  ASSUME pg \in Sound, got \in Seq(Replies), NEW w \in pg.running, NEW ok \in BOOLEAN,
         StatementEnds(w, ok)
  PROVE  Settles(pg, 0)
<1>1. PICK p : p = [pg EXCEPT !.running = @ \ {w}, !.stmt = FALSE, !.tp = w.txn]
  OBVIOUS
<1>2. /\ p \in PgType /\ p.running = pg.running \ {w} /\ p.inbuf = pg.inbuf /\ p.size = pg.size
      /\ p.type = pg.type /\ p.login = pg.login /\ p.commits = pg.commits /\ p.out = pg.out
      /\ p.state = pg.state
  <2>1. w.txn \in Nat /\ pg.running \ {w} \in SUBSET Works
    BY DEF Sound, PgType, Works
  <2> QED BY <1>1, <2>1 DEF Sound, PgType
<1>3. IsFiniteSet(pg.running \ {w}) /\ Cardinality(pg.running \ {w}) = Cardinality(pg.running) - 1
  BY FS_RemoveElement DEF Sound
<1>4. p \in Sound
  BY <1>2, <1>3 DEF Sound
<1>5. Unread(p) = Unread(pg) /\ Unwritten(p) = Unwritten(pg) /\ Explicit(p) = Explicit(pg)
  BY <1>2 DEF Unread, HalfRead, Unwritten, Explicit
<1>6. AtWork(p) + 1 = AtWork(pg)
  <2>1. /\ Cardinality(p.running) \in Nat /\ Cardinality(pg.running) \in Nat
        /\ Cardinality(Explicit(pg)) \in Nat /\ p.login = pg.login
        /\ Cardinality(p.running) = Cardinality(pg.running) - 1
    BY <1>2, <1>3, <1>4, PartsOf
  <2> QED BY <1>5, <2>1 DEF AtWork
<1>7. Pending(p) + 1 <= Pending(pg)
  BY <1>4, <1>5, <1>6, PendingFalls
<1>8. Settles(p, 1)
  <2>1. CASE pg.state = "EXITING" /\ w.txn = NoTxn
    <3>1. PICK r : r = [p EXCEPT !.freed = TRUE]
      OBVIOUS
    <3>2. Other(r, p)
      BY <1>4, <3>1 DEF Other, Like, Sound, PgType
    <3>3. r \in Sound /\ Pending(r) <= Pending(p) + 1
      <4>1. r \in Sound /\ Pending(r) <= Pending(p)
        BY <1>4, <3>2, OtherIsNothing
      <4>2. Pending(r) \in Nat /\ Pending(p) \in Nat
        BY <1>4, <4>1, PartsOf
      <4> QED BY <4>1, <4>2
    <3>4. Settles(r, 0)
      BY <1>1, <2>1, <3>1, <3>3, Silent DEF StatementEnds
    <3>5. Settles(p, 1 + 0)
      BY <1>4, <3>3, <3>4, Carries
    <3> QED BY <3>5
  <2>2. CASE pg.state = "EXITING" /\ w.txn # NoTxn
    BY <1>1, <1>4, <2>2, RollsBackExplicit DEF StatementEnds
  <2>3. CASE pg.state # "EXITING"
    BY <1>1, <1>4, <2>3, ChangeContinues DEF StatementEnds
  <2> QED BY <2>1, <2>2, <2>3
<1> QED BY <1>4, <1>7, <1>8, GivesWay

LEMMA CommitAnswered ==
  ASSUME pg \in Sound, got \in Seq(Replies), NEW w \in pg.commits, CommitEnds(w)
  PROVE  Settles(pg, 0)
<1>1. PICK p : p = [pg EXCEPT !.commits = @ \ {w}, !.txns = @ \ {w.txn}, !.tp = NoTxn]
  OBVIOUS
<1>2. /\ p \in PgType /\ p.commits = pg.commits \ {w} /\ p.inbuf = pg.inbuf /\ p.size = pg.size
      /\ p.type = pg.type /\ p.login = pg.login /\ p.running = pg.running /\ p.out = pg.out
      /\ p.state = pg.state
  <2>1. pg.txns \ {w.txn} \in SUBSET Nat /\ pg.commits \ {w} \in SUBSET Hows /\ NoTxn \in Nat
    BY DEF Sound, PgType, NoTxn
  <2> QED BY <1>1, <2>1 DEF Sound, PgType
<1>3. p \in Sound
  <2>1. IsFiniteSet(pg.commits \ {w})
    BY FS_RemoveElement DEF Sound
  <2> QED BY <1>2, <2>1 DEF Sound
<1>4. Pending(p) <= Pending(pg) + 0
  BY <1>2, <1>3, Sheds, PartsOf
<1>5. CASE pg.state = "EXITING"
  <2>1. PICK r : r = [p EXCEPT !.freed = ~p.stmt]
    OBVIOUS
  <2>2. Other(r, p)
    <3>1. (~p.stmt) \in BOOLEAN
      OBVIOUS
    <3> QED BY <1>3, <2>1, <3>1 DEF Other, Like, Sound, PgType
  <2>3. r \in Sound /\ Pending(r) <= Pending(pg) + 0
    <3>1. r \in Sound /\ Pending(r) <= Pending(p)
      BY <1>3, <2>2, OtherIsNothing
    <3>2. Pending(r) \in Nat /\ Pending(p) \in Nat /\ Pending(pg) \in Nat
      BY <1>3, <3>1, PartsOf
    <3> QED BY <1>4, <3>1, <3>2
  <2>4. Settles(r, 0)
    BY <1>1, <1>5, <2>1, <2>3, Silent DEF CommitEnds
  <2>5. Settles(pg, 0 + 0)
    BY <2>3, <2>4, Carries
  <2> QED BY <2>5
<1>6. CASE pg.state # "EXITING" /\ w.how = "implicit"
  <2>1. Settles(p, 0)
    BY <1>1, <1>3, <1>6, Wrote DEF CommitEnds, WriteSocket
  <2>2. Settles(pg, 0 + 0)
    BY <1>3, <1>4, <2>1, Carries
  <2> QED BY <2>2
<1>7. CASE pg.state # "EXITING" /\ w.how # "implicit"
  <2>1. w.how = "explicit"
    BY <1>7 DEF Sound, PgType, Hows
  <2>2. Explicit(p) = Explicit(pg) \ {w} /\ w \in Explicit(pg)
    BY <1>2, <2>1 DEF Explicit
  <2>3. Cardinality(Explicit(p)) = Cardinality(Explicit(pg)) - 1
    BY <2>2, FS_RemoveElement, PartsOf
  <2>4. Unread(p) = Unread(pg) /\ Unwritten(p) = Unwritten(pg)
    BY <1>2 DEF Unread, HalfRead, Unwritten
  <2>5. AtWork(p) + 1 = AtWork(pg)
    <3>1. /\ Cardinality(pg.running) \in Nat /\ Cardinality(Explicit(p)) \in Nat
          /\ Cardinality(Explicit(pg)) \in Nat /\ p.login = pg.login /\ p.running = pg.running
      BY <1>2, <1>3, PartsOf
    <3> QED BY <2>3, <3>1 DEF AtWork
  <2>6. Pending(p) + 1 <= Pending(pg)
    BY <1>3, <2>4, <2>5, PendingFalls
  <2>7. Settles(p, 1)
    BY <1>1, <1>3, <1>7, SaysOne DEF CommitEnds, WriteAndClear, Replies
  <2> QED BY <1>3, <2>6, <2>7, GivesWay
<1> QED BY <1>5, <1>6, <1>7

-----------------------------------------------------------------------------
(* Requests are taken from the stream once.                                *)

LEMMA HeaderUnits ==
  ASSUME NEW u \in Unit
  PROVE  /\ SizeIn(u) \in Nat /\ TypeIn(u) \in Types
         /\ TypeIn(u) \in Requests => u \in Firsts
<1>1. u[1] \in Kinds /\ u[2] \in Nat /\ u = <<u[1], u[2]>>
  BY DEF Unit
<1>2. BodyLength(u[1]) \in Nat
  <2>1. u[1] \in {"SSL", "STARTUP", "PASSWORD", "TERMINATE"} \/ u[1] \in Queries
    BY <1>1 DEF Kinds
  <2>2. Queries \cap {"SSL", "STARTUP", "PASSWORD", "TERMINATE"} = {}
    BY PgAssumption
  <2> QED BY <2>1, <2>2 DEF BodyLength
<1>3. SizeIn(u) \in Nat
  BY <1>2 DEF SizeIn, Huge
<1>4. TypeIn(u) \in {u[1], "?"} /\ TypeIn(u) \in Types
  BY <1>1 DEF TypeIn, Types
<1>5. "?" \notin Requests
  BY PgAssumption DEF Requests
<1>6. ASSUME TypeIn(u) \in Requests PROVE u \in Firsts
  <2>1. u[2] = 1 /\ TypeIn(u) = u[1]
    BY <1>5, <1>6 DEF TypeIn
  <2> QED BY <1>1, <1>6, <2>1 DEF Firsts
<1> QED BY <1>3, <1>4, <1>6

\* The three things initcmd may do with what there is to read.
Takes(p, data, need) ==
  \/ /\ pg.size # 0 \/ Len(data) < need
     /\ p = [pg EXCEPT !.inbuf = data]
  \/ /\ pg.size = 0 /\ Len(data) >= need
     /\ p = [pg EXCEPT !.type  = IF need = 2 THEN TypeIn(data[1]) ELSE @,
                       !.size  = SizeIn(data[need]),
                       !.inbuf = SubSeq(data, need + 1, Len(data))]

LEMMA InitReads ==
  ASSUME pg \in Sound, wire \in Seq(Unit), NEW n \in 1 .. Len(wire), NEW c,
         c = InitCmd(SubSeq(wire, 1, n))
  PROVE  /\ c.p \in Sound /\ c.p.state = pg.state /\ c.ret \in {-1, 0, 1}
         /\ Pending(c.p) + CountIn(SubSeq(wire, n + 1, Len(wire)), Firsts)
              <= Pending(pg) + CountIn(wire, Firsts)
         /\ c.ret = 1 /\ c.p.type \in Requests /\ pg.state # "BEGIN" =>
              Pending(c.p) + CountIn(SubSeq(wire, n + 1, Len(wire)), Firsts) + 1
                <= Pending(pg) + CountIn(wire, Firsts)
<1>0. n \in 0 .. Len(wire) /\ n \in Nat /\ n >= 1 /\ pg.inbuf \in Seq(Unit) /\ pg.size \in Nat
  BY DEF Sound, PgType
<1>1. PICK new \in Seq(Unit), rest \in Seq(Unit) :
        new = SubSeq(wire, 1, n) /\ rest = SubSeq(wire, n + 1, Len(wire)) /\ Len(new) = n
  BY <1>0, Cut
<1>2. CountIn(wire, Firsts) = CountIn(new, Firsts) + CountIn(rest, Firsts)
  BY <1>0, <1>1, CountCut
<1>3. PICK data \in Seq(Unit), b \in Seq(Unit) : data = b \o new /\ b = pg.inbuf
  BY <1>0, <1>1, ConcatProperties
<1>4. CountIn(data, Firsts) = CountIn(pg.inbuf, Firsts) + CountIn(new, Firsts)
      /\ Len(data) = Len(pg.inbuf) + n
  <2>1. CountIn(b \o new, Firsts) = CountIn(b, Firsts) + CountIn(new, Firsts)
        /\ Len(b \o new) = Len(b) + Len(new)
    BY ONLY b \in Seq(Unit), new \in Seq(Unit), CountBoth, ConcatProperties
  <2> QED BY <1>1, <1>3, <2>1
<1>5. PICK need \in {1, 2} : need = IF pg.state = "BEGIN" THEN 1 ELSE 2
  OBVIOUS
<1>6. PICK p : p = c.p
  OBVIOUS
<1>7. /\ Takes(p, data, need)
      /\ c.ret = IF p.size = 0 \/ Len(p.inbuf) + 1 < p.size THEN 0
                 ELSE IF Len(p.inbuf) + 1 = p.size THEN 1 ELSE -1
  <2>1. /\ p = (IF pg.size # 0 THEN [pg EXCEPT !.inbuf = data]
                ELSE IF Len(data) < need THEN [pg EXCEPT !.inbuf = data]
                ELSE [pg EXCEPT !.type  = IF need = 2 THEN TypeIn(data[1]) ELSE @,
                                !.size  = SizeIn(data[need]),
                                !.inbuf = SubSeq(data, need + 1, Len(data))])
        /\ c.ret = IF p.size = 0 \/ Len(p.inbuf) + 1 < p.size THEN 0
                   ELSE IF Len(p.inbuf) + 1 = p.size THEN 1 ELSE -1
    BY <1>1, <1>3, <1>5, <1>6 DEF InitCmd
  <2>2. Len(data) \in Nat /\ (~(Len(data) < need) <=> Len(data) >= need)
    BY <1>5
  <2> QED BY <2>1, <2>2 DEF Takes
<1>8. /\ CountIn(pg.inbuf, Firsts) \in Nat /\ CountIn(new, Firsts) \in Nat
      /\ CountIn(rest, Firsts) \in Nat /\ CountIn(data, Firsts) \in Nat
  BY <1>0, CountFinite
<1> DEFINE Goal ==
      /\ p \in Sound /\ AtWork(p) = AtWork(pg) /\ Unwritten(p) = Unwritten(pg) /\ p.state = pg.state
      /\ Unread(p) <= Unread(pg) + CountIn(new, Firsts)
      /\ c.ret = 1 /\ p.type \in Requests /\ pg.state # "BEGIN" =>
           Unread(p) + 1 <= Unread(pg) + CountIn(new, Firsts)
<1>9. ASSUME pg.size # 0 \/ Len(data) < need, p = [pg EXCEPT !.inbuf = data] PROVE Goal
  <2>1. /\ p \in Sound /\ p.inbuf = data /\ p.size = pg.size /\ p.type = pg.type
        /\ p.login = pg.login /\ p.running = pg.running /\ p.commits = pg.commits
        /\ p.out = pg.out /\ p.state = pg.state
    BY <1>9 DEF Sound, PgType
  <2>2. AtWork(p) = AtWork(pg) /\ Unwritten(p) = Unwritten(pg)
    BY <2>1 DEF AtWork, Unwritten, Explicit
  <2>3. Len(pg.inbuf) \in Nat /\ Len(data) \in Nat
    BY <1>0
  <2>4. HalfRead(p) => HalfRead(pg)
    BY <1>0, <1>4, <2>1, <2>3 DEF HalfRead
  <2>5. Unread(p) <= Unread(pg) + CountIn(new, Firsts)
    <3>1. CountIn(p.inbuf, Firsts) = CountIn(pg.inbuf, Firsts) + CountIn(new, Firsts)
      BY <1>4, <2>1
    <3>2. (IF HalfRead(p) THEN 1 ELSE 0) <= IF HalfRead(pg) THEN 1 ELSE 0
      BY <2>4
    <3>3. (IF HalfRead(p) THEN 1 ELSE 0) \in Nat /\ (IF HalfRead(pg) THEN 1 ELSE 0) \in Nat
      OBVIOUS
    <3> QED BY ONLY <1>8, <3>1, <3>2, <3>3 DEF Unread
  <2>6. ASSUME c.ret = 1, p.type \in Requests PROVE Unread(p) + 1 <= Unread(pg) + CountIn(new, Firsts)
    <3>1. p.size # 0 /\ Len(p.inbuf) + 1 = p.size
      BY <1>7, <2>6
    <3>2. HalfRead(pg) /\ ~HalfRead(p)
      BY <1>0, <1>4, <2>1, <2>3, <2>6, <3>1 DEF HalfRead
    <3> QED BY <1>4, <1>8, <2>1, <3>2 DEF Unread
  <2> QED BY <2>1, <2>2, <2>5, <2>6
<1>10. ASSUME pg.size = 0, Len(data) >= need,
              p = [pg EXCEPT !.type  = IF need = 2 THEN TypeIn(data[1]) ELSE @,
                             !.size  = SizeIn(data[need]),
                             !.inbuf = SubSeq(data, need + 1, Len(data))]
       PROVE Goal
  <2>1. need \in 0 .. Len(data) /\ need \in 1 .. Len(data) /\ 1 \in 1 .. Len(data)
    BY <1>10
  <2>2. data[1] \in Unit /\ data[need] \in Unit
    BY <2>1
  <2>3. PICK h \in Seq(Unit), f \in Seq(Unit) :
          h = SubSeq(data, need + 1, Len(data)) /\ f = SubSeq(data, 1, need) /\ Len(f) = need
    <3>1. /\ SubSeq(data, need + 1, Len(data)) \in Seq(Unit) /\ SubSeq(data, 1, need) \in Seq(Unit)
          /\ Len(SubSeq(data, 1, need)) = need
      BY <2>1, Cut
    <3> QED BY <3>1
  <2>4. CountIn(data, Firsts) = CountIn(f, Firsts) + CountIn(h, Firsts)
    BY <2>1, <2>3, CountCut
  <2>5. CountIn(f, Firsts) \in Nat /\ CountIn(h, Firsts) \in Nat
    BY CountFinite
  <2>6. /\ SizeIn(data[need]) \in Nat /\ TypeIn(data[1]) \in Types
        /\ TypeIn(data[1]) \in Requests => data[1] \in Firsts
    BY <2>2, HeaderUnits
  <2>7. /\ p \in Sound /\ p.inbuf = h /\ p.type = (IF need = 2 THEN TypeIn(data[1]) ELSE pg.type)
        /\ p.login = pg.login /\ p.running = pg.running /\ p.commits = pg.commits
        /\ p.out = pg.out /\ p.state = pg.state
    <3>1. (IF need = 2 THEN TypeIn(data[1]) ELSE pg.type) \in Types
      BY <2>6 DEF Sound, PgType
    <3>2. p \in PgType
      BY <1>10, <2>3, <2>6, <3>1 DEF Sound, PgType
    <3>3. /\ p.inbuf = h /\ p.type = (IF need = 2 THEN TypeIn(data[1]) ELSE pg.type)
          /\ p.login = pg.login /\ p.running = pg.running /\ p.commits = pg.commits
          /\ p.out = pg.out /\ p.state = pg.state
      BY <1>10, <2>3 DEF Sound, PgType
    <3>4. p.state = "BEGIN" => p.type = "?"
      <4>1. pg.state = "BEGIN" => pg.type = "?" /\ need # 2
        BY <1>5 DEF Sound
      <4> QED BY <3>3, <4>1
    <3> QED BY <3>2, <3>3, <3>4 DEF Sound
  <2>8. AtWork(p) = AtWork(pg) /\ Unwritten(p) = Unwritten(pg)
    BY <2>7 DEF AtWork, Unwritten, Explicit
  <2>9. p.type \in Requests => CountIn(f, Firsts) >= 1
    <3>1. ASSUME p.type \in Requests PROVE need = 2
      <4>1. "?" \notin Requests
        BY PgAssumption DEF Requests
      <4> QED BY <1>5, <2>7, <3>1, <4>1 DEF Sound
    <3>2. ASSUME p.type \in Requests PROVE f[1] \in Firsts /\ 1 \in DOMAIN f
      <4>1. f[1] = data[1] /\ 1 \in DOMAIN f
        <5>1. \A i \in 1 .. need : data[i] \in Unit
          BY <2>1
        <5>2. \A i \in 1 .. need : SubSeq(data, 1, need)[i] = data[1 + i - 1]
          BY <5>1, SubSeqProperties
        <5>3. 1 \in 1 .. need /\ DOMAIN f = 1 .. need
          BY <2>3
        <5> QED BY <2>3, <5>2, <5>3
      <4> QED BY <2>6, <2>7, <3>1, <3>2, <4>1
    <3> QED BY <3>2, CountFinite
  <2>10. ~HalfRead(pg)
    BY <1>10 DEF HalfRead
  <2>11. HalfRead(p) => p.type \in Requests
    BY DEF HalfRead
  <2>12. Unread(pg) = CountIn(pg.inbuf, Firsts)
    BY <1>8, <2>10 DEF Unread
  <2>13. Unread(p) = CountIn(h, Firsts) + IF HalfRead(p) THEN 1 ELSE 0
    BY <2>7 DEF Unread
  <2>14. c.ret = 1 => ~HalfRead(p)
    BY <1>7, <2>7 DEF HalfRead
  <2>15. CountIn(f, Firsts) + CountIn(h, Firsts) = CountIn(pg.inbuf, Firsts) + CountIn(new, Firsts)
    BY <1>4, <2>4
  <2>16. Unread(p) <= Unread(pg) + CountIn(new, Firsts)
    BY ONLY <1>8, <2>5, <2>9, <2>11, <2>12, <2>13, <2>15
  <2>17. c.ret = 1 /\ p.type \in Requests => Unread(p) + 1 <= Unread(pg) + CountIn(new, Firsts)
    BY ONLY <1>8, <2>5, <2>9, <2>12, <2>13, <2>14, <2>15
  <2> QED BY <2>7, <2>8, <2>16, <2>17
<1>11. Goal
  BY <1>7, <1>9, <1>10 DEF Takes
<1>12. /\ Unread(p) \in Nat /\ AtWork(p) \in Nat /\ Unwritten(p) \in Nat
       /\ Unread(pg) \in Nat /\ AtWork(pg) \in Nat /\ Unwritten(pg) \in Nat
  BY <1>11, PartsOf
<1>13. PICK u \in Nat, a \in Nat, o \in Nat, v \in Nat, x \in Nat, y \in Nat :
         /\ u = Unread(p) /\ v = Unread(pg) /\ a = AtWork(pg) /\ o = Unwritten(pg)
         /\ x = CountIn(new, Firsts) /\ y = CountIn(rest, Firsts)
  BY <1>8, <1>12
<1>14. /\ Pending(p) = u + a + o /\ Pending(pg) = v + a + o /\ CountIn(wire, Firsts) = x + y
       /\ u <= v + x
       /\ c.ret = 1 /\ p.type \in Requests /\ pg.state # "BEGIN" => u + 1 <= v + x
  BY <1>2, <1>11, <1>13 DEF Pending
<1>16. Pending(p) + CountIn(rest, Firsts) <= Pending(pg) + CountIn(wire, Firsts)
  <2>1. (u + a + o) + y <= (v + a + o) + (x + y)
    BY <1>14
  <2> QED BY ONLY <1>13, <1>14, <2>1
<1>17. c.ret = 1 /\ p.type \in Requests /\ pg.state # "BEGIN" =>
         Pending(p) + CountIn(rest, Firsts) + 1 <= Pending(pg) + CountIn(wire, Firsts)
  <2>1. u + 1 <= v + x => (u + a + o) + y + 1 <= (v + a + o) + (x + y)
    OBVIOUS
  <2> QED BY ONLY <1>13, <1>14, <2>1
<1>15. c.ret \in {-1, 0, 1}
  BY <1>7
<1> QED BY <1>1, <1>6, <1>11, <1>15, <1>16, <1>17

\* A request that is dropped or done.
LEMMA Dropped ==
  ASSUME NEW p \in Sound, NEW b \in {p.inbuf, <<>>}, NEW q, q = [p EXCEPT !.inbuf = b, !.size = 0]
  PROVE  q \in Sound /\ Pending(q) <= Pending(p)
<1>1. b \in Seq(Unit)
  <2>1. p.inbuf \in Seq(Unit) /\ <<>> \in Seq(Unit)
    BY DEF Sound, PgType
  <2> QED BY <2>1
<1>2. /\ q \in PgType /\ q.inbuf = b /\ q.size = 0 /\ q.login = p.login /\ q.type = p.type
      /\ q.running = p.running /\ q.commits = p.commits /\ q.out = p.out /\ q.state = p.state
  BY <1>1 DEF Sound, PgType
<1>3. q \in Sound
  BY <1>2 DEF Sound
<1>4. AtWork(q) = AtWork(p) /\ Unwritten(q) = Unwritten(p)
  BY <1>2 DEF AtWork, Unwritten, Explicit
<1>5. Unread(q) <= Unread(p)
  <2>1. CountIn(<<>>, Firsts) = 0 /\ CountIn(p.inbuf, Firsts) \in Nat
    BY CountNone, PartsOf
  <2>2. ~HalfRead(q) /\ CountIn(b, Firsts) <= CountIn(p.inbuf, Firsts) /\ CountIn(b, Firsts) \in Nat
    BY <1>2, <2>1 DEF HalfRead
  <2> QED BY <1>2, <2>1, <2>2 DEF Unread
<1> QED BY <1>3, <1>4, <1>5, PartsOf DEF Pending

LEMMA NextDrops ==
  ASSUME NEW p \in Sound
  PROVE  NextRequest(p) \in Sound /\ Pending(NextRequest(p)) <= Pending(p)
BY Dropped DEF NextRequest

LEMMA RequestsCost ==
  ASSUME NEW p \in Sound, got \in Seq(Replies), p.state # "EXITING", Request(p)
  PROVE  Settles(p, IF p.type \in Requests /\ p.state # "BEGIN" THEN 1 ELSE 0)
<1>0. p.state \in {"BEGIN", "AUTH", "ESTABLISHED", "ABORTED"}
  BY DEF Sound, PgType
<1>1. CASE p.state = "BEGIN" /\ p.inbuf[1][1] = "SSL"
  <2>1. PICK q \in Sound : q = Put(p, "NOSSL") /\ Pending(q) = Pending(p)
    <3>1. "NOSSL" \in Replies /\ "NOSSL" \notin AnAnswer
      BY DEF Replies, AnAnswer
    <3> QED BY <3>1, PutCosts, PartsOf
  <2>2. PICK r : r = [q EXCEPT !.size = 0]
    OBVIOUS
  <2>3. r \in Sound /\ Pending(r) <= Pending(p) + 0
    <3>1. r = [q EXCEPT !.inbuf = q.inbuf, !.size = 0]
      BY <2>2 DEF Sound, PgType
    <3>2. r \in Sound /\ Pending(r) <= Pending(q)
      BY <3>1, Dropped
    <3>3. Pending(r) \in Nat /\ Pending(p) \in Nat
      BY <3>2, PartsOf
    <3> QED BY <2>1, <3>2, <3>3
  <2>4. Settles(r, 0)
    BY <1>1, <2>1, <2>2, <2>3, Wrote DEF Request, WriteSocket
  <2>5. Settles(p, 0 + 0)
    BY <2>3, <2>4, Carries
  <2> QED BY <1>1, <2>5
<1>2. CASE p.state = "BEGIN" /\ p.inbuf[1][1] # "SSL"
  <2>1. PICK q \in Sound : q = Put(p, "AUTH") /\ Pending(q) = Pending(p)
    <3>1. "AUTH" \in Replies /\ "AUTH" \notin AnAnswer
      BY DEF Replies, AnAnswer
    <3> QED BY <3>1, PutCosts, PartsOf
  <2>2. PICK r : r = [q EXCEPT !.state = "AUTH"]
    OBVIOUS
  <2>3. r \in Sound /\ Pending(r) <= Pending(q)
    <3>1. Other(r, q)
      BY <2>2 DEF Other, Like, Sound, PgType
    <3> QED BY <3>1, OtherIsNothing
  <2>4. PICK t \in Sound : t = NextRequest(r) /\ Pending(t) <= Pending(r)
    BY <2>3, NextDrops
  <2>5. Pending(t) <= Pending(p) + 0
    <3>1. Pending(t) \in Nat /\ Pending(r) \in Nat /\ Pending(p) \in Nat
      BY <2>3, PartsOf
    <3> QED BY <2>1, <2>3, <2>4, <3>1
  <2>6. Settles(t, 0)
    BY <1>2, <2>1, <2>2, <2>4, Wrote DEF Request
  <2>7. Settles(p, 0 + 0)
    BY <2>5, <2>6, Carries
  <2> QED BY <1>2, <2>7
<1>3. CASE p.state = "AUTH" /\ p.type = "PASSWORD"
  <2>1. PICK q : q = [p EXCEPT !.login = TRUE]
    OBVIOUS
  <2>2. /\ q \in PgType /\ q.inbuf = p.inbuf /\ q.size = p.size /\ q.login = TRUE /\ q.type = p.type
        /\ q.running = p.running /\ q.commits = p.commits /\ q.out = p.out /\ q.state = p.state
    BY <2>1 DEF Sound, PgType
  <2>3. q \in Sound
    BY <2>2 DEF Sound
  <2>4. Unread(q) = Unread(p) /\ Unwritten(q) = Unwritten(p) /\ Explicit(q) = Explicit(p)
    BY <2>2 DEF Unread, HalfRead, Unwritten, Explicit
  <2>5. AtWork(q) <= AtWork(p) + 1
    <3>1. Cardinality(p.running) \in Nat /\ Cardinality(Explicit(p)) \in Nat
      BY PartsOf
    <3> QED BY <2>2, <2>4, <3>1 DEF AtWork
  <2>6. Pending(q) <= Pending(p) + 1
    BY <2>3, <2>4, <2>5, PendingRises
  <2>7. Settles(q, 0)
    BY <1>3, <2>1, <2>3, Silent DEF Request
  <2>8. Settles(p, 1 + 0)
    BY <2>3, <2>6, <2>7, Carries
  <2> QED BY <1>3, <2>8 DEF Requests
<1>4. ASSUME Silently(CloseSocket(p)) PROVE \A k \in Nat : Settles(p, k)
  <2>1. PICK q \in Sound : q = CloseSocket(p) /\ Pending(q) <= Pending(p)
    BY ClosesSocket
  <2>2. Settles(q, 0)
    BY <1>4, <2>1, Silent
  <2>3. Settles(p, 0 + 0)
    BY <2>1, <2>2, PartsOf, Carries
  <2> QED BY <2>3, Weaker
<1>5. PICK k \in Nat : k = IF p.type \in Requests /\ p.state # "BEGIN" THEN 1 ELSE 0
  <2>1. 0 \in Nat /\ 1 \in Nat
    OBVIOUS
  <2> QED BY <2>1, Zenon
<1>6. CASE p.state = "AUTH" /\ p.type # "PASSWORD"
  <2>1. Silently(CloseSocket(p))
    BY <1>6 DEF Request
  <2> QED BY <1>4, <1>5, <2>1
<1>7. CASE p.state \in {"ESTABLISHED", "ABORTED"} /\ p.type = "TERMINATE"
  <2>1. Silently(CloseSocket(p))
    BY <1>7, PgAssumption DEF Request
  <2> QED BY <1>4, <1>5, <2>1
<1>8. CASE p.state \in {"ESTABLISHED", "ABORTED"} /\ p.type \in Queries
  <2>0. p.type # "TERMINATE"
    BY <1>8, PgAssumption
  <2>1. PICK q \in Sound : q = NextRequest(p) /\ Pending(q) <= Pending(p) + 0
    BY NextDrops, PartsOf
  <2>2. Settles(q, 1)
    <3>1. CASE p.state = "ABORTED"
      <4>1. AbortedStatement(q, p.type)
        BY <1>8, <2>0, <2>1, <3>1 DEF Request
      <4> QED BY <1>8, <4>1, StatementsRest
    <3>2. CASE p.state = "ESTABLISHED"
      <4>1. ExecuteStatement(q, p.type)
        BY <1>8, <2>0, <2>1, <3>2 DEF Request
      <4> QED BY <1>8, <4>1, StatementsStart
    <3> QED BY <1>8, <3>1, <3>2
  <2>3. Settles(p, 0 + 1)
    BY <2>1, <2>2, Carries
  <2> QED BY <1>8, <2>3 DEF Requests
<1>9. CASE p.state \in {"ESTABLISHED", "ABORTED"} /\ p.type \notin Queries \cup {"TERMINATE"}
  <2>1. Silently(p)
    BY <1>9 DEF Request
  <2>2. Settles(p, 0)
    BY <2>1, Silent
  <2> QED BY <1>5, <2>2, Weaker
<1> QED BY <1>0, <1>1, <1>2, <1>3, <1>6, <1>7, <1>8, <1>9

LEMMA ReadDoes ==
  ASSUME NEW n, Read(n), NEW c, c = InitCmd(SubSeq(wire, 1, n))
  PROVE  /\ pg.state # "EXITING"
         /\ c.ret = -1 => Silently(CloseSocket(c.p))
         /\ c.ret = 0 => Silently(c.p)
         /\ c.ret = 1 => Request([c.p EXCEPT !.out = <<>>])
<1>1. /\ pg.state # "EXITING"
      /\ CASE c.ret = -1 -> Silently(CloseSocket(c.p))
           [] c.ret = 0  -> Silently(c.p)
           [] c.ret = 1  -> Request([c.p EXCEPT !.out = <<>>])
  BY DEF Read
<1>2. ASSUME c.ret = -1 PROVE Silently(CloseSocket(c.p))
  <2>1. c.ret # 0 /\ c.ret # 1
    BY <1>2
  <2> QED BY <1>1, <1>2, <2>1
<1>3. ASSUME c.ret = 0 PROVE Silently(c.p)
  <2>1. c.ret # -1 /\ c.ret # 1
    BY <1>3
  <2> QED BY <1>1, <1>3, <2>1
<1>4. ASSUME c.ret = 1 PROVE Request([c.p EXCEPT !.out = <<>>])
  <2>1. c.ret # -1 /\ c.ret # 0
    BY <1>4
  <2> QED BY <1>1, <1>4, <2>1
<1> QED BY <1>1, <1>2, <1>3, <1>4

LEMMA ReadTakes ==
  ASSUME Counted, NEW n \in 1 .. Len(wire), Read(n)
  PROVE  Counted'
<1>1. pg \in Sound /\ wire \in Seq(Unit) /\ got \in Seq(Replies)
  BY DEF Counted
<1>2. PICK c : c = InitCmd(SubSeq(wire, 1, n))
  OBVIOUS
<1>3. PICK rest \in Seq(Unit) : rest = SubSeq(wire, n + 1, Len(wire))
  <2>1. n \in 0 .. Len(wire)
    OBVIOUS
  <2>2. SubSeq(wire, n + 1, Len(wire)) \in Seq(Unit)
    BY <1>1, <2>1, Cut
  <2> QED BY <2>2
<1>4. PICK p \in Sound : p = c.p
  BY <1>1, <1>2, InitReads
<1>5. /\ p.state = pg.state /\ c.ret \in {-1, 0, 1}
      /\ Pending(p) + CountIn(rest, Firsts) <= Pending(pg) + CountIn(wire, Firsts)
      /\ c.ret = 1 /\ p.type \in Requests /\ pg.state # "BEGIN" =>
           Pending(p) + CountIn(rest, Firsts) + 1 <= Pending(pg) + CountIn(wire, Firsts)
  BY <1>1, <1>2, <1>3, <1>4, InitReads
<1>6. PICK k \in {0, 1} :
        k = IF c.ret = 1 /\ p.type \in Requests /\ pg.state # "BEGIN" THEN 1 ELSE 0
  OBVIOUS
<1>7. Settles(p, k)
  <2>1. CASE c.ret = -1
    <3>1. PICK q \in Sound : q = CloseSocket(p) /\ Pending(q) <= Pending(p) + 0
      BY ClosesSocket, PartsOf
    <3>2. Settles(q, 0)
      BY <1>1, <1>2, <1>4, <2>1, <3>1, ReadDoes, Silent
    <3>3. Settles(p, 0 + 0)
      BY <1>1, <3>1, <3>2, Carries
    <3> QED BY <1>6, <2>1, <3>3
  <2>2. CASE c.ret = 0
    <3>1. Settles(p, 0)
      BY <1>1, <1>2, <1>4, <2>2, ReadDoes, Silent
    <3> QED BY <1>6, <2>2, <3>1
  <2>3. CASE c.ret = 1
    <3>1. PICK q : q = [p EXCEPT !.out = <<>>]
      OBVIOUS
    <3>2. q \in Sound /\ Pending(q) <= Pending(p) + 0 /\ q.state = p.state /\ q.type = p.type
      <4>1. q \in PgType /\ Like(q, p) /\ q.out = <<>> /\ q.state = p.state
        <5>1. <<>> \in Seq(Replies)
          OBVIOUS
        <5> QED BY <3>1, <5>1 DEF Sound, PgType, Like
      <4>2. q \in Sound
        BY <4>1 DEF Sound, Like
      <4> QED BY <4>1, <4>2, Sheds, PartsOf DEF Like
    <3>3. Request(q) /\ q.state # "EXITING"
      BY <1>2, <1>4, <1>5, <2>3, <3>1, <3>2, ReadDoes
    <3>4. Settles(q, IF q.type \in Requests /\ q.state # "BEGIN" THEN 1 ELSE 0)
      BY <1>1, <3>2, <3>3, RequestsCost
    <3>5. Settles(q, k)
      BY <1>5, <1>6, <2>3, <3>2, <3>4
    <3>6. k \in Nat /\ 0 + k = k
      OBVIOUS
    <3>7. Settles(p, 0 + k)
      BY <1>1, <3>2, <3>5, <3>6, Carries
    <3> QED BY <3>6, <3>7
  <2> QED BY <1>5, <2>1, <2>2, <2>3
<1>8. Pending(p) + CountIn(rest, Firsts) + k <= Pending(pg) + CountIn(wire, Firsts)
  <2>1. Pending(p) \in Nat /\ CountIn(rest, Firsts) \in Nat
    BY PartsOf, CountFinite
  <2> QED BY <1>5, <1>6, <2>1
<1>9. wire' = rest /\ UNCHANGED <<client, asked>>
  BY <1>3 DEF Read
<1>10. pg' \in Sound /\ got' \in Seq(Replies)
  BY <1>7 DEF Settles
<1>11. PICK x \in Nat, y \in Nat, z \in Nat, v \in Nat, w \in Nat, g \in Nat, h \in Nat :
         /\ x = Pending(pg') /\ y = Pending(p) /\ z = Pending(pg)
         /\ v = CountIn(wire, Firsts) /\ w = CountIn(rest, Firsts)
         /\ g = CountIn(got, AnAnswer) /\ h = CountIn(got', AnAnswer)
  <2>1. Pending(pg') \in Nat /\ Pending(p) \in Nat /\ Pending(pg) \in Nat
    BY <1>1, <1>10, PartsOf
  <2>2. /\ CountIn(wire, Firsts) \in Nat /\ CountIn(rest, Firsts) \in Nat
        /\ CountIn(got, AnAnswer) \in Nat /\ CountIn(got', AnAnswer) \in Nat
    BY <1>1, <1>10, CountFinite
  <2> QED BY <2>1, <2>2
<1>12. x + h <= y + g + k /\ y + w + k <= z + v
  BY <1>7, <1>8, <1>11 DEF Settles
<1>13. x + w + h <= z + v + g
  BY <1>6, <1>12
<1>14. Due' = x + w + h /\ Due = z + v + g
  BY <1>9, <1>11 DEF Due
<1>15. PICK a \in Nat : a = AskedFor
  <2>1. Len(asked) \in Nat
    BY DEF Counted
  <2> QED BY <2>1 DEF AskedFor
<1>16. AskedFor' = a
  BY <1>9, <1>15 DEF AskedFor
<1>17. x + w + h <= a
  <2>1. z + v + g <= a
    BY <1>14, <1>15 DEF Counted
  <2> QED BY <1>13, <2>1
<1> QED BY <1>9, <1>10, <1>14, <1>16, <1>17 DEF Counted

\* The other steps of the server take nothing from the stream, or all of it.
LEMMA ServerOwes ==
  ASSUME Counted, Settles(pg, 0), wire' \in {wire, <<>>}, UNCHANGED <<client, asked>>
  PROVE  Counted'
<1>1. pg \in Sound /\ wire \in Seq(Unit) /\ got \in Seq(Replies)
  BY DEF Counted
<1>2. pg' \in Sound /\ got' \in Seq(Replies) /\ wire' \in Seq(Unit)
  <2>1. <<>> \in Seq(Unit)
    OBVIOUS
  <2> QED BY <1>1, <2>1 DEF Settles
<1>3. PICK x \in Nat, z \in Nat, v \in Nat, w \in Nat, g \in Nat, h \in Nat :
         /\ x = Pending(pg') /\ z = Pending(pg)
         /\ v = CountIn(wire, Firsts) /\ w = CountIn(wire', Firsts)
         /\ g = CountIn(got, AnAnswer) /\ h = CountIn(got', AnAnswer)
  <2>1. Pending(pg') \in Nat /\ Pending(pg) \in Nat
    BY <1>1, <1>2, PartsOf
  <2>2. /\ CountIn(wire, Firsts) \in Nat /\ CountIn(wire', Firsts) \in Nat
        /\ CountIn(got, AnAnswer) \in Nat /\ CountIn(got', AnAnswer) \in Nat
    BY <1>1, <1>2, CountFinite
  <2> QED BY <2>1, <2>2
<1>4. x + h <= z + g + 0
  BY <1>3 DEF Settles
<1>5. w <= v
  <2>1. CountIn(<<>>, Firsts) = 0
    BY CountNone
  <2> QED BY <1>3, <2>1
<1>6. Due' = x + w + h /\ Due = z + v + g
  BY <1>3 DEF Due
<1>7. PICK a \in Nat : a = AskedFor
  <2>1. Len(asked) \in Nat
    BY DEF Counted
  <2> QED BY <2>1 DEF AskedFor
<1>8. AskedFor' = a
  BY <1>7 DEF AskedFor
<1>9. x + w + h <= a
  <2>1. z + v + g <= a
    BY <1>6, <1>7 DEF Counted
  <2> QED BY <1>4, <1>5, <2>1
<1> QED BY <1>2, <1>6, <1>8, <1>9 DEF Counted

LEMMA WritableOwes ==
  ASSUME Counted, Writable
  PROVE  Counted'
<1>1. pg \in Sound /\ got \in Seq(Replies)
  BY DEF Counted
<1>2. PICK p : p = [pg EXCEPT !.epoll = "IN"]
  OBVIOUS
<1>3. p \in Sound /\ Pending(p) <= Pending(pg) + 0
  <2>1. Other(p, pg)
    BY <1>1, <1>2 DEF Other, Like, Sound, PgType
  <2>2. p \in Sound /\ Pending(p) <= Pending(pg)
    BY <1>1, <2>1, OtherIsNothing
  <2> QED BY <1>1, <2>2, PartsOf
<1>4. Settles(p, 0)
  BY <1>1, <1>2, <1>3, Wrote DEF Writable, WriteSocket
<1>5. Settles(pg, 0 + 0)
  BY <1>1, <1>3, <1>4, Carries
<1> QED BY <1>5, ServerOwes DEF Writable

LEMMA EofOwes ==
  ASSUME Counted, Eof
  PROVE  Counted'
<1>1. pg \in Sound /\ got \in Seq(Replies)
  BY DEF Counted
<1>2. PICK p \in Sound : p = CloseSocket(pg) /\ Pending(p) <= Pending(pg) + 0
  BY <1>1, ClosesSocket, PartsOf
<1>3. Settles(p, 0)
  BY <1>1, <1>2, Silent DEF Eof
<1>4. Settles(pg, 0 + 0)
  BY <1>1, <1>2, <1>3, Carries
<1> QED BY <1>4, ServerOwes DEF Eof

\* The answer to the password takes the place of the login.
LEMMA LoginOwes ==
  ASSUME Counted, NEW ok \in BOOLEAN, LoginReply(ok)
  PROVE  Counted'
<1>1. pg \in Sound /\ got \in Seq(Replies) /\ pg.login = TRUE /\ pg.state = "AUTH"
  BY DEF Counted, LoginReply, Sound, PgType
<1>2. PICK p : p = [pg EXCEPT !.login = FALSE]
  OBVIOUS
<1>3. /\ p \in PgType /\ p.inbuf = pg.inbuf /\ p.size = pg.size /\ p.login = FALSE /\ p.type = pg.type
      /\ p.running = pg.running /\ p.commits = pg.commits /\ p.out = pg.out /\ p.state = pg.state
  BY <1>1, <1>2 DEF Sound, PgType
<1>4. p \in Sound
  BY <1>1, <1>3 DEF Sound
<1>5. Unread(p) = Unread(pg) /\ Unwritten(p) = Unwritten(pg) /\ AtWork(p) + 1 = AtWork(pg)
  <2>1. Cardinality(pg.running) \in Nat /\ Cardinality(Explicit(pg)) \in Nat /\ Explicit(p) = Explicit(pg)
    BY <1>1, <1>3, PartsOf DEF Explicit
  <2>2. AtWork(p) = 0 + Cardinality(pg.running) + Cardinality(Explicit(pg))
    BY <1>3, <2>1 DEF AtWork
  <2>3. AtWork(pg) = 1 + Cardinality(pg.running) + Cardinality(Explicit(pg))
    BY <1>1 DEF AtWork
  <2>4. Unread(p) = Unread(pg) /\ Unwritten(p) = Unwritten(pg)
    BY <1>3 DEF Unread, HalfRead, Unwritten
  <2> QED BY <2>1, <2>2, <2>3, <2>4
<1>6. Pending(p) + 1 <= Pending(pg)
  BY <1>1, <1>4, <1>5, PendingFalls
<1>7. Settles(p, 1)
  <2>1. CASE ok
    <3>1. PICK out \in Seq(Replies) : out = <<"OK", "ZI">>
      <4>1. "OK" \in Replies /\ "ZI" \in Replies
        BY DEF Replies
      <4>2. <<"OK", "ZI">> \in Seq(Replies)
        BY <4>1
      <4> QED BY <4>2
    <3>2. CountIn(out, AnAnswer) <= 1
      <4>1. {i \in DOMAIN out : out[i] \in AnAnswer} \subseteq {1}
        BY <3>1 DEF AnAnswer
      <4>2. IsFiniteSet({1}) /\ Cardinality({1}) = 1
        BY FS_Singleton
      <4> QED BY <4>1, <4>2, FS_Subset DEF CountIn
    <3>3. PICK q : q = [p EXCEPT !.state = "ESTABLISHED", !.out = out]
      OBVIOUS
    <3>4. q \in Sound /\ Pending(q) <= Pending(p) + 1
      <4>1. q \in PgType /\ Like(q, p) /\ q.out = out /\ q.state = "ESTABLISHED"
        BY <1>3, <3>3 DEF PgType, Like
      <4>2. q \in Sound
        BY <1>4, <4>1 DEF Sound, Like
      <4>3. Pending(q) - Unwritten(q) = Pending(p) - Unwritten(p)
        BY <1>4, <4>1, <4>2, Owes DEF Like
      <4>4. PICK a \in Nat, b \in Nat, c \in Nat, d \in Nat :
              a = Pending(q) /\ b = Unwritten(q) /\ c = Pending(p) /\ d = Unwritten(p)
        BY <1>4, <4>2, PartsOf
      <4>5. b <= 1 /\ a - b = c - d
        BY <3>2, <4>1, <4>3, <4>4 DEF Unwritten
      <4> QED BY <4>2, <4>4, <4>5
    <3>5. PICK r \in Sound : r = NextRequest(q) /\ Pending(r) <= Pending(q)
      BY <3>4, NextDrops
    <3>6. Write("AUTH", r, FALSE)
      BY <1>2, <2>1, <3>1, <3>3, <3>5 DEF LoginReply
    <3>7. Settles(r, 0)
      BY <1>1, <3>6, Wrote
    <3>8. Pending(r) <= Pending(p) + 1
      <4>1. Pending(r) \in Nat /\ Pending(q) \in Nat /\ Pending(p) \in Nat
        BY <1>4, <3>4, PartsOf
      <4> QED BY <3>4, <3>5, <4>1
    <3>9. Settles(p, 1 + 0)
      BY <1>1, <1>4, <3>7, <3>8, Carries
    <3> QED BY <3>9
  <2>2. CASE ~ok
    <3>1. PutError(p)
      BY <1>2, <2>2 DEF LoginReply
    <3> QED BY <1>1, <1>4, <3>1, PutsError
  <2> QED BY <2>1, <2>2
<1>8. Settles(pg, 0)
  BY <1>1, <1>4, <1>6, <1>7, GivesWay
<1> QED BY <1>8, ServerOwes DEF LoginReply

LEMMA FirstsOf ==
  ASSUME NEW m \in Kinds
  PROVE  /\ CountIn(Units(m), Firsts) \in Nat /\ CountIn(Units(m), Firsts) <= 1
         /\ m \notin Requests => CountIn(Units(m), Firsts) = 0
<1>1. Units(m) \in Seq(Unit) /\ \A i \in DOMAIN Units(m) : Units(m)[i] = <<m, i>>
  <2>1. Units(m) \in Seq(Unit) /\ \A i \in 1 .. Len(Units(m)) : Units(m)[i] = <<m, i>>
    BY UnitsOf
  <2>2. DOMAIN Units(m) = 1 .. Len(Units(m))
    BY <2>1
  <2> QED BY <2>1, <2>2
<1>2. \A i \in DOMAIN Units(m) : Units(m)[i] \in Firsts => i = 1 /\ m \in Requests
  BY <1>1 DEF Firsts
<1>3. {i \in DOMAIN Units(m) : Units(m)[i] \in Firsts} \in SUBSET {1}
  BY <1>2
<1>4. IsFiniteSet({1}) /\ Cardinality({1}) = 1
  BY FS_Singleton
<1>5. CountIn(Units(m), Firsts) <= 1
  BY <1>3, <1>4, FS_Subset DEF CountIn
<1>6. m \notin Requests => CountIn(Units(m), Firsts) = 0
  BY <1>2, CountNone
<1> QED BY <1>1, <1>5, <1>6, CountFinite

\* The client sends a message, for which it is owed no more than it asks.
LEMMA Sends ==
  ASSUME Counted, NEW m \in Kinds, NEW next, Send(m, next), asked' \in Seq(Queries),
         client' \in {"new", "ssl", "started", "loggingin", "gone"},
         AskedFor' >= AskedFor, m \in Requests => AskedFor' >= AskedFor + 1
  PROVE  Counted'
<1>1. pg \in Sound /\ wire \in Seq(Unit) /\ got \in Seq(Replies)
  BY DEF Counted
<1>2. PICK u \in Seq(Unit) : u = Units(m)
  <2>1. Units(m) \in Seq(Unit)
    BY UnitsOf
  <2> QED BY <2>1
<1>3. wire' = wire \o u /\ UNCHANGED <<pg, got>>
  BY <1>2 DEF Send
<1>4. wire \o u \in Seq(Unit) /\ CountIn(wire \o u, Firsts) = CountIn(wire, Firsts) + CountIn(u, Firsts)
  BY ONLY <1>1, u \in Seq(Unit), ConcatProperties, CountBoth
<1>5. PICK x \in Nat, v \in Nat, n \in Nat, g \in Nat :
        /\ x = Pending(pg) /\ v = CountIn(wire, Firsts) /\ n = CountIn(u, Firsts)
        /\ g = CountIn(got, AnAnswer)
  BY <1>1, PartsOf, CountFinite
<1>6. Due = x + v + g /\ Due' = x + (v + n) + g
  BY <1>3, <1>4, <1>5 DEF Due
<1>7. n <= 1 /\ (m \notin Requests => n = 0)
  BY <1>2, <1>5, FirstsOf
<1>8. Len(asked) \in Nat /\ Len(asked') \in Nat
  BY DEF Counted
<1>9. PICK a \in Nat, b \in Nat : a = AskedFor /\ b = AskedFor'
  BY <1>8 DEF AskedFor
<1>10. x + v + g <= a
  BY <1>6, <1>9 DEF Counted
<1>11. b >= a + n
  BY <1>7, <1>9
<1>12. x + (v + n) + g <= b
  BY <1>10, <1>11
<1> QED BY <1>1, <1>3, <1>4, <1>6, <1>9, <1>12 DEF Counted

LEMMA ClientOwes ==
  ASSUME Counted, ClientStarts \/ (\E q \in Queries : ClientAsks(q)) \/ ClientEnds \/ ClientHangsUp
  PROVE  Counted'
<1>1. /\ "SSL" \in Kinds /\ "STARTUP" \in Kinds /\ "PASSWORD" \in Kinds /\ "TERMINATE" \in Kinds
      /\ Queries \subseteq Kinds
  BY DEF Kinds
<1>2. "SSL" \notin Requests /\ "STARTUP" \notin Requests /\ "TERMINATE" \notin Requests
  BY PgAssumption DEF Requests
<1>3. Len(asked) \in Nat /\ asked \in Seq(Queries)
  BY DEF Counted
<1>4. CASE client = "new" /\ Send("SSL", "ssl") /\ UNCHANGED asked
  <2>1. client' = "ssl" /\ AskedFor' = AskedFor /\ AskedFor = Len(asked)
    BY <1>4 DEF Send, AskedFor
  <2> QED BY <1>1, <1>2, <1>3, <1>4, <2>1, Sends
<1>5. CASE client \in {"new", "ssl"} /\ Send("STARTUP", "started") /\ UNCHANGED asked
  <2>1. client' = "started" /\ AskedFor' = AskedFor /\ AskedFor = Len(asked)
    BY <1>5 DEF Send, AskedFor
  <2> QED BY <1>1, <1>2, <1>3, <1>5, <2>1, Sends
<1>6. CASE client = "started" /\ Send("PASSWORD", "loggingin") /\ UNCHANGED asked
  <2>1. client' = "loggingin" /\ AskedFor' = AskedFor + 1 /\ AskedFor = Len(asked)
    BY <1>3, <1>6 DEF Send, AskedFor
  <2> QED BY <1>1, <1>3, <1>6, <2>1, Sends
<1>7. ASSUME NEW q \in Queries, ClientAsks(q) PROVE Counted'
  <2>1. /\ Send(q, client) /\ asked' = Append(asked, q) /\ client' = client /\ client = "loggingin"
    BY <1>7 DEF ClientAsks, Send
  <2>2. Append(asked, q) \in Seq(Queries) /\ Len(Append(asked, q)) = Len(asked) + 1
    BY <1>3
  <2>3. asked' \in Seq(Queries) /\ AskedFor' = AskedFor + 1 /\ AskedFor \in Nat
    BY <1>3, <2>1, <2>2 DEF AskedFor
  <2> QED BY <1>1, <2>1, <2>3, Sends
<1>8. CASE ClientEnds
  <2>1. Send("TERMINATE", "gone") /\ UNCHANGED asked /\ client = "loggingin" /\ client' = "gone"
    BY <1>8 DEF ClientEnds, Send
  <2>2. AskedFor' = AskedFor /\ AskedFor \in Nat
    BY <1>3, <2>1 DEF AskedFor
  <2> QED BY <1>1, <1>2, <1>3, <2>1, <2>2, Sends
<1>9. CASE ClientHangsUp
  <2>1. client' = "gone" /\ UNCHANGED <<pg, wire, asked, got>>
    BY <1>9 DEF ClientHangsUp
  <2>2. Due' = Due
    BY <2>1 DEF Due
  <2>3. PICK a \in Nat : a = Len(asked) /\ AskedFor \in {a, a + 1} /\ AskedFor' = a + 1
    BY <1>3, <2>1 DEF AskedFor
  <2>4. Due \in Nat
    <3>1. pg \in Sound /\ wire \in Seq(Unit) /\ got \in Seq(Replies)
      BY DEF Counted
    <3>2. Pending(pg) \in Nat /\ CountIn(wire, Firsts) \in Nat /\ CountIn(got, AnAnswer) \in Nat
      BY <3>1, PartsOf, CountFinite
    <3> QED BY <3>2 DEF Due
  <2>5. Due <= a + 1
    BY <2>3, <2>4 DEF Counted
  <2> QED BY <2>1, <2>2, <2>3, <2>5 DEF Counted
<1> QED BY <1>4, <1>5, <1>6, <1>7, <1>8, <1>9 DEF ClientStarts

LEMMA CountedAtFirst == Init => Counted
<1> SUFFICES ASSUME Init PROVE Counted
  OBVIOUS
<1>1. /\ pg = Fresh /\ wire = <<>> /\ client = "new" /\ asked = <<>> /\ got = <<>>
  BY DEF Init
<1>2. pg \in PgType
  <2>1. Fresh \in PgType
    BY DEF Fresh, PgType, Types, NoTxn
  <2> QED BY <1>1, <2>1
<1>3. pg.running = {} /\ pg.commits = {} /\ pg.type = "?" /\ pg.inbuf = <<>> /\ pg.out = <<>>
      /\ pg.login = FALSE /\ pg.size = 0
  BY <1>1 DEF Fresh
<1>4. pg \in Sound
  BY <1>2, <1>3, FS_EmptySet DEF Sound
<1>5. CountIn(<<>>, Firsts) = 0 /\ CountIn(<<>>, AnAnswer) = 0
  BY CountNone
<1>6. Explicit(pg) = {} /\ ~HalfRead(pg)
  BY <1>3 DEF Explicit, HalfRead
<1>7. Cardinality({}) = 0
  BY FS_EmptySet
<1>8. Unread(pg) = 0 /\ AtWork(pg) = 0 /\ Unwritten(pg) = 0
  BY <1>3, <1>5, <1>6, <1>7 DEF Unread, AtWork, Unwritten
<1>9. Due = 0
  BY <1>1, <1>5, <1>8 DEF Due, Pending
<1>10. AskedFor = 0
  BY <1>1 DEF AskedFor
<1>11. wire \in Seq(Unit) /\ got \in Seq(Replies) /\ asked \in Seq(Queries)
  BY <1>1
<1> QED BY <1>1, <1>4, <1>9, <1>10, <1>11 DEF Counted

LEMMA StaysCounted == Counted /\ [Next]_vars => Counted'
<1> SUFFICES ASSUME Counted, [Next]_vars PROVE Counted'
  OBVIOUS
<1>1. pg \in Sound /\ got \in Seq(Replies)
  BY DEF Counted
<1>2. ASSUME NEW n \in 1 .. Len(wire), Read(n) PROVE Counted'
  BY <1>2, ReadTakes
<1>3. ASSUME NEW w \in pg.running, NEW ok \in BOOLEAN, StatementEnds(w, ok) PROVE Counted'
  <2>1. Settles(pg, 0)
    BY <1>1, <1>3, StatementAnswered
  <2> QED BY <1>3, <2>1, ServerOwes DEF StatementEnds
<1>4. ASSUME NEW w \in pg.commits, CommitEnds(w) PROVE Counted'
  <2>1. Settles(pg, 0)
    BY <1>1, <1>4, CommitAnswered
  <2> QED BY <1>4, <2>1, ServerOwes DEF CommitEnds
<1>5. CASE UNCHANGED vars
  BY <1>5 DEF vars, Counted, Due, AskedFor
<1> QED BY <1>2, <1>3, <1>4, <1>5, WritableOwes, EofOwes, LoginOwes, ClientOwes DEF Next, Server

\* Whatever the client sends, and wherever a write is interrupted, the answers it has got
\* - to the password, and one or an error to a query - are never more than it has asked
\* for: an answer is written once (Pg::initcmd, cont, continuePgFunc, writesocket).
THEOREM AnswersAreAskedFor == Spec => [](Count({"C", "E", "OK"}) <= Len(asked) + 1)
<1>1. Counted => Count({"C", "E", "OK"}) <= Len(asked) + 1
  <2> SUFFICES ASSUME Counted PROVE Count({"C", "E", "OK"}) <= Len(asked) + 1
    OBVIOUS
  <2>1. PICK x \in Nat, v \in Nat, g \in Nat :
          x = Pending(pg) /\ v = CountIn(wire, Firsts) /\ g = CountIn(got, AnAnswer)
    <3>1. pg \in Sound /\ wire \in Seq(Unit) /\ got \in Seq(Replies)
      BY DEF Counted
    <3> QED BY <3>1, PartsOf, CountFinite
  <2>2. PICK a \in Nat : a = Len(asked) /\ AskedFor \in {a, a + 1}
    BY DEF Counted, AskedFor
  <2>3. x + v + g <= a + 1
    BY <2>1, <2>2 DEF Counted, Due
  <2>4. Count({"C", "E", "OK"}) = g
    BY <2>1 DEF Count, CountIn, AnAnswer
  <2> QED BY <2>2, <2>3, <2>4
<1> QED BY <1>1, CountedAtFirst, StaysCounted, PTL DEF Spec
=============================================================================
