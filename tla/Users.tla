------------------------------- MODULE Users -------------------------------
(***************************************************************************)
(* Accounts and sessions: class UserSchemaMgr (src/infinisqld/             *)
(* UserSchemaMgr.cc) keeps domains, users and password digests, the        *)
(* Transaction Agents (TransactionAgent.cc) keep the sessions of raw       *)
(* sockets, the Pg objects (Pg.cc) those of PostgreSQL clients, and an     *)
(* Operation (Operation.cc) remembers a socket number while a request is   *)
(* with the User and schema manager.                                       *)
(*                                                                         *)
(* A digest is the password it is the digest of.  The kernel gives the     *)
(* number of a closed socket to the next connection.                       *)
(***************************************************************************)
EXTENDS Integers, Sequences, FiniteSets, Functions

CONSTANTS Agents,
          Socks,        \* socket numbers
          Domains, Global,    \* domain names, "_global" among them
          Names, Admin,       \* user names, "admin" among them
          Passwords, AdminPassword,
          Commands,     \* the builtins clients send
          Listeners,    \* the kinds of connections: "raw", "pg"
          Patient,      \* clients wait for an answer before they hang up
          MaxConns,     \* bound on the connections ever made
          MaxOps        \* bound on the Operations ever made

ASSUME UsersAssumption ==
  /\ Global \in Domains /\ Admin \in Names /\ AdminPassword \in Passwords
  /\ Commands \subseteq {"login", "logout", "changepassword", "createdomain",
                         "createuser", "deleteuser", "deletedomain"}
  /\ Listeners \subseteq {"raw", "pg"}
  /\ Patient \in BOOLEAN
  /\ MaxConns \in Nat /\ MaxOps \in Nat

VARIABLES domainNameToDomainId,
          nextdomainid,
          accounts,    \* of a domainid: [names, passwords, next], which are its entries in
                       \* domainIdToUserNames, domainIdToUserIds, domainIdToNextUserId
          userIdToPassword,  \* the member: the domain whose passwords it points to
          pwdStruct,         \* the member: the digest last copied into it
          usmMbox,     \* requests to the User and schema manager
          mbox,        \* of an agent: the manager's replies
          pendingOperations, \* of an agent: socket number by operationid
          operationidcounter,
          loggedInUsers,     \* of an agent: authInfo by socket number
          Pgs,         \* of an agent: [state, domainid, userid] by socket number
          conns,       \* open connections by socket number: [agent, listener, asked]
          made         \* connections made so far

usmVars   == <<domainNameToDomainId, nextdomainid, accounts, userIdToPassword, pwdStruct>>
agentVars == <<pendingOperations, operationidcounter, loggedInUsers, Pgs>>
vars      == <<usmVars, usmMbox, mbox, agentVars, conns, made>>

-----------------------------------------------------------------------------
Nothing       == [x \in {} |-> 0]
Without(f, x) == Restrict(f, DOMAIN f \ {x})
With(f, x, y) == [z \in {x} \cup DOMAIN f |-> IF z = x THEN y ELSE f[z]]
Only(x, y)    == With(Nothing, x, y)
NewDomain     == [names |-> Nothing, passwords |-> Nothing, next |-> 0]
Arguments     == [domain : Domains, user : Names, password : Passwords]

Init ==
  /\ domainNameToDomainId = Only(Global, 1)
  /\ nextdomainid = 1
  /\ accounts = Only(1, [names |-> Only(Admin, 1), passwords |-> Only(1, AdminPassword), next |-> 1])
  /\ userIdToPassword = 0 /\ pwdStruct = AdminPassword
  /\ usmMbox = <<>> /\ mbox = [a \in Agents |-> <<>>]
  /\ pendingOperations = [a \in Agents |-> Nothing]
  /\ operationidcounter = [a \in Agents |-> 0]
  /\ loggedInUsers = [a \in Agents |-> Nothing]
  /\ Pgs = [a \in Agents |-> Nothing]
  /\ conns = Nothing /\ made = 0

-----------------------------------------------------------------------------
(* UserSchemaMgr.  r is the request it has taken from its mailbox.         *)

Reply(r, ok, domainid, userid) ==
  mbox' = [mbox EXCEPT ![r.agent] =
             Append(@, [cmd |-> r.cmd, operationid |-> r.operationid, ok |-> ok,
                        domainid |-> domainid, userid |-> userid])]

\* Nobody reads an identity from a refusal.
Refuse(r) == Reply(r, FALSE, r.domainid, r.userid) /\ UNCHANGED usmVars

IsAdmin(r) == r.domainid = 1 /\ r.userid = 1

DomainKnown(r) == /\ r.args.domain \in DOMAIN domainNameToDomainId
                  /\ domainNameToDomainId[r.args.domain] \in DOMAIN accounts
DidOf(r)     == domainNameToDomainId[r.args.domain]
UserKnown(r) == DomainKnown(r) /\ r.args.user \in DOMAIN accounts[DidOf(r)].names
UidOf(r)     == accounts[DidOf(r)].names[r.args.user]

login(r) ==
  \/ ~UserKnown(r) /\ Refuse(r)
  \/ /\ UserKnown(r)
     /\ userIdToPassword' = DidOf(r)
     /\ pwdStruct' = accounts[DidOf(r)].passwords[UidOf(r)]
     /\ Reply(r, pwdStruct' = r.args.password, DidOf(r), UidOf(r))
     /\ UNCHANGED <<domainNameToDomainId, nextdomainid, accounts>>

\* operationLogin looks the user's digest up and compares the member pwdStruct.
operationLogin(r) ==
  \/ ~UserKnown(r) /\ Refuse(r)
  \/ /\ UserKnown(r)
     /\ Reply(r, pwdStruct = r.args.password, DidOf(r), UidOf(r))
     /\ UNCHANGED usmVars

\* The map that changepassword looks the user up in is the one the last login,
\* createuser or deleteuser left in the member.  When it has been freed since, the
\* user is found in it or not, and what is written changes no account.
HasUid(did, uid) == did \in DOMAIN accounts /\ uid \in DOMAIN accounts[did].passwords

changepassword(r) ==
  \/ /\ ~(r.domainid \in DOMAIN accounts /\ HasUid(userIdToPassword, r.userid))
     /\ Refuse(r)
  \/ /\ r.domainid \in DOMAIN accounts /\ HasUid(userIdToPassword, r.userid)
     /\ accounts' = [accounts EXCEPT ![userIdToPassword].passwords[r.userid] = r.args.password]
     /\ Reply(r, TRUE, r.domainid, r.userid)
     /\ UNCHANGED <<domainNameToDomainId, nextdomainid, userIdToPassword, pwdStruct>>
  \/ /\ r.domainid \in DOMAIN accounts /\ userIdToPassword \notin DOMAIN accounts
     /\ Reply(r, TRUE, r.domainid, r.userid) /\ UNCHANGED usmVars

createdomain(r) ==
  \/ ~(IsAdmin(r) /\ r.args.domain \notin DOMAIN domainNameToDomainId) /\ Refuse(r)
  \/ /\ IsAdmin(r) /\ r.args.domain \notin DOMAIN domainNameToDomainId
     /\ nextdomainid' = nextdomainid + 1
     /\ domainNameToDomainId' = With(domainNameToDomainId, r.args.domain, nextdomainid')
     /\ accounts' = With(accounts, nextdomainid', NewDomain)
     /\ Reply(r, TRUE, nextdomainid', r.userid)
     /\ UNCHANGED <<userIdToPassword, pwdStruct>>

\* A bug: the smallest userid that is free.
NextFreeUserid(did) ==
  CHOOSE uid \in 1 .. Cardinality(DOMAIN accounts[did].passwords) + 1 :
    /\ uid \notin DOMAIN accounts[did].passwords
    /\ \A lower \in 1 .. uid - 1 : lower \in DOMAIN accounts[did].passwords

getnextuserid(did) == accounts[did].next + 1

createuser(r) ==
  \/ ~(IsAdmin(r) /\ DomainKnown(r) /\ ~UserKnown(r)) /\ Refuse(r)
  \/ /\ IsAdmin(r) /\ DomainKnown(r) /\ ~UserKnown(r)
     /\ LET did == DidOf(r)  uid == getnextuserid(did) IN
        /\ accounts' = [accounts EXCEPT ![did] =
             [names     |-> With(@.names, r.args.user, uid),
              passwords |-> With(@.passwords, uid, r.args.password),
              next      |-> uid]]
        /\ userIdToPassword' = did /\ pwdStruct' = r.args.password
        /\ Reply(r, TRUE, did, uid)
     /\ UNCHANGED <<domainNameToDomainId, nextdomainid>>

deleteuser(r) ==
  \/ ~(IsAdmin(r) /\ UserKnown(r)) /\ Refuse(r)
  \/ /\ IsAdmin(r) /\ UserKnown(r)
     /\ LET did == DidOf(r)  uid == UidOf(r) IN
        /\ accounts' = [accounts EXCEPT ![did].names = Without(@, r.args.user),
                                        ![did].passwords = Without(@, uid)]
        /\ userIdToPassword' = did
        /\ Reply(r, TRUE, did, uid)
     /\ UNCHANGED <<domainNameToDomainId, nextdomainid, pwdStruct>>

\* A bug: the name stays.
KeepsName(name) == domainNameToDomainId

EraseName(name) == Without(domainNameToDomainId, name)

deletedomain(r) ==
  \/ ~(IsAdmin(r) /\ r.args.domain \in DOMAIN domainNameToDomainId) /\ Refuse(r)
  \/ /\ IsAdmin(r) /\ r.args.domain \in DOMAIN domainNameToDomainId
     /\ accounts' = Without(accounts, DidOf(r))
     /\ domainNameToDomainId' = EraseName(r.args.domain)
     /\ Reply(r, TRUE, DidOf(r), r.userid)
     /\ UNCHANGED <<nextdomainid, userIdToPassword, pwdStruct>>

UserSchemaMgr ==
  /\ usmMbox # <<>>
  /\ usmMbox' = Tail(usmMbox)
  /\ LET r == Head(usmMbox) IN
       \/ r.cmd = "login"          /\ login(r)
       \/ r.cmd = "changepassword" /\ changepassword(r)
       \/ r.cmd = "createdomain"   /\ createdomain(r)
       \/ r.cmd = "createuser"     /\ createuser(r)
       \/ r.cmd = "deleteuser"     /\ deleteuser(r)
       \/ r.cmd = "deletedomain"   /\ deletedomain(r)
       \/ r.cmd = "pglogin"        /\ operationLogin(r)
  /\ UNCHANGED <<agentVars, conns, made>>

-----------------------------------------------------------------------------
(* TransactionAgent and Pg.                                                *)

\* new Operation and the request to the User and schema manager.
Request(a, s, cmd, who, args) ==
  /\ operationidcounter[a] < MaxOps
  /\ operationidcounter' = [operationidcounter EXCEPT ![a] = @ + 1]
  /\ pendingOperations' = [pendingOperations EXCEPT ![a] = With(@, operationidcounter'[a], s)]
  /\ usmMbox' = Append(usmMbox, [agent |-> a, cmd |-> cmd,
                                 operationid |-> operationidcounter'[a],
                                 domainid |-> who.domainid, userid |-> who.userid,
                                 args |-> args])

Nobody     == [domainid |-> -1, userid |-> -1]
NewPg      == [state |-> "AUTH", domainid |-> -1, userid |-> -1]
Waiting(s) == \E a \in Agents : s \in Range(pendingOperations[a])
Idle(s)    == Patient => ~Waiting(s)

\* A new connection; a Pg object is made for one from the PostgreSQL listener.
Connect(s, a, l) ==
  /\ s \notin DOMAIN conns /\ made < MaxConns
  /\ made' = made + 1
  /\ conns' = With(conns, s, [agent |-> a, listener |-> l, asked |-> {}])
  /\ Pgs' = IF l = "pg" THEN [Pgs EXCEPT ![a] = With(@, s, NewPg)]
                        ELSE Pgs
  /\ UNCHANGED <<usmVars, usmMbox, mbox, pendingOperations, operationidcounter, loggedInUsers>>

\* A bug: the session stays when its connection ends.
EndConnectionKeepsUser(a, s) ==
  /\ conns' = Without(conns, s)
  /\ UNCHANGED loggedInUsers

endConnection(a, s) ==
  /\ conns' = Without(conns, s)
  /\ loggedInUsers' = [loggedInUsers EXCEPT ![a] = Without(@, s)]

closesocket(a, s) ==
  /\ conns' = Without(conns, s)
  /\ Pgs' = [Pgs EXCEPT ![a] = Without(@, s)]

HangUp(s) ==
  /\ s \in DOMAIN conns /\ Idle(s)
  /\ \/ conns[s].listener = "raw" /\ endConnection(conns[s].agent, s) /\ UNCHANGED Pgs
     \/ conns[s].listener = "pg" /\ closesocket(conns[s].agent, s) /\ UNCHANGED loggedInUsers
  /\ UNCHANGED <<usmVars, usmMbox, mbox, pendingOperations, operationidcounter, made>>

Asks(s, args) == conns' = [conns EXCEPT ![s].asked = @ \cup {<<args.domain, args.user>>}]

\* The only command of a connection that is not logged in, and one of the builtins
\* of a connection that is.
LoginCommand(s, args) ==
  /\ s \in DOMAIN conns /\ conns[s].listener = "raw" /\ Idle(s) /\ "login" \in Commands
  /\ Request(conns[s].agent, s, "login", Nobody, args)
  /\ Asks(s, args)
  /\ UNCHANGED <<usmVars, mbox, loggedInUsers, Pgs, made>>

\* A builtin of a connection that is logged in.
Builtin(s, cmd, args) ==
  /\ s \in DOMAIN conns /\ conns[s].listener = "raw" /\ Idle(s) /\ cmd \in Commands
  /\ LET a == conns[s].agent IN
       /\ s \in DOMAIN loggedInUsers[a]
       /\ Request(a, s, cmd, loggedInUsers[a][s], args)
  /\ UNCHANGED <<usmVars, mbox, loggedInUsers, Pgs, conns, made>>

ChangePassword(s, args) == Builtin(s, "changepassword", args)
CreateDomain(s, args)   == Builtin(s, "createdomain", args)
CreateUser(s, args)     == Builtin(s, "createuser", args)
DeleteUser(s, args)     == Builtin(s, "deleteuser", args)
DeleteDomain(s, args)   == Builtin(s, "deletedomain", args)

logout(s) ==
  /\ s \in DOMAIN conns /\ conns[s].listener = "raw" /\ Idle(s) /\ "logout" \in Commands
  /\ s \in DOMAIN loggedInUsers[conns[s].agent]
  /\ endConnection(conns[s].agent, s)
  /\ UNCHANGED <<usmVars, usmMbox, mbox, pendingOperations, operationidcounter, Pgs, made>>

\* Pg::cont in STATE_AUTH: the start packet and the password.
PgAuth(s, args) ==
  /\ s \in DOMAIN conns /\ conns[s].listener = "pg"
  /\ LET a == conns[s].agent IN
       /\ s \in DOMAIN Pgs[a] /\ Pgs[a][s].state = "AUTH"
       /\ Pgs' = [Pgs EXCEPT ![a][s].state = "SENT"]
       /\ Request(a, s, "pglogin", Nobody, args)
  /\ Asks(s, args)
  /\ UNCHANGED <<usmVars, mbox, loggedInUsers, made>>

endOperation(a, operationid) ==
  pendingOperations' = [pendingOperations EXCEPT ![a] = Without(@, operationid)]

\* A bug: a refused login closes the connection and forgets to end the Operation.
LoginNotOkOnly(a, s, operationid) ==
  /\ endConnection(a, s)
  /\ UNCHANGED <<pendingOperations, Pgs>>

LoginOk(a, s, m) ==
  /\ loggedInUsers' = [loggedInUsers EXCEPT ![a] =
                         With(@, s, [domainid |-> m.domainid, userid |-> m.userid])]
  /\ endOperation(a, m.operationid)
  /\ UNCHANGED <<Pgs, conns>>

LoginNotOk(a, s, operationid) ==
  /\ endOperation(a, operationid)
  /\ endConnection(a, s)
  /\ UNCHANGED Pgs

\* Operation::handleOperation and Pg::continueLogin.  Without a Pg object the
\* Operation stays where it is.
handleOperation(a, s, m) ==
  /\ IF s \in DOMAIN Pgs[a]
     THEN /\ Pgs' = IF m.ok THEN [Pgs EXCEPT ![a][s] = [state |-> "ESTABLISHED",
                                                        domainid |-> m.domainid,
                                                        userid |-> m.userid]]
                            ELSE Pgs
          /\ endOperation(a, m.operationid)
     ELSE UNCHANGED <<Pgs, pendingOperations>>
  /\ UNCHANGED <<loggedInUsers, conns>>

AgentReply(a) ==
  /\ mbox[a] # <<>>
  /\ mbox' = [mbox EXCEPT ![a] = Tail(@)]
  /\ LET m == Head(mbox[a])  s == pendingOperations[a][m.operationid] IN
       \/ m.cmd = "login" /\ m.ok /\ LoginOk(a, s, m)
       \/ m.cmd = "login" /\ ~m.ok /\ LoginNotOk(a, s, m.operationid)
       \/ m.cmd = "pglogin" /\ handleOperation(a, s, m)
       \/ /\ m.cmd \notin {"login", "pglogin"}
          /\ endOperation(a, m.operationid)
          /\ UNCHANGED <<loggedInUsers, Pgs, conns>>
  /\ UNCHANGED <<usmVars, usmMbox, operationidcounter, made>>

Client ==
  \E s \in Socks :
    \/ \E a \in Agents, l \in Listeners : Connect(s, a, l)
    \/ HangUp(s)
    \/ logout(s)
    \/ \E args \in Arguments :
         \/ LoginCommand(s, args)
         \/ PgAuth(s, args)
         \/ ChangePassword(s, args)
         \/ CreateDomain(s, args)
         \/ CreateUser(s, args)
         \/ DeleteUser(s, args)
         \/ DeleteDomain(s, args)

Next == Client \/ UserSchemaMgr \/ \E a \in Agents : AgentReply(a)

\* The actors' threads poll their mailboxes for ever; nothing makes a client act.
Fairness == WF_vars(UserSchemaMgr) /\ \A a \in Agents : WF_vars(AgentReply(a))

Spec == Init /\ [][Next]_vars /\ Fairness

-----------------------------------------------------------------------------
Identities == [domainid : Int, userid : Int]

\* Every variable has its type.
TypeOK ==
  /\ \A d \in DOMAIN domainNameToDomainId : d \in Domains /\ domainNameToDomainId[d] \in Nat
  /\ nextdomainid \in Nat
  /\ \A did \in DOMAIN accounts :
       /\ DOMAIN accounts[did].names \subseteq Names
       /\ Range(accounts[did].passwords) \subseteq Passwords
  /\ userIdToPassword \in Nat /\ pwdStruct \in Passwords
  /\ usmMbox \in Seq([agent : Agents, cmd : Commands \cup {"pglogin"}, operationid : Nat,
                      domainid : Int, userid : Int, args : Arguments])
  /\ \A a \in Agents : /\ Range(pendingOperations[a]) \subseteq Socks
                       /\ Range(loggedInUsers[a]) \subseteq Identities
                       /\ DOMAIN Pgs[a] \subseteq Socks
                       /\ \A i \in DOMAIN mbox[a] : mbox[a][i].operationid \in Nat

\* The maps of the User and schema manager agree whatever domains and users were made
\* and deleted: every domain name has its own domainid and that domain's maps, no map
\* is left without a name, every user name has its own userid and a digest, and no id
\* lies above the counter it is drawn from, so that none is given twice.
DirectoryAgrees ==
  /\ IsInjective(domainNameToDomainId)
  /\ Range(domainNameToDomainId) = DOMAIN accounts
  /\ \A did \in DOMAIN accounts :
       LET account == accounts[did] IN
         /\ did <= nextdomainid
         /\ IsInjective(account.names)
         /\ Range(account.names) = DOMAIN account.passwords
         /\ \A uid \in DOMAIN account.passwords : uid <= account.next

\* The identity a session was given at login never comes to mean somebody else: the
\* user with that domainid and userid, if there still is one, has a name this
\* connection asked to log in as.
SessionsKeepTheirUser ==
  \A a \in Agents : \A s \in DOMAIN loggedInUsers[a] \cap DOMAIN conns :
    LET who == loggedInUsers[a][s] IN
      HasUid(who.domainid, who.userid) =>
        \E asked \in conns[s].asked :
          /\ asked[1] \in DOMAIN domainNameToDomainId
          /\ domainNameToDomainId[asked[1]] = who.domainid
          /\ asked[2] \in DOMAIN accounts[who.domainid].names
          /\ accounts[who.domainid].names[asked[2]] = who.userid

\* A session belongs to an open connection of its agent that has asked for it, also
\* when the number of a closed socket has been given to another connection.
SessionsAreTheAskers ==
  \A a \in Agents :
    /\ \A s \in DOMAIN loggedInUsers[a] :
         /\ s \in DOMAIN conns /\ conns[s].agent = a /\ conns[s].listener = "raw"
         /\ conns[s].asked # {}
    /\ \A s \in DOMAIN Pgs[a] :
         /\ s \in DOMAIN conns /\ conns[s].agent = a /\ conns[s].listener = "pg"
         /\ Pgs[a][s].state = "ESTABLISHED" => conns[s].asked # {}

\* An Operation ends: the manager answers it and the agent drops it.
OperationsEnd ==
  \A a \in Agents : \A id \in 1 .. MaxOps :
    id \in DOMAIN pendingOperations[a] ~> id \notin DOMAIN pendingOperations[a]

-----------------------------------------------------------------------------
\* "if user logged in, then cannot login but everything else" (TransactionAgent.cc).
LoggedInCannotLogin ==
  \A i \in DOMAIN usmMbox :
    LET r == usmMbox[i] IN
      (r.cmd = "login" /\ r.operationid \in DOMAIN pendingOperations[r.agent]) =>
        pendingOperations[r.agent][r.operationid] \notin DOMAIN loggedInUsers[r.agent]

\* changepassword changes nobody's password but that of the user who asked.
PasswordsAreTheirUsers ==
  [][ \A did \in DOMAIN accounts \cap DOMAIN accounts' :
        \A uid \in DOMAIN accounts[did].passwords \cap DOMAIN accounts'[did].passwords :
          accounts[did].passwords[uid] # accounts'[did].passwords[uid] =>
            /\ usmMbox # <<>>
            /\ Head(usmMbox).domainid = did /\ Head(usmMbox).userid = uid ]_vars

\* A PostgreSQL client's login is accepted exactly when the password is the user's.
PgLoginIsExact ==
  [][ \A a \in Agents :
        (mbox'[a] # mbox[a] /\ usmMbox # <<>> /\ Len(mbox'[a]) > Len(mbox[a])
           /\ Head(usmMbox).cmd = "pglogin") =>
          (mbox'[a][Len(mbox'[a])].ok <=>
             LET r == Head(usmMbox) IN
               UserKnown(r) /\ accounts[DidOf(r)].passwords[UidOf(r)] = r.args.password) ]_vars
=============================================================================
