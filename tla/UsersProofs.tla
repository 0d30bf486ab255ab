----------------------------- MODULE UsersProofs -----------------------------
(***************************************************************************)
(* Proofs about Users: the directory of the User and schema manager stays  *)
(* consistent, and, when clients wait for their answers, a session belongs *)
(* to a connection that asked for it and never comes to mean another user. *)
(***************************************************************************)
EXTENDS Users, TLAPS, SequenceTheorems

\* A partial map from S to T.
IsMap(f, S, T) == DOMAIN f \subseteq S /\ \A x \in DOMAIN f : f[x] \in T

-----------------------------------------------------------------------------
(* The directory.                                                          *)

\* One domain's maps.
AccountOK(account) ==
  /\ DOMAIN account = {"names", "passwords", "next"}
  /\ IsMap(account.names, Names, Nat) /\ IsMap(account.passwords, Nat, Passwords)
  /\ account.next \in Nat
  /\ IsInjective(account.names)
  /\ Range(account.names) = DOMAIN account.passwords
  /\ \A uid \in DOMAIN account.passwords : uid <= account.next

\* DirectoryAgrees with the types.
Directory ==
  /\ IsMap(domainNameToDomainId, Domains, Nat) /\ nextdomainid \in Nat
  /\ userIdToPassword \in Nat /\ pwdStruct \in Passwords
  /\ IsInjective(domainNameToDomainId)
  /\ Range(domainNameToDomainId) = DOMAIN accounts
  /\ \A did \in DOMAIN accounts : did <= nextdomainid /\ AccountOK(accounts[did])

\* Adding a user whose userid is new.
LEMMA AddUser ==
  ASSUME NEW account, AccountOK(account), NEW user \in Names, user \notin DOMAIN account.names,
         NEW password \in Passwords, NEW uid, uid = account.next + 1
  PROVE  AccountOK([names     |-> With(account.names, user, uid),
                    passwords |-> With(account.passwords, uid, password),
                    next      |-> uid])
<1> DEFINE n == With(account.names, user, uid)
           p == With(account.passwords, uid, password)
<1>1. account.next \in Nat /\ uid \in Nat
  BY DEF AccountOK
<1>2. /\ DOMAIN n = DOMAIN account.names \cup {user} /\ n[user] = uid
      /\ \A z \in DOMAIN account.names : n[z] = account.names[z]
  BY DEF With
<1>3. /\ DOMAIN p = DOMAIN account.passwords \cup {uid} /\ p[uid] = password
      /\ \A z \in DOMAIN account.passwords : z # uid => p[z] = account.passwords[z]
  BY DEF With
<1> HIDE DEF n, p
<1>4. \A z \in DOMAIN account.passwords : z \in Nat /\ z <= account.next
  BY DEF AccountOK, IsMap
<1>5. uid \notin DOMAIN account.passwords
  BY <1>1, <1>4
<1>6. \A z \in DOMAIN account.names : account.names[z] # uid
  BY <1>5 DEF AccountOK, Range
<1>7. IsInjective(n)
  BY <1>2, <1>6 DEF IsInjective, AccountOK
<1>8. Range(n) = DOMAIN p
  BY <1>2, <1>3 DEF Range, AccountOK
<1>9. \A z \in DOMAIN p : z <= uid
  BY <1>1, <1>3, <1>4
<1>10. IsMap(n, Names, Nat) /\ IsMap(p, Nat, Passwords)
  BY <1>1, <1>2, <1>3 DEF IsMap, AccountOK
<1> DEFINE new == [names |-> n, passwords |-> p, next |-> uid]
<1>11. DOMAIN new = {"names", "passwords", "next"} /\ new.names = n /\ new.passwords = p /\ new.next = uid
  OBVIOUS
<1> HIDE DEF new
<1>12. AccountOK(new)
  BY <1>1, <1>7, <1>8, <1>9, <1>10, <1>11 DEF AccountOK
<1> QED BY <1>12 DEF new, n, p

\* Dropping a user.
LEMMA DropUser ==
  ASSUME NEW account, AccountOK(account), NEW user \in DOMAIN account.names, NEW new,
         DOMAIN new = DOMAIN account, new.next = account.next,
         new.names = Without(account.names, user),
         new.passwords = Without(account.passwords, account.names[user])
  PROVE  AccountOK(new)
<1> DEFINE uid == account.names[user]
           n == new.names
           p == new.passwords
<1>1. DOMAIN n = DOMAIN account.names \ {user} /\ \A z \in DOMAIN n : n[z] = account.names[z]
  BY DEF Without, Restrict
<1>2. /\ DOMAIN p = DOMAIN account.passwords \ {uid}
      /\ \A z \in DOMAIN p : p[z] = account.passwords[z]
  BY DEF Without, Restrict
<1> HIDE DEF n, p
<1>3. IsInjective(n)
  BY <1>1 DEF IsInjective, AccountOK
<1>4. Range(n) = DOMAIN p
  BY <1>1, <1>2 DEF Range, AccountOK, IsInjective
<1>5. \A z \in DOMAIN p : z <= account.next
  BY <1>2 DEF AccountOK
<1>6. IsMap(n, Names, Nat) /\ IsMap(p, Nat, Passwords)
  BY <1>1, <1>2 DEF IsMap, AccountOK
<1> QED BY <1>3, <1>4, <1>5, <1>6 DEF AccountOK, n, p

\* Changing the digest of a user.
LEMMA NewDigest ==
  ASSUME NEW account, AccountOK(account), NEW uid \in DOMAIN account.passwords,
         NEW password \in Passwords, NEW new,
         DOMAIN new = DOMAIN account, new.next = account.next, new.names = account.names,
         new.passwords = [account.passwords EXCEPT ![uid] = password]
  PROVE  AccountOK(new)
<1>1. DOMAIN new.passwords = DOMAIN account.passwords /\ IsMap(new.passwords, Nat, Passwords)
  BY DEF AccountOK, IsMap
<1> QED BY <1>1 DEF AccountOK

\* d and u are the names under which the domain did and its user uid were found: as long
\* as the domain is there d is its name, as long as the user is there u is his, and the
\* ids have been given already.
Meant(did, uid, d, u) ==
  /\ did \in Nat /\ uid \in Nat /\ did <= nextdomainid
  /\ did \in DOMAIN accounts =>
       /\ d \in DOMAIN domainNameToDomainId /\ domainNameToDomainId[d] = did
       /\ uid <= accounts[did].next
       /\ uid \in DOMAIN accounts[did].passwords =>
            u \in DOMAIN accounts[did].names /\ accounts[did].names[u] = uid

\* No step makes such ids mean something else.
Stays == \A did, uid, d, u : Meant(did, uid, d, u) => Meant(did, uid, d, u)'

\* A step that changes one domain's maps.
LEMMA OneAccount ==
  ASSUME Directory, NEW did \in DOMAIN accounts, NEW new, AccountOK(new),
         accounts' = [accounts EXCEPT ![did] = new],
         domainNameToDomainId' = domainNameToDomainId, nextdomainid' = nextdomainid,
         userIdToPassword' \in Nat, pwdStruct' \in Passwords,
         accounts[did].next <= new.next,
         \A uid \in DOMAIN new.passwords :
           uid \in DOMAIN accounts[did].passwords \/ accounts[did].next < uid,
         \A u \in DOMAIN accounts[did].names :
           accounts[did].names[u] \in DOMAIN new.passwords =>
             u \in DOMAIN new.names /\ new.names[u] = accounts[did].names[u]
  PROVE  Directory' /\ Stays
<1>1. /\ DOMAIN accounts' = DOMAIN accounts /\ accounts'[did] = new
      /\ \A x \in DOMAIN accounts : x # did => accounts'[x] = accounts[x]
  OBVIOUS
<1>2. /\ \A x \in DOMAIN accounts : x <= nextdomainid /\ AccountOK(accounts[x])
      /\ accounts[did].next \in Nat /\ new.next \in Nat
  BY DEF Directory, AccountOK
<1>3. \A x \in DOMAIN accounts' : x <= nextdomainid' /\ AccountOK(accounts'[x])
  BY <1>1, <1>2
<1>4. Directory'
  <2>1. /\ IsMap(domainNameToDomainId, Domains, Nat) /\ nextdomainid \in Nat
        /\ IsInjective(domainNameToDomainId) /\ Range(domainNameToDomainId) = DOMAIN accounts
    BY DEF Directory
  <2>2. (\A x \in DOMAIN accounts : x <= nextdomainid /\ AccountOK(accounts[x]))'
    BY <1>3 DEF AccountOK
  <2> QED BY <2>1, <2>2, <1>1 DEF Directory
<1>5. ASSUME NEW x, NEW uid, NEW d, NEW u, Meant(x, uid, d, u) PROVE Meant(x, uid, d, u)'
  <2>1. CASE x = did
    <3>1. uid \in Nat /\ uid <= accounts[did].next
      BY <2>1, <1>5 DEF Meant
    <3>2. uid <= new.next
      BY <3>1, <1>2
    <3>3. uid \in DOMAIN new.passwords => u \in DOMAIN new.names /\ new.names[u] = uid
      BY <2>1, <3>1, <1>2, <1>5 DEF Meant
    <3> QED BY <2>1, <3>2, <3>3, <1>1, <1>5 DEF Meant
  <2>2. CASE x # did
    BY <2>2, <1>1, <1>5 DEF Meant
  <2> QED BY <2>1, <2>2
<1> QED BY <1>4, <1>5 DEF Stays

\* A step that leaves the directory alone.
LEMMA SameDirectory ==
  ASSUME Directory, accounts' = accounts, domainNameToDomainId' = domainNameToDomainId,
         nextdomainid' = nextdomainid, userIdToPassword' \in Nat, pwdStruct' \in Passwords
  PROVE  Directory' /\ Stays
<1>1. Directory'
  BY DEF Directory, AccountOK
<1>2. Stays
  BY DEF Stays, Meant
<1> QED BY <1>1, <1>2

\* What the requests of clients bring along.
IsRequest(r) == /\ r.domainid \in Int /\ r.userid \in Int /\ r.args \in Arguments
                /\ r.agent \in Agents /\ r.cmd \in Commands \cup {"pglogin"} /\ r.operationid \in Nat

\* What a known user's ids are.
LEMMA KnownUser ==
  ASSUME Directory, NEW r, UserKnown(r)
  PROVE  /\ DidOf(r) \in DOMAIN accounts /\ DidOf(r) \in Nat /\ UidOf(r) \in Nat
         /\ AccountOK(accounts[DidOf(r)])
         /\ r.args.user \in DOMAIN accounts[DidOf(r)].names
         /\ UidOf(r) \in DOMAIN accounts[DidOf(r)].passwords
         /\ Meant(DidOf(r), UidOf(r), r.args.domain, r.args.user)
<1> DEFINE did == DidOf(r)
           uid == UidOf(r)
<1>1. /\ r.args.domain \in DOMAIN domainNameToDomainId /\ did \in DOMAIN accounts
      /\ r.args.user \in DOMAIN accounts[did].names
      /\ domainNameToDomainId[r.args.domain] = did /\ accounts[did].names[r.args.user] = uid
  BY DEF UserKnown, DomainKnown, DidOf, UidOf
<1> HIDE DEF did, uid
<1>2. AccountOK(accounts[did]) /\ did \in Nat /\ did <= nextdomainid
  BY <1>1 DEF Directory, IsMap
<1>3. uid \in DOMAIN accounts[did].passwords /\ uid \in Nat /\ uid <= accounts[did].next
  BY <1>1, <1>2 DEF AccountOK, Range, IsMap
<1>4. Meant(did, uid, r.args.domain, r.args.user)
  BY <1>1, <1>2, <1>3 DEF Meant
<1> QED BY <1>1, <1>2, <1>3, <1>4 DEF did, uid

\* login and operationLogin.
LEMMA LoginDirectory ==
  ASSUME Directory, NEW r, IsRequest(r), login(r) \/ operationLogin(r)
  PROVE  Directory' /\ Stays
<1>1. accounts' = accounts /\ domainNameToDomainId' = domainNameToDomainId /\ nextdomainid' = nextdomainid
  BY DEF login, operationLogin, Refuse, usmVars
<1>2. userIdToPassword' \in Nat /\ pwdStruct' \in Passwords
  <2>1. CASE UNCHANGED <<userIdToPassword, pwdStruct>>
    BY <2>1 DEF Directory
  <2>2. CASE UserKnown(r) /\ userIdToPassword' = DidOf(r)
             /\ pwdStruct' = accounts[DidOf(r)].passwords[UidOf(r)]
    BY <2>2, KnownUser DEF AccountOK, IsMap
  <2> QED BY <2>1, <2>2 DEF login, operationLogin, Refuse, usmVars
<1> QED BY <1>1, <1>2, SameDirectory

\* changepassword.
LEMMA ChangePasswordDirectory ==
  ASSUME Directory, NEW r, IsRequest(r), changepassword(r)
  PROVE  Directory' /\ Stays
<1>1. CASE UNCHANGED usmVars
  BY <1>1, SameDirectory DEF usmVars, Directory
<1>2. CASE /\ HasUid(userIdToPassword, r.userid)
           /\ accounts' = [accounts EXCEPT ![userIdToPassword].passwords[r.userid] = r.args.password]
           /\ UNCHANGED <<domainNameToDomainId, nextdomainid, userIdToPassword, pwdStruct>>
  <2> DEFINE did == userIdToPassword
             old == accounts[did]
             new == [old EXCEPT !.passwords = [old.passwords EXCEPT ![r.userid] = r.args.password]]
  <2>1. did \in DOMAIN accounts /\ r.userid \in DOMAIN old.passwords /\ AccountOK(old)
    BY <1>2 DEF HasUid, Directory
  <2>2. accounts' = [accounts EXCEPT ![did] = new]
    BY <1>2
  <2>3. /\ DOMAIN new = DOMAIN old /\ new.next = old.next /\ new.names = old.names
        /\ new.passwords = [old.passwords EXCEPT ![r.userid] = r.args.password]
    BY <2>1 DEF AccountOK
  <2> HIDE DEF new
  <2>4. r.args.password \in Passwords
    BY DEF IsRequest, Arguments
  <2>5. AccountOK(new)
    BY <2>1, <2>3, <2>4, NewDigest
  <2>6. DOMAIN new.passwords = DOMAIN old.passwords /\ old.next <= new.next
    BY <2>1, <2>3 DEF AccountOK
  <2>7. userIdToPassword' \in Nat /\ pwdStruct' \in Passwords
    BY <1>2 DEF Directory
  <2> QED BY <1>2, <2>1, <2>2, <2>3, <2>5, <2>6, <2>7, OneAccount
<1> QED BY <1>1, <1>2 DEF changepassword, Refuse

\* createuser.
LEMMA CreateUserDirectory ==
  ASSUME Directory, NEW r, IsRequest(r), createuser(r)
  PROVE  Directory' /\ Stays
<1>1. CASE UNCHANGED usmVars
  BY <1>1, SameDirectory DEF usmVars, Directory
<1>2. CASE DomainKnown(r) /\ ~UserKnown(r) /\ ~UNCHANGED usmVars
  <2> DEFINE did == DidOf(r)
             old == accounts[did]
             uid == getnextuserid(did)
             new == [names     |-> With(old.names, r.args.user, uid),
                     passwords |-> With(old.passwords, uid, r.args.password),
                     next      |-> uid]
  <2>1. did \in DOMAIN accounts /\ AccountOK(old) /\ did \in Nat /\ r.args.user \notin DOMAIN old.names
    BY <1>2 DEF DomainKnown, UserKnown, DidOf, Directory, IsMap
  <2>2. /\ accounts' = [accounts EXCEPT ![did] = new]
        /\ userIdToPassword' = did /\ pwdStruct' = r.args.password
        /\ UNCHANGED <<domainNameToDomainId, nextdomainid>>
    BY <1>2 DEF createuser, Refuse
  <2>3. r.args.password \in Passwords /\ r.args.user \in Names
    BY DEF IsRequest, Arguments
  <2>4. uid = old.next + 1 /\ old.next \in Nat
    BY <2>1 DEF getnextuserid, AccountOK
  <2> HIDE DEF uid, did
  <2>5. AccountOK(new)
    BY <2>1, <2>3, <2>4, AddUser
  <2>6. /\ new.next = uid /\ DOMAIN new.passwords = {uid} \cup DOMAIN old.passwords
        /\ DOMAIN new.names = {r.args.user} \cup DOMAIN old.names
        /\ \A u \in DOMAIN old.names : new.names[u] = old.names[u]
    BY <2>1 DEF With
  <2> HIDE DEF new
  <2>7. old.next <= new.next /\ old.next < uid
    BY <2>4, <2>6
  <2> QED BY <2>1, <2>2, <2>3, <2>5, <2>6, <2>7, OneAccount
<1> QED BY <1>1, <1>2 DEF createuser, Refuse

\* deleteuser.
LEMMA DeleteUserDirectory ==
  ASSUME Directory, NEW r, IsRequest(r), deleteuser(r)
  PROVE  Directory' /\ Stays
<1>1. CASE UNCHANGED usmVars
  BY <1>1, SameDirectory DEF usmVars, Directory
<1>2. CASE UserKnown(r) /\ ~UNCHANGED usmVars
  <2> DEFINE did == DidOf(r)
             old == accounts[did]
             uid == UidOf(r)
             user == r.args.user
             new == [old EXCEPT !.names = Without(old.names, user), !.passwords = Without(old.passwords, uid)]
  <2>1. /\ did \in DOMAIN accounts /\ AccountOK(old) /\ did \in Nat /\ user \in DOMAIN old.names
        /\ uid \in DOMAIN old.passwords /\ uid = old.names[user]
    BY <1>2, KnownUser DEF UidOf
  <2>2. /\ accounts' = [accounts EXCEPT ![did] = new]
        /\ userIdToPassword' = did
        /\ UNCHANGED <<domainNameToDomainId, nextdomainid, pwdStruct>>
    BY <1>2 DEF deleteuser, Refuse
  <2> HIDE DEF did, uid, user
  <2>3. /\ DOMAIN new = DOMAIN old /\ new.next = old.next
        /\ new.names = Without(old.names, user) /\ new.passwords = Without(old.passwords, uid)
    BY <2>1 DEF AccountOK
  <2> HIDE DEF new
  <2>4. AccountOK(new)
    BY <2>1, <2>3, DropUser
  <2>5. /\ DOMAIN new.passwords = DOMAIN old.passwords \ {uid}
        /\ DOMAIN new.names = DOMAIN old.names \ {user}
        /\ \A u \in DOMAIN new.names : new.names[u] = old.names[u]
    BY <2>3 DEF Without, Restrict
  <2>6. old.next <= new.next /\ pwdStruct' \in Passwords
    BY <2>1, <2>2, <2>3 DEF AccountOK, Directory
  <2> QED BY <2>1, <2>2, <2>4, <2>5, <2>6, OneAccount
<1> QED BY <1>1, <1>2 DEF deleteuser, Refuse

\* createdomain: the domainid is new.
LEMMA CreateDomainDirectory ==
  ASSUME Directory, NEW r, IsRequest(r), createdomain(r)
  PROVE  Directory' /\ Stays
<1>1. CASE UNCHANGED usmVars
  BY <1>1, SameDirectory DEF usmVars, Directory
<1>2. CASE r.args.domain \notin DOMAIN domainNameToDomainId /\ ~UNCHANGED usmVars
  <2> DEFINE did == nextdomainid + 1
             d == r.args.domain
  <2>1. /\ nextdomainid' = did /\ domainNameToDomainId' = With(domainNameToDomainId, d, did)
        /\ accounts' = With(accounts, did, NewDomain) /\ UNCHANGED <<userIdToPassword, pwdStruct>>
    BY <1>2 DEF createdomain, Refuse
  <2>2. nextdomainid \in Nat /\ did \in Nat /\ d \in Domains
    BY DEF Directory, IsRequest, Arguments
  <2>3. \A x \in DOMAIN accounts : x \in Nat /\ x <= nextdomainid
    BY DEF Directory, Range, IsMap
  <2>4. did \notin DOMAIN accounts /\ nextdomainid < did
    BY <2>2, <2>3
  <2> HIDE DEF did, d
  <2>5. /\ DOMAIN accounts' = {did} \cup DOMAIN accounts /\ accounts'[did] = NewDomain
        /\ \A x \in DOMAIN accounts : accounts'[x] = accounts[x]
    BY <2>1, <2>4 DEF With
  <2>6. /\ DOMAIN domainNameToDomainId' = {d} \cup DOMAIN domainNameToDomainId
        /\ domainNameToDomainId'[d] = did
        /\ \A x \in DOMAIN domainNameToDomainId : domainNameToDomainId'[x] = domainNameToDomainId[x]
    BY <1>2, <2>1 DEF With, d
  <2>7. AccountOK(NewDomain)
    BY DEF NewDomain, Nothing, AccountOK, IsMap, IsInjective, Range
  <2>8. IsMap(domainNameToDomainId', Domains, Nat)
    BY <2>2, <2>6 DEF IsMap, Directory
  <2>9. IsInjective(domainNameToDomainId')
    <3>1. \A x \in DOMAIN domainNameToDomainId : domainNameToDomainId[x] # did
      BY <2>4 DEF Directory, Range
    <3> QED BY <2>6, <3>1 DEF IsInjective, Directory
  <2>10. Range(domainNameToDomainId') = DOMAIN accounts'
    BY <2>5, <2>6 DEF Range, Directory
  <2>11. \A x \in DOMAIN accounts' : x <= nextdomainid' /\ AccountOK(accounts'[x])
    <3>1. \A x \in DOMAIN accounts : AccountOK(accounts[x])
      BY DEF Directory
    <3> QED BY <3>1, <2>1, <2>2, <2>3, <2>4, <2>5, <2>7
  <2>12. Directory'
    <3>1. (\A x \in DOMAIN accounts : x <= nextdomainid /\ AccountOK(accounts[x]))'
      BY <2>11 DEF AccountOK
    <3> QED BY <2>1, <2>2, <2>8, <2>9, <2>10, <3>1 DEF Directory
  <2>13. Stays
    <3> SUFFICES ASSUME NEW x, NEW uid, NEW e, NEW u, Meant(x, uid, e, u)
                 PROVE  Meant(x, uid, e, u)'
      BY DEF Stays
    <3>1. x \in Nat /\ uid \in Nat /\ x <= nextdomainid /\ x # did /\ x <= nextdomainid'
      BY <2>1, <2>2, <2>4 DEF Meant
    <3>2. x \in DOMAIN accounts' => x \in DOMAIN accounts /\ accounts'[x] = accounts[x]
      BY <3>1, <2>5
    <3> QED BY <3>1, <3>2, <2>6 DEF Meant
  <2> QED BY <2>12, <2>13
<1> QED BY <1>1, <1>2 DEF createdomain, Refuse

\* deletedomain: the name and the maps go together.
LEMMA DeleteDomainDirectory ==
  ASSUME Directory, NEW r, IsRequest(r), deletedomain(r)
  PROVE  Directory' /\ Stays
<1>1. CASE UNCHANGED usmVars
  BY <1>1, SameDirectory DEF usmVars, Directory
<1>2. CASE r.args.domain \in DOMAIN domainNameToDomainId /\ ~UNCHANGED usmVars
  <2> DEFINE d == r.args.domain
             did == domainNameToDomainId[d]
  <2>1. /\ accounts' = Without(accounts, did)
        /\ domainNameToDomainId' = Without(domainNameToDomainId, d)
        /\ UNCHANGED <<nextdomainid, userIdToPassword, pwdStruct>>
    BY <1>2 DEF deletedomain, Refuse, EraseName, DidOf
  <2>2. d \in DOMAIN domainNameToDomainId
    BY <1>2
  <2> HIDE DEF d
  <2>3. \A x \in DOMAIN domainNameToDomainId : domainNameToDomainId[x] = did => x = d
    BY <2>2 DEF Directory, IsInjective
  <2>4. /\ DOMAIN accounts' = DOMAIN accounts \ {did}
        /\ \A x \in DOMAIN accounts' : accounts'[x] = accounts[x]
    BY <2>1 DEF Without, Restrict
  <2>5. /\ DOMAIN domainNameToDomainId' = DOMAIN domainNameToDomainId \ {d}
        /\ \A x \in DOMAIN domainNameToDomainId' : domainNameToDomainId'[x] = domainNameToDomainId[x]
    BY <2>1 DEF Without, Restrict
  <2>6. IsMap(domainNameToDomainId', Domains, Nat) /\ IsInjective(domainNameToDomainId')
    BY <2>5 DEF IsMap, IsInjective, Directory
  <2>7. Range(domainNameToDomainId') = DOMAIN accounts'
    BY <2>3, <2>4, <2>5 DEF Range, Directory
  <2>8. (\A x \in DOMAIN accounts : x <= nextdomainid /\ AccountOK(accounts[x]))'
    BY <2>1, <2>4 DEF Directory, AccountOK
  <2>9. Directory'
    BY <2>1, <2>6, <2>7, <2>8 DEF Directory
  <2>10. Stays
    <3> SUFFICES ASSUME NEW x, NEW uid, NEW e, NEW u, Meant(x, uid, e, u)
                 PROVE  Meant(x, uid, e, u)'
      BY DEF Stays
    <3>1. x \in DOMAIN accounts' => /\ x \in DOMAIN accounts /\ accounts'[x] = accounts[x]
                                    /\ x # did
      BY <2>4
    <3>2. x \in DOMAIN accounts' => e \in DOMAIN domainNameToDomainId' /\ domainNameToDomainId'[e] = x
      BY <3>1, <2>5 DEF Meant
    <3> QED BY <3>1, <3>2, <2>1 DEF Meant
  <2> QED BY <2>9, <2>10
<1> QED BY <1>1, <1>2 DEF deletedomain, Refuse

-----------------------------------------------------------------------------
(* Messages and sessions, as far as the directory depends on them.         *)

Requests == [agent : Agents, cmd : Commands \cup {"pglogin"}, operationid : Nat,
             domainid : Int, userid : Int, args : Arguments]
Replies  == [cmd : Commands \cup {"pglogin"}, operationid : Nat, ok : BOOLEAN,
             domainid : Int, userid : Int]

Messages ==
  /\ usmMbox \in Seq(Requests)
  /\ mbox \in [Agents -> Seq(Replies)]
  /\ operationidcounter \in [Agents -> Nat]
  /\ DOMAIN loggedInUsers = Agents
  /\ \A a \in Agents : \A s \in DOMAIN loggedInUsers[a] : loggedInUsers[a][s] \in Identities
  /\ \A s \in DOMAIN conns : conns[s].agent \in Agents

\* What the manager answers to r.
Answers(r, m) ==
  /\ m \in Replies /\ m.cmd = r.cmd /\ m.operationid = r.operationid
  /\ m.cmd \in {"login", "pglogin"} /\ m.ok =>
       Meant(m.domainid, m.userid, r.args.domain, r.args.user)

\* The reply that a command sends.
LEMMA ReplyAnswers ==
  ASSUME NEW r, IsRequest(r), NEW ok \in BOOLEAN, NEW did \in Int, NEW uid \in Int,
         Reply(r, ok, did, uid),
         r.cmd \in {"login", "pglogin"} /\ ok => Meant(did, uid, r.args.domain, r.args.user)
  PROVE  \E m : Answers(r, m) /\ mbox' = [mbox EXCEPT ![r.agent] = Append(@, m)]
<1> DEFINE m == [cmd |-> r.cmd, operationid |-> r.operationid, ok |-> ok,
                 domainid |-> did, userid |-> uid]
<1>1. mbox' = [mbox EXCEPT ![r.agent] = Append(@, m)]
  BY DEF Reply
<1>2. m \in Replies
  BY DEF IsRequest, Replies
<1>3. Answers(r, m)
  BY <1>2 DEF Answers
<1> QED BY <1>1, <1>3

\* A step of the manager: it takes a request and answers it, and the directory is sound.
LEMMA ManagerStep ==
  ASSUME Directory, Messages, UserSchemaMgr
  PROVE  /\ Directory' /\ Stays
         /\ usmMbox # <<>> /\ usmMbox' = Tail(usmMbox) /\ IsRequest(Head(usmMbox))
         /\ \E m : /\ Answers(Head(usmMbox), m)
                   /\ mbox' = [mbox EXCEPT ![Head(usmMbox).agent] = Append(@, m)]
<1>1. PICK r : r = Head(usmMbox)
  OBVIOUS
<1>2. usmMbox # <<>> /\ usmMbox' = Tail(usmMbox) /\ r \in Requests
  BY <1>1, HeadTailProperties DEF UserSchemaMgr, Messages
<1>3. IsRequest(r)
  BY <1>2 DEF Requests, IsRequest
<1>4. \/ r.cmd \in {"login", "pglogin"} /\ (login(r) \/ operationLogin(r))
      \/ /\ r.cmd \notin {"login", "pglogin"}
         /\ \/ changepassword(r) \/ createdomain(r) \/ createuser(r)
            \/ deleteuser(r) \/ deletedomain(r)
  BY <1>1 DEF UserSchemaMgr
<1>5. Directory' /\ Stays
  BY <1>3, <1>4, LoginDirectory, ChangePasswordDirectory, CreateDomainDirectory,
     CreateUserDirectory, DeleteUserDirectory, DeleteDomainDirectory
<1>6. \E m : Answers(r, m) /\ mbox' = [mbox EXCEPT ![r.agent] = Append(@, m)]
  <2>1. CASE Refuse(r)
    <3>1. Reply(r, FALSE, r.domainid, r.userid) /\ r.domainid \in Int /\ r.userid \in Int
      BY <2>1, <1>3 DEF Refuse, IsRequest
    <3> QED BY <3>1, <1>3, ReplyAnswers
  <2>2. CASE r.cmd \in {"login", "pglogin"} /\ ~Refuse(r)
    <3>1. UserKnown(r) /\ \E ok \in BOOLEAN : Reply(r, ok, DidOf(r), UidOf(r))
      <4>1. CASE login(r)
        <5>1. UserKnown(r) /\ Reply(r, pwdStruct' = r.args.password, DidOf(r), UidOf(r))
          BY <2>2, <4>1 DEF login
        <5> QED BY <5>1
      <4>2. CASE operationLogin(r)
        <5>1. UserKnown(r) /\ Reply(r, pwdStruct = r.args.password, DidOf(r), UidOf(r))
          BY <2>2, <4>2 DEF operationLogin
        <5> QED BY <5>1
      <4> QED BY <2>2, <1>4, <4>1, <4>2
    <3>2. /\ DidOf(r) \in Int /\ UidOf(r) \in Int
          /\ Meant(DidOf(r), UidOf(r), r.args.domain, r.args.user)
      BY <3>1, KnownUser
    <3> QED BY <3>1, <3>2, <1>3, ReplyAnswers
  <2>3. CASE r.cmd \notin {"login", "pglogin"} /\ ~Refuse(r)
    <3>1. \E did, uid \in Int : Reply(r, TRUE, did, uid)
      <4>1. r.domainid \in Int /\ r.userid \in Int
        BY <1>3 DEF IsRequest
      <4>2. CASE changepassword(r)
        BY <2>3, <4>1, <4>2 DEF changepassword
      <4>3. CASE createdomain(r)
        <5>1. nextdomainid' = nextdomainid + 1 /\ Reply(r, TRUE, nextdomainid', r.userid)
          BY <2>3, <4>3 DEF createdomain
        <5>2. nextdomainid' \in Int
          BY <5>1 DEF Directory
        <5> QED BY <4>1, <5>1, <5>2
      <4>4. CASE createuser(r)
        <5>1. DidOf(r) \in DOMAIN accounts /\ Reply(r, TRUE, DidOf(r), getnextuserid(DidOf(r)))
          BY <2>3, <4>4 DEF createuser, DomainKnown, DidOf
        <5>2. DidOf(r) \in Int /\ getnextuserid(DidOf(r)) \in Int
          BY <5>1 DEF getnextuserid, Directory, AccountOK, Range, IsMap
        <5> QED BY <5>1, <5>2
      <4>5. CASE deleteuser(r)
        <5>1. UserKnown(r) /\ Reply(r, TRUE, DidOf(r), UidOf(r))
          BY <2>3, <4>5 DEF deleteuser
        <5>2. DidOf(r) \in Int /\ UidOf(r) \in Int
          BY <5>1, KnownUser
        <5> QED BY <5>1, <5>2
      <4>6. CASE deletedomain(r)
        <5>1. r.args.domain \in DOMAIN domainNameToDomainId /\ Reply(r, TRUE, DidOf(r), r.userid)
          BY <2>3, <4>6 DEF deletedomain
        <5>2. DidOf(r) \in Int
          BY <5>1 DEF DidOf, Directory, IsMap
        <5> QED BY <4>1, <5>1, <5>2
      <4> QED BY <2>3, <1>4, <4>2, <4>3, <4>4, <4>5, <4>6
    <3> QED BY <3>1, <2>3, <1>3, ReplyAnswers
  <2> QED BY <2>1, <2>2, <2>3, <1>4
<1> QED BY <1>1, <1>2, <1>3, <1>5, <1>6

\* A new request.
LEMMA RequestSent ==
  ASSUME Messages, NEW a \in Agents, NEW s, NEW cmd \in Commands \cup {"pglogin"}, NEW who,
         who.domainid \in Int, who.userid \in Int, NEW args \in Arguments,
         Request(a, s, cmd, who, args)
  PROVE  /\ operationidcounter' = [operationidcounter EXCEPT ![a] = @ + 1]
         /\ operationidcounter' \in [Agents -> Nat]
         /\ pendingOperations' = [pendingOperations EXCEPT ![a] = With(@, operationidcounter[a] + 1, s)]
         /\ \E r \in Requests :
              /\ r.agent = a /\ r.cmd = cmd /\ r.operationid = operationidcounter[a] + 1 /\ r.args = args
              /\ usmMbox' = Append(usmMbox, r) /\ usmMbox' \in Seq(Requests)
<1> DEFINE id == operationidcounter[a] + 1
           r  == [agent |-> a, cmd |-> cmd, operationid |-> id, domainid |-> who.domainid,
                  userid |-> who.userid, args |-> args]
<1>1. operationidcounter \in [Agents -> Nat] /\ id \in Nat
  BY DEF Messages
<1>2. operationidcounter' = [operationidcounter EXCEPT ![a] = @ + 1] /\ operationidcounter'[a] = id
  BY <1>1 DEF Request
<1>3. operationidcounter' \in [Agents -> Nat]
  BY <1>1, <1>2
<1>4. pendingOperations' = [pendingOperations EXCEPT ![a] = With(@, id, s)]
  BY <1>2 DEF Request
<1>5. usmMbox' = Append(usmMbox, r)
  BY <1>2 DEF Request
<1>6. r \in Requests
  BY <1>1 DEF Requests
<1>7. usmMbox' \in Seq(Requests)
  <2> HIDE DEF r
  <2> QED BY <1>5, <1>6, AppendProperties DEF Messages
<1> QED BY <1>2, <1>3, <1>4, <1>5, <1>6, <1>7

\* The messages have their types after every step.
LEMMA MessagesStep ==
  ASSUME Directory, Messages, [Next]_vars
  PROVE  Messages'
<1>1. CASE UNCHANGED vars
  BY <1>1 DEF vars, agentVars, Messages
<1>2. CASE UserSchemaMgr
  <2>1. PICK r, m : /\ r = Head(usmMbox) /\ IsRequest(r) /\ Answers(r, m) /\ usmMbox # <<>>
                    /\ usmMbox' = Tail(usmMbox)
                    /\ mbox' = [mbox EXCEPT ![r.agent] = Append(@, m)]
    BY <1>2, ManagerStep
  <2>2. usmMbox' \in Seq(Requests)
    BY <2>1, HeadTailProperties DEF Messages
  <2>3. r.agent \in Agents /\ m \in Replies
    BY <2>1 DEF IsRequest, Answers
  <2>4. mbox' \in [Agents -> Seq(Replies)]
    BY <2>1, <2>3 DEF Messages
  <2>5. UNCHANGED <<operationidcounter, loggedInUsers, conns>>
    BY <1>2 DEF UserSchemaMgr, agentVars
  <2> QED BY <2>2, <2>4, <2>5 DEF Messages
<1>3. ASSUME NEW a \in Agents, AgentReply(a) PROVE Messages'
  <2> DEFINE m == Head(mbox[a])
             s == pendingOperations[a][m.operationid]
  <2>1. /\ mbox[a] # <<>> /\ mbox' = [mbox EXCEPT ![a] = Tail(@)]
        /\ UNCHANGED <<usmMbox, operationidcounter>>
    BY <1>3 DEF AgentReply
  <2>2. mbox[a] \in Seq(Replies) /\ mbox[a] # <<>>
    BY <2>1 DEF Messages
  <2>3. m \in Replies /\ Tail(mbox[a]) \in Seq(Replies)
    BY <2>2, HeadTailProperties
  <2>4. mbox' \in [Agents -> Seq(Replies)]
    BY <2>1, <2>3 DEF Messages
  <2> HIDE DEF m, s
  <2>5. \/ LoginOk(a, s, m) \/ LoginNotOk(a, s, m.operationid)
        \/ UNCHANGED <<loggedInUsers, conns>>
    BY <1>3 DEF AgentReply, handleOperation, m, s
  <2>6. CASE LoginOk(a, s, m)
    <3>1. /\ loggedInUsers' = [loggedInUsers EXCEPT ![a] =
                                 With(@, s, [domainid |-> m.domainid, userid |-> m.userid])]
          /\ conns' = conns
      BY <2>6 DEF LoginOk
    <3>2. [domainid |-> m.domainid, userid |-> m.userid] \in Identities
      BY <2>3 DEF Replies, Identities
    <3>3. /\ DOMAIN loggedInUsers' = Agents
          /\ \A b \in Agents : \A x \in DOMAIN loggedInUsers'[b] : loggedInUsers'[b][x] \in Identities
      BY <3>1, <3>2 DEF Messages, With
    <3> QED BY <3>1, <3>3, <2>1, <2>4 DEF Messages
  <2>7. CASE LoginNotOk(a, s, m.operationid)
    <3>1. /\ loggedInUsers' = [loggedInUsers EXCEPT ![a] = Without(@, s)]
          /\ conns' = Without(conns, s)
      BY <2>7 DEF LoginNotOk, endConnection
    <3>2. /\ DOMAIN loggedInUsers' = Agents
          /\ \A b \in Agents : \A x \in DOMAIN loggedInUsers'[b] : loggedInUsers'[b][x] \in Identities
      BY <3>1 DEF Messages, Without, Restrict
    <3>3. \A x \in DOMAIN conns' : conns'[x].agent \in Agents
      BY <3>1 DEF Messages, Without, Restrict
    <3> QED BY <3>2, <3>3, <2>1, <2>4 DEF Messages
  <2>8. CASE UNCHANGED <<loggedInUsers, conns>>
    BY <2>1, <2>4, <2>8 DEF Messages
  <2> QED BY <2>5, <2>6, <2>7, <2>8
<1>4. ASSUME NEW s, NEW a \in Agents, NEW l, Connect(s, a, l) PROVE Messages'
  <2>1. /\ conns' = With(conns, s, [agent |-> a, listener |-> l, asked |-> {}])
        /\ UNCHANGED <<usmMbox, mbox, operationidcounter, loggedInUsers>>
    BY <1>4 DEF Connect
  <2>2. \A x \in DOMAIN conns' : conns'[x].agent \in Agents
    BY <2>1 DEF Messages, With
  <2> QED BY <2>1, <2>2 DEF Messages
<1>5. ASSUME NEW s, HangUp(s) \/ logout(s) PROVE Messages'
  <2>1. /\ conns' = Without(conns, s)
        /\ UNCHANGED <<usmMbox, mbox, operationidcounter>>
    BY <1>5 DEF HangUp, logout, endConnection, closesocket
  <2>2. \/ loggedInUsers' = loggedInUsers
        \/ loggedInUsers' = [loggedInUsers EXCEPT ![conns[s].agent] = Without(@, s)]
    BY <1>5 DEF HangUp, logout, endConnection
  <2>3. \A x \in DOMAIN conns' : conns'[x].agent \in Agents
    BY <2>1 DEF Messages, Without, Restrict
  <2>4. /\ DOMAIN loggedInUsers' = Agents
        /\ \A b \in Agents : \A x \in DOMAIN loggedInUsers'[b] : loggedInUsers'[b][x] \in Identities
    <3>1. CASE loggedInUsers' = loggedInUsers
      BY <3>1 DEF Messages
    <3>2. CASE loggedInUsers' = [loggedInUsers EXCEPT ![conns[s].agent] = Without(@, s)]
      <4>1. PICK a : a = conns[s].agent
        OBVIOUS
      <4>2. DOMAIN loggedInUsers' = Agents
        BY <3>2 DEF Messages
      <4>3. ASSUME NEW b \in Agents, NEW x \in DOMAIN loggedInUsers'[b]
            PROVE  x \in DOMAIN loggedInUsers[b] /\ loggedInUsers'[b][x] = loggedInUsers[b][x]
        BY <3>2, <4>1, <4>3 DEF Messages, Without, Restrict
      <4> QED BY <4>2, <4>3 DEF Messages
    <3> QED BY <2>2, <3>1, <3>2
  <2> QED BY <2>1, <2>3, <2>4 DEF Messages
<1>6. ASSUME NEW s, NEW args \in Arguments, LoginCommand(s, args) \/ PgAuth(s, args) PROVE Messages'
  <2>1. conns[s].agent \in Agents /\ s \in DOMAIN conns
    BY <1>6 DEF LoginCommand, PgAuth, Messages
  <2>2. /\ \E cmd \in Commands \cup {"pglogin"} : Request(conns[s].agent, s, cmd, Nobody, args)
        /\ Asks(s, args) /\ UNCHANGED <<mbox, loggedInUsers>>
    BY <1>6 DEF LoginCommand, PgAuth
  <2>3. Nobody.domainid \in Int /\ Nobody.userid \in Int
    BY DEF Nobody
  <2>4. usmMbox' \in Seq(Requests) /\ operationidcounter' \in [Agents -> Nat]
    BY <2>1, <2>2, <2>3, RequestSent
  <2>5. \A x \in DOMAIN conns' : conns'[x].agent \in Agents
    <3>1. DOMAIN conns' = DOMAIN conns /\ \A x \in DOMAIN conns : conns'[x].agent = conns[x].agent
      BY <2>2 DEF Asks
    <3> QED BY <3>1 DEF Messages
  <2> QED BY <2>2, <2>4, <2>5 DEF Messages
<1>7. ASSUME NEW s, NEW cmd, NEW args \in Arguments, Builtin(s, cmd, args) PROVE Messages'
  <2> DEFINE a == conns[s].agent
  <2>1. /\ a \in Agents /\ s \in DOMAIN loggedInUsers[a] /\ cmd \in Commands
        /\ Request(a, s, cmd, loggedInUsers[a][s], args)
        /\ UNCHANGED <<mbox, loggedInUsers, conns>>
    BY <1>7 DEF Builtin, Messages
  <2>2. loggedInUsers[a][s].domainid \in Int /\ loggedInUsers[a][s].userid \in Int
    BY <2>1 DEF Messages, Identities
  <2>3. usmMbox' \in Seq(Requests) /\ operationidcounter' \in [Agents -> Nat]
    BY <2>1, <2>2, RequestSent
  <2> QED BY <2>1, <2>3 DEF Messages
<1> QED BY <1>1, <1>2, <1>3, <1>4, <1>5, <1>6, <1>7
        DEF Next, Client, ChangePassword, CreateDomain, CreateUser, DeleteUser, DeleteDomain

\* The first state.
LEMMA InitDirectory ==
  ASSUME Init PROVE Directory /\ Messages
<1> DEFINE first == [names |-> Only(Admin, 1), passwords |-> Only(1, AdminPassword), next |-> 1]
<1>1. /\ DOMAIN first = {"names", "passwords", "next"} /\ first.next = 1
      /\ first.names = Only(Admin, 1) /\ first.passwords = Only(1, AdminPassword)
  OBVIOUS
<1>2. /\ domainNameToDomainId = Only(Global, 1) /\ nextdomainid = 1 /\ accounts = Only(1, first)
      /\ userIdToPassword = 0 /\ pwdStruct = AdminPassword
  BY DEF Init
<1> HIDE DEF first
<1>3. /\ DOMAIN domainNameToDomainId = {Global} /\ domainNameToDomainId[Global] = 1
      /\ DOMAIN accounts = {1} /\ accounts[1] = first
      /\ DOMAIN first.names = {Admin} /\ first.names[Admin] = 1
      /\ DOMAIN first.passwords = {1} /\ first.passwords[1] = AdminPassword
  BY <1>1, <1>2 DEF Only, With, Nothing
<1>4. AccountOK(first)
  BY <1>1, <1>3, UsersAssumption DEF AccountOK, IsMap, IsInjective, Range
<1>5. Directory
  BY <1>2, <1>3, <1>4, UsersAssumption DEF Directory, IsMap, IsInjective, Range
<1>6. Messages
  BY DEF Init, Messages, Nothing
<1> QED BY <1>5, <1>6

\* Every step keeps the directory sound, and the ids in it to their meaning.
LEMMA DirectoryStep ==
  ASSUME Directory, Messages, [Next]_vars
  PROVE  Directory' /\ Stays
<1>1. CASE UserSchemaMgr
  BY <1>1, ManagerStep
<1>2. CASE UNCHANGED usmVars
  <2>1. /\ accounts' = accounts /\ domainNameToDomainId' = domainNameToDomainId
        /\ nextdomainid' = nextdomainid /\ userIdToPassword' \in Nat /\ pwdStruct' \in Passwords
    BY <1>2 DEF usmVars, Directory
  <2> QED BY <2>1, SameDirectory
<1>3. UserSchemaMgr \/ UNCHANGED usmVars
  <2>1. CASE UNCHANGED vars
    BY <2>1 DEF vars
  <2>2. ASSUME Client PROVE UNCHANGED usmVars
    <3>1. ASSUME NEW x, NEW a, NEW l, Connect(x, a, l) PROVE UNCHANGED usmVars
      BY <3>1 DEF Connect
    <3>2. ASSUME NEW x, HangUp(x) \/ logout(x) PROVE UNCHANGED usmVars
      BY <3>2 DEF HangUp, logout
    <3>3. ASSUME NEW x, NEW args, LoginCommand(x, args) \/ PgAuth(x, args) PROVE UNCHANGED usmVars
      BY <3>3 DEF LoginCommand, PgAuth
    <3>4. ASSUME NEW x, NEW cmd, NEW args, Builtin(x, cmd, args) PROVE UNCHANGED usmVars
      BY <3>4 DEF Builtin
    <3> QED BY <2>2, <3>1, <3>2, <3>3, <3>4
            DEF Client, ChangePassword, CreateDomain, CreateUser, DeleteUser, DeleteDomain
  <2>3. ASSUME NEW a, AgentReply(a) PROVE UNCHANGED usmVars
    BY <2>3 DEF AgentReply
  <2> QED BY <2>1, <2>2, <2>3 DEF Next
<1> QED BY <1>1, <1>2, <1>3

\* The maps of the User and schema manager agree, whatever domains and users were made and
\* deleted and in whatever order: UserSchemaMgr::createdomain, createuser, deleteuser and
\* deletedomain keep names, ids and digests together and never give an id twice.
THEOREM DirectoryStaysSound == Spec => []DirectoryAgrees
<1>1. Init => Directory /\ Messages
  BY InitDirectory
<1>2. Directory /\ Messages /\ [Next]_vars => (Directory /\ Messages)'
  BY DirectoryStep, MessagesStep
<1>3. Directory => DirectoryAgrees
  BY DEF Directory, DirectoryAgrees, AccountOK
<1> QED BY <1>1, <1>2, <1>3, PTL DEF Spec

-----------------------------------------------------------------------------
(* Operations and sessions, when clients wait for their answers.           *)

\* A socket that is open at agent a, and how it was opened.
OpenAt(a, s, l) == s \in DOMAIN conns /\ conns[s].agent = a /\ conns[s].listener = l

\* The pending Operations of an agent: one for each socket at most, the socket is open,
\* and a Pg object has sent its login.
PendingOK ==
  /\ DOMAIN pendingOperations = Agents
  /\ \A a \in Agents :
       /\ IsInjective(pendingOperations[a])
       /\ \A id \in DOMAIN pendingOperations[a] :
            LET s == pendingOperations[a][id] IN
              /\ id \in Nat /\ id <= operationidcounter[a]
              /\ \/ OpenAt(a, s, "raw")
                 \/ OpenAt(a, s, "pg") /\ s \in DOMAIN Pgs[a] /\ Pgs[a][s].state = "SENT"

\* A message about a login is about a pending Operation whose connection has asked for it.
AskedBy(a, m, asked) ==
  /\ m.operationid \in DOMAIN pendingOperations[a]
  /\ m.cmd = "login" => OpenAt(a, pendingOperations[a][m.operationid], "raw")
  /\ m.cmd = "pglogin" => OpenAt(a, pendingOperations[a][m.operationid], "pg")
  /\ m.cmd \in {"login", "pglogin"} => asked \in conns[pendingOperations[a][m.operationid]].asked

RequestOK(r) == AskedBy(r.agent, r, <<r.args.domain, r.args.user>>)

ReplyOK(a, m) == \E d, u : /\ AskedBy(a, m, <<d, u>>)
                           /\ m.cmd \in {"login", "pglogin"} /\ m.ok => Meant(m.domainid, m.userid, d, u)

MessagesOK ==
  /\ \A i \in DOMAIN usmMbox : RequestOK(usmMbox[i])
  /\ \A a \in Agents : \A i \in DOMAIN mbox[a] : ReplyOK(a, mbox[a][i])

\* Every Operation has one message at most.
OneMessageEach ==
  /\ \A i, j \in DOMAIN usmMbox :
       usmMbox[i].agent = usmMbox[j].agent /\ usmMbox[i].operationid = usmMbox[j].operationid => i = j
  /\ \A a \in Agents : \A i, j \in DOMAIN mbox[a] :
       mbox[a][i].operationid = mbox[a][j].operationid => i = j
  /\ \A i \in DOMAIN usmMbox : \A a \in Agents : \A j \in DOMAIN mbox[a] :
       usmMbox[i].agent = a => usmMbox[i].operationid # mbox[a][j].operationid

\* The session of a raw socket, and the Pg object of another.
SessionOK(a, s) ==
  /\ OpenAt(a, s, "raw")
  /\ \E asked \in conns[s].asked :
       Meant(loggedInUsers[a][s].domainid, loggedInUsers[a][s].userid, asked[1], asked[2])

PgOK(a, s) ==
  /\ OpenAt(a, s, "pg")
  /\ DOMAIN Pgs[a][s] = {"state", "domainid", "userid"}
  /\ Pgs[a][s].state = "ESTABLISHED" => conns[s].asked # {}

SessionsOK ==
  /\ DOMAIN Pgs = Agents
  /\ \A s \in DOMAIN conns : /\ DOMAIN conns[s] = {"agent", "listener", "asked"}
                             /\ conns[s].listener \in {"raw", "pg"}
  /\ \A a \in Agents : /\ \A s \in DOMAIN loggedInUsers[a] : SessionOK(a, s)
                       /\ \A s \in DOMAIN Pgs[a] : PgOK(a, s)

Flow == PendingOK /\ MessagesOK /\ OneMessageEach /\ SessionsOK

\* The elements of a queue without its first.
LEMMA TailAt ==
  ASSUME NEW S, NEW q \in Seq(S), q # <<>>
  PROVE  /\ 1 \in DOMAIN q /\ Head(q) = q[1]
         /\ \A i \in DOMAIN Tail(q) : i + 1 \in DOMAIN q /\ i + 1 # 1 /\ i \in Int /\ Tail(q)[i] = q[i + 1]
  BY HeadTailProperties

\* The elements of a queue with one more.
LEMMA AppendAt ==
  ASSUME NEW S, NEW q \in Seq(S), NEW e \in S
  PROVE  /\ Len(q) + 1 \notin DOMAIN q
         /\ \A i \in DOMAIN Append(q, e) :
              \/ i \in DOMAIN q /\ Append(q, e)[i] = q[i]
              \/ i = Len(q) + 1 /\ Append(q, e)[i] = e
  BY AppendProperties

\* A message stays about its Operation when that and its connection stay.
LEMMA AskedByStays ==
  ASSUME NEW a, NEW m, NEW asked, AskedBy(a, m, asked), NEW s,
         s = pendingOperations[a][m.operationid],
         m.operationid \in DOMAIN pendingOperations'[a],
         pendingOperations'[a][m.operationid] = s,
         s \in DOMAIN conns', conns'[s].agent = conns[s].agent,
         conns'[s].listener = conns[s].listener, conns[s].asked \subseteq conns'[s].asked
  PROVE  AskedBy(a, m, asked)'
  BY DEF AskedBy, OpenAt

\* A step of the manager.
LEMMA ManagerFlow ==
  ASSUME Directory, Messages, Flow, UserSchemaMgr
  PROVE  Flow'
<1>1. PICK r, m : /\ r = Head(usmMbox) /\ IsRequest(r) /\ Answers(r, m) /\ usmMbox # <<>>
                  /\ usmMbox' = Tail(usmMbox)
                  /\ mbox' = [mbox EXCEPT ![r.agent] = Append(@, m)]
  BY ManagerStep
<1>2. Stays
  BY ManagerStep
<1>3. /\ pendingOperations' = pendingOperations /\ operationidcounter' = operationidcounter
      /\ loggedInUsers' = loggedInUsers /\ Pgs' = Pgs /\ conns' = conns
  BY DEF UserSchemaMgr, agentVars
<1>4. r.agent \in Agents /\ m \in Replies
  BY <1>1 DEF IsRequest, Answers
<1>5. /\ 1 \in DOMAIN usmMbox /\ r = usmMbox[1]
      /\ \A i \in DOMAIN usmMbox' : i + 1 \in DOMAIN usmMbox /\ i + 1 # 1 /\ i \in Int
                                    /\ usmMbox'[i] = usmMbox[i + 1]
  BY <1>1, TailAt DEF Messages
<1>6. \A a \in Agents : \A i \in DOMAIN mbox'[a] :
        \/ i \in DOMAIN mbox[a] /\ mbox'[a][i] = mbox[a][i]
        \/ a = r.agent /\ i = Len(mbox[a]) + 1 /\ mbox'[a][i] = m
  <2> SUFFICES ASSUME NEW a \in Agents, NEW i \in DOMAIN mbox'[a]
               PROVE  \/ i \in DOMAIN mbox[a] /\ mbox'[a][i] = mbox[a][i]
                      \/ a = r.agent /\ i = Len(mbox[a]) + 1 /\ mbox'[a][i] = m
    OBVIOUS
  <2>1. mbox[a] \in Seq(Replies) /\ mbox'[a] = IF a = r.agent THEN Append(mbox[a], m) ELSE mbox[a]
    BY <1>1, <1>4 DEF Messages
  <2> QED BY <2>1, <1>4, AppendAt
<1>7. PendingOK'
  BY <1>3 DEF Flow, PendingOK, OpenAt
<1>8. SessionsOK'
  <2>1. ASSUME NEW a \in Agents, NEW s \in DOMAIN loggedInUsers[a] PROVE SessionOK(a, s)'
    <3>1. PICK asked : /\ asked \in conns[s].asked /\ OpenAt(a, s, "raw")
                       /\ Meant(loggedInUsers[a][s].domainid, loggedInUsers[a][s].userid, asked[1], asked[2])
      BY DEF Flow, SessionsOK, SessionOK
    <3>2. PICK did, uid : did = loggedInUsers[a][s].domainid /\ uid = loggedInUsers[a][s].userid
      OBVIOUS
    <3>3. Meant(did, uid, asked[1], asked[2])'
      BY <3>1, <3>2, <1>2 DEF Stays
    <3>4. Meant(loggedInUsers[a][s].domainid, loggedInUsers[a][s].userid, asked[1], asked[2])'
      BY <3>2, <3>3, <1>3 DEF Meant
    <3> QED BY <3>1, <3>4, <1>3 DEF SessionOK, OpenAt
  <2>2. ASSUME NEW a \in Agents, NEW s \in DOMAIN Pgs[a] PROVE PgOK(a, s)'
    BY <1>3, <2>2 DEF Flow, SessionsOK, PgOK, OpenAt
  <2> QED BY <2>1, <2>2, <1>3 DEF Flow, SessionsOK
<1>9. OneMessageEach'
  <2>1. \A i, j \in DOMAIN usmMbox' :
          usmMbox'[i].agent = usmMbox'[j].agent /\ usmMbox'[i].operationid = usmMbox'[j].operationid => i = j
    BY <1>5 DEF Flow, OneMessageEach
  <2>2. m.operationid = r.operationid
    BY <1>1 DEF Answers
  <2>3. \A a \in Agents : \A i, j \in DOMAIN mbox'[a] :
          mbox'[a][i].operationid = mbox'[a][j].operationid => i = j
    <3>1. \A j \in DOMAIN mbox[r.agent] : mbox[r.agent][j].operationid # m.operationid
      BY <1>4, <1>5, <2>2 DEF Flow, OneMessageEach
    <3> QED BY <3>1, <1>6 DEF Flow, OneMessageEach
  <2>4. \A i \in DOMAIN usmMbox' : \A a \in Agents : \A j \in DOMAIN mbox'[a] :
          usmMbox'[i].agent = a => usmMbox'[i].operationid # mbox'[a][j].operationid
    <3>1. \A i \in DOMAIN usmMbox' : usmMbox'[i].agent = r.agent => usmMbox'[i].operationid # m.operationid
      BY <1>5, <2>2 DEF Flow, OneMessageEach
    <3> QED BY <3>1, <1>5, <1>6 DEF Flow, OneMessageEach
  <2> QED BY <2>1, <2>3, <2>4 DEF OneMessageEach
<1>10. ASSUME NEW a, NEW e, NEW asked, AskedBy(a, e, asked) PROVE AskedBy(a, e, asked)'
  BY <1>3, <1>10 DEF AskedBy, OpenAt
<1>11. ASSUME NEW i \in DOMAIN usmMbox' PROVE RequestOK(usmMbox[i])'
  <2>1. PICK e : e = usmMbox'[i] /\ RequestOK(e)
    BY <1>5 DEF Flow, MessagesOK
  <2>2. AskedBy(e.agent, e, <<e.args.domain, e.args.user>>)'
    BY <2>1, <1>10 DEF RequestOK
  <2> QED BY <2>1, <2>2 DEF RequestOK
<1>12. ASSUME NEW a \in Agents, NEW i \in DOMAIN mbox'[a] PROVE ReplyOK(a, mbox[a][i])'
  <2>1. PICK e : e = mbox'[a][i]
    OBVIOUS
  <2>2. ReplyOK(a, e)
    <3>1. CASE i \in DOMAIN mbox[a] /\ e = mbox[a][i]
      BY <3>1 DEF Flow, MessagesOK
    <3>2. CASE a = r.agent /\ e = m
      <4>1. RequestOK(r)
        BY <1>5 DEF Flow, MessagesOK
      <4>2. AskedBy(a, m, <<r.args.domain, r.args.user>>)
        BY <3>2, <4>1, <1>1 DEF RequestOK, AskedBy, Answers
      <4> QED BY <3>2, <4>2, <1>1 DEF ReplyOK, Answers
    <3> QED BY <2>1, <3>1, <3>2, <1>6
  <2>3. PICK d, u : /\ AskedBy(a, e, <<d, u>>)
                    /\ e.cmd \in {"login", "pglogin"} /\ e.ok => Meant(e.domainid, e.userid, d, u)
    BY <2>2 DEF ReplyOK
  <2>4. AskedBy(a, e, <<d, u>>)'
    BY <2>3, <1>10
  <2>5. e.cmd \in {"login", "pglogin"} /\ e.ok => Meant(e.domainid, e.userid, d, u)'
    BY <2>3, <1>2 DEF Stays
  <2>6. ReplyOK(a, e)'
    BY <2>4, <2>5 DEF ReplyOK
  <2> QED BY <2>1, <2>6 DEF ReplyOK
<1>13. MessagesOK'
  BY <1>11, <1>12 DEF MessagesOK
<1> QED BY <1>7, <1>8, <1>9, <1>13 DEF Flow

\* A step that leaves the directory alone leaves alone what ids mean.
LEMMA SameMeaning ==
  ASSUME UNCHANGED usmVars, NEW did, NEW uid, NEW d, NEW u, Meant(did, uid, d, u)
  PROVE  Meant(did, uid, d, u)'
  BY DEF Meant, usmVars

\* A session whose connection stays.
LEMMA SessionStays ==
  ASSUME UNCHANGED usmVars, NEW a, NEW s, SessionOK(a, s),
         loggedInUsers'[a][s] = loggedInUsers[a][s],
         s \in DOMAIN conns', conns'[s].agent = conns[s].agent,
         conns'[s].listener = conns[s].listener, conns[s].asked \subseteq conns'[s].asked
  PROVE  SessionOK(a, s)'
<1>1. PICK asked : /\ asked \in conns[s].asked
                   /\ Meant(loggedInUsers[a][s].domainid, loggedInUsers[a][s].userid, asked[1], asked[2])
  BY DEF SessionOK
<1>2. PICK did, uid : did = loggedInUsers[a][s].domainid /\ uid = loggedInUsers[a][s].userid
  OBVIOUS
<1>3. Meant(did, uid, asked[1], asked[2])'
  BY <1>1, <1>2, SameMeaning
<1>4. Meant(loggedInUsers[a][s].domainid, loggedInUsers[a][s].userid, asked[1], asked[2])'
  BY <1>2, <1>3 DEF Meant
<1> QED BY <1>1, <1>4 DEF SessionOK, OpenAt

\* A reply whose Operation and connection stay.
LEMMA ReplyStays ==
  ASSUME UNCHANGED usmVars, NEW a, NEW m, ReplyOK(a, m), NEW s,
         s = pendingOperations[a][m.operationid],
         m.operationid \in DOMAIN pendingOperations'[a],
         pendingOperations'[a][m.operationid] = s,
         s \in DOMAIN conns', conns'[s].agent = conns[s].agent,
         conns'[s].listener = conns[s].listener, conns[s].asked \subseteq conns'[s].asked
  PROVE  ReplyOK(a, m)'
<1>1. PICK d, u : /\ AskedBy(a, m, <<d, u>>)
                  /\ m.cmd \in {"login", "pglogin"} /\ m.ok => Meant(m.domainid, m.userid, d, u)
  BY DEF ReplyOK
<1>2. AskedBy(a, m, <<d, u>>)'
  BY <1>1, AskedByStays
<1>3. m.cmd \in {"login", "pglogin"} /\ m.ok => Meant(m.domainid, m.userid, d, u)'
  BY <1>1, SameMeaning
<1> QED BY <1>2, <1>3 DEF ReplyOK

\* A pending Operation's socket is open at its agent.
LEMMA PendingIsOpen ==
  ASSUME Flow, NEW a \in Agents, NEW id \in DOMAIN pendingOperations[a]
  PROVE  /\ pendingOperations[a][id] \in DOMAIN conns /\ conns[pendingOperations[a][id]].agent = a
         /\ id \in Nat /\ id <= operationidcounter[a]
  BY DEF Flow, PendingOK, OpenAt

\* The replies in the mailboxes stay sound when no Operation of theirs ends and no
\* connection does.
LEMMA MessagesStay ==
  ASSUME Messages, Flow, UNCHANGED <<usmVars, mbox>>,
         \A a \in Agents : \A id \in DOMAIN pendingOperations[a] :
           id \in DOMAIN pendingOperations'[a] /\ pendingOperations'[a][id] = pendingOperations[a][id],
         \A s \in DOMAIN conns :
           /\ s \in DOMAIN conns' /\ conns'[s].agent = conns[s].agent
           /\ conns'[s].listener = conns[s].listener /\ conns[s].asked \subseteq conns'[s].asked
  PROVE  /\ \A r \in Requests : RequestOK(r) => RequestOK(r)'
         /\ (\A a \in Agents : \A i \in DOMAIN mbox[a] : ReplyOK(a, mbox[a][i]))'
<1>1. ASSUME NEW r \in Requests, RequestOK(r) PROVE RequestOK(r)'
  <2>1. PICK a, id, s, asked : /\ a = r.agent /\ id = r.operationid /\ s = pendingOperations[a][id]
                               /\ asked = <<r.args.domain, r.args.user>>
    OBVIOUS
  <2>2. a \in Agents /\ AskedBy(a, r, asked)
    BY <1>1, <2>1 DEF Requests, RequestOK
  <2>3. id \in DOMAIN pendingOperations[a]
    BY <2>1, <2>2 DEF AskedBy
  <2>4. s \in DOMAIN conns
    BY <2>1, <2>2, <2>3, PendingIsOpen
  <2>5. AskedBy(a, r, asked)'
    BY <2>1, <2>2, <2>3, <2>4, AskedByStays
  <2> QED BY <2>1, <2>5 DEF RequestOK
<1>2. ASSUME NEW a \in Agents, NEW i \in DOMAIN mbox'[a] PROVE ReplyOK(a, mbox[a][i])'
  <2>1. PICK m, id, s : m = mbox[a][i] /\ id = m.operationid /\ s = pendingOperations[a][id]
    OBVIOUS
  <2>2. ReplyOK(a, m)
    BY <1>2, <2>1 DEF Flow, MessagesOK
  <2>3. id \in DOMAIN pendingOperations[a]
    BY <2>1, <2>2 DEF ReplyOK, AskedBy
  <2>4. s \in DOMAIN conns
    BY <2>1, <2>3, PendingIsOpen
  <2>5. ReplyOK(a, m)'
    BY <2>1, <2>2, <2>3, <2>4, ReplyStays
  <2> QED BY <2>1, <2>5 DEF ReplyOK
<1> QED BY <1>1, <1>2

\* A new request, of a connection that has none pending.
LEMMA RequestFlow ==
  ASSUME Directory, Messages, Flow, NEW a \in Agents, NEW s, NEW l, OpenAt(a, s, l),
         NEW cmd \in Commands \cup {"pglogin"}, NEW who, who.domainid \in Int, who.userid \in Int,
         NEW args \in Arguments, Request(a, s, cmd, who, args),
         s \notin Range(pendingOperations[a]),
         UNCHANGED <<usmVars, mbox, loggedInUsers>>,
         cmd = "login" => l = "raw", cmd = "pglogin" => l = "pg",
         \/ conns' = conns /\ cmd \notin {"login", "pglogin"}
         \/ Asks(s, args),
         \/ l = "raw" /\ Pgs' = Pgs
         \/ l = "pg" /\ s \in DOMAIN Pgs[a] /\ Pgs' = [Pgs EXCEPT ![a][s].state = "SENT"]
  PROVE  Flow'
<1> DEFINE id == operationidcounter[a] + 1
           asked == <<args.domain, args.user>>
<1>1. /\ operationidcounter' = [operationidcounter EXCEPT ![a] = @ + 1]
      /\ pendingOperations' = [pendingOperations EXCEPT ![a] = With(@, id, s)]
      /\ operationidcounter \in [Agents -> Nat] /\ usmMbox \in Seq(Requests)
  BY RequestSent DEF Messages
<1>2. PICK r \in Requests : /\ r.agent = a /\ r.cmd = cmd /\ r.operationid = id /\ r.args = args
                            /\ usmMbox' = Append(usmMbox, r)
  <2> DEFINE e == [agent |-> a, cmd |-> cmd, operationid |-> id, domainid |-> who.domainid,
                   userid |-> who.userid, args |-> args]
  <2>1. usmMbox' = Append(usmMbox, e)
    BY <1>1 DEF Request
  <2>2. e \in Requests
    BY <1>1 DEF Requests
  <2> QED BY <2>1, <2>2
<1>3. id \in Nat /\ operationidcounter'[a] = id
  BY <1>1
<1> HIDE DEF id, asked
<1>4. /\ DOMAIN conns' = DOMAIN conns
      /\ \A x \in DOMAIN conns :
           /\ DOMAIN conns'[x] = DOMAIN conns[x] /\ conns'[x].agent = conns[x].agent
           /\ conns'[x].listener = conns[x].listener /\ conns[x].asked \subseteq conns'[x].asked
      /\ cmd \in {"login", "pglogin"} => asked \in conns'[s].asked
  <2>1. CASE conns' = conns /\ cmd \notin {"login", "pglogin"}
    BY <2>1
  <2>2. CASE Asks(s, args)
    <3>1. s \in DOMAIN conns /\ \A x \in DOMAIN conns : DOMAIN conns[x] = {"agent", "listener", "asked"}
      BY DEF OpenAt, Flow, SessionsOK
    <3>2. conns' = [conns EXCEPT ![s].asked = @ \cup {asked}]
      BY <2>2 DEF Asks, asked
    <3> QED BY <3>1, <3>2
  <2> QED BY <2>1, <2>2
<1>5. /\ DOMAIN pendingOperations' = Agents
      /\ DOMAIN pendingOperations'[a] = DOMAIN pendingOperations[a] \cup {id}
      /\ pendingOperations'[a][id] = s
      /\ \A x \in DOMAIN pendingOperations[a] : x # id =>
           pendingOperations'[a][x] = pendingOperations[a][x]
      /\ \A b \in Agents : b # a => pendingOperations'[b] = pendingOperations[b]
  BY <1>1 DEF Flow, PendingOK, With
<1>6. id \notin DOMAIN pendingOperations[a]
  BY <1>1, <1>3, PendingIsOpen DEF id
<1>7. \A b \in Agents : \A x \in DOMAIN pendingOperations[b] :
        x \in DOMAIN pendingOperations'[b] /\ pendingOperations'[b][x] = pendingOperations[b][x]
  BY <1>5, <1>6
<1>8. /\ DOMAIN Pgs' = Agents
      /\ \A b \in Agents : DOMAIN Pgs'[b] = DOMAIN Pgs[b]
      /\ \A b \in Agents : \A x \in DOMAIN Pgs[b] :
           /\ DOMAIN Pgs'[b][x] = DOMAIN Pgs[b][x]
           /\ Pgs'[b][x].state = IF l = "pg" /\ b = a /\ x = s THEN "SENT" ELSE Pgs[b][x].state
      /\ l = "pg" => s \in DOMAIN Pgs[a]
  <2>1. DOMAIN Pgs = Agents
    BY DEF Flow, SessionsOK
  <2>2. CASE l = "raw" /\ Pgs' = Pgs
    BY <2>1, <2>2
  <2>3. CASE l = "pg" /\ s \in DOMAIN Pgs[a] /\ Pgs' = [Pgs EXCEPT ![a][s].state = "SENT"]
    <3>1. DOMAIN Pgs[a][s] = {"state", "domainid", "userid"}
      BY <2>3 DEF Flow, SessionsOK, PgOK
    <3> QED BY <2>1, <2>3, <3>1
  <2> QED BY <2>2, <2>3
<1>9. s \in DOMAIN conns /\ conns[s].agent = a /\ conns[s].listener = l /\ l \in {"raw", "pg"}
  BY DEF OpenAt, Flow, SessionsOK
<1>10. PendingOK'
  <2>1. ASSUME NEW b \in Agents PROVE IsInjective(pendingOperations'[b])
    <3>1. CASE b = a
      <4>1. \A x \in DOMAIN pendingOperations[a] : pendingOperations[a][x] # s
        BY DEF Range
      <4> QED BY <3>1, <4>1, <1>5, <1>6 DEF Flow, PendingOK, IsInjective
    <3>2. CASE b # a
      BY <3>2, <1>5 DEF Flow, PendingOK, IsInjective
    <3> QED BY <3>1, <3>2
  <2>2. ASSUME NEW b \in Agents, NEW x \in DOMAIN pendingOperations'[b]
        PROVE  /\ x \in Nat /\ x <= operationidcounter'[b]
               /\ LET t == pendingOperations'[b][x] IN
                    \/ t \in DOMAIN conns' /\ conns'[t].agent = b /\ conns'[t].listener = "raw"
                    \/ /\ t \in DOMAIN conns' /\ conns'[t].agent = b /\ conns'[t].listener = "pg"
                       /\ t \in DOMAIN Pgs'[b] /\ Pgs'[b][t].state = "SENT"
    <3>1. CASE b = a /\ x = id
      BY <3>1, <1>3, <1>4, <1>5, <1>8, <1>9
    <3>2. CASE ~(b = a /\ x = id)
      <4>1. PICK t : t = pendingOperations[b][x]
        OBVIOUS
      <4>2. x \in DOMAIN pendingOperations[b] /\ pendingOperations'[b][x] = t
        BY <3>2, <4>1, <1>5, <2>2
      <4>3. /\ x \in Nat /\ x <= operationidcounter[b]
            /\ \/ OpenAt(b, t, "raw")
               \/ OpenAt(b, t, "pg") /\ t \in DOMAIN Pgs[b] /\ Pgs[b][t].state = "SENT"
        BY <4>1, <4>2 DEF Flow, PendingOK
      <4>4. x <= operationidcounter'[b]
        BY <4>3, <1>1
      <4> QED BY <4>2, <4>3, <4>4, <1>4, <1>8 DEF OpenAt
    <3> QED BY <3>1, <3>2
  <2> QED BY <2>1, <2>2, <1>5 DEF PendingOK, OpenAt, IsInjective
<1>11. /\ \A e \in Requests : RequestOK(e) => RequestOK(e)'
       /\ (\A b \in Agents : \A i \in DOMAIN mbox[b] : ReplyOK(b, mbox[b][i]))'
  BY <1>4, <1>7, MessagesStay
<1>12. \A i \in DOMAIN usmMbox' : \/ i \in DOMAIN usmMbox /\ usmMbox'[i] = usmMbox[i]
                                  \/ i = Len(usmMbox) + 1 /\ usmMbox'[i] = r
  BY <1>1, <1>2, AppendAt
<1>13. RequestOK(r)'
  <2>1. asked = <<r.args.domain, r.args.user>>
    BY <1>2 DEF asked
  <2> QED BY <2>1, <1>2, <1>4, <1>5, <1>9 DEF RequestOK, AskedBy, OpenAt
<1>14. MessagesOK'
  <2>1. ASSUME NEW i \in DOMAIN usmMbox' PROVE RequestOK(usmMbox[i])'
    <3>1. PICK e \in Requests : e = usmMbox'[i] /\ (e = r \/ RequestOK(e))
      BY <1>1, <1>12 DEF Flow, MessagesOK
    <3>2. RequestOK(e)'
      BY <3>1, <1>11, <1>13
    <3> QED BY <3>1, <3>2 DEF RequestOK
  <2> QED BY <2>1, <1>11 DEF MessagesOK
<1>15. OneMessageEach'
  <2>1. \A i \in DOMAIN usmMbox : usmMbox[i].agent = a => usmMbox[i].operationid # id
    BY <1>6 DEF Flow, MessagesOK, RequestOK, AskedBy
  <2>2. \A i \in DOMAIN mbox[a] : mbox[a][i].operationid # id
    BY <1>6 DEF Flow, MessagesOK, ReplyOK, AskedBy
  <2>3. \A i, j \in DOMAIN usmMbox' :
          usmMbox'[i].agent = usmMbox'[j].agent /\ usmMbox'[i].operationid = usmMbox'[j].operationid => i = j
    BY <2>1, <1>2, <1>12 DEF Flow, OneMessageEach
  <2>4. \A i \in DOMAIN usmMbox' : \A b \in Agents : \A j \in DOMAIN mbox'[b] :
          usmMbox'[i].agent = b => usmMbox'[i].operationid # mbox'[b][j].operationid
    BY <2>2, <1>2, <1>12 DEF Flow, OneMessageEach
  <2> QED BY <2>3, <2>4 DEF Flow, OneMessageEach
<1>16. SessionsOK'
  <2>1. ASSUME NEW b \in Agents, NEW x \in DOMAIN loggedInUsers[b] PROVE SessionOK(b, x)'
    <3>1. SessionOK(b, x) /\ x \in DOMAIN conns
      BY DEF Flow, SessionsOK, SessionOK, OpenAt
    <3> QED BY <3>1, <1>4, SessionStays
  <2>2. ASSUME NEW b \in Agents, NEW x \in DOMAIN Pgs[b] PROVE PgOK(b, x)'
    <3>1. PgOK(b, x) /\ x \in DOMAIN conns
      BY DEF Flow, SessionsOK, PgOK, OpenAt
    <3>2. Pgs'[b][x].state = "ESTABLISHED" => Pgs[b][x].state = "ESTABLISHED"
      BY <1>8
    <3> QED BY <3>1, <3>2, <1>4, <1>8 DEF PgOK, OpenAt
  <2> QED BY <2>1, <2>2, <1>4, <1>8 DEF Flow, SessionsOK
<1> QED BY <1>10, <1>14, <1>15, <1>16 DEF Flow

\* The Operations that stay pending, when their connections and Pg objects stay.
LEMMA PendingKept ==
  ASSUME Flow, DOMAIN pendingOperations' = Agents, operationidcounter' = operationidcounter,
         \A b \in Agents : \A id \in DOMAIN pendingOperations'[b] :
           id \in DOMAIN pendingOperations[b] /\ pendingOperations'[b][id] = pendingOperations[b][id],
         \A b \in Agents : \A id \in DOMAIN pendingOperations'[b] :
           LET t == pendingOperations[b][id] IN
             /\ t \in DOMAIN conns' /\ conns'[t] = conns[t]
             /\ t \in DOMAIN Pgs[b] => t \in DOMAIN Pgs'[b] /\ Pgs'[b][t] = Pgs[b][t]
  PROVE  PendingOK'
<1>1. ASSUME NEW b \in Agents PROVE IsInjective(pendingOperations'[b])
  BY DEF Flow, PendingOK, IsInjective
<1>2. ASSUME NEW b \in Agents, NEW x \in DOMAIN pendingOperations'[b]
      PROVE  /\ x \in Nat /\ x <= operationidcounter'[b]
             /\ LET t == pendingOperations'[b][x] IN
                  \/ t \in DOMAIN conns' /\ conns'[t].agent = b /\ conns'[t].listener = "raw"
                  \/ /\ t \in DOMAIN conns' /\ conns'[t].agent = b /\ conns'[t].listener = "pg"
                     /\ t \in DOMAIN Pgs'[b] /\ Pgs'[b][t].state = "SENT"
  <2>1. PICK t : t = pendingOperations[b][x]
    OBVIOUS
  <2>2. /\ x \in DOMAIN pendingOperations[b] /\ pendingOperations'[b][x] = t
        /\ t \in DOMAIN conns' /\ conns'[t] = conns[t]
        /\ t \in DOMAIN Pgs[b] => t \in DOMAIN Pgs'[b] /\ Pgs'[b][t] = Pgs[b][t]
    BY <1>2, <2>1
  <2>3. /\ x \in Nat /\ x <= operationidcounter[b]
        /\ \/ OpenAt(b, t, "raw")
           \/ OpenAt(b, t, "pg") /\ t \in DOMAIN Pgs[b] /\ Pgs[b][t].state = "SENT"
    BY <2>1, <2>2 DEF Flow, PendingOK
  <2> QED BY <2>2, <2>3 DEF OpenAt
<1> QED BY <1>1, <1>2 DEF PendingOK, OpenAt, IsInjective

\* The sessions that stay, when their connections stay.
LEMMA SessionsKept ==
  ASSUME Flow, UNCHANGED usmVars, DOMAIN Pgs' = Agents,
         \A x \in DOMAIN conns' :
           \/ x \in DOMAIN conns /\ conns'[x] = conns[x]
           \/ /\ DOMAIN conns'[x] = {"agent", "listener", "asked"}
              /\ conns'[x].listener \in {"raw", "pg"},
         \A b \in Agents : \A x \in DOMAIN loggedInUsers'[b] :
           \/ SessionOK(b, x)'
           \/ /\ x \in DOMAIN loggedInUsers[b] /\ loggedInUsers'[b][x] = loggedInUsers[b][x]
              /\ x \in DOMAIN conns' /\ conns'[x] = conns[x],
         \A b \in Agents : \A x \in DOMAIN Pgs'[b] :
           \/ PgOK(b, x)'
           \/ /\ x \in DOMAIN Pgs[b] /\ Pgs'[b][x] = Pgs[b][x]
              /\ x \in DOMAIN conns' /\ conns'[x] = conns[x]
  PROVE  SessionsOK'
<1>1. \A x \in DOMAIN conns' : /\ DOMAIN conns'[x] = {"agent", "listener", "asked"}
                               /\ conns'[x].listener \in {"raw", "pg"}
  BY DEF Flow, SessionsOK
<1>2. ASSUME NEW b \in Agents, NEW x \in DOMAIN loggedInUsers'[b] PROVE SessionOK(b, x)'
  <2>1. CASE /\ x \in DOMAIN loggedInUsers[b] /\ loggedInUsers'[b][x] = loggedInUsers[b][x]
             /\ x \in DOMAIN conns' /\ conns'[x] = conns[x]
    <3>1. SessionOK(b, x)
      BY <2>1 DEF Flow, SessionsOK
    <3> QED BY <2>1, <3>1, SessionStays
  <2> QED BY <1>2, <2>1
<1>3. ASSUME NEW b \in Agents, NEW x \in DOMAIN Pgs'[b] PROVE PgOK(b, x)'
  <2>1. CASE /\ x \in DOMAIN Pgs[b] /\ Pgs'[b][x] = Pgs[b][x]
             /\ x \in DOMAIN conns' /\ conns'[x] = conns[x]
    <3>1. PgOK(b, x)
      BY <2>1 DEF Flow, SessionsOK
    <3> QED BY <2>1, <3>1 DEF PgOK, OpenAt
  <2> QED BY <1>3, <2>1
<1> QED BY <1>1, <1>2, <1>3 DEF SessionsOK

\* Sessions and Pg objects are of open sockets.
LEMMA SessionsAreOpen ==
  ASSUME Flow, NEW b \in Agents
  PROVE  /\ \A x \in DOMAIN loggedInUsers[b] : OpenAt(b, x, "raw")
         /\ \A x \in DOMAIN Pgs[b] : OpenAt(b, x, "pg")
  BY DEF Flow, SessionsOK, SessionOK, PgOK

\* A new connection.
LEMMA ConnectFlow ==
  ASSUME Messages, Flow, NEW s, NEW a \in Agents, NEW l \in Listeners, Connect(s, a, l)
  PROVE  Flow'
<1>1. /\ s \notin DOMAIN conns /\ conns' = With(conns, s, [agent |-> a, listener |-> l, asked |-> {}])
      /\ Pgs' = IF l = "pg" THEN [Pgs EXCEPT ![a] = With(@, s, NewPg)] ELSE Pgs
      /\ UNCHANGED usmVars /\ usmMbox' = usmMbox /\ mbox' = mbox /\ loggedInUsers' = loggedInUsers
      /\ pendingOperations' = pendingOperations /\ operationidcounter' = operationidcounter
  BY DEF Connect
<1>2. /\ DOMAIN conns' = DOMAIN conns \cup {s} /\ \A x \in DOMAIN conns : conns'[x] = conns[x]
      /\ conns'[s] = [agent |-> a, listener |-> l, asked |-> {}]
  BY <1>1 DEF With
<1>3. l \in {"raw", "pg"} /\ DOMAIN Pgs = Agents
  BY UsersAssumption DEF Flow, SessionsOK
<1>4. /\ DOMAIN Pgs' = Agents
      /\ \A b \in Agents : \A x \in DOMAIN Pgs[b] : x # s => x \in DOMAIN Pgs'[b] /\ Pgs'[b][x] = Pgs[b][x]
      /\ \A b \in Agents : \A x \in DOMAIN Pgs'[b] :
           \/ x \in DOMAIN Pgs[b] /\ x # s
           \/ x \in DOMAIN Pgs[b] /\ Pgs'[b][x] = Pgs[b][x]
           \/ b = a /\ x = s /\ l = "pg" /\ Pgs'[b][x] = NewPg
  BY <1>1, <1>3 DEF With
<1>5. PendingOK'
  <2>1. DOMAIN pendingOperations' = Agents
    BY <1>1 DEF Flow, PendingOK
  <2>2. \A b \in Agents : \A id \in DOMAIN pendingOperations'[b] :
          id \in DOMAIN pendingOperations[b] /\ pendingOperations'[b][id] = pendingOperations[b][id]
    BY <1>1
  <2>3. \A b \in Agents : \A id \in DOMAIN pendingOperations'[b] :
          LET t == pendingOperations[b][id] IN
            /\ t \in DOMAIN conns' /\ conns'[t] = conns[t]
            /\ t \in DOMAIN Pgs[b] => t \in DOMAIN Pgs'[b] /\ Pgs'[b][t] = Pgs[b][t]
    <3> SUFFICES ASSUME NEW b \in Agents, NEW id \in DOMAIN pendingOperations[b]
                 PROVE  LET t == pendingOperations[b][id] IN
                          /\ t \in DOMAIN conns' /\ conns'[t] = conns[t]
                          /\ t \in DOMAIN Pgs[b] => t \in DOMAIN Pgs'[b] /\ Pgs'[b][t] = Pgs[b][t]
      BY <1>1
    <3>1. PICK t : t = pendingOperations[b][id] /\ t \in DOMAIN conns
      BY PendingIsOpen
    <3>2. t # s
      BY <3>1, <1>1
    <3>3. t \in DOMAIN conns' /\ conns'[t] = conns[t]
      BY <3>1, <1>2
    <3>4. t \in DOMAIN Pgs[b] => t \in DOMAIN Pgs'[b] /\ Pgs'[b][t] = Pgs[b][t]
      BY <3>2, <1>4
    <3> QED BY <3>1, <3>3, <3>4
  <2> QED BY <2>1, <2>2, <2>3, <1>1, PendingKept
<1>6. \A b \in Agents : \A x \in DOMAIN Pgs[b] : x \in DOMAIN conns /\ x # s
  BY <1>1, SessionsAreOpen DEF OpenAt
<1>7. \A b \in Agents : \A x \in DOMAIN loggedInUsers[b] : x \in DOMAIN conns /\ x # s
  BY <1>1, SessionsAreOpen DEF OpenAt
<1>8. l = "pg" /\ s \in DOMAIN Pgs'[a] /\ Pgs'[a][s] = NewPg => PgOK(a, s)'
  BY <1>2 DEF PgOK, OpenAt, NewPg
<1>9. SessionsOK'
  <2>1. \A x \in DOMAIN conns' :
           \/ x \in DOMAIN conns /\ conns'[x] = conns[x]
           \/ /\ DOMAIN conns'[x] = {"agent", "listener", "asked"}
              /\ conns'[x].listener \in {"raw", "pg"}
    BY <1>2, <1>3
  <2>2. ASSUME NEW b \in Agents, NEW x \in DOMAIN loggedInUsers'[b]
        PROVE  \/ SessionOK(b, x)'
               \/ /\ x \in DOMAIN loggedInUsers[b] /\ loggedInUsers'[b][x] = loggedInUsers[b][x]
                  /\ x \in DOMAIN conns' /\ conns'[x] = conns[x]
    BY <1>1, <1>2, <1>7
  <2>3. ASSUME NEW b \in Agents, NEW x \in DOMAIN Pgs'[b]
        PROVE  \/ PgOK(b, x)'
               \/ /\ x \in DOMAIN Pgs[b] /\ Pgs'[b][x] = Pgs[b][x]
                  /\ x \in DOMAIN conns' /\ conns'[x] = conns[x]
    BY <1>2, <1>4, <1>6, <1>8
  <2> QED BY <2>1, <2>2, <2>3, <1>1, <1>4, SessionsKept
<1>10. /\ \A r \in Requests : RequestOK(r) => RequestOK(r)'
       /\ (\A b \in Agents : \A i \in DOMAIN mbox[b] : ReplyOK(b, mbox[b][i]))'
  BY <1>1, <1>2, MessagesStay
<1>11. MessagesOK'
  <2>1. ASSUME NEW i \in DOMAIN usmMbox' PROVE RequestOK(usmMbox[i])'
    <3>1. PICK e \in Requests : e = usmMbox'[i] /\ e = usmMbox[i] /\ RequestOK(e)
      BY <1>1 DEF Flow, MessagesOK, Messages
    <3>2. RequestOK(e)'
      BY <3>1, <1>10
    <3> QED BY <3>1, <3>2 DEF RequestOK
  <2> QED BY <2>1, <1>10 DEF MessagesOK
<1>12. OneMessageEach'
  BY <1>1 DEF Flow, OneMessageEach
<1> QED BY <1>5, <1>9, <1>11, <1>12 DEF Flow

\* A connection that ends takes its session and its Pg object along.
LEMMA Closed ==
  ASSUME Flow, UNCHANGED usmVars, NEW a \in Agents, NEW s, conns' = Without(conns, s),
         OpenAt(a, s, "raw") \/ OpenAt(a, s, "pg"),
         DOMAIN loggedInUsers = Agents,
         \/ OpenAt(a, s, "raw") /\ loggedInUsers' = [loggedInUsers EXCEPT ![a] = Without(@, s)] /\ Pgs' = Pgs
         \/ OpenAt(a, s, "pg") /\ Pgs' = [Pgs EXCEPT ![a] = Without(@, s)] /\ loggedInUsers' = loggedInUsers
  PROVE  /\ SessionsOK'
         /\ DOMAIN conns' = DOMAIN conns \ {s} /\ \A x \in DOMAIN conns' : conns'[x] = conns[x]
         /\ \A b \in Agents : \A x \in DOMAIN Pgs[b] :
              x # s => x \in DOMAIN Pgs'[b] /\ Pgs'[b][x] = Pgs[b][x]
<1>1. DOMAIN conns' = DOMAIN conns \ {s} /\ \A x \in DOMAIN conns' : conns'[x] = conns[x]
  BY DEF Without, Restrict
<1>2. DOMAIN Pgs = Agents
  BY DEF Flow, SessionsOK
<1>3. \A b \in Agents : \A x \in DOMAIN Pgs[b] :
        x # s => x \in DOMAIN Pgs'[b] /\ Pgs'[b][x] = Pgs[b][x]
  BY <1>2 DEF Without, Restrict
<1>4. DOMAIN Pgs' = Agents
  BY <1>2
<1>5. ASSUME NEW b \in Agents, NEW x \in DOMAIN loggedInUsers'[b]
      PROVE  x \in DOMAIN loggedInUsers[b] /\ loggedInUsers'[b][x] = loggedInUsers[b][x] /\ x # s
  <2>1. CASE OpenAt(a, s, "raw") /\ loggedInUsers' = [loggedInUsers EXCEPT ![a] = Without(@, s)]
    <3>1. CASE b = a
      BY <2>1, <3>1, <1>5 DEF Without, Restrict
    <3>2. CASE b # a
      <4>1. loggedInUsers'[b] = loggedInUsers[b]
        BY <2>1, <3>2
      <4>2. OpenAt(b, x, "raw")
        BY <4>1, <1>5, SessionsAreOpen
      <4> QED BY <2>1, <3>2, <4>1, <4>2, <1>5 DEF OpenAt
    <3> QED BY <3>1, <3>2
  <2>2. CASE OpenAt(a, s, "pg") /\ loggedInUsers' = loggedInUsers
    <3>1. x \in DOMAIN loggedInUsers[b]
      BY <2>2, <1>5
    <3>2. OpenAt(b, x, "raw")
      BY <3>1, SessionsAreOpen
    <3> QED BY <2>2, <3>1, <3>2 DEF OpenAt
  <2> QED BY <2>1, <2>2
<1>6. ASSUME NEW b \in Agents, NEW x \in DOMAIN Pgs'[b]
      PROVE  x \in DOMAIN Pgs[b] /\ Pgs'[b][x] = Pgs[b][x] /\ x # s
  <2>1. CASE OpenAt(a, s, "pg") /\ Pgs' = [Pgs EXCEPT ![a] = Without(@, s)]
    <3>1. CASE b = a
      BY <2>1, <3>1, <1>2, <1>6 DEF Without, Restrict
    <3>2. CASE b # a
      <4>1. Pgs'[b] = Pgs[b]
        BY <2>1, <3>2, <1>2
      <4>2. OpenAt(b, x, "pg")
        BY <4>1, <1>6, SessionsAreOpen
      <4> QED BY <2>1, <3>2, <4>1, <4>2, <1>6 DEF OpenAt
    <3> QED BY <3>1, <3>2
  <2>2. CASE OpenAt(a, s, "raw") /\ Pgs' = Pgs
    <3>1. x \in DOMAIN Pgs[b]
      BY <2>2, <1>6
    <3>2. OpenAt(b, x, "pg")
      BY <3>1, SessionsAreOpen
    <3> QED BY <2>2, <3>1, <3>2 DEF OpenAt
  <2> QED BY <2>1, <2>2
<1>7. ASSUME NEW b \in Agents, NEW x \in DOMAIN loggedInUsers'[b]
      PROVE  \/ SessionOK(b, x)'
             \/ /\ x \in DOMAIN loggedInUsers[b] /\ loggedInUsers'[b][x] = loggedInUsers[b][x]
                /\ x \in DOMAIN conns' /\ conns'[x] = conns[x]
  <2>1. x \in DOMAIN loggedInUsers[b] /\ loggedInUsers'[b][x] = loggedInUsers[b][x] /\ x # s
    BY <1>5, <1>7
  <2>2. x \in DOMAIN conns
    BY <2>1, SessionsAreOpen DEF OpenAt
  <2> QED BY <2>1, <2>2, <1>1
<1>8. ASSUME NEW b \in Agents, NEW x \in DOMAIN Pgs'[b]
      PROVE  \/ PgOK(b, x)'
             \/ /\ x \in DOMAIN Pgs[b] /\ Pgs'[b][x] = Pgs[b][x]
                /\ x \in DOMAIN conns' /\ conns'[x] = conns[x]
  <2>1. x \in DOMAIN Pgs[b] /\ Pgs'[b][x] = Pgs[b][x] /\ x # s
    BY <1>6, <1>8
  <2>2. x \in DOMAIN conns
    BY <2>1, SessionsAreOpen DEF OpenAt
  <2> QED BY <2>1, <2>2, <1>1
<1>9. \A x \in DOMAIN conns' :
         \/ x \in DOMAIN conns /\ conns'[x] = conns[x]
         \/ /\ DOMAIN conns'[x] = {"agent", "listener", "asked"}
            /\ conns'[x].listener \in {"raw", "pg"}
  BY <1>1
<1>10. SessionsOK'
  BY <1>4, <1>7, <1>8, <1>9, SessionsKept
<1> QED BY <1>1, <1>3, <1>10

\* The messages that stay are about Operations that stay.
LEMMA MessagesKept ==
  ASSUME Messages, Flow, UNCHANGED usmVars, UNCHANGED usmMbox,
         \A i \in DOMAIN usmMbox :
           LET id == usmMbox[i].operationid
               b  == usmMbox[i].agent
               t  == pendingOperations[b][id] IN
             /\ id \in DOMAIN pendingOperations'[b] /\ pendingOperations'[b][id] = t
             /\ t \in DOMAIN conns' /\ conns'[t] = conns[t],
         \A b \in Agents : \A i \in DOMAIN mbox'[b] :
           LET id == mbox'[b][i].operationid
               t  == pendingOperations[b][id] IN
             /\ \E j \in DOMAIN mbox[b] : mbox'[b][i] = mbox[b][j]
             /\ id \in DOMAIN pendingOperations'[b] /\ pendingOperations'[b][id] = t
             /\ t \in DOMAIN conns' /\ conns'[t] = conns[t]
  PROVE  MessagesOK'
<1>1. ASSUME NEW i \in DOMAIN usmMbox' PROVE RequestOK(usmMbox[i])'
  <2>1. PICK r, a, id, s, asked : /\ r = usmMbox[i] /\ a = r.agent /\ id = r.operationid
                                  /\ s = pendingOperations[a][id] /\ asked = <<r.args.domain, r.args.user>>
    OBVIOUS
  <2>2. AskedBy(a, r, asked)
    BY <1>1, <2>1 DEF Flow, MessagesOK, RequestOK
  <2>3. /\ id \in DOMAIN pendingOperations'[a] /\ pendingOperations'[a][id] = s
        /\ s \in DOMAIN conns' /\ conns'[s] = conns[s]
    BY <1>1, <2>1
  <2>4. AskedBy(a, r, asked)'
    BY <2>1, <2>2, <2>3, AskedByStays
  <2> QED BY <2>1, <2>4 DEF RequestOK
<1>2. ASSUME NEW a \in Agents, NEW i \in DOMAIN mbox'[a] PROVE ReplyOK(a, mbox[a][i])'
  <2>1. PICK m, id, s : m = mbox'[a][i] /\ id = m.operationid /\ s = pendingOperations[a][id]
    OBVIOUS
  <2>2. ReplyOK(a, m)
    BY <1>2, <2>1 DEF Flow, MessagesOK
  <2>3. /\ id \in DOMAIN pendingOperations'[a] /\ pendingOperations'[a][id] = s
        /\ s \in DOMAIN conns' /\ conns'[s] = conns[s]
    BY <1>2, <2>1
  <2>4. ReplyOK(a, m)'
    BY <2>1, <2>2, <2>3, ReplyStays
  <2> QED BY <2>1, <2>4 DEF ReplyOK
<1> QED BY <1>1, <1>2 DEF MessagesOK

\* A request is about a pending Operation of its agent.
LEMMA RequestAbout ==
  ASSUME Messages, Flow, NEW i \in DOMAIN usmMbox
  PROVE  /\ usmMbox[i].agent \in Agents
         /\ usmMbox[i].operationid \in DOMAIN pendingOperations[usmMbox[i].agent]
<1>1. usmMbox[i] \in Requests
  BY DEF Messages
<1>2. RequestOK(usmMbox[i])
  BY DEF Flow, MessagesOK
<1> QED BY <1>1, <1>2 DEF Requests, RequestOK, AskedBy

\* A client that waits for its answers hangs up or logs out.
LEMMA HangUpFlow ==
  ASSUME Patient = TRUE, Messages, Flow, NEW s, HangUp(s) \/ logout(s)
  PROVE  Flow'
<1>1. PICK a : a = conns[s].agent
  OBVIOUS
<1>2. /\ s \in DOMAIN conns /\ Idle(s) /\ a \in Agents /\ UNCHANGED usmVars
      /\ usmMbox' = usmMbox /\ mbox' = mbox /\ pendingOperations' = pendingOperations
      /\ operationidcounter' = operationidcounter /\ DOMAIN loggedInUsers = Agents
  BY <1>1 DEF HangUp, logout, Messages
<1>3. /\ conns' = Without(conns, s)
      /\ \/ OpenAt(a, s, "raw") /\ loggedInUsers' = [loggedInUsers EXCEPT ![a] = Without(@, s)] /\ Pgs' = Pgs
         \/ OpenAt(a, s, "pg") /\ Pgs' = [Pgs EXCEPT ![a] = Without(@, s)] /\ loggedInUsers' = loggedInUsers
  BY <1>1 DEF HangUp, logout, endConnection, closesocket, OpenAt
<1>4. /\ SessionsOK'
      /\ DOMAIN conns' = DOMAIN conns \ {s} /\ \A x \in DOMAIN conns' : conns'[x] = conns[x]
      /\ \A b \in Agents : \A x \in DOMAIN Pgs[b] :
           x # s => x \in DOMAIN Pgs'[b] /\ Pgs'[b][x] = Pgs[b][x]
  <2>1. OpenAt(a, s, "raw") \/ OpenAt(a, s, "pg")
    BY <1>3
  <2> QED BY <1>2, <1>3, <2>1, Closed
<1>5. ASSUME NEW b \in Agents, NEW id \in DOMAIN pendingOperations[b]
      PROVE  LET t == pendingOperations[b][id] IN
               /\ t \in DOMAIN conns' /\ conns'[t] = conns[t]
               /\ t \in DOMAIN Pgs[b] => t \in DOMAIN Pgs'[b] /\ Pgs'[b][t] = Pgs[b][t]
  <2>1. PICK t : t = pendingOperations[b][id] /\ t \in DOMAIN conns
    BY PendingIsOpen
  <2>2. t # s
    BY <2>1, <1>2 DEF Idle, Waiting, Range
  <2> QED BY <2>1, <2>2, <1>4
<1>6. PendingOK'
  <2>1. DOMAIN pendingOperations' = Agents
    BY <1>2 DEF Flow, PendingOK
  <2> QED BY <2>1, <1>2, <1>5, PendingKept
<1>7. MessagesOK'
  <2>1. ASSUME NEW i \in DOMAIN usmMbox
        PROVE  LET id == usmMbox[i].operationid
                   b  == usmMbox[i].agent
                   t  == pendingOperations[b][id] IN
                 /\ id \in DOMAIN pendingOperations'[b] /\ pendingOperations'[b][id] = t
                 /\ t \in DOMAIN conns' /\ conns'[t] = conns[t]
    <3>1. PICK b, id : /\ b = usmMbox[i].agent /\ id = usmMbox[i].operationid /\ b \in Agents
                       /\ id \in DOMAIN pendingOperations[b]
      BY RequestAbout
    <3> QED BY <3>1, <1>2, <1>5
  <2>2. ASSUME NEW b \in Agents, NEW i \in DOMAIN mbox'[b]
        PROVE  LET id == mbox'[b][i].operationid
                   t  == pendingOperations[b][id] IN
                 /\ \E j \in DOMAIN mbox[b] : mbox'[b][i] = mbox[b][j]
                 /\ id \in DOMAIN pendingOperations'[b] /\ pendingOperations'[b][id] = t
                 /\ t \in DOMAIN conns' /\ conns'[t] = conns[t]
    <3>1. PICK id : /\ i \in DOMAIN mbox[b] /\ id = mbox[b][i].operationid
                    /\ id \in DOMAIN pendingOperations[b]
      BY <1>2, <2>2 DEF Flow, MessagesOK, ReplyOK, AskedBy
    <3> QED BY <3>1, <1>2, <1>5
  <2> QED BY <1>2, <2>1, <2>2, MessagesKept
<1>8. OneMessageEach'
  BY <1>2 DEF Flow, OneMessageEach
<1> QED BY <1>4, <1>6, <1>7, <1>8 DEF Flow

\* The other sockets' connections and Pg objects stay as they are.
OthersStay(s) ==
  /\ \A x \in DOMAIN conns : x # s => x \in DOMAIN conns' /\ conns'[x] = conns[x]
  /\ \A b \in Agents : \A x \in DOMAIN Pgs[b] :
       x # s => x \in DOMAIN Pgs'[b] /\ Pgs'[b][x] = Pgs[b][x]

\* An agent takes a reply and ends its Operation: what stays is about other Operations,
\* and those are of other sockets.
LEMMA ReplyTaken ==
  ASSUME Messages, Flow, UNCHANGED usmVars, UNCHANGED <<usmMbox, operationidcounter>>,
         NEW a \in Agents, mbox[a] # <<>>, mbox' = [mbox EXCEPT ![a] = Tail(@)],
         NEW m, m = Head(mbox[a]), NEW s, s = pendingOperations[a][m.operationid],
         pendingOperations' = [pendingOperations EXCEPT ![a] = Without(@, m.operationid)],
         OthersStay(s)
  PROVE  PendingOK' /\ MessagesOK' /\ OneMessageEach'
<1>1. /\ 1 \in DOMAIN mbox[a] /\ m = mbox[a][1]
      /\ \A i \in DOMAIN mbox'[a] : i + 1 \in DOMAIN mbox[a] /\ i + 1 # 1 /\ i \in Int
                                    /\ mbox'[a][i] = mbox[a][i + 1]
      /\ \A b \in Agents : b # a => mbox'[b] = mbox[b]
  <2>1. mbox[a] \in Seq(Replies) /\ mbox'[a] = Tail(mbox[a])
    BY DEF Messages
  <2>2. \A b \in Agents : b # a => mbox'[b] = mbox[b]
    BY DEF Messages
  <2>3. PICK q \in Seq(Replies) : q = mbox[a] /\ q # <<>> /\ m = Head(q) /\ mbox'[a] = Tail(q)
    BY <2>1
  <2>4. /\ 1 \in DOMAIN q /\ Head(q) = q[1]
        /\ \A i \in DOMAIN Tail(q) : i + 1 \in DOMAIN q /\ i + 1 # 1 /\ i \in Int /\ Tail(q)[i] = q[i + 1]
    BY <2>3, TailAt
  <2> QED BY <2>2, <2>3, <2>4
<1>2. PICK id : id = m.operationid /\ id \in DOMAIN pendingOperations[a] /\ s = pendingOperations[a][id]
  BY <1>1 DEF Flow, MessagesOK, ReplyOK, AskedBy
<1>3. /\ DOMAIN pendingOperations' = Agents
      /\ \A b \in Agents : \A x \in DOMAIN pendingOperations'[b] :
           x \in DOMAIN pendingOperations[b] /\ pendingOperations'[b][x] = pendingOperations[b][x]
      /\ \A b \in Agents : \A x \in DOMAIN pendingOperations[b] :
           x \in DOMAIN pendingOperations'[b] <=> ~(b = a /\ x = id)
  BY <1>2 DEF Flow, PendingOK, Without, Restrict
<1>4. OpenAt(a, s, "raw") \/ OpenAt(a, s, "pg")
  BY <1>2 DEF Flow, PendingOK
<1>5. ASSUME NEW b \in Agents, NEW x \in DOMAIN pendingOperations[b], ~(b = a /\ x = id)
      PROVE  LET t == pendingOperations[b][x] IN
               /\ x \in DOMAIN pendingOperations'[b] /\ pendingOperations'[b][x] = t
               /\ t \in DOMAIN conns' /\ conns'[t] = conns[t]
               /\ t \in DOMAIN Pgs[b] => t \in DOMAIN Pgs'[b] /\ Pgs'[b][t] = Pgs[b][t]
  <2>1. PICK t : t = pendingOperations[b][x] /\ t \in DOMAIN conns /\ conns[t].agent = b
    BY PendingIsOpen
  <2>2. t # s
    <3>1. CASE b = a
      BY <3>1, <1>2, <1>5, <2>1 DEF Flow, PendingOK, IsInjective
    <3>2. CASE b # a
      BY <3>2, <2>1, <1>4 DEF OpenAt
    <3> QED BY <3>1, <3>2
  <2>3. x \in DOMAIN pendingOperations'[b] /\ pendingOperations'[b][x] = t
    BY <1>3, <1>5, <2>1
  <2> QED BY <2>1, <2>2, <2>3 DEF OthersStay
<1>6. PendingOK'
  <2>1. \A b \in Agents : \A x \in DOMAIN pendingOperations'[b] :
          LET t == pendingOperations[b][x] IN
            /\ t \in DOMAIN conns' /\ conns'[t] = conns[t]
            /\ t \in DOMAIN Pgs[b] => t \in DOMAIN Pgs'[b] /\ Pgs'[b][t] = Pgs[b][t]
    BY <1>3, <1>5
  <2> QED BY <2>1, <1>3, PendingKept
<1>7. MessagesOK'
  <2>1. ASSUME NEW i \in DOMAIN usmMbox
        PROVE  LET x == usmMbox[i].operationid
                   b == usmMbox[i].agent
                   t == pendingOperations[b][x] IN
                 /\ x \in DOMAIN pendingOperations'[b] /\ pendingOperations'[b][x] = t
                 /\ t \in DOMAIN conns' /\ conns'[t] = conns[t]
    <3>1. PICK b, x : /\ b = usmMbox[i].agent /\ x = usmMbox[i].operationid /\ b \in Agents
                      /\ x \in DOMAIN pendingOperations[b]
      BY RequestAbout
    <3>2. ~(b = a /\ x = id)
      BY <3>1, <1>1, <1>2 DEF Flow, OneMessageEach
    <3> QED BY <3>1, <3>2, <1>5
  <2>2. ASSUME NEW b \in Agents, NEW i \in DOMAIN mbox'[b]
        PROVE  LET x == mbox'[b][i].operationid
                   t == pendingOperations[b][x] IN
                 /\ \E j \in DOMAIN mbox[b] : mbox'[b][i] = mbox[b][j]
                 /\ x \in DOMAIN pendingOperations'[b] /\ pendingOperations'[b][x] = t
                 /\ t \in DOMAIN conns' /\ conns'[t] = conns[t]
    <3>1. PICK j \in DOMAIN mbox[b] : mbox'[b][i] = mbox[b][j] /\ (b = a => j # 1)
      BY <1>1, <2>2
    <3>2. PICK x : x = mbox[b][j].operationid /\ x \in DOMAIN pendingOperations[b]
      BY DEF Flow, MessagesOK, ReplyOK, AskedBy
    <3>3. ~(b = a /\ x = id)
      BY <3>1, <3>2, <1>1, <1>2 DEF Flow, OneMessageEach
    <3>4. /\ x \in DOMAIN pendingOperations'[b] /\ pendingOperations'[b][x] = pendingOperations[b][x]
          /\ pendingOperations[b][x] \in DOMAIN conns'
          /\ conns'[pendingOperations[b][x]] = conns[pendingOperations[b][x]]
      BY <3>2, <3>3, <1>5
    <3> QED BY <3>1, <3>2, <3>4
  <2> QED BY <2>1, <2>2, MessagesKept
<1>8. OneMessageEach'
  <2>1. \A b \in Agents : \A i \in DOMAIN mbox'[b] :
          \/ b # a /\ i \in DOMAIN mbox[b] /\ mbox'[b][i] = mbox[b][i]
          \/ b = a /\ i + 1 \in DOMAIN mbox[b] /\ i \in Int /\ mbox'[b][i] = mbox[b][i + 1]
    BY <1>1
  <2>2. \A b \in Agents : \A i, j \in DOMAIN mbox'[b] :
          mbox'[b][i].operationid = mbox'[b][j].operationid => i = j
    BY <2>1 DEF Flow, OneMessageEach
  <2>3. \A i \in DOMAIN usmMbox : \A b \in Agents : \A j \in DOMAIN mbox'[b] :
          usmMbox[i].agent = b => usmMbox[i].operationid # mbox'[b][j].operationid
    BY <2>1 DEF Flow, OneMessageEach
  <2> QED BY <2>2, <2>3 DEF Flow, OneMessageEach
<1> QED BY <1>6, <1>7, <1>8

\* An agent handles a reply of the manager.
LEMMA AgentFlow ==
  ASSUME Messages, Flow, NEW a \in Agents, AgentReply(a)
  PROVE  Flow'
<1>1. PICK m, s : m = Head(mbox[a]) /\ s = pendingOperations[a][m.operationid]
  OBVIOUS
<1>2. /\ mbox[a] # <<>> /\ mbox' = [mbox EXCEPT ![a] = Tail(@)]
      /\ UNCHANGED usmVars /\ UNCHANGED <<usmMbox, operationidcounter>>
      /\ \/ m.cmd = "login" /\ m.ok /\ LoginOk(a, s, m)
         \/ m.cmd = "login" /\ ~m.ok /\ LoginNotOk(a, s, m.operationid)
         \/ m.cmd = "pglogin" /\ handleOperation(a, s, m)
         \/ /\ endOperation(a, m.operationid)
            /\ UNCHANGED <<loggedInUsers, Pgs, conns>>
  BY <1>1 DEF AgentReply
<1>3. ReplyOK(a, m) /\ m \in Replies
  <2>1. mbox[a] \in Seq(Replies)
    BY DEF Messages
  <2>2. 1 \in DOMAIN mbox[a] /\ m = mbox[a][1]
    BY <1>1, <1>2, <2>1, TailAt
  <2>3. m \in Replies
    BY <1>1, <1>2, <2>1, HeadTailProperties
  <2> QED BY <2>2, <2>3 DEF Flow, MessagesOK
<1>4. PICK d, u : /\ AskedBy(a, m, <<d, u>>)
                  /\ m.cmd \in {"login", "pglogin"} /\ m.ok => Meant(m.domainid, m.userid, d, u)
  BY <1>3 DEF ReplyOK
<1>5. /\ DOMAIN Pgs = Agents /\ DOMAIN loggedInUsers = Agents /\ s \in DOMAIN conns
      /\ \A b \in Agents : \A x \in DOMAIN Pgs[b] : x \in DOMAIN conns
      /\ \A b \in Agents : \A x \in DOMAIN loggedInUsers[b] : x \in DOMAIN conns
  <2>1. m.operationid \in DOMAIN pendingOperations[a]
    BY <1>4 DEF AskedBy
  <2>2. s \in DOMAIN conns
    BY <1>1, <2>1, PendingIsOpen
  <2>3. /\ \A b \in Agents : \A x \in DOMAIN Pgs[b] : x \in DOMAIN conns
        /\ \A b \in Agents : \A x \in DOMAIN loggedInUsers[b] : x \in DOMAIN conns
    BY SessionsAreOpen DEF OpenAt
  <2> QED BY <2>2, <2>3 DEF Messages, Flow, SessionsOK
<1>6. /\ mbox[a] # <<>> /\ mbox' = [mbox EXCEPT ![a] = Tail(@)]
       /\ UNCHANGED usmVars /\ UNCHANGED <<usmMbox, operationidcounter>>
       /\ m = Head(mbox[a]) /\ s = pendingOperations[a][m.operationid]
  BY <1>1, <1>2
<1>7. CASE m.cmd = "login" /\ m.ok /\ LoginOk(a, s, m)
  <2> DEFINE who == [domainid |-> m.domainid, userid |-> m.userid]
  <2>1. /\ pendingOperations' = [pendingOperations EXCEPT ![a] = Without(@, m.operationid)]
        /\ Pgs' = Pgs /\ conns' = conns
        /\ loggedInUsers' = [loggedInUsers EXCEPT ![a] = With(@, s, who)]
    BY <1>7 DEF LoginOk, endOperation
  <2>2. /\ s \in DOMAIN loggedInUsers'[a] /\ loggedInUsers'[a][s] = who
        /\ \A b \in Agents : \A x \in DOMAIN loggedInUsers'[b] :
             \/ b = a /\ x = s
             \/ x \in DOMAIN loggedInUsers[b] /\ loggedInUsers'[b][x] = loggedInUsers[b][x]
    <3> HIDE DEF who
    <3> QED BY <2>1, <1>5 DEF With
  <2>3. SessionOK(a, s)'
    <3>1. OpenAt(a, s, "raw") /\ <<d, u>> \in conns[s].asked
      BY <1>1, <1>4, <1>7 DEF AskedBy
    <3>2. Meant(m.domainid, m.userid, d, u)
      BY <1>4, <1>7
    <3>3. PICK did, uid, asked : did = m.domainid /\ uid = m.userid /\ asked = <<d, u>>
      OBVIOUS
    <3>4. Meant(did, uid, asked[1], asked[2])'
      BY <3>2, <3>3, <1>2, SameMeaning
    <3>5. loggedInUsers'[a][s].domainid = did /\ loggedInUsers'[a][s].userid = uid
      BY <2>2, <3>3
    <3>6. Meant(loggedInUsers[a][s].domainid, loggedInUsers[a][s].userid, asked[1], asked[2])'
      BY <3>4, <3>5 DEF Meant
    <3>7. asked \in conns'[s].asked /\ OpenAt(a, s, "raw")'
      BY <3>1, <3>3, <2>1 DEF OpenAt
    <3> QED BY <3>6, <3>7 DEF SessionOK
  <2>4. ASSUME NEW b \in Agents, NEW x \in DOMAIN loggedInUsers'[b]
        PROVE  \/ SessionOK(b, x)'
               \/ /\ x \in DOMAIN loggedInUsers[b] /\ loggedInUsers'[b][x] = loggedInUsers[b][x]
                  /\ x \in DOMAIN conns' /\ conns'[x] = conns[x]
    BY <2>1, <2>2, <2>3, <1>5
  <2>5. SessionsOK'
    BY <2>1, <2>4, <1>2, <1>5, SessionsKept
  <2>6. PendingOK' /\ MessagesOK' /\ OneMessageEach'
    <3>1. OthersStay(s)
      BY <2>1 DEF OthersStay
    <3> QED BY <3>1, <2>1, <1>6, ReplyTaken
  <2> QED BY <2>5, <2>6 DEF Flow
<1>8. CASE m.cmd = "login" /\ ~m.ok /\ LoginNotOk(a, s, m.operationid)
  <2>1. /\ pendingOperations' = [pendingOperations EXCEPT ![a] = Without(@, m.operationid)]
        /\ Pgs' = Pgs /\ conns' = Without(conns, s)
        /\ loggedInUsers' = [loggedInUsers EXCEPT ![a] = Without(@, s)]
    BY <1>8 DEF LoginNotOk, endOperation, endConnection
  <2>2. OpenAt(a, s, "raw")
    BY <1>1, <1>4, <1>8 DEF AskedBy
  <2>3. /\ SessionsOK'
        /\ DOMAIN conns' = DOMAIN conns \ {s} /\ \A x \in DOMAIN conns' : conns'[x] = conns[x]
        /\ \A b \in Agents : \A x \in DOMAIN Pgs[b] :
             x # s => x \in DOMAIN Pgs'[b] /\ Pgs'[b][x] = Pgs[b][x]
    BY <2>1, <2>2, <1>2, <1>5, Closed
  <2>4. \A x \in DOMAIN conns : x # s => x \in DOMAIN conns' /\ conns'[x] = conns[x]
    BY <2>3
  <2>5. PendingOK' /\ MessagesOK' /\ OneMessageEach'
    <3>1. OthersStay(s)
      BY <2>3, <2>4 DEF OthersStay
    <3>2. pendingOperations' = [pendingOperations EXCEPT ![a] = Without(@, m.operationid)]
      BY <2>1
    <3> QED BY <3>1, <3>2, <1>6, ReplyTaken
  <2> QED BY <2>3, <2>5 DEF Flow
<1>9. CASE m.cmd = "pglogin" /\ handleOperation(a, s, m)
  <2>1. OpenAt(a, s, "pg") /\ <<d, u>> \in conns[s].asked
    BY <1>1, <1>4, <1>9 DEF AskedBy
  <2>2. s \in DOMAIN Pgs[a]
    <3>1. m.operationid \in DOMAIN pendingOperations[a]
      BY <1>4 DEF AskedBy
    <3> QED BY <3>1, <2>1, <1>1 DEF Flow, PendingOK, OpenAt
  <2> DEFINE est == [state |-> "ESTABLISHED", domainid |-> m.domainid, userid |-> m.userid]
  <2>3. /\ pendingOperations' = [pendingOperations EXCEPT ![a] = Without(@, m.operationid)]
        /\ conns' = conns /\ loggedInUsers' = loggedInUsers
        /\ Pgs' = Pgs \/ Pgs' = [Pgs EXCEPT ![a][s] = est]
    BY <2>2, <1>9 DEF handleOperation, endOperation
  <2>4. DOMAIN est = {"state", "domainid", "userid"}
    OBVIOUS
  <2> HIDE DEF est
  <2>5. /\ DOMAIN Pgs' = Agents
        /\ \A b \in Agents : DOMAIN Pgs'[b] = DOMAIN Pgs[b]
        /\ \A b \in Agents : \A x \in DOMAIN Pgs[b] : x # s => Pgs'[b][x] = Pgs[b][x]
        /\ \A b \in Agents : \A x \in DOMAIN Pgs[b] :
             Pgs'[b][x] = Pgs[b][x] \/ (b = a /\ x = s /\ Pgs'[b][x] = est)
    BY <2>3, <1>5
  <2>6. ASSUME NEW b \in Agents, NEW x \in DOMAIN Pgs'[b]
        PROVE  \/ PgOK(b, x)'
               \/ /\ x \in DOMAIN Pgs[b] /\ Pgs'[b][x] = Pgs[b][x]
                  /\ x \in DOMAIN conns' /\ conns'[x] = conns[x]
    <3>1. CASE Pgs'[b][x] = Pgs[b][x]
      BY <3>1, <2>3, <2>5, <2>6, <1>5
    <3>2. CASE b = a /\ x = s /\ Pgs'[b][x] = est
      BY <3>2, <2>1, <2>3, <2>4 DEF PgOK, OpenAt
    <3> QED BY <3>1, <3>2, <2>5, <2>6
  <2>7. ASSUME NEW b \in Agents, NEW x \in DOMAIN loggedInUsers'[b]
        PROVE  \/ SessionOK(b, x)'
               \/ /\ x \in DOMAIN loggedInUsers[b] /\ loggedInUsers'[b][x] = loggedInUsers[b][x]
                  /\ x \in DOMAIN conns' /\ conns'[x] = conns[x]
    BY <2>3, <2>7, <1>5
  <2>8. SessionsOK'
    BY <2>3, <2>5, <2>6, <2>7, <1>2, SessionsKept
  <2>9. PendingOK' /\ MessagesOK' /\ OneMessageEach'
    <3>1. OthersStay(s)
      BY <2>3, <2>5 DEF OthersStay
    <3>2. pendingOperations' = [pendingOperations EXCEPT ![a] = Without(@, m.operationid)]
      BY <2>3
    <3> QED BY <3>1, <3>2, <1>6, ReplyTaken
  <2> QED BY <2>8, <2>9 DEF Flow
<1>10. CASE endOperation(a, m.operationid) /\ UNCHANGED <<loggedInUsers, Pgs, conns>>
  <2>1. pendingOperations' = [pendingOperations EXCEPT ![a] = Without(@, m.operationid)]
    BY <1>10 DEF endOperation
  <2>2. PendingOK' /\ MessagesOK' /\ OneMessageEach'
    <3>1. OthersStay(s)
      BY <1>10 DEF OthersStay
    <3> QED BY <3>1, <2>1, <1>6, ReplyTaken
  <2>3. SessionsOK'
    BY <1>2, <1>5, <1>10, SessionsKept
  <2> QED BY <2>2, <2>3 DEF Flow
<1> QED BY <1>2, <1>7, <1>8, <1>9, <1>10

\* Every step keeps Operations and sessions sound, when clients wait for their answers.
LEMMA FlowStep ==
  ASSUME Patient = TRUE, Directory, Messages, Flow, [Next]_vars
  PROVE  Flow'
<1>1. CASE UNCHANGED vars
  <2>1. /\ UNCHANGED usmVars /\ usmMbox' = usmMbox /\ mbox' = mbox /\ conns' = conns
        /\ pendingOperations' = pendingOperations /\ operationidcounter' = operationidcounter
        /\ loggedInUsers' = loggedInUsers /\ Pgs' = Pgs
    BY <1>1 DEF vars, agentVars
  <2>2. PendingOK' /\ OneMessageEach'
    BY <2>1 DEF Flow, PendingOK, OneMessageEach, OpenAt
  <2>3. MessagesOK'
    <3>1. (\A i \in DOMAIN usmMbox : RequestOK(usmMbox[i]))'
      BY <2>1 DEF Flow, MessagesOK, RequestOK, AskedBy, OpenAt
    <3>2. ASSUME NEW a \in Agents, NEW i \in DOMAIN mbox'[a] PROVE ReplyOK(a, mbox[a][i])'
      <4>1. PICK m : m = mbox[a][i] /\ ReplyOK(a, m)
        BY <2>1, <3>2 DEF Flow, MessagesOK
      <4>2. PICK d, u : /\ AskedBy(a, m, <<d, u>>)
                        /\ m.cmd \in {"login", "pglogin"} /\ m.ok => Meant(m.domainid, m.userid, d, u)
        BY <4>1 DEF ReplyOK
      <4>3. AskedBy(a, m, <<d, u>>)'
        BY <2>1, <4>2 DEF AskedBy, OpenAt
      <4>4. m.cmd \in {"login", "pglogin"} /\ m.ok => Meant(m.domainid, m.userid, d, u)'
        BY <2>1, <4>2, SameMeaning
      <4>5. ReplyOK(a, m)'
        BY <4>3, <4>4 DEF ReplyOK
      <4> QED BY <2>1, <4>1, <4>5 DEF ReplyOK
    <3> QED BY <3>1, <3>2 DEF MessagesOK
  <2>4. SessionsOK'
    <3>1. ASSUME NEW a \in Agents, NEW s \in DOMAIN loggedInUsers'[a] PROVE SessionOK(a, s)'
      BY <2>1, <3>1 DEF Flow, SessionsOK, SessionOK, OpenAt, Meant, usmVars
    <3>2. ASSUME NEW a \in Agents, NEW s \in DOMAIN Pgs'[a] PROVE PgOK(a, s)'
      BY <2>1, <3>2 DEF Flow, SessionsOK, PgOK, OpenAt
    <3> QED BY <2>1, <3>1, <3>2 DEF Flow, SessionsOK
  <2> QED BY <2>2, <2>3, <2>4 DEF Flow
<1>2. CASE UserSchemaMgr
  BY <1>2, ManagerFlow
<1>3. ASSUME NEW a \in Agents, AgentReply(a) PROVE Flow'
  BY <1>3, AgentFlow
<1>4. ASSUME NEW s, NEW a \in Agents, NEW l \in Listeners, Connect(s, a, l) PROVE Flow'
  BY <1>4, ConnectFlow
<1>5. ASSUME NEW s, HangUp(s) \/ logout(s) PROVE Flow'
  BY <1>5, HangUpFlow
<1>6. ASSUME NEW s, NEW args \in Arguments, LoginCommand(s, args) PROVE Flow'
  <2>1. PICK a : a = conns[s].agent /\ a \in Agents
    BY <1>6 DEF LoginCommand, Messages
  <2>2. /\ OpenAt(a, s, "raw") /\ "login" \in Commands \cup {"pglogin"}
        /\ Request(a, s, "login", Nobody, args) /\ Asks(s, args)
        /\ UNCHANGED <<usmVars, mbox, loggedInUsers>> /\ Pgs' = Pgs
    BY <1>6, <2>1 DEF LoginCommand, OpenAt
  <2>3. s \notin Range(pendingOperations[a])
    BY <1>6, <2>1 DEF LoginCommand, Idle, Waiting
  <2>4. Nobody.domainid \in Int /\ Nobody.userid \in Int
    BY DEF Nobody
  <2> QED BY <2>1, <2>2, <2>3, <2>4, RequestFlow
<1>7. ASSUME NEW s, NEW args \in Arguments, PgAuth(s, args) PROVE Flow'
  <2>1. PICK a : a = conns[s].agent /\ a \in Agents
    BY <1>7 DEF PgAuth, Messages
  <2>2. /\ OpenAt(a, s, "pg") /\ "pglogin" \in Commands \cup {"pglogin"}
        /\ Request(a, s, "pglogin", Nobody, args) /\ Asks(s, args)
        /\ UNCHANGED <<usmVars, mbox, loggedInUsers>>
        /\ s \in DOMAIN Pgs[a] /\ Pgs[a][s].state = "AUTH"
        /\ Pgs' = [Pgs EXCEPT ![a][s].state = "SENT"]
    BY <1>7, <2>1 DEF PgAuth, OpenAt
  <2>3. s \notin Range(pendingOperations[a])
    BY <2>1, <2>2 DEF Flow, PendingOK, OpenAt, Range
  <2>4. Nobody.domainid \in Int /\ Nobody.userid \in Int
    BY DEF Nobody
  <2> QED BY <2>1, <2>2, <2>3, <2>4, RequestFlow
<1>8. ASSUME NEW s, NEW cmd, NEW args \in Arguments, Builtin(s, cmd, args), cmd # "login", cmd # "pglogin"
      PROVE  Flow'
  <2>1. PICK a, who : a = conns[s].agent /\ a \in Agents /\ who = loggedInUsers[a][s]
    BY <1>8 DEF Builtin, Messages
  <2>2. /\ OpenAt(a, s, "raw") /\ cmd \in Commands \cup {"pglogin"}
        /\ s \in DOMAIN loggedInUsers[a] /\ Request(a, s, cmd, who, args)
        /\ UNCHANGED <<usmVars, mbox, loggedInUsers>> /\ Pgs' = Pgs /\ conns' = conns
    BY <1>8, <2>1 DEF Builtin, OpenAt
  <2>3. s \notin Range(pendingOperations[a])
    BY <1>8, <2>1 DEF Builtin, Idle, Waiting
  <2>4. who.domainid \in Int /\ who.userid \in Int
    BY <2>1, <2>2 DEF Messages, Identities
  <2> QED BY <1>8, <2>1, <2>2, <2>3, <2>4, RequestFlow
<1> QED BY <1>1, <1>2, <1>3, <1>4, <1>5, <1>6, <1>7, <1>8
        DEF Next, Client, ChangePassword, CreateDomain, CreateUser, DeleteUser, DeleteDomain

\* The inductive invariant.
UsersInv == Directory /\ Messages /\ Flow

\* It holds in every state, when clients wait for their answers.
THEOREM UsersInvHolds ==
  ASSUME Patient = TRUE
  PROVE  Spec => []UsersInv
<1>1. Init => UsersInv
  <2> SUFFICES ASSUME Init PROVE UsersInv
    OBVIOUS
  <2>1. Directory /\ Messages
    BY InitDirectory
  <2>2. /\ usmMbox = <<>> /\ mbox = [a \in Agents |-> <<>>]
        /\ pendingOperations = [a \in Agents |-> Nothing]
        /\ loggedInUsers = [a \in Agents |-> Nothing] /\ Pgs = [a \in Agents |-> Nothing]
        /\ conns = Nothing
    BY DEF Init
  <2>3. DOMAIN Nothing = {}
    BY DEF Nothing
  <2>4. PendingOK
    BY <2>2, <2>3 DEF PendingOK, IsInjective
  <2>5. MessagesOK /\ OneMessageEach
    BY <2>2 DEF MessagesOK, OneMessageEach
  <2>6. SessionsOK
    BY <2>2, <2>3 DEF SessionsOK
  <2> QED BY <2>1, <2>4, <2>5, <2>6 DEF UsersInv, Flow
<1>2. UsersInv /\ [Next]_vars => UsersInv'
  BY DirectoryStep, MessagesStep, FlowStep DEF UsersInv
<1> QED BY <1>1, <1>2, PTL DEF Spec

\* When clients wait for an answer before they hang up, the session that operationid and
\* socket number lead a login's answer to (TransactionAgent::handle, Operation::handleOperation)
\* is that of an open connection of the agent that has asked for it, however often the
\* kernel gives the number of a closed socket to another connection.
THEOREM SessionsStayWithTheAskers ==
  ASSUME Patient = TRUE
  PROVE  Spec => []SessionsAreTheAskers
<1>1. UsersInv => SessionsAreTheAskers
  <2> SUFFICES ASSUME UsersInv PROVE SessionsAreTheAskers
    OBVIOUS
  <2>1. ASSUME NEW a \in Agents, NEW s \in DOMAIN loggedInUsers[a] PROVE SessionOK(a, s)
    BY DEF UsersInv, Flow, SessionsOK
  <2>2. ASSUME NEW a \in Agents, NEW s \in DOMAIN Pgs[a] PROVE PgOK(a, s)
    BY DEF UsersInv, Flow, SessionsOK
  <2> QED BY <2>1, <2>2 DEF SessionsAreTheAskers, SessionOK, PgOK, OpenAt
<1> QED BY <1>1, UsersInvHolds, PTL

\* Then the ids of a session never come to mean another user than the one its connection
\* asked to log in as, whatever the administrator deletes and makes again meanwhile
\* (UserSchemaMgr::deleteuser, createuser, deletedomain, createdomain).
THEOREM SessionsNeverChangeUser ==
  ASSUME Patient = TRUE
  PROVE  Spec => []SessionsKeepTheirUser
<1>1. UsersInv => SessionsKeepTheirUser
  <2> SUFFICES ASSUME UsersInv PROVE SessionsKeepTheirUser
    OBVIOUS
  <2>1. ASSUME NEW a \in Agents, NEW s \in DOMAIN loggedInUsers[a] PROVE SessionOK(a, s)
    BY DEF UsersInv, Flow, SessionsOK
  <2> QED BY <2>1 DEF SessionsKeepTheirUser, SessionOK, Meant, HasUid
<1> QED BY <1>1, UsersInvHolds, PTL

-----------------------------------------------------------------------------
(* What holds whatever the clients do: they may hang up at any time, and the *)
(* number of a closed socket may be given away while a login of it is        *)
(* unanswered.                                                               *)

\* The ids were given to a user once, and if there still is such a user he is that one.
Given(who) == \E d, u : Meant(who.domainid, who.userid, d, u)

\* Every identity that an agent keeps, and every one that is on its way to it.
IdentitiesGiven ==
  /\ DOMAIN Pgs = Agents
  /\ \A a \in Agents :
       /\ \A s \in DOMAIN loggedInUsers[a] : Given(loggedInUsers[a][s])
       /\ \A s \in DOMAIN Pgs[a] : /\ DOMAIN Pgs[a][s] = {"state", "domainid", "userid"}
                                   /\ Pgs[a][s].state = "ESTABLISHED" => Given(Pgs[a][s])
       /\ \A i \in DOMAIN mbox[a] :
            mbox[a][i].cmd \in {"login", "pglogin"} /\ mbox[a][i].ok => Given(mbox[a][i])

\* What was given stays given.
LEMMA GivenStays ==
  ASSUME Stays, NEW who, Given(who)
  PROVE  \E d, u : Meant(who.domainid, who.userid, d, u)'
<1>1. PICK d, u, did, uid : /\ did = who.domainid /\ uid = who.userid /\ Meant(did, uid, d, u)
  BY DEF Given
<1>2. Meant(did, uid, d, u)'
  BY <1>1 DEF Stays
<1> QED BY <1>1, <1>2

\* The messages, sessions and Pg objects of a step are old ones, or hold what was given.
LEMMA OldOrGiven ==
  ASSUME IdentitiesGiven, Stays, DOMAIN Pgs' = Agents,
         \A a \in Agents : \A s \in DOMAIN loggedInUsers'[a] :
           \/ s \in DOMAIN loggedInUsers[a] /\ loggedInUsers'[a][s] = loggedInUsers[a][s]
           \/ Given(loggedInUsers'[a][s]),
         \A a \in Agents : \A s \in DOMAIN Pgs'[a] :
           /\ DOMAIN Pgs'[a][s] = {"state", "domainid", "userid"}
           /\ \/ s \in DOMAIN Pgs[a] /\ Pgs'[a][s] = Pgs[a][s]
              \/ Pgs'[a][s].state # "ESTABLISHED"
              \/ Given(Pgs'[a][s]),
         \A a \in Agents : \A i \in DOMAIN mbox'[a] :
           \/ \E j \in DOMAIN mbox[a] : mbox'[a][i] = mbox[a][j]
           \/ mbox'[a][i].cmd \in {"login", "pglogin"} /\ mbox'[a][i].ok => Given(mbox'[a][i])
  PROVE  IdentitiesGiven'
<1>1. ASSUME NEW a \in Agents, NEW s \in DOMAIN loggedInUsers'[a] PROVE Given(loggedInUsers[a][s])'
  <2>1. PICK who : who = loggedInUsers'[a][s] /\ Given(who)
    BY DEF IdentitiesGiven
  <2>2. \E d, u : Meant(who.domainid, who.userid, d, u)'
    BY <2>1, GivenStays
  <2>3. PICK d, u, did, uid : /\ did = who.domainid /\ uid = who.userid
                              /\ Meant(did, uid, d, u)'
    BY <2>2
  <2>4. did = loggedInUsers'[a][s].domainid /\ uid = loggedInUsers'[a][s].userid
    BY <2>1, <2>3
  <2>5. Meant(loggedInUsers[a][s].domainid, loggedInUsers[a][s].userid, d, u)'
    BY <2>3, <2>4 DEF Meant
  <2> QED BY <2>5 DEF Given
<1>2. ASSUME NEW a \in Agents, NEW s \in DOMAIN Pgs'[a], Pgs'[a][s].state = "ESTABLISHED"
      PROVE  Given(Pgs[a][s])'
  <2>1. PICK who : who = Pgs'[a][s] /\ Given(who)
    BY <1>2 DEF IdentitiesGiven
  <2>2. \E d, u : Meant(who.domainid, who.userid, d, u)'
    BY <2>1, GivenStays
  <2>3. PICK d, u, did, uid : /\ did = who.domainid /\ uid = who.userid
                              /\ Meant(did, uid, d, u)'
    BY <2>2
  <2>4. did = Pgs'[a][s].domainid /\ uid = Pgs'[a][s].userid
    BY <2>1, <2>3
  <2>5. Meant(Pgs[a][s].domainid, Pgs[a][s].userid, d, u)'
    BY <2>3, <2>4 DEF Meant
  <2> QED BY <2>5 DEF Given
<1>3. ASSUME NEW a \in Agents, NEW i \in DOMAIN mbox'[a],
             mbox'[a][i].cmd \in {"login", "pglogin"} /\ mbox'[a][i].ok
      PROVE  Given(mbox[a][i])'
  <2>1. PICK who : who = mbox'[a][i] /\ Given(who)
    BY <1>3 DEF IdentitiesGiven
  <2>2. \E d, u : Meant(who.domainid, who.userid, d, u)'
    BY <2>1, GivenStays
  <2>3. PICK d, u, did, uid : /\ did = who.domainid /\ uid = who.userid
                              /\ Meant(did, uid, d, u)'
    BY <2>2
  <2>4. did = mbox'[a][i].domainid /\ uid = mbox'[a][i].userid
    BY <2>1, <2>3
  <2>5. Meant(mbox[a][i].domainid, mbox[a][i].userid, d, u)'
    BY <2>3, <2>4 DEF Meant
  <2> QED BY <2>5 DEF Given
<1> QED BY <1>1, <1>2, <1>3 DEF IdentitiesGiven

\* The manager's answer to a login holds the ids of the user that was asked for.
LEMMA ManagerGives ==
  ASSUME Directory, Messages, IdentitiesGiven, UserSchemaMgr
  PROVE  IdentitiesGiven'
<1>1. PICK r, m : /\ r = Head(usmMbox) /\ IsRequest(r) /\ Answers(r, m)
                  /\ mbox' = [mbox EXCEPT ![r.agent] = Append(@, m)]
  BY ManagerStep
<1>2. Stays
  BY ManagerStep
<1>3. loggedInUsers' = loggedInUsers /\ Pgs' = Pgs
  BY DEF UserSchemaMgr, agentVars
<1>4. r.agent \in Agents /\ m \in Replies
  BY <1>1 DEF IsRequest, Answers
<1>5. m.cmd \in {"login", "pglogin"} /\ m.ok => Given(m)
  BY <1>1 DEF Answers, Given
<1>6. ASSUME NEW a \in Agents, NEW i \in DOMAIN mbox'[a]
      PROVE  \/ \E j \in DOMAIN mbox[a] : mbox'[a][i] = mbox[a][j]
             \/ mbox'[a][i] = m
  <2>1. mbox[a] \in Seq(Replies) /\ mbox'[a] = IF a = r.agent THEN Append(mbox[a], m) ELSE mbox[a]
    BY <1>1, <1>4 DEF Messages
  <2> QED BY <2>1, <1>4, AppendAt
<1> QED BY <1>2, <1>3, <1>5, <1>6, OldOrGiven DEF IdentitiesGiven

\* An agent takes an answer, whoever has its socket now.
LEMMA AgentTakesGiven ==
  ASSUME Directory, Messages, IdentitiesGiven, NEW a \in Agents, AgentReply(a), Stays
  PROVE  IdentitiesGiven'
<1>1. PICK m, s : m = Head(mbox[a]) /\ s = pendingOperations[a][m.operationid]
  OBVIOUS
<1>2. /\ \A b \in Agents : \A i \in DOMAIN mbox'[b] : \E j \in DOMAIN mbox[b] : mbox'[b][i] = mbox[b][j]
      /\ m.cmd \in {"login", "pglogin"} /\ m.ok => Given(m)
  <2>1. mbox[a] \in Seq(Replies) /\ mbox[a] # <<>> /\ mbox' = [mbox EXCEPT ![a] = Tail(@)]
    BY DEF Messages, AgentReply
  <2>2. /\ \A b \in Agents : mbox'[b] = IF b = a THEN Tail(mbox[a]) ELSE mbox[b]
    BY <2>1 DEF Messages
  <2>3. /\ 1 \in DOMAIN mbox[a] /\ m = mbox[a][1]
        /\ \A i \in DOMAIN Tail(mbox[a]) : i + 1 \in DOMAIN mbox[a] /\ Tail(mbox[a])[i] = mbox[a][i + 1]
    BY <2>1, <1>1, TailAt
  <2> QED BY <2>2, <2>3 DEF IdentitiesGiven
<1>3. DOMAIN loggedInUsers = Agents /\ DOMAIN Pgs = Agents
  BY DEF Messages, IdentitiesGiven
<1>4. CASE m.cmd = "login" /\ m.ok /\ LoginOk(a, s, m)
  <2>1. PICK who : /\ who = [domainid |-> m.domainid, userid |-> m.userid]
                   /\ loggedInUsers' = [loggedInUsers EXCEPT ![a] = With(@, s, who)] /\ Pgs' = Pgs
    BY <1>4 DEF LoginOk
  <2>2. Given(who)
    BY <2>1, <1>2, <1>4 DEF Given
  <2>3. \A b \in Agents : \A x \in DOMAIN loggedInUsers'[b] :
          \/ x \in DOMAIN loggedInUsers[b] /\ loggedInUsers'[b][x] = loggedInUsers[b][x]
          \/ loggedInUsers'[b][x] = who
    BY <2>1, <1>3 DEF With
  <2> QED BY <2>1, <2>2, <2>3, <1>2, <1>3, OldOrGiven DEF IdentitiesGiven
<1>5. CASE m.cmd = "login" /\ ~m.ok /\ LoginNotOk(a, s, m.operationid)
  <2>1. loggedInUsers' = [loggedInUsers EXCEPT ![a] = Without(@, s)] /\ Pgs' = Pgs
    BY <1>5 DEF LoginNotOk, endConnection
  <2>2. \A b \in Agents : \A x \in DOMAIN loggedInUsers'[b] :
          x \in DOMAIN loggedInUsers[b] /\ loggedInUsers'[b][x] = loggedInUsers[b][x]
    BY <2>1, <1>3 DEF Without, Restrict
  <2> QED BY <2>1, <2>2, <1>2, <1>3, OldOrGiven DEF IdentitiesGiven
<1>6. CASE m.cmd = "pglogin" /\ handleOperation(a, s, m)
  <2>1. /\ loggedInUsers' = loggedInUsers
        /\ \/ s \in DOMAIN Pgs[a] /\ m.ok
              /\ Pgs' = [Pgs EXCEPT ![a][s] = [state |-> "ESTABLISHED", domainid |-> m.domainid,
                                               userid |-> m.userid]]
           \/ Pgs' = Pgs
    BY <1>6 DEF handleOperation
  <2>2. CASE Pgs' = Pgs
    BY <2>1, <2>2, <1>2, <1>3, OldOrGiven DEF IdentitiesGiven
  <2>3. CASE s \in DOMAIN Pgs[a] /\ m.ok
             /\ Pgs' = [Pgs EXCEPT ![a][s] = [state |-> "ESTABLISHED", domainid |-> m.domainid,
                                              userid |-> m.userid]]
    <3>1. PICK who : /\ who = [state |-> "ESTABLISHED", domainid |-> m.domainid, userid |-> m.userid]
                     /\ Pgs' = [Pgs EXCEPT ![a][s] = who]
      BY <2>3
    <3>2. Given(who) /\ DOMAIN who = {"state", "domainid", "userid"}
      BY <3>1, <2>3, <1>2, <1>6 DEF Given
    <3>3. /\ DOMAIN Pgs' = Agents
          /\ \A b \in Agents : \A x \in DOMAIN Pgs'[b] :
               \/ x \in DOMAIN Pgs[b] /\ Pgs'[b][x] = Pgs[b][x]
               \/ Pgs'[b][x] = who
      BY <3>1, <1>3
    <3> QED BY <3>2, <3>3, <2>1, <1>2, OldOrGiven DEF IdentitiesGiven
  <2> QED BY <2>1, <2>2, <2>3
<1>7. CASE loggedInUsers' = loggedInUsers /\ Pgs' = Pgs
  BY <1>7, <1>2, <1>3, OldOrGiven DEF IdentitiesGiven
<1> QED BY <1>1, <1>4, <1>5, <1>6, <1>7 DEF AgentReply

\* A client makes no identity: it drops some, or opens a Pg object that is not logged in.
LEMMA ClientGivesNone ==
  ASSUME Directory, Messages, IdentitiesGiven, Client, Stays
  PROVE  IdentitiesGiven'
<1>1. DOMAIN loggedInUsers = Agents /\ DOMAIN Pgs = Agents
  BY DEF Messages, IdentitiesGiven
<1>2. ASSUME mbox' = mbox,
             \/ loggedInUsers' = loggedInUsers
             \/ \E a, s : loggedInUsers' = [loggedInUsers EXCEPT ![a] = Without(@, s)],
             \/ Pgs' = Pgs
             \/ \E a, s : Pgs' = [Pgs EXCEPT ![a] = Without(@, s)]
             \/ \E a \in Agents : \E s : Pgs' = [Pgs EXCEPT ![a] = With(@, s, NewPg)]
             \/ \E a \in Agents : \E s \in DOMAIN Pgs[a] : Pgs' = [Pgs EXCEPT ![a][s].state = "SENT"]
      PROVE  IdentitiesGiven'
  <2>1. \A b \in Agents : \A x \in DOMAIN loggedInUsers'[b] :
          x \in DOMAIN loggedInUsers[b] /\ loggedInUsers'[b][x] = loggedInUsers[b][x]
    <3>1. ASSUME NEW a, NEW s, loggedInUsers' = [loggedInUsers EXCEPT ![a] = Without(@, s)]
          PROVE  \A b \in Agents : \A x \in DOMAIN loggedInUsers'[b] :
                   x \in DOMAIN loggedInUsers[b] /\ loggedInUsers'[b][x] = loggedInUsers[b][x]
      BY <3>1, <1>1 DEF Without, Restrict
    <3>2. CASE loggedInUsers' = loggedInUsers
      BY <3>2
    <3> QED BY <3>1, <3>2, <1>2
  <2>2. /\ DOMAIN Pgs' = Agents
        /\ \A b \in Agents : \A x \in DOMAIN Pgs'[b] :
             /\ DOMAIN Pgs'[b][x] = {"state", "domainid", "userid"}
             /\ \/ x \in DOMAIN Pgs[b] /\ Pgs'[b][x] = Pgs[b][x]
                \/ Pgs'[b][x].state # "ESTABLISHED"
    <3>1. CASE Pgs' = Pgs
      BY <3>1, <1>1 DEF IdentitiesGiven
    <3>2. ASSUME NEW a, NEW s, Pgs' = [Pgs EXCEPT ![a] = Without(@, s)]
          PROVE  /\ DOMAIN Pgs' = Agents
                 /\ \A b \in Agents : \A x \in DOMAIN Pgs'[b] : x \in DOMAIN Pgs[b] /\ Pgs'[b][x] = Pgs[b][x]
      BY <3>2, <1>1 DEF Without, Restrict
    <3>3. ASSUME NEW a \in Agents, NEW s, Pgs' = [Pgs EXCEPT ![a] = With(@, s, NewPg)]
          PROVE  /\ DOMAIN Pgs' = Agents
                 /\ \A b \in Agents : \A x \in DOMAIN Pgs'[b] :
                      \/ x \in DOMAIN Pgs[b] /\ Pgs'[b][x] = Pgs[b][x]
                      \/ Pgs'[b][x] = NewPg
      BY <3>3, <1>1 DEF With
    <3>4. DOMAIN NewPg = {"state", "domainid", "userid"} /\ NewPg.state # "ESTABLISHED"
      BY DEF NewPg
    <3>5. ASSUME NEW a \in Agents, NEW s \in DOMAIN Pgs[a], Pgs' = [Pgs EXCEPT ![a][s].state = "SENT"]
          PROVE  /\ DOMAIN Pgs' = Agents
                 /\ \A b \in Agents : \A x \in DOMAIN Pgs'[b] :
                      /\ x \in DOMAIN Pgs[b]
                      /\ \/ Pgs'[b][x] = Pgs[b][x]
                         \/ DOMAIN Pgs'[b][x] = DOMAIN Pgs[b][x] /\ Pgs'[b][x].state = "SENT"
      BY <3>5, <1>1 DEF IdentitiesGiven
    <3>6. \A b \in Agents : \A x \in DOMAIN Pgs[b] : DOMAIN Pgs[b][x] = {"state", "domainid", "userid"}
      BY DEF IdentitiesGiven
    <3>7. CASE \E a, s : Pgs' = [Pgs EXCEPT ![a] = Without(@, s)]
      BY <3>7, <3>2, <3>6
    <3>8. CASE \E a \in Agents : \E s : Pgs' = [Pgs EXCEPT ![a] = With(@, s, NewPg)]
      <4>1. PICK a \in Agents : \E s : Pgs' = [Pgs EXCEPT ![a] = With(@, s, NewPg)]
        BY <3>8
      <4>2. PICK s, new : new = NewPg /\ Pgs' = [Pgs EXCEPT ![a] = With(@, s, NewPg)]
        BY <4>1
      <4>3. /\ DOMAIN Pgs' = Agents
            /\ \A b \in Agents : \A x \in DOMAIN Pgs'[b] :
                 \/ x \in DOMAIN Pgs[b] /\ Pgs'[b][x] = Pgs[b][x]
                 \/ Pgs'[b][x] = new
        BY <3>3, <4>2
      <4>4. DOMAIN new = {"state", "domainid", "userid"} /\ new.state # "ESTABLISHED"
        BY <3>4, <4>2
      <4> QED BY <4>3, <4>4, <3>6
    <3>9. CASE \E a \in Agents : \E s \in DOMAIN Pgs[a] : Pgs' = [Pgs EXCEPT ![a][s].state = "SENT"]
      <4>1. /\ DOMAIN Pgs' = Agents
            /\ \A b \in Agents : \A x \in DOMAIN Pgs'[b] :
                 /\ x \in DOMAIN Pgs[b]
                 /\ \/ Pgs'[b][x] = Pgs[b][x]
                    \/ DOMAIN Pgs'[b][x] = DOMAIN Pgs[b][x] /\ Pgs'[b][x].state = "SENT"
        BY <3>9, <3>5
      <4> QED BY <4>1, <3>6
    <3> QED BY <3>1, <3>7, <3>8, <3>9, <1>2
  <2> QED BY <2>1, <2>2, <1>2, OldOrGiven
<1>3. ASSUME NEW s, NEW a \in Agents, NEW l, Connect(s, a, l) PROVE IdentitiesGiven'
  BY <1>2, <1>3 DEF Connect
<1>4. ASSUME NEW s, HangUp(s) PROVE IdentitiesGiven'
  BY <1>2, <1>4 DEF HangUp, endConnection, closesocket
<1>5. ASSUME NEW s, logout(s) PROVE IdentitiesGiven'
  BY <1>2, <1>5 DEF logout, endConnection
<1>6. ASSUME NEW s, NEW args, LoginCommand(s, args) PROVE IdentitiesGiven'
  BY <1>2, <1>6 DEF LoginCommand
<1>7. ASSUME NEW s, NEW args, PgAuth(s, args) PROVE IdentitiesGiven'
  <2>1. conns[s].agent \in Agents
    BY <1>7 DEF PgAuth, Messages
  <2> QED BY <2>1, <1>2, <1>7 DEF PgAuth
<1>8. ASSUME NEW s, NEW cmd, NEW args, Builtin(s, cmd, args) PROVE IdentitiesGiven'
  BY <1>2, <1>8 DEF Builtin
<1> QED BY <1>3, <1>4, <1>5, <1>6, <1>7, <1>8
        DEF Client, ChangePassword, CreateDomain, CreateUser, DeleteUser, DeleteDomain

\* Ids that mean two names at once mean nobody, and never will.
Gone(did, uid) == \E d : Meant(did, uid, d, 0) /\ Meant(did, uid, d, 1)

\* The name of the user with these ids is u, in the domain with the name d.
IsUser(did, uid, d, u) ==
  /\ d \in DOMAIN domainNameToDomainId /\ domainNameToDomainId[d] = did
  /\ u \in DOMAIN accounts[did].names /\ accounts[did].names[u] = uid

\* Ids are given to no second user.
LEMMA IdsStand ==
  ASSUME Directory, NEW did, NEW uid
  PROVE  /\ \A d, u : IsUser(did, uid, d, u) => Meant(did, uid, d, u)
         /\ \A d, u : Meant(did, uid, d, u) /\ HasUid(did, uid) => IsUser(did, uid, d, u)
         /\ \A who : Given(who) /\ who.domainid = did /\ who.userid = uid /\ ~HasUid(did, uid)
                      => Gone(did, uid)
         /\ Gone(did, uid) => ~HasUid(did, uid)
<1>1. ASSUME NEW d, NEW u, IsUser(did, uid, d, u) PROVE Meant(did, uid, d, u)
  <2>1. did \in DOMAIN accounts /\ did \in Nat /\ did <= nextdomainid
    BY <1>1 DEF IsUser, Directory, IsMap, Range
  <2>2. AccountOK(accounts[did])
    BY <2>1 DEF Directory
  <2>3. uid \in Nat /\ uid <= accounts[did].next
    BY <2>2, <1>1 DEF IsUser, AccountOK, IsMap, Range
  <2> QED BY <2>1, <2>3, <1>1 DEF Meant, IsUser
<1>2. ASSUME NEW d, NEW u, Meant(did, uid, d, u), HasUid(did, uid) PROVE IsUser(did, uid, d, u)
  BY <1>2 DEF Meant, HasUid, IsUser
<1>3. ASSUME NEW who, Given(who), who.domainid = did, who.userid = uid, ~HasUid(did, uid)
      PROVE  Gone(did, uid)
  <2>1. PICK d, u : Meant(did, uid, d, u)
    BY <1>3 DEF Given
  <2>2. Meant(did, uid, d, 0) /\ Meant(did, uid, d, 1)
    BY <2>1, <1>3 DEF Meant, HasUid
  <2> QED BY <2>2 DEF Gone
<1>4. Gone(did, uid) => ~HasUid(did, uid)
  <2> SUFFICES ASSUME Gone(did, uid), HasUid(did, uid) PROVE FALSE
    OBVIOUS
  <2>1. PICK d : Meant(did, uid, d, 0) /\ Meant(did, uid, d, 1)
    BY DEF Gone
  <2>2. IsUser(did, uid, d, 0) /\ IsUser(did, uid, d, 1)
    BY <2>1, <1>2
  <2>3. AccountOK(accounts[did])
    BY DEF Directory, HasUid
  <2>4. 0 = 1
    BY <2>2, <2>3 DEF IsUser, AccountOK, IsInjective
  <2> QED BY <2>4
<1> QED BY <1>1, <1>2, <1>3, <1>4

\* Every step keeps all that, whoever hangs up when.
LEMMA IdentitiesStep ==
  ASSUME Directory, Messages, IdentitiesGiven, [Next]_vars
  PROVE  Directory' /\ Messages' /\ IdentitiesGiven' /\ Stays
<1>1. Directory' /\ Messages' /\ Stays
  BY DirectoryStep, MessagesStep
<1>2. CASE UNCHANGED vars
  BY <1>1, <1>2, OldOrGiven DEF vars, agentVars, IdentitiesGiven
<1>3. CASE UserSchemaMgr
  BY <1>1, <1>3, ManagerGives
<1>4. CASE Client
  BY <1>1, <1>4, ClientGivesNone
<1>5. CASE \E a \in Agents : AgentReply(a)
  BY <1>1, <1>5, AgentTakesGiven
<1> QED BY <1>1, <1>2, <1>3, <1>4, <1>5 DEF Next

\* Agent a keeps these ids for socket s, as the session of a raw connection or in a Pg object.
Keeps(a, s, did, uid) ==
  \/ s \in DOMAIN loggedInUsers[a] /\ loggedInUsers[a][s] = [domainid |-> did, userid |-> uid]
  \/ /\ s \in DOMAIN Pgs[a]
     /\ Pgs[a][s] = [state |-> "ESTABLISHED", domainid |-> did, userid |-> uid]

\* Whatever the clients do and whatever the administrator deletes and makes again: a session
\* whose user is gone (UserSchemaMgr::deleteuser, deletedomain) never comes to stand for
\* another one, for createuser and createdomain draw its ids no more; and while there is a
\* user with these ids he is the same user of the same domain.  That goes for the session
\* of a socket number that a late answer has reached after its connection ended
\* (TransactionAgent::handle), too.
THEOREM SessionsTakeNoNewUser ==
  ASSUME NEW a \in Agents, NEW s, NEW did, NEW uid, NEW d, NEW u
  PROVE  Spec => /\ [](Keeps(a, s, did, uid) /\ ~HasUid(did, uid) => []~HasUid(did, uid))
                 /\ [](IsUser(did, uid, d, u) => [](HasUid(did, uid) => IsUser(did, uid, d, u)))
<1> DEFINE Inv == Directory /\ Messages /\ IdentitiesGiven
<1>1. Init => Inv
  <2> SUFFICES ASSUME Init PROVE Inv
    OBVIOUS
  <2>1. Directory /\ Messages
    BY InitDirectory
  <2>2. /\ mbox = [x \in Agents |-> <<>>]
        /\ loggedInUsers = [x \in Agents |-> Nothing] /\ Pgs = [x \in Agents |-> Nothing]
    BY DEF Init
  <2>3. DOMAIN Nothing = {}
    BY DEF Nothing
  <2>4. IdentitiesGiven
    BY <2>2, <2>3 DEF IdentitiesGiven
  <2> QED BY <2>1, <2>4
<1>2. Inv /\ [Next]_vars => Inv'
  BY IdentitiesStep
<1>3. Inv /\ Gone(did, uid) /\ [Next]_vars => Gone(did, uid)'
  <2> SUFFICES ASSUME Inv, Gone(did, uid), [Next]_vars PROVE Gone(did, uid)'
    OBVIOUS
  <2>1. PICK x : Meant(did, uid, x, 0) /\ Meant(did, uid, x, 1)
    BY DEF Gone
  <2>2. Meant(did, uid, x, 0)' /\ Meant(did, uid, x, 1)'
    BY <2>1, IdentitiesStep DEF Stays
  <2> QED BY <2>2 DEF Gone
<1>4. Inv /\ Meant(did, uid, d, u) /\ [Next]_vars => Meant(did, uid, d, u)'
  BY IdentitiesStep DEF Stays
<1>5. Inv /\ Keeps(a, s, did, uid) /\ ~HasUid(did, uid) => Gone(did, uid)
  <2> SUFFICES ASSUME Inv, Keeps(a, s, did, uid), ~HasUid(did, uid) PROVE Gone(did, uid)
    OBVIOUS
  <2>1. PICK who : Given(who) /\ who.domainid = did /\ who.userid = uid
    BY DEF Keeps, IdentitiesGiven
  <2> QED BY <2>1, IdsStand
<1>6. Inv => (Gone(did, uid) => ~HasUid(did, uid))
  BY IdsStand
<1>7. Inv => (IsUser(did, uid, d, u) => Meant(did, uid, d, u))
  BY IdsStand
<1>8. Inv => (Meant(did, uid, d, u) /\ HasUid(did, uid) => IsUser(did, uid, d, u))
  BY IdsStand
<1> HIDE DEF Inv
<1> QED BY <1>1, <1>2, <1>3, <1>4, <1>5, <1>6, <1>7, <1>8, PTL DEF Spec
=============================================================================
