------------------------- MODULE ReplicationProofs -------------------------
(***************************************************************************)
(* Proofs about Replication: a transaction is committed only when its      *)
(* changes have reached every replica Transaction::commit sends them to,   *)
(* and a replica that has applied all it was sent has every inserted row,  *)
(* in whatever order the changes arrived.                                  *)
(***************************************************************************)
EXTENDS Replication, TLAPS, FiniteSetTheorems, WellFoundedInduction

\* The replica that Transaction::commit leaves out when there are more than two.
LeftOut == IF NumReplicas > 2 THEN {1} ELSE {}

\* Replica r has got the changes of t, if it is up.
Got(t, r) == up[r] => \E a \in DOMAIN appliers[r] : a[1] = t

Out(t)    == {d \in dispatches : d.txn = t}
AcksOf(t) == {k \in acks : k.txn = t}

Shape ==
  /\ DOMAIN txn = Txns
  /\ \A t \in Txns : /\ DOMAIN txn[t] = {"phase", "staged", "wait", "subs"}
                     /\ txn[t].phase \in {"running", "dispatching", "committed"}
                     /\ txn[t].wait \in Nat
  /\ DOMAIN appliers = Replicas /\ DOMAIN up = Replicas
  /\ IsFiniteSet(dispatches) /\ IsFiniteSet(acks)
  /\ \A d \in dispatches : d.to \in Replicas

\* partitioncount starts at 0 and is only counted down.
CountsDown == \A r \in Replicas : \A a \in DOMAIN appliers[r] : appliers[r][a] \in Int /\ appliers[r][a] <= 0

\* The messages a transaction waits for: there are no more of them on their way than it
\* has still to count.
Counted(t) ==
  /\ txn[t].phase = "running" => Out(t) = {} /\ AcksOf(t) = {}
  /\ txn[t].phase = "dispatching" => Cardinality(Out(t)) + Cardinality(AcksOf(t)) <= txn[t].wait
  /\ txn[t].phase = "committed" => Out(t) = {}

\* Where a commit has sent the changes, they are on their way or have arrived.
Covered(t) ==
  txn[t].phase # "running" /\ txn[t].staged # Nothing =>
    \A r \in Replicas \ LeftOut : (\E d \in dispatches : d.txn = t /\ d.to = r) \/ Got(t, r)

RInv == Shape /\ CountsDown /\ \A t \in Txns : Counted(t) /\ Covered(t)

\* What has arrived stays.
GotStays == \A t, r : r \in Replicas /\ Got(t, r) => Got(t, r)'

\* The messages on their way are finitely many.
LEMMA FewMessages ==
  ASSUME Shape, NEW t
  PROVE  /\ IsFiniteSet(Out(t)) /\ Cardinality(Out(t)) \in Nat
         /\ IsFiniteSet(AcksOf(t)) /\ Cardinality(AcksOf(t)) \in Nat
<1>1. Out(t) \subseteq dispatches /\ AcksOf(t) \subseteq acks
  BY DEF Out, AcksOf
<1> QED BY <1>1, FS_Subset, FS_CardinalityType DEF Shape

\* A step that sends and takes no message and moves no transaction on.
LEMMA NothingSent ==
  ASSUME RInv, Shape', CountsDown', GotStays, dispatches' = dispatches, acks' = acks,
         \A t \in Txns : /\ txn'[t].phase = txn[t].phase /\ txn'[t].wait = txn[t].wait
                         /\ txn[t].phase # "running" => txn'[t].staged = txn[t].staged
  PROVE  RInv'
<1>1. ASSUME NEW t \in Txns PROVE Counted(t)'
  BY DEF RInv, Counted, Out, AcksOf
<1>2. ASSUME NEW t \in Txns PROVE Covered(t)'
  <2>1. Covered(t)
    BY DEF RInv
  <2> SUFFICES ASSUME txn[t].phase # "running", txn[t].staged # Nothing, NEW r \in Replicas \ LeftOut
               PROVE  (\E d \in dispatches : d.txn = t /\ d.to = r) \/ Got(t, r)'
    BY DEF Covered
  <2> QED BY <2>1 DEF Covered, GotStays
<1> QED BY <1>1, <1>2 DEF RInv

\* A statement.
LEMMA StageKeeps ==
  ASSUME RInv, NEW t \in Txns, NEW u, NEW change, Stage(t, u, change)
  PROVE  RInv'
<1>1. /\ txn[t].phase = "running"
      /\ \E sub : txn' = [txn EXCEPT ![t].staged = With(@, u, change), ![t].subs[u[1]] = sub]
      /\ dispatches' = dispatches /\ acks' = acks /\ appliers' = appliers /\ up' = up
  BY DEF Stage, replicaVars
<1>2. Shape /\ CountsDown
  BY DEF RInv
<1>3. PICK sub : txn' = [txn EXCEPT ![t].staged = With(@, u, change), ![t].subs[u[1]] = sub]
  BY <1>1
<1>4. /\ DOMAIN txn' = Txns
      /\ \A s \in Txns : /\ DOMAIN txn'[s] = DOMAIN txn[s] /\ txn'[s].phase = txn[s].phase
                         /\ txn'[s].wait = txn[s].wait
                         /\ s # t => txn'[s] = txn[s]
  BY <1>2, <1>3 DEF Shape
<1>5. Shape' /\ CountsDown'
  BY <1>1, <1>2, <1>4 DEF Shape, CountsDown
<1>6. GotStays
  BY <1>1 DEF GotStays, Got
<1>7. \A s \in Txns : /\ txn'[s].phase = txn[s].phase /\ txn'[s].wait = txn[s].wait
                      /\ txn[s].phase # "running" => txn'[s].staged = txn[s].staged
  BY <1>1, <1>4
<1> QED BY <1>1, <1>5, <1>6, <1>7, NothingSent

\* What a replica's Engines do, and their answers.
LEMMA ReplicaKeeps ==
  ASSUME RInv, NEW r \in Replicas, ReplicaNext(r)
  PROVE  RInv'
<1>1. Shape /\ CountsDown
  BY DEF RInv
<1>2. CASE \E msg \in applies[r] : Apply(r, msg)
  <2>1. /\ dispatches' = dispatches /\ acks' = acks /\ appliers' = appliers /\ txn' = txn
        /\ up' = up \/ up' = [up EXCEPT ![r] = FALSE]
    BY <1>2 DEF Apply
  <2>2. Shape' /\ CountsDown'
    BY <2>1, <1>1 DEF Shape, CountsDown
  <2>3. GotStays
    BY <2>1, <1>1 DEF GotStays, Got, Shape
  <2> QED BY <2>1, <2>2, <2>3, NothingSent
<1>3. CASE \E ack \in ackapplies[r] : AckApply(r, ack)
  <2>1. PICK a : /\ dispatches' = dispatches /\ acks' = acks /\ up' = up /\ txn' = txn
                 /\ \/ appliers' = appliers
                    \/ a \in DOMAIN appliers[r] /\ appliers' = [appliers EXCEPT ![r][a] = @ - 1]
                    \/ a \in DOMAIN appliers[r] /\ ~ApplierStays(appliers[r][a])
    BY <1>3 DEF AckApply
  <2>2. a \in DOMAIN appliers[r] => ApplierStays(appliers[r][a])
    BY <1>1 DEF CountsDown, ApplierStays
  <2>3. /\ DOMAIN appliers' = Replicas
        /\ \A s \in Replicas : DOMAIN appliers'[s] = DOMAIN appliers[s]
        /\ \A s \in Replicas : \A x \in DOMAIN appliers[s] :
             appliers'[s][x] = appliers[s][x] \/ appliers'[s][x] = appliers[s][x] - 1
    BY <2>1, <2>2, <1>1 DEF Shape
  <2>4. Shape' /\ CountsDown'
    BY <2>1, <2>3, <1>1 DEF Shape, CountsDown
  <2>5. GotStays
    BY <2>1, <2>3 DEF GotStays, Got
  <2> QED BY <2>1, <2>4, <2>5, NothingSent
<1> QED BY <1>2, <1>3 DEF ReplicaNext

\* Transaction::commit sends no more messages than it waits for, and one to every replica
\* but the one it leaves out.
LEMMA SentMessages ==
  ASSUME NEW t, NumReplicas > 1
  PROVE  /\ IsFiniteSet(DispatchesOf(t)) /\ Cardinality(DispatchesOf(t)) <= WaitForDispatched
         /\ WaitForDispatched \in Nat
         /\ \A d \in DispatchesOf(t) : d.txn = t /\ d.to \in Replicas
         /\ txn[t].staged # Nothing =>
              \A r \in Replicas \ LeftOut : \E d \in DispatchesOf(t) : d.to = r
<1> DEFINE D == DispatchesOf(t)
           W == NumReplicas - 1
           f == [d \in D |-> IF d.copy = 2 THEN W ELSE d.to - 1 + (IF NumReplicas = 2 THEN 1 ELSE 0)]
<1>1. NumReplicas \in Nat /\ W \in Nat /\ W >= 1 /\ WaitForDispatched = W
  BY ReplicationAssumption DEF WaitForDispatched
<1>2. ASSUME NEW d \in D
      PROVE  /\ d.txn = t /\ d.to \in Replicas
             /\ d = Dispatch(t, d.to, d.copy)
             /\ \/ NumReplicas = 2 /\ d.to = 1 /\ d.copy = 1
                \/ NumReplicas > 2 /\ d.copy = 1 /\ d.to # 1
                \/ NumReplicas > 2 /\ d.copy = 2 /\ d.to = NumReplicas - 1
  <2>1. CASE d = Dispatch(t, 1, 1) /\ NumReplicas = 2
    BY <2>1, <1>1 DEF Dispatch, Replicas
  <2>2. CASE d = Dispatch(t, NumReplicas - 1, 2) /\ NumReplicas > 2
    BY <2>2, <1>1 DEF Dispatch, Replicas
  <2>3. CASE NumReplicas > 2 /\ \E r \in Replicas \ {1} : d = Dispatch(t, r, 1)
    BY <2>3, <1>1 DEF Dispatch, Replicas
  <2> QED BY <1>1, <1>2, <2>1, <2>2, <2>3 DEF DispatchesOf
<1>3. f \in Injection(D, 1 .. W)
  <2>1. ASSUME NEW d \in D PROVE f[d] \in 1 .. W
    BY <1>1, <1>2 DEF Replicas
  <2>2. ASSUME NEW d \in D, NEW e \in D, f[d] = f[e] PROVE d = e
    <3>1. d.to = e.to /\ d.copy = e.copy
      BY <1>1, <1>2, <2>2 DEF Replicas
    <3> QED BY <3>1, <1>2
  <2> HIDE DEF f, D
  <2>3. f \in [D -> 1 .. W]
    BY <2>1 DEF f
  <2> QED BY <2>2, <2>3 DEF Injection, IsInjective
<1>4. IsFiniteSet(1 .. W) /\ Cardinality(1 .. W) = W
  BY <1>1, FS_Interval
<1>5. IsFiniteSet(D) /\ Cardinality(D) <= W
  BY <1>3, <1>4, FS_Injection
<1>6. ASSUME txn[t].staged # Nothing, NEW r \in Replicas \ LeftOut
      PROVE  \E d \in D : d.to = r
  <2>1. Dispatch(t, r, 1) \in D
    BY <1>1, <1>6 DEF DispatchesOf, LeftOut, Replicas
  <2> QED BY <2>1 DEF Dispatch
<1> QED BY <1>1, <1>2, <1>5, <1>6

\* The other transactions, when a step concerns the messages of one.
LEMMA OthersKept ==
  ASSUME RInv, GotStays, NEW t, NEW s \in Txns, s # t, txn'[s] = txn[s],
         \A d : d.txn = s => (d \in dispatches' <=> d \in dispatches),
         \A k : k.txn = s => (k \in acks' <=> k \in acks)
  PROVE  Counted(s)' /\ Covered(s)'
<1>1. Out(s)' = Out(s) /\ AcksOf(s)' = AcksOf(s)
  BY DEF Out, AcksOf
<1>2. Counted(s)'
  BY <1>1 DEF RInv, Counted
<1>3. Covered(s)'
  <2>1. Covered(s)
    BY DEF RInv
  <2> SUFFICES ASSUME txn[s].phase # "running", txn[s].staged # Nothing, NEW r \in Replicas \ LeftOut
               PROVE  (\E d \in dispatches' : d.txn = s /\ d.to = r) \/ Got(s, r)'
    BY DEF Covered
  <2>2. (\E d \in dispatches : d.txn = s /\ d.to = r) \/ Got(s, r)
    BY <2>1 DEF Covered
  <2> QED BY <2>2 DEF GotStays
<1> QED BY <1>2, <1>3

\* Transaction::commit.
LEMMA CommitKeeps ==
  ASSUME RInv, NEW t \in Txns, Commit(t)
  PROVE  RInv'
<1>1. /\ txn[t].phase = "running" /\ dispatches' = dispatches \cup DispatchesOf(t)
      /\ acks' = acks /\ appliers' = appliers /\ up' = up
      /\ \/ NumReplicas = 1 /\ txn' = [txn EXCEPT ![t].phase = "committed"]
         \/ /\ NumReplicas # 1
            /\ txn' = [txn EXCEPT ![t].phase = "dispatching", ![t].wait = WaitForDispatched]
  BY DEF Commit, replicaVars
<1>2. Shape /\ CountsDown /\ Counted(t)
  BY DEF RInv
<1>3. Out(t) = {} /\ AcksOf(t) = {}
  BY <1>1, <1>2 DEF Counted
<1>4. GotStays
  BY <1>1 DEF GotStays, Got
<1>5. NumReplicas \in Nat \ {0}
  BY ReplicationAssumption
<1>6. \A d \in DispatchesOf(t) : d.txn = t
  BY <1>5 DEF DispatchesOf, Dispatch
<1>7. CountsDown'
  BY <1>1, <1>2 DEF CountsDown
<1>8. CASE NumReplicas = 1
  <2>1. DispatchesOf(t) = {} /\ Replicas = {}
    BY <1>8 DEF DispatchesOf, Replicas
  <2>2. dispatches' = dispatches /\ txn' = [txn EXCEPT ![t].phase = "committed"]
    BY <1>1, <1>8, <2>1
  <2>3. /\ DOMAIN txn' = Txns /\ txn'[t].phase = "committed" /\ DOMAIN txn'[t] = DOMAIN txn[t]
        /\ txn'[t].wait = txn[t].wait
        /\ \A s \in Txns : s # t => txn'[s] = txn[s]
    BY <2>2, <1>2 DEF Shape
  <2>4. Shape'
    BY <2>2, <2>3, <1>1, <1>2 DEF Shape
  <2>5. Counted(t)' /\ Covered(t)'
    BY <2>1, <2>2, <2>3, <1>3 DEF Counted, Covered, Out
  <2>6. ASSUME NEW s \in Txns, s # t PROVE Counted(s)' /\ Covered(s)'
    BY <2>2, <2>3, <2>6, <1>1, <1>4, OthersKept
  <2> QED BY <2>4, <2>5, <2>6, <1>7 DEF RInv
<1>9. CASE NumReplicas > 1
  <2>1. txn' = [txn EXCEPT ![t].phase = "dispatching", ![t].wait = WaitForDispatched]
    BY <1>1, <1>9
  <2>2. /\ IsFiniteSet(DispatchesOf(t)) /\ Cardinality(DispatchesOf(t)) <= WaitForDispatched
        /\ WaitForDispatched \in Nat
        /\ \A d \in DispatchesOf(t) : d.txn = t /\ d.to \in Replicas
        /\ txn[t].staged # Nothing =>
             \A r \in Replicas \ LeftOut : \E d \in DispatchesOf(t) : d.to = r
    BY <1>9, SentMessages
  <2>3. /\ DOMAIN txn' = Txns /\ txn'[t].phase = "dispatching" /\ DOMAIN txn'[t] = DOMAIN txn[t]
        /\ txn'[t].wait = WaitForDispatched /\ txn'[t].staged = txn[t].staged
        /\ \A s \in Txns : s # t => txn'[s] = txn[s]
    BY <2>1, <1>2 DEF Shape
  <2>4. IsFiniteSet(dispatches')
    BY <2>2, <1>1, <1>2, FS_Union DEF Shape
  <2>5. Shape'
    BY <2>2, <2>3, <2>4, <1>1, <1>2 DEF Shape
  <2>6. Out(t)' = DispatchesOf(t) /\ AcksOf(t)' = {}
    BY <1>1, <1>3, <1>6 DEF Out, AcksOf
  <2>7. Counted(t)'
    <3>1. Cardinality({}) = 0 /\ Cardinality(DispatchesOf(t)) \in Nat
      BY <2>2, FS_EmptySet, FS_CardinalityType
    <3> QED BY <3>1, <2>2, <2>3, <2>6 DEF Counted
  <2>8. Covered(t)'
    BY <2>2, <2>3, <1>1 DEF Covered
  <2>9. ASSUME NEW s \in Txns, s # t PROVE Counted(s)' /\ Covered(s)'
    BY <2>3, <2>9, <1>1, <1>4, <1>6, OthersKept
  <2> QED BY <2>5, <2>7, <2>8, <2>9, <1>7 DEF RInv
<1> QED BY <1>5, <1>8, <1>9

\* A replica answers a commit.
LEMMA AckDispatchKeeps ==
  ASSUME RInv, NEW ack \in acks, AckDispatch(ack)
  PROVE  RInv'
<1>1. PICK t : t = ack.txn
  OBVIOUS
<1>2. /\ acks' = acks \ {ack} /\ dispatches' = dispatches /\ appliers' = appliers /\ up' = up
      /\ \/ txn[t].phase = "committed" /\ txn' = txn
         \/ txn[t].phase # "committed" /\ txn[t].wait > 1 /\ txn' = [txn EXCEPT ![t].wait = @ - 1]
         \/ /\ txn[t].phase # "committed" /\ ~(txn[t].wait > 1)
            /\ txn' = [txn EXCEPT ![t].phase = "committed", ![t].wait = 0]
  BY <1>1 DEF AckDispatch, replicaVars
<1>3. Shape /\ CountsDown /\ IsFiniteSet(acks')
  BY <1>2, FS_RemoveElement DEF RInv, Shape
<1>4. GotStays /\ CountsDown'
  BY <1>2, <1>3 DEF GotStays, Got, CountsDown
<1>5. /\ DOMAIN txn' = Txns /\ \A s \in Txns : s # t => txn'[s] = txn[s]
      /\ t \in Txns =>
           /\ DOMAIN txn'[t] = DOMAIN txn[t] /\ txn'[t].staged = txn[t].staged
           /\ \/ txn[t].phase = "committed" /\ txn'[t] = txn[t]
              \/ /\ txn[t].phase # "committed" /\ txn'[t].phase = txn[t].phase
                 /\ txn[t].wait > 1 /\ txn'[t].wait = txn[t].wait - 1
              \/ /\ txn[t].phase # "committed" /\ ~(txn[t].wait > 1)
                 /\ txn'[t].phase = "committed" /\ txn'[t].wait = 0
  BY <1>2, <1>3 DEF Shape
<1>6. Shape'
  <2>1. ASSUME NEW s \in Txns
        PROVE  /\ DOMAIN txn'[s] = {"phase", "staged", "wait", "subs"}
               /\ txn'[s].phase \in {"running", "dispatching", "committed"}
               /\ txn'[s].wait \in Nat
    BY <1>3, <1>5 DEF Shape
  <2> QED BY <2>1, <1>2, <1>3, <1>5 DEF Shape
<1>7. ASSUME NEW s \in Txns, s # t PROVE Counted(s)' /\ Covered(s)'
  <2>1. txn'[s] = txn[s]
    BY <1>5, <1>7
  <2>2. /\ \A d : d.txn = s => (d \in dispatches' <=> d \in dispatches)
        /\ \A k : k.txn = s => (k \in acks' <=> k \in acks)
    BY <1>1, <1>2, <1>7
  <2> QED BY <2>1, <2>2, <1>4, <1>7, OthersKept
<1>8. ASSUME t \in Txns PROVE Counted(t)' /\ Covered(t)'
  <2>1. Counted(t) /\ Covered(t) /\ txn[t].phase \in {"running", "dispatching", "committed"} /\ txn[t].wait \in Nat
    BY <1>3, <1>8 DEF RInv, Shape
  <2>2. ack \in AcksOf(t) /\ AcksOf(t)' = AcksOf(t) \ {ack} /\ Out(t)' = Out(t)
    BY <1>1, <1>2 DEF AcksOf, Out
  <2>3. txn[t].phase # "running"
    BY <2>1, <2>2 DEF Counted
  <2>4. /\ IsFiniteSet(Out(t)) /\ Cardinality(Out(t)) \in Nat
        /\ IsFiniteSet(AcksOf(t)) /\ Cardinality(AcksOf(t)) \in Nat
    BY <1>3, FewMessages
  <2>5. Cardinality(AcksOf(t) \ {ack}) = Cardinality(AcksOf(t)) - 1 /\ Cardinality(AcksOf(t)) >= 1
    <3>1. Cardinality(AcksOf(t) \ {ack}) = Cardinality(AcksOf(t)) - 1
      BY <2>2, <2>4, FS_RemoveElement
    <3>2. Cardinality(AcksOf(t)) # 0
      BY <2>2, <2>4, FS_EmptySet
    <3> QED BY <3>1, <3>2, <2>4
  <2>6. txn[t].phase = "dispatching" /\ ~(txn[t].wait > 1) => Out(t) = {}
    <3>1. txn[t].phase = "dispatching" /\ ~(txn[t].wait > 1) => Cardinality(Out(t)) = 0
      BY <2>1, <2>4, <2>5 DEF Counted
    <3> QED BY <3>1, <2>4, FS_EmptySet
  <2>7. Counted(t)'
    BY <2>1, <2>2, <2>3, <2>4, <2>5, <2>6, <1>5, <1>8 DEF Counted
  <2>8. Covered(t)'
    BY <2>1, <2>3, <1>2, <1>5, <1>8 DEF Covered, Got
  <2> QED BY <2>7, <2>8
<1> QED BY <1>4, <1>6, <1>7, <1>8 DEF RInv

\* A replica takes the changes of a transaction, or dies of them.
LEMMA HandleDispatchKeeps ==
  ASSUME RInv, NEW d \in dispatches, HandleDispatch(d) \/ HandleDispatchDies(d)
  PROVE  RInv'
<1>1. PICK t, r, k : t = d.txn /\ r = d.to /\ k = [txn |-> d.txn, from |-> r, copy |-> d.copy]
  OBVIOUS
<1>2. /\ dispatches' = dispatches \ {d} /\ txn' = txn
      /\ acks' = acks \/ acks' = acks \cup {k}
      /\ \/ appliers' = [appliers EXCEPT ![r] = With(@, <<d.txn, d.copy>>, 0)] /\ up' = up
         \/ appliers' = appliers /\ up' = [up EXCEPT ![r] = FALSE]
  BY <1>1 DEF HandleDispatch, HandleDispatchDies
<1>3. Shape /\ CountsDown /\ r \in Replicas /\ k.txn = t
  BY <1>1 DEF RInv, Shape
<1>4. /\ DOMAIN appliers' = Replicas /\ DOMAIN up' = Replicas
      /\ \A s \in Replicas : /\ DOMAIN appliers[s] \subseteq DOMAIN appliers'[s] /\ (up'[s] => up[s])
                             /\ \A a \in DOMAIN appliers'[s] :
                                  \/ a \in DOMAIN appliers[s] /\ appliers'[s][a] = appliers[s][a]
                                  \/ appliers'[s][a] = 0
      /\ up'[r] => <<d.txn, d.copy>> \in DOMAIN appliers'[r]
  BY <1>2, <1>3 DEF Shape, With
<1>5. CountsDown'
  BY <1>3, <1>4 DEF CountsDown
<1>6. GotStays
  BY <1>4 DEF GotStays, Got
<1>7. Got(t, r)'
  BY <1>1, <1>4 DEF Got
<1>8. IsFiniteSet(dispatches') /\ IsFiniteSet(acks')
  <2>1. IsFiniteSet(dispatches \ {d}) /\ IsFiniteSet(acks \cup {k})
    BY <1>3, FS_RemoveElement, FS_AddElement DEF Shape
  <2> QED BY <2>1, <1>2, <1>3 DEF Shape
<1>9. Shape'
  BY <1>2, <1>3, <1>4, <1>8 DEF Shape
<1>10. ASSUME NEW s \in Txns, s # t PROVE Counted(s)' /\ Covered(s)'
  BY <1>1, <1>2, <1>3, <1>6, <1>10, OthersKept
<1>11. ASSUME t \in Txns PROVE Counted(t)' /\ Covered(t)'
  <2>1. Counted(t) /\ Covered(t) /\ txn[t].wait \in Nat
    BY <1>3, <1>11 DEF RInv, Shape
  <2>2. d \in Out(t) /\ Out(t)' = Out(t) \ {d}
    BY <1>1, <1>2 DEF Out
  <2>3. AcksOf(t)' = AcksOf(t) \/ AcksOf(t)' = AcksOf(t) \cup {k}
    BY <1>2, <1>3 DEF AcksOf
  <2>4. /\ IsFiniteSet(Out(t)) /\ Cardinality(Out(t)) \in Nat
        /\ IsFiniteSet(AcksOf(t)) /\ Cardinality(AcksOf(t)) \in Nat
    BY <1>3, FewMessages
  <2>5. Cardinality(Out(t) \ {d}) = Cardinality(Out(t)) - 1
    BY <2>2, <2>4, FS_RemoveElement
  <2>6. Cardinality(AcksOf(t) \cup {k}) \in {Cardinality(AcksOf(t)), Cardinality(AcksOf(t)) + 1}
    BY <2>4, FS_AddElement
  <2>7. Counted(t)'
    <3>1. txn[t].phase # "running" /\ txn[t].phase # "committed"
      BY <2>1, <2>2 DEF Counted
    <3>2. Cardinality(Out(t)') = Cardinality(Out(t)) - 1
      BY <2>2, <2>5
    <3>3. Cardinality(AcksOf(t)') \in {Cardinality(AcksOf(t)), Cardinality(AcksOf(t)) + 1}
      BY <2>3, <2>6
    <3>4. Cardinality(Out(t)) + Cardinality(AcksOf(t)) <= txn[t].wait \/ txn[t].phase # "dispatching"
      BY <2>1 DEF Counted
    <3>5. Cardinality(Out(t)') + Cardinality(AcksOf(t)') <= txn[t].wait \/ txn[t].phase # "dispatching"
      BY <3>2, <3>3, <3>4, <2>1, <2>4
    <3> QED BY <3>1, <3>5, <1>2 DEF Counted
  <2>8. Covered(t)'
    <3> SUFFICES ASSUME txn[t].phase # "running", txn[t].staged # Nothing, NEW q \in Replicas \ LeftOut
                 PROVE  (\E e \in dispatches' : e.txn = t /\ e.to = q) \/ Got(t, q)'
      BY <1>2 DEF Covered
    <3>1. (\E e \in dispatches : e.txn = t /\ e.to = q) \/ Got(t, q)
      BY <2>1 DEF Covered
    <3>2. CASE Got(t, q)
      BY <3>2, <1>6 DEF GotStays
    <3>3. CASE \E e \in dispatches : e.txn = t /\ e.to = q
      BY <3>3, <1>1, <1>2, <1>7
    <3> QED BY <3>1, <3>2, <3>3
  <2> QED BY <2>7, <2>8
<1> QED BY <1>5, <1>9, <1>10, <1>11 DEF RInv

\* The first state.
LEMMA InitKeeps == Init => RInv
<1> SUFFICES ASSUME Init PROVE RInv
  OBVIOUS
<1>1. /\ txn = [t \in Txns |-> FreshTxn] /\ dispatches = {} /\ acks = {}
      /\ appliers = [r \in Replicas |-> Nothing] /\ up = [r \in Replicas |-> TRUE]
  BY DEF Init
<1>2. DOMAIN Nothing = {} /\ IsFiniteSet({})
  BY FS_EmptySet DEF Nothing
<1>3. /\ DOMAIN FreshTxn = {"phase", "staged", "wait", "subs"} /\ FreshTxn.phase = "running"
      /\ FreshTxn.wait = 0
  BY DEF FreshTxn
<1>4. Shape
  BY <1>1, <1>2, <1>3 DEF Shape
<1>5. CountsDown
  BY <1>1, <1>2 DEF CountsDown
<1>6. \A t \in Txns : Counted(t) /\ Covered(t)
  BY <1>1, <1>3 DEF Counted, Covered, Out, AcksOf
<1> QED BY <1>4, <1>5, <1>6 DEF RInv

\* Every step keeps the invariant.
LEMMA StepKeeps == RInv /\ [Next]_vars => RInv'
<1> SUFFICES ASSUME RInv, [Next]_vars PROVE RInv'
  OBVIOUS
<1>1. CASE UNCHANGED vars
  <2>1. /\ dispatches' = dispatches /\ acks' = acks /\ appliers' = appliers /\ txn' = txn /\ up' = up
    BY <1>1 DEF vars
  <2>2. Shape' /\ CountsDown'
    BY <2>1 DEF RInv, Shape, CountsDown
  <2>3. GotStays
    BY <2>1 DEF GotStays, Got
  <2> QED BY <2>1, <2>2, <2>3, NothingSent
<1>2. ASSUME NEW t \in Txns, ClientNext(t) PROVE RInv'
  <2>1. CASE Commit(t)
    BY <2>1, CommitKeeps
  <2>2. CASE \E u, change : Stage(t, u, change)
    BY <2>2, StageKeeps
  <2> QED BY <1>2, <2>1, <2>2 DEF ClientNext, StageInsert, StageUpdate, StageDelete
<1>3. CASE AgentNext
  BY <1>3, AckDispatchKeeps, HandleDispatchKeeps DEF AgentNext
<1>4. ASSUME NEW r \in Replicas, ReplicaNext(r) PROVE RInv'
  BY <1>4, ReplicaKeeps
<1> QED BY <1>1, <1>2, <1>3, <1>4 DEF Next

\* What is committed at the primary has reached every replica that is up and that
\* Transaction::commit sends to, whatever order dispatches, answers and deaths come in:
\* waitfordispatched counts one answer for every message, and no message twice.
CommittedReachedItsReplicas ==
  \A t \in Txns : txn[t].phase = "committed" /\ txn[t].staged # Nothing =>
    \A r \in Replicas \ LeftOut : up[r] => \E a \in DOMAIN appliers[r] : a[1] = t

\* For any number of replicas: Transaction::commit and continueCommitTransaction(1).
THEOREM DispatchedBeforeCommitted == Spec => []CommittedReachedItsReplicas
<1>1. RInv => CommittedReachedItsReplicas
  BY DEF RInv, Counted, Covered, Out, Got, CommittedReachedItsReplicas
<1> QED BY <1>1, InitKeeps, StepKeeps, PTL DEF Spec

\* With one replica besides the primary nobody is left out.
THEOREM CommittedIsDispatchedWithTwo ==
  ASSUME NumReplicas <= 2
  PROVE  Spec => []CommittedIsDispatched
<1>1. CommittedReachedItsReplicas => CommittedIsDispatched
  BY ReplicationAssumption DEF CommittedReachedItsReplicas, CommittedIsDispatched, LeftOut
<1> QED BY <1>1, DispatchedBeforeCommitted, PTL

-----------------------------------------------------------------------------
(***************************************************************************)
(* What a replica has.  Engine::apply folds over sequences and over a set: *)
(* a fold is described by what it makes of the first n elements, for every *)
(* n, from which the lemmas conclude by induction.                         *)
(***************************************************************************)

\* The order of Nat as a well-founded relation.
LEMMA NatOrder ==
  \E R : IsWellFoundedOn(R, Nat) /\ \A x, y \in Nat : x < y => <<x, y>> \in R
<1>1. \A x, y \in Nat : x < y => <<x, y>> \in OpToRel(<, Nat)
  BY DEF OpToRel
<1> QED BY <1>1, NatLessThanWellFounded, Zenon

\* A set of natural numbers has a smallest element.
LEMMA Smallest ==
  ASSUME NEW T \in SUBSET Nat, T # {}
  PROVE  \E m \in T : \A k \in T : m <= k
<1>1. PICK R : IsWellFoundedOn(R, Nat) /\ \A x, y \in Nat : x < y => <<x, y>> \in R
  BY NatOrder
<1>2. T \subseteq Nat
  OBVIOUS
<1>3. IsWellFoundedOn(R, Nat)
  BY <1>1
<1>4. PICK m \in T : \A y \in T : ~(<<y, m>> \in R)
  BY <1>2, <1>3, WFMin
<1>5. \A k \in T : m <= k
  <2> TAKE k \in T
  <2>1. m \in Nat /\ k \in Nat
    BY <1>2
  <2>2. ~(k < m)
    BY <1>1, <1>4, <2>1
  <2> QED BY <2>1, <2>2
<1> QED BY <1>5

\* A set with 0 and with the successors of its elements is Nat.
LEMMA SetInduction ==
  ASSUME NEW P \in SUBSET Nat, 0 \in P, \A n \in P : n + 1 \in P
  PROVE  \A n \in Nat : n \in P
<1> SUFFICES ASSUME Nat \ P # {} PROVE FALSE
  OBVIOUS
<1>1. PICK m \in Nat \ P : \A k \in Nat \ P : m <= k
  BY Smallest
<1>2. m # 0 /\ m - 1 \in Nat /\ (m - 1) + 1 = m
  BY <1>1
<1>3. m - 1 \in P
  BY <1>1, <1>2
<1> QED BY <1>1, <1>2, <1>3

\* A set of numbers that has a bound has a greatest element, and Max is it.
LEMMA Greatest ==
  ASSUME NEW S \in SUBSET Nat, S # {}, NEW n \in Nat, \A x \in S : x <= n
  PROVE  Max(S) \in S /\ \A x \in S : x <= Max(S)
<1> DEFINE T == {k \in Nat : \A x \in S : x <= k}
<1>1. n \in T
  OBVIOUS
<1>2. PICK m \in T : \A k \in T : m <= k
  BY <1>1, Smallest
<1>3. m \in S
  <2> SUFFICES ASSUME m \notin S PROVE FALSE
    OBVIOUS
  <2>1. \A x \in S : x <= m /\ x # m /\ x \in Nat
    BY <1>2
  <2>2. PICK y \in S : y <= m /\ y # m /\ y \in Nat
    BY <2>1
  <2>4. m \in Nat /\ m - 1 \in Nat
    BY <2>2
  <2>5. \A x \in S : x <= m - 1
    BY <2>1, <2>4
  <2>3. m - 1 \in T
    BY <2>4, <2>5
  <2> QED BY <1>2, <2>3, <2>4
<1>4. \A x \in S : m >= x
  BY <1>2
<1> QED BY <1>3, <1>4 DEF Max

\* The greatest number of a set that ends with k.
LEMMA LastIsGreatest ==
  ASSUME NEW S \in SUBSET Nat, NEW k \in S, \A x \in S : x <= k
  PROVE  Max(S) = k
<1>1. Max(S) \in S /\ \A x \in S : x <= Max(S)
  BY Greatest
<1>2. Max(S) \in Nat /\ k \in Nat /\ Max(S) <= k /\ k <= Max(S)
  BY <1>1
<1> QED BY <1>2

-----------------------------------------------------------------------------
RecordStep(a, sub, x) ==
  LET done == ApplyRecord(a.store, sub, x)
  IN  [a EXCEPT !.store = done.store, !.records = IF done.ok THEN @ ELSE Append(@, x),
                !.dies = @ \/ UpdateDies(a.store, x)]

\* apply goes through the records one after the other.
RecordsRun(g, acc, sub, records, n) ==
  /\ g[0] = acc /\ ApplyRecords(acc, sub, records) = g[n]
  /\ \A k \in 0 .. n - 1 : g[k + 1] = RecordStep(g[k], sub, records[k + 1])

\* The records of a message, in turn.
LEMMA RecordsInTurn ==
  ASSUME NEW acc, NEW sub, NEW records, NEW n \in Nat, DOMAIN records = 1 .. n
  PROVE  \E g : RecordsRun(g, acc, sub, records, n)
<1> DEFINE Val(h, s) == IF s = {} THEN acc ELSE RecordStep(h[s \ {Max(s)}], sub, records[Max(s)])
           K == {k \in Nat : \E h : h = [s \in SUBSET (1 .. k) |-> Val(h, s)]}
<1>1. 0 \in K
  <2>1. 1 .. 0 = {} /\ SUBSET {} = {{}}
    OBVIOUS
  <2>2. PICK h : h = [s \in {{}} |-> acc]
    OBVIOUS
  <2>3. h = [s \in SUBSET (1 .. 0) |-> Val(h, s)]
    BY <2>1, <2>2
  <2> QED BY <2>3
<1>2. ASSUME NEW k \in K PROVE k + 1 \in K
  <2>1. PICK h : h = [s \in SUBSET (1 .. k) |-> Val(h, s)]
    OBVIOUS
  <2>2. PICK f : f = [s \in SUBSET (1 .. k + 1) |->
                        IF k + 1 \in s THEN RecordStep(h[s \ {k + 1}], sub, records[k + 1]) ELSE h[s]]
    OBVIOUS
  <2>3. k \in Nat /\ k + 1 \in Nat
    OBVIOUS
  <2>4. ASSUME NEW s \in SUBSET (1 .. k + 1) PROVE f[s] = Val(f, s)
    <3>1. CASE k + 1 \in s
      <4>1. Max(s) = k + 1
        BY <2>3, <3>1, LastIsGreatest
      <4>2. s \ {k + 1} \in SUBSET (1 .. k) /\ s \ {k + 1} \in SUBSET (1 .. k + 1) /\ k + 1 \notin s \ {k + 1}
        BY <2>3
      <4>3. f[s \ {k + 1}] = h[s \ {k + 1}]
        BY <2>2, <4>2
      <4> QED BY <2>2, <3>1, <4>1, <4>3
    <3>2. CASE k + 1 \notin s
      <4>1. s \in SUBSET (1 .. k) /\ s \ {Max(s)} \in SUBSET (1 .. k + 1) /\ k + 1 \notin s \ {Max(s)}
        <5>1. \A x \in s : x \in 1 .. k
          BY <2>3, <3>2
        <5> QED BY <5>1, <3>2
      <4>2. f[s] = h[s] /\ f[s \ {Max(s)}] = h[s \ {Max(s)}]
        BY <2>2, <3>2, <4>1
      <4>3. h[s] = Val(h, s)
        BY <2>1, <4>1
      <4> QED BY <4>2, <4>3
    <3> QED BY <3>1, <3>2
  <2>5. f = [s \in SUBSET (1 .. k + 1) |-> Val(f, s)]
    <3> HIDE DEF Val
    <3> QED BY <2>2, <2>4
  <2> HIDE DEF Val
  <2> QED BY <2>3, <2>5
<1>3. n \in K
  <2> HIDE DEF K
  <2>1. K \in SUBSET Nat
    BY DEF K
  <2> QED BY <1>1, <1>2, <2>1, SetInduction
<1>4. PICK h0 : h0 = [s \in SUBSET (1 .. n) |-> Val(h0, s)]
  BY <1>3
<1>5. PICK h : /\ h = [s \in SUBSET DOMAIN records |->
                    IF s = {} THEN acc ELSE RecordStep(h[s \ {Max(s)}], sub, records[Max(s)])]
               /\ ApplyRecords(acc, sub, records) = h[DOMAIN records]
  <2>1. \E h : h = [s \in SUBSET DOMAIN records |->
                    IF s = {} THEN acc ELSE RecordStep(h[s \ {Max(s)}], sub, records[Max(s)])]
    BY <1>4
  <2> QED BY <2>1 DEF ApplyRecords, RecordStep, FoldLeft, MapThenFoldSet
<1>6. PICK g : g = [k \in 0 .. n |-> h[1 .. k]]
  OBVIOUS
<1>7. g[0] = acc /\ ApplyRecords(acc, sub, records) = g[n]
  <2>1. 1 .. 0 = {} /\ 0 \in 0 .. n /\ n \in 0 .. n /\ {} \in SUBSET (1 .. n)
    OBVIOUS
  <2> QED BY <1>5, <1>6, <2>1
<1>8. ASSUME NEW k \in 0 .. n - 1 PROVE g[k + 1] = RecordStep(g[k], sub, records[k + 1])
  <2>1. k \in Nat /\ k \in 0 .. n /\ k + 1 \in 0 .. n /\ 1 .. k + 1 \in SUBSET (1 .. n)
    OBVIOUS
  <2>2. k + 1 \in 1 .. k + 1 /\ (1 .. k + 1) \ {k + 1} = 1 .. k
    BY <2>1
  <2>3. Max(1 .. k + 1) = k + 1
    BY <2>1, <2>2, LastIsGreatest
  <2>4. h[1 .. k + 1] = RecordStep(h[(1 .. k + 1) \ {Max(1 .. k + 1)}], sub, records[Max(1 .. k + 1)])
    BY <1>5, <2>1, <2>2
  <2> QED BY <1>6, <2>1, <2>2, <2>3, <2>4
<1> QED BY <1>7, <1>8 DEF RecordsRun

ItemStep(a, p, sub, x) ==
  LET done == ApplyIndex(a.store, p, sub, x)
  IN  [a EXCEPT !.store = done.store, !.indices = IF done.ok THEN @ ELSE Append(@, x)]

\* The same with its index changes.
LEMMA ItemsInTurn ==
  ASSUME NEW acc, NEW p, NEW sub, NEW indices, NEW n \in Nat, DOMAIN indices = 1 .. n
  PROVE  \E g : /\ g[0] = acc /\ ApplyIndices(acc, p, sub, indices) = g[n]
                /\ \A k \in 0 .. n - 1 : g[k + 1] = ItemStep(g[k], p, sub, indices[k + 1])
<1> DEFINE Val(h, s) == IF s = {} THEN acc ELSE ItemStep(h[s \ {Max(s)}], p, sub, indices[Max(s)])
           K == {k \in Nat : \E h : h = [s \in SUBSET (1 .. k) |-> Val(h, s)]}
<1>1. 0 \in K
  <2>1. 1 .. 0 = {} /\ SUBSET {} = {{}}
    OBVIOUS
  <2>2. PICK h : h = [s \in {{}} |-> acc]
    OBVIOUS
  <2>3. h = [s \in SUBSET (1 .. 0) |-> Val(h, s)]
    BY <2>1, <2>2
  <2> QED BY <2>3
<1>2. ASSUME NEW k \in K PROVE k + 1 \in K
  <2>1. PICK h : h = [s \in SUBSET (1 .. k) |-> Val(h, s)]
    OBVIOUS
  <2>2. PICK f : f = [s \in SUBSET (1 .. k + 1) |->
                        IF k + 1 \in s THEN ItemStep(h[s \ {k + 1}], p, sub, indices[k + 1]) ELSE h[s]]
    OBVIOUS
  <2>3. k \in Nat /\ k + 1 \in Nat
    OBVIOUS
  <2>4. ASSUME NEW s \in SUBSET (1 .. k + 1) PROVE f[s] = Val(f, s)
    <3>1. CASE k + 1 \in s
      <4>1. Max(s) = k + 1
        BY <2>3, <3>1, LastIsGreatest
      <4>2. s \ {k + 1} \in SUBSET (1 .. k) /\ s \ {k + 1} \in SUBSET (1 .. k + 1) /\ k + 1 \notin s \ {k + 1}
        BY <2>3
      <4>3. f[s \ {k + 1}] = h[s \ {k + 1}]
        BY <2>2, <4>2
      <4> QED BY <2>2, <3>1, <4>1, <4>3
    <3>2. CASE k + 1 \notin s
      <4>1. s \in SUBSET (1 .. k) /\ s \ {Max(s)} \in SUBSET (1 .. k + 1) /\ k + 1 \notin s \ {Max(s)}
        <5>1. \A x \in s : x \in 1 .. k
          BY <2>3, <3>2
        <5> QED BY <5>1, <3>2
      <4>2. f[s] = h[s] /\ f[s \ {Max(s)}] = h[s \ {Max(s)}]
        BY <2>2, <3>2, <4>1
      <4>3. h[s] = Val(h, s)
        BY <2>1, <4>1
      <4> QED BY <4>2, <4>3
    <3> QED BY <3>1, <3>2
  <2>5. f = [s \in SUBSET (1 .. k + 1) |-> Val(f, s)]
    <3> HIDE DEF Val
    <3> QED BY <2>2, <2>4
  <2> HIDE DEF Val
  <2> QED BY <2>3, <2>5
<1>3. n \in K
  <2> HIDE DEF K
  <2>1. K \in SUBSET Nat
    BY DEF K
  <2> QED BY <1>1, <1>2, <2>1, SetInduction
<1>4. PICK h0 : h0 = [s \in SUBSET (1 .. n) |-> Val(h0, s)]
  BY <1>3
<1>5. PICK h : /\ h = [s \in SUBSET DOMAIN indices |->
                    IF s = {} THEN acc ELSE ItemStep(h[s \ {Max(s)}], p, sub, indices[Max(s)])]
               /\ ApplyIndices(acc, p, sub, indices) = h[DOMAIN indices]
  <2>1. \E h : h = [s \in SUBSET DOMAIN indices |->
                    IF s = {} THEN acc ELSE ItemStep(h[s \ {Max(s)}], p, sub, indices[Max(s)])]
    BY <1>4
  <2> QED BY <2>1 DEF ApplyIndices, ItemStep, FoldLeft, MapThenFoldSet
<1>6. PICK g : g = [k \in 0 .. n |-> h[1 .. k]]
  OBVIOUS
<1>7. g[0] = acc /\ ApplyIndices(acc, p, sub, indices) = g[n]
  <2>1. 1 .. 0 = {} /\ 0 \in 0 .. n /\ n \in 0 .. n /\ {} \in SUBSET (1 .. n)
    OBVIOUS
  <2> QED BY <1>5, <1>6, <2>1
<1>8. ASSUME NEW k \in 0 .. n - 1 PROVE g[k + 1] = ItemStep(g[k], p, sub, indices[k + 1])
  <2>1. k \in Nat /\ k \in 0 .. n /\ k + 1 \in 0 .. n /\ 1 .. k + 1 \in SUBSET (1 .. n)
    OBVIOUS
  <2>2. k + 1 \in 1 .. k + 1 /\ (1 .. k + 1) \ {k + 1} = 1 .. k
    BY <2>1
  <2>3. Max(1 .. k + 1) = k + 1
    BY <2>1, <2>2, LastIsGreatest
  <2>4. h[1 .. k + 1] = ItemStep(h[(1 .. k + 1) \ {Max(1 .. k + 1)}], p, sub, indices[Max(1 .. k + 1)])
    BY <1>5, <2>1, <2>2
  <2> QED BY <1>6, <2>1, <2>2, <2>3, <2>4
<1> QED BY <1>7, <1>8
RecordAgain(a, sub, x) ==
  LET done == ApplyRecord(a.store, sub, x)
  IN  IF a.skip \/ ~done.ok
        THEN [a EXCEPT !.kept = Append(@, x), !.skip = FALSE,
                       !.dies = @ \/ (~a.skip /\ UpdateDies(a.store, x))]
        ELSE [a EXCEPT !.store = done.store, !.skip = TRUE]
RecordsLeft(s) == [store |-> s, kept |-> <<>>, skip |-> FALSE, dies |-> FALSE]

\* And with what was put aside, records and index changes.
LEMMA RecordsAgainInTurn ==
  ASSUME NEW s0, NEW sub, NEW records, NEW n \in Nat, DOMAIN records = 1 .. n
  PROVE  \E g : /\ g[0] = RecordsLeft(s0) /\ RetryRecords(s0, sub, records) = g[n]
                /\ \A k \in 0 .. n - 1 : g[k + 1] = RecordAgain(g[k], sub, records[k + 1])
<1> DEFINE Val(h, s) == IF s = {} THEN RecordsLeft(s0) ELSE RecordAgain(h[s \ {Max(s)}], sub, records[Max(s)])
           K == {k \in Nat : \E h : h = [s \in SUBSET (1 .. k) |-> Val(h, s)]}
<1>1. 0 \in K
  <2>1. 1 .. 0 = {} /\ SUBSET {} = {{}}
    OBVIOUS
  <2>2. PICK h : h = [s \in {{}} |-> RecordsLeft(s0)]
    OBVIOUS
  <2>3. h = [s \in SUBSET (1 .. 0) |-> Val(h, s)]
    BY <2>1, <2>2
  <2> QED BY <2>3
<1>2. ASSUME NEW k \in K PROVE k + 1 \in K
  <2>1. PICK h : h = [s \in SUBSET (1 .. k) |-> Val(h, s)]
    OBVIOUS
  <2>2. PICK f : f = [s \in SUBSET (1 .. k + 1) |->
                        IF k + 1 \in s THEN RecordAgain(h[s \ {k + 1}], sub, records[k + 1]) ELSE h[s]]
    OBVIOUS
  <2>3. k \in Nat /\ k + 1 \in Nat
    OBVIOUS
  <2>4. ASSUME NEW s \in SUBSET (1 .. k + 1) PROVE f[s] = Val(f, s)
    <3>1. CASE k + 1 \in s
      <4>1. Max(s) = k + 1
        BY <2>3, <3>1, LastIsGreatest
      <4>2. s \ {k + 1} \in SUBSET (1 .. k) /\ s \ {k + 1} \in SUBSET (1 .. k + 1) /\ k + 1 \notin s \ {k + 1}
        BY <2>3
      <4>3. f[s \ {k + 1}] = h[s \ {k + 1}]
        BY <2>2, <4>2
      <4> QED BY <2>2, <3>1, <4>1, <4>3
    <3>2. CASE k + 1 \notin s
      <4>1. s \in SUBSET (1 .. k) /\ s \ {Max(s)} \in SUBSET (1 .. k + 1) /\ k + 1 \notin s \ {Max(s)}
        <5>1. \A x \in s : x \in 1 .. k
          BY <2>3, <3>2
        <5> QED BY <5>1, <3>2
      <4>2. f[s] = h[s] /\ f[s \ {Max(s)}] = h[s \ {Max(s)}]
        BY <2>2, <3>2, <4>1
      <4>3. h[s] = Val(h, s)
        BY <2>1, <4>1
      <4> QED BY <4>2, <4>3
    <3> QED BY <3>1, <3>2
  <2>5. f = [s \in SUBSET (1 .. k + 1) |-> Val(f, s)]
    <3> HIDE DEF Val
    <3> QED BY <2>2, <2>4
  <2> HIDE DEF Val
  <2> QED BY <2>3, <2>5
<1>3. n \in K
  <2> HIDE DEF K
  <2>1. K \in SUBSET Nat
    BY DEF K
  <2> QED BY <1>1, <1>2, <2>1, SetInduction
<1>4. PICK h0 : h0 = [s \in SUBSET (1 .. n) |-> Val(h0, s)]
  BY <1>3
<1>5. PICK h : /\ h = [s \in SUBSET DOMAIN records |->
                    IF s = {} THEN RecordsLeft(s0) ELSE RecordAgain(h[s \ {Max(s)}], sub, records[Max(s)])]
               /\ RetryRecords(s0, sub, records) = h[DOMAIN records]
  <2>1. \E h : h = [s \in SUBSET DOMAIN records |->
                    IF s = {} THEN RecordsLeft(s0) ELSE RecordAgain(h[s \ {Max(s)}], sub, records[Max(s)])]
    BY <1>4
  <2> QED BY <2>1 DEF RetryRecords, RecordAgain, RecordsLeft, FoldLeft, MapThenFoldSet
<1>6. PICK g : g = [k \in 0 .. n |-> h[1 .. k]]
  OBVIOUS
<1>7. g[0] = RecordsLeft(s0) /\ RetryRecords(s0, sub, records) = g[n]
  <2>1. 1 .. 0 = {} /\ 0 \in 0 .. n /\ n \in 0 .. n /\ {} \in SUBSET (1 .. n)
    OBVIOUS
  <2> QED BY <1>5, <1>6, <2>1
<1>8. ASSUME NEW k \in 0 .. n - 1 PROVE g[k + 1] = RecordAgain(g[k], sub, records[k + 1])
  <2>1. k \in Nat /\ k \in 0 .. n /\ k + 1 \in 0 .. n /\ 1 .. k + 1 \in SUBSET (1 .. n)
    OBVIOUS
  <2>2. k + 1 \in 1 .. k + 1 /\ (1 .. k + 1) \ {k + 1} = 1 .. k
    BY <2>1
  <2>3. Max(1 .. k + 1) = k + 1
    BY <2>1, <2>2, LastIsGreatest
  <2>4. h[1 .. k + 1] = RecordAgain(h[(1 .. k + 1) \ {Max(1 .. k + 1)}], sub, records[Max(1 .. k + 1)])
    BY <1>5, <2>1, <2>2
  <2> QED BY <1>6, <2>1, <2>2, <2>3, <2>4
<1> QED BY <1>7, <1>8
ItemAgain(a, p, sub, x) ==
  LET done == ApplyIndex(a.store, p, sub, x)
  IN  IF a.skip \/ ~done.ok THEN [a EXCEPT !.kept = Append(@, x), !.skip = FALSE]
      ELSE [a EXCEPT !.store = done.store, !.skip = TRUE]
ItemsLeft(s) == [store |-> s, kept |-> <<>>, skip |-> FALSE]

\* The index changes put aside, in turn.
LEMMA ItemsAgainInTurn ==
  ASSUME NEW s0, NEW p, NEW sub, NEW indices, NEW n \in Nat, DOMAIN indices = 1 .. n
  PROVE  \E g : /\ g[0] = ItemsLeft(s0) /\ RetryIndices(s0, p, sub, indices) = g[n]
                /\ \A k \in 0 .. n - 1 : g[k + 1] = ItemAgain(g[k], p, sub, indices[k + 1])
<1> DEFINE Val(h, s) == IF s = {} THEN ItemsLeft(s0) ELSE ItemAgain(h[s \ {Max(s)}], p, sub, indices[Max(s)])
           K == {k \in Nat : \E h : h = [s \in SUBSET (1 .. k) |-> Val(h, s)]}
<1>1. 0 \in K
  <2>1. 1 .. 0 = {} /\ SUBSET {} = {{}}
    OBVIOUS
  <2>2. PICK h : h = [s \in {{}} |-> ItemsLeft(s0)]
    OBVIOUS
  <2>3. h = [s \in SUBSET (1 .. 0) |-> Val(h, s)]
    BY <2>1, <2>2
  <2> QED BY <2>3
<1>2. ASSUME NEW k \in K PROVE k + 1 \in K
  <2>1. PICK h : h = [s \in SUBSET (1 .. k) |-> Val(h, s)]
    OBVIOUS
  <2>2. PICK f : f = [s \in SUBSET (1 .. k + 1) |->
                        IF k + 1 \in s THEN ItemAgain(h[s \ {k + 1}], p, sub, indices[k + 1]) ELSE h[s]]
    OBVIOUS
  <2>3. k \in Nat /\ k + 1 \in Nat
    OBVIOUS
  <2>4. ASSUME NEW s \in SUBSET (1 .. k + 1) PROVE f[s] = Val(f, s)
    <3>1. CASE k + 1 \in s
      <4>1. Max(s) = k + 1
        BY <2>3, <3>1, LastIsGreatest
      <4>2. s \ {k + 1} \in SUBSET (1 .. k) /\ s \ {k + 1} \in SUBSET (1 .. k + 1) /\ k + 1 \notin s \ {k + 1}
        BY <2>3
      <4>3. f[s \ {k + 1}] = h[s \ {k + 1}]
        BY <2>2, <4>2
      <4> QED BY <2>2, <3>1, <4>1, <4>3
    <3>2. CASE k + 1 \notin s
      <4>1. s \in SUBSET (1 .. k) /\ s \ {Max(s)} \in SUBSET (1 .. k + 1) /\ k + 1 \notin s \ {Max(s)}
        <5>1. \A x \in s : x \in 1 .. k
          BY <2>3, <3>2
        <5> QED BY <5>1, <3>2
      <4>2. f[s] = h[s] /\ f[s \ {Max(s)}] = h[s \ {Max(s)}]
        BY <2>2, <3>2, <4>1
      <4>3. h[s] = Val(h, s)
        BY <2>1, <4>1
      <4> QED BY <4>2, <4>3
    <3> QED BY <3>1, <3>2
  <2>5. f = [s \in SUBSET (1 .. k + 1) |-> Val(f, s)]
    <3> HIDE DEF Val
    <3> QED BY <2>2, <2>4
  <2> HIDE DEF Val
  <2> QED BY <2>3, <2>5
<1>3. n \in K
  <2> HIDE DEF K
  <2>1. K \in SUBSET Nat
    BY DEF K
  <2> QED BY <1>1, <1>2, <2>1, SetInduction
<1>4. PICK h0 : h0 = [s \in SUBSET (1 .. n) |-> Val(h0, s)]
  BY <1>3
<1>5. PICK h : /\ h = [s \in SUBSET DOMAIN indices |->
                    IF s = {} THEN ItemsLeft(s0) ELSE ItemAgain(h[s \ {Max(s)}], p, sub, indices[Max(s)])]
               /\ RetryIndices(s0, p, sub, indices) = h[DOMAIN indices]
  <2>1. \E h : h = [s \in SUBSET DOMAIN indices |->
                    IF s = {} THEN ItemsLeft(s0) ELSE ItemAgain(h[s \ {Max(s)}], p, sub, indices[Max(s)])]
    BY <1>4
  <2> QED BY <2>1 DEF RetryIndices, ItemAgain, ItemsLeft, FoldLeft, MapThenFoldSet
<1>6. PICK g : g = [k \in 0 .. n |-> h[1 .. k]]
  OBVIOUS
<1>7. g[0] = ItemsLeft(s0) /\ RetryIndices(s0, p, sub, indices) = g[n]
  <2>1. 1 .. 0 = {} /\ 0 \in 0 .. n /\ n \in 0 .. n /\ {} \in SUBSET (1 .. n)
    OBVIOUS
  <2> QED BY <1>5, <1>6, <2>1
<1>8. ASSUME NEW k \in 0 .. n - 1 PROVE g[k + 1] = ItemAgain(g[k], p, sub, indices[k + 1])
  <2>1. k \in Nat /\ k \in 0 .. n /\ k + 1 \in 0 .. n /\ 1 .. k + 1 \in SUBSET (1 .. n)
    OBVIOUS
  <2>2. k + 1 \in 1 .. k + 1 /\ (1 .. k + 1) \ {k + 1} = 1 .. k
    BY <2>1
  <2>3. Max(1 .. k + 1) = k + 1
    BY <2>1, <2>2, LastIsGreatest
  <2>4. h[1 .. k + 1] = ItemAgain(h[(1 .. k + 1) \ {Max(1 .. k + 1)}], p, sub, indices[Max(1 .. k + 1)])
    BY <1>5, <2>1, <2>2
  <2> QED BY <1>6, <2>1, <2>2, <2>3, <2>4
<1> QED BY <1>7, <1>8

SubAgain(a, b, p, sub) ==
  LET rows == RetryRecords(a.store, sub, b[sub].records)
      idx  == RetryIndices(rows.store, p, sub, b[sub].indices)
  IN  [store |-> idx.store,
       b     |-> [a.b EXCEPT ![sub].records = rows.kept, ![sub].indices = idx.kept],
       dies  |-> a.dies \/ rows.dies \/ rows.skip \/ idx.skip]
SubsLeft(s, b) == [store |-> s, b |-> b, dies |-> FALSE]

\* The subtransactions with something put aside are gone through in their order.
LEMMA SubsInTurn ==
  ASSUME NEW s0, NEW b, NEW p, NEW n \in Nat, DOMAIN b \subseteq 0 .. n
  PROVE  \E g : /\ g[0] = SubsLeft(s0, b) /\ Retry(s0, b, p) = g[n + 1]
                /\ \A k \in 0 .. n : /\ k \in DOMAIN b => g[k + 1] = SubAgain(g[k], b, p, k)
                                     /\ k \notin DOMAIN b => g[k + 1] = g[k]
<1> DEFINE Val(h, s) == IF s = {} THEN SubsLeft(s0, b) ELSE SubAgain(h[s \ {Max(s)}], b, p, Max(s))
           Below(k) == {x \in DOMAIN b : x < k}
           K == {k \in Nat : \E h : h = [s \in SUBSET Below(k) |-> Val(h, s)]}
<1>0. DOMAIN b \subseteq Nat
  OBVIOUS
<1>1. 0 \in K
  <2>1. Below(0) = {} /\ SUBSET {} = {{}}
    BY <1>0
  <2>2. PICK h : h = [s \in {{}} |-> SubsLeft(s0, b)]
    OBVIOUS
  <2>3. h = [s \in SUBSET Below(0) |-> Val(h, s)]
    BY <2>1, <2>2
  <2> QED BY <2>3
<1>2. ASSUME NEW k \in K PROVE k + 1 \in K
  <2>1. PICK h : h = [s \in SUBSET Below(k) |-> Val(h, s)]
    OBVIOUS
  <2>2. PICK f : f = [s \in SUBSET Below(k + 1) |->
                        IF k \in s THEN SubAgain(h[s \ {k}], b, p, k) ELSE h[s]]
    OBVIOUS
  <2>3. k \in Nat /\ k + 1 \in Nat
    OBVIOUS
  <2>4. ASSUME NEW s \in SUBSET Below(k + 1) PROVE f[s] = Val(f, s)
    <3>0. s \in SUBSET Nat /\ \A x \in s : x <= k /\ x \in DOMAIN b /\ (x # k => x < k)
      BY <1>0, <2>3
    <3>1. CASE k \in s
      <4>1. Max(s) = k
        BY <2>3, <3>0, <3>1, LastIsGreatest
      <4>2. s \ {k} \in SUBSET Below(k) /\ s \ {k} \in SUBSET Below(k + 1) /\ k \notin s \ {k}
        BY <2>3, <3>0
      <4>3. f[s \ {k}] = h[s \ {k}]
        BY <2>2, <4>2
      <4> QED BY <2>2, <3>1, <4>1, <4>3
    <3>2. CASE k \notin s
      <4>1. s \in SUBSET Below(k) /\ s \ {Max(s)} \in SUBSET Below(k + 1) /\ k \notin s \ {Max(s)}
        BY <3>0, <3>2
      <4>2. f[s] = h[s] /\ f[s \ {Max(s)}] = h[s \ {Max(s)}]
        BY <2>2, <3>2, <4>1
      <4>3. h[s] = Val(h, s)
        BY <2>1, <4>1
      <4> QED BY <4>2, <4>3
    <3> QED BY <3>1, <3>2
  <2>5. f = [s \in SUBSET Below(k + 1) |-> Val(f, s)]
    <3> HIDE DEF Val, Below
    <3> QED BY <2>2, <2>4
  <2> HIDE DEF Val
  <2> QED BY <2>3, <2>5
<1>3. n + 1 \in K
  <2> HIDE DEF K
  <2>1. K \in SUBSET Nat /\ n + 1 \in Nat
    BY DEF K
  <2> QED BY <1>1, <1>2, <2>1, SetInduction
<1>4. Below(n + 1) = DOMAIN b
  BY <1>0
<1>5. PICK h : /\ h = [s \in SUBSET DOMAIN b |->
                    IF s = {} THEN SubsLeft(s0, b) ELSE SubAgain(h[s \ {Max(s)}], b, p, Max(s))]
               /\ Retry(s0, b, p) = h[DOMAIN b]
  <2>1. \E h : h = [s \in SUBSET DOMAIN b |->
                    IF s = {} THEN SubsLeft(s0, b) ELSE SubAgain(h[s \ {Max(s)}], b, p, Max(s))]
    BY <1>3, <1>4
  <2> QED BY <2>1 DEF Retry, SubAgain, SubsLeft, MapThenFoldSet
<1>6. PICK g : g = [k \in 0 .. n + 1 |-> h[Below(k)]]
  OBVIOUS
<1>7. g[0] = SubsLeft(s0, b) /\ Retry(s0, b, p) = g[n + 1]
  <2>1. Below(0) = {} /\ 0 \in 0 .. n + 1 /\ n + 1 \in 0 .. n + 1 /\ {} \in SUBSET DOMAIN b
    BY <1>0
  <2> QED BY <1>4, <1>5, <1>6, <2>1
<1>8. ASSUME NEW k \in 0 .. n
      PROVE  /\ k \in DOMAIN b => g[k + 1] = SubAgain(g[k], b, p, k)
             /\ k \notin DOMAIN b => g[k + 1] = g[k]
  <2>1. k \in Nat /\ k \in 0 .. n + 1 /\ k + 1 \in 0 .. n + 1
    OBVIOUS
  <2>2. CASE k \in DOMAIN b
    <3>1. k \in Below(k + 1) /\ Below(k + 1) \ {k} = Below(k) /\ Below(k + 1) \in SUBSET DOMAIN b
          /\ Below(k + 1) \in SUBSET Nat /\ \A x \in Below(k + 1) : x <= k
      BY <1>0, <2>1, <2>2
    <3>2. Max(Below(k + 1)) = k
      BY <3>1, LastIsGreatest
    <3>3. h[Below(k + 1)] = SubAgain(h[Below(k + 1) \ {Max(Below(k + 1))}], b, p, Max(Below(k + 1)))
      BY <1>5, <3>1
    <3> QED BY <1>6, <2>1, <2>2, <3>1, <3>2, <3>3
  <2>3. CASE k \notin DOMAIN b
    <3>1. Below(k + 1) = Below(k)
      BY <1>0, <2>1, <2>3
    <3> QED BY <1>6, <2>1, <2>3, <3>1
  <2> QED BY <2>2, <2>3
<1> QED BY <1>7, <1>8

-----------------------------------------------------------------------------
(***************************************************************************)
(* The inductive invariant.                                                *)
(***************************************************************************)

\* The transactions that have been committed as far as the replicas are concerned; the
\* rows a transaction inserts; and whether a replica may have been told to delete one.
Sent == {t \in Txns : txn[t].phase # "running"}
Inserts(t) == {u \in DOMAIN txn[t].staged : txn[t].staged[u].cmd = "INSERT"}
NewRow(t, u) == txn[t].staged[u].new
NoDeleteSent == \A t \in Sent : \A u \in DOMAIN txn[t].staged : txn[t].staged[u].cmd # "DELETE"

\* A staged change.
ChangeInv(t, u) ==
  LET c == txn[t].staged[u]
  IN  /\ u[1] \in Partitions /\ u[2] \in Nat /\ u[2] < nextrowid[u[1]] /\ txn[t].subs[u[1]] # 0
      /\ c.cmd \in {"INSERT", "UPDATE", "DELETE"}
      /\ c.new \in Rows /\ c.new[0] # NULL /\ u[1] = PartitionOf[c.new[0]]
      /\ c.cmd = "UPDATE" => c.original \in Rows /\ c.original[0] = c.new[0]
      /\ t \in Running => /\ Staging(u) = {t}
                          /\ c.cmd = "INSERT" => u \notin DOMAIN primary
                          /\ c.cmd # "INSERT" => u \in DOMAIN primary /\ c.new[0] = primary[u][0]

StagedInv(t) ==
  /\ IsFiniteSet(DOMAIN txn[t].staged) /\ txn[t].subs \in [Partitions -> Nat]
  /\ \A p \in Partitions : txn[t].subs[p] < nextsub[p]
  /\ \A u \in DOMAIN txn[t].staged : ChangeInv(t, u)

\* A row of the primary was inserted by a committed transaction and has its key still.
RowInv(u) ==
  /\ primary[u] \in Rows
  /\ \E t \in Txns \ Running : /\ u \in Inserts(t) /\ primary[u][0] = NewRow(t, u)[0]
                               /\ ~Touched(u) => primary[u] = NewRow(t, u)

\* A committed insert is there as long as nobody has deleted it.
InsertInv(t, u) ==
  \/ u \in DOMAIN primary
  \/ \E s \in Txns \ Running : u \in DOMAIN txn[s].staged /\ txn[s].staged[u].cmd = "DELETE"

\* No two transactions insert the same row, share a subtransaction or, while nothing
\* has been deleted, insert the same key.
Distinct ==
  /\ \A s, t \in Txns : \A u \in Inserts(s) \cap Inserts(t) : s = t
  /\ \A s, t \in Txns : \A p \in Partitions : txn[s].subs[p] = txn[t].subs[p] /\ txn[s].subs[p] # 0 => s = t
  /\ NoDeleteSent => \A s, t \in Txns : \A u \in Inserts(s), v \in Inserts(t) :
                       NewRow(s, u)[0] = NewRow(t, v)[0] => u = v

\* The primary.
PrimaryInv ==
  /\ nextrowid \in [Partitions -> Nat] /\ nextsub \in [Partitions -> Nat \ {0}]
  /\ \A t \in Txns : StagedInv(t)
  /\ \A u \in DOMAIN primary : RowInv(u)
  /\ \A t \in Txns \ Running : \A u \in Inserts(t) : InsertInv(t, u)
  /\ Distinct

\* What a message says.
DispatchInv(d) == /\ d.txn \in Sent /\ d.to \in Replicas /\ d.copy \in {1, 2}
                  /\ d = Dispatch(d.txn, d.to, d.copy)
ApplyInv(r, m) ==
  \E t \in Sent, copy \in {1, 2} : \E p \in Destinations(txn[t].staged) :
    \E garbage \in Garbage(Dispatch(t, r, copy)) : m = ApplyMsg(Dispatch(t, r, copy), p, garbage)

\* What an Engine may have been sent under a subtransaction: the records, and index
\* changes, of which those of the key only add the rows inserted unless there are deletes.
Owners(p, sub) == {t \in Sent : txn[t].subs[p] = sub}
RecordsUnder(p, sub) ==
  UNION {{<<u, txn[t].staged[u]>> : u \in {v \in DOMAIN txn[t].staged : v[1] = p}} : t \in Owners(p, sub)}
InsertedKey(v, rowid) == \E t \in Sent : \E u \in Inserts(t) : NewRow(t, u)[0] = v /\ u[2] = rowid
Items == {i \in [add : BOOLEAN, field : Indexed, val : Vals \cup {NULL}, rowid : Nat] :
            NoDeleteSent /\ i.field = 0 => i.add /\ InsertedKey(i.val, i.rowid)}

\* What an Engine holds was inserted.
StoreInv(s) ==
  /\ DOMAIN s = {"rows", "unique", "multi", "nulls"}
  /\ \A u \in DOMAIN s.rows :
       \E t \in Sent : u \in Inserts(t) /\ s.rows[u] = [row |-> NewRow(t, u), sub |-> txn[t].subs[u[1]]]
  /\ NoDeleteSent => \A k \in DOMAIN s.unique : k[1] = 0 => InsertedKey(k[2], s.unique[k].rowid)

BackgroundInv(b, p) ==
  /\ \E n \in Nat : DOMAIN b \subseteq 0 .. n
  /\ \A sub \in DOMAIN b : /\ DOMAIN b[sub] = {"from", "records", "indices"}
                           /\ b[sub].records \in Seq(RecordsUnder(p, sub)) /\ b[sub].indices \in Seq(Items)

\* Row u, which t has inserted, is there with its key.
Has(s, t, u) == /\ u \in DOMAIN s.rows
                /\ NoDeleteSent /\ IndexType[0] = "UNIQUE" => <<0, NewRow(t, u)[0]>> \in DOMAIN s.unique

\* What a commit has sent is on its way or there.
Delivered(t, r) ==
  \/ ~up[r]
  \/ \E d \in dispatches : d.txn = t /\ d.to = r
  \/ \A u \in Inserts(t) : \/ \E m \in applies[r] : m.from[1] = t /\ m.part = u[1]
                           \/ Has(store[r], t, u)

\* The Engines of the replicas.
StoresInv ==
  /\ DOMAIN store = Replicas /\ \A r \in Replicas : StoreInv(store[r])
  /\ DOMAIN backgrounded = Replicas /\ \A r \in Replicas : DOMAIN backgrounded[r] = Partitions
  /\ \A r \in Replicas : \A p \in Partitions : BackgroundInv(backgrounded[r][p], p)

\* What a replica has and what is on its way to it.
ReplicaInv ==
  /\ \A d \in dispatches : DispatchInv(d)
  /\ \A k \in acks : k.txn \in Sent
  /\ DOMAIN applies = Replicas /\ \A r \in Replicas : \A m \in applies[r] : ApplyInv(r, m)
  /\ StoresInv
  /\ \A t \in Sent : \A r \in Replicas \ LeftOut : Delivered(t, r)

-----------------------------------------------------------------------------
(***************************************************************************)
(* Engine::apply, one item after the other.                                *)
(***************************************************************************)

\* Nothing an Engine has goes away but for a delete, keys included.
Grows(s1, s2) ==
  /\ DOMAIN s1.rows \subseteq DOMAIN s2.rows
  /\ NoDeleteSent => \A k \in DOMAIN s1.unique : k[1] = 0 => k \in DOMAIN s2.unique

\* One step after another.
LEMMA GrowsOn ==
  ASSUME NEW s1, NEW s2, NEW s3, Grows(s1, s2), Grows(s2, s3)
  PROVE  Grows(s1, s3)
  BY DEF Grows

\* No step at all.
LEMMA GrowsNot == ASSUME NEW s PROVE Grows(s, s)
  BY DEF Grows

\* applyItem of a record: a row is deleted by the subtransaction that wrote it only, and
\* a transaction does not delete what it inserts.
LEMMA RecordKept ==
  ASSUME PrimaryInv, NEW s, StoreInv(s), NEW p \in Partitions, NEW sub, NEW x \in RecordsUnder(p, sub),
         NEW done, done = ApplyRecord(s, sub, x)
  PROVE  /\ StoreInv(done.store) /\ Grows(s, done.store)
         /\ x[2].cmd = "INSERT" => x[1] \in DOMAIN done.store.rows
<1>0. PICK t \in Sent : \E v \in DOMAIN txn[t].staged :
        x = <<v, txn[t].staged[v]>> /\ v[1] = p /\ txn[t].subs[p] = sub
  BY DEF RecordsUnder, Owners
<1>1. PICK u \in DOMAIN txn[t].staged :
        x = <<u, txn[t].staged[u]>> /\ u[1] = p /\ txn[t].subs[p] = sub
  BY <1>0
<1>2. t \in Txns /\ ChangeInv(t, u) /\ Distinct
  BY DEF Sent, PrimaryInv, StagedInv
<1>3. DOMAIN s = {"rows", "unique", "multi", "nulls"}
  BY DEF StoreInv
<1>4. x[1] = u /\ x[2] = txn[t].staged[u]
  BY <1>1
<1>5. CASE txn[t].staged[u].cmd = "INSERT"
  <2>1. done = ApplyInsert(s, u, NewRow(t, u), sub)
    BY <1>4, <1>5 DEF ApplyRecord, NewRow
  <2>2. CASE u \in DOMAIN s.rows
    <3>1. done.store = s
      BY <2>1, <2>2 DEF ApplyInsert, NotYet
    <3> QED BY <3>1, <2>2, <1>4, GrowsNot
  <2>3. CASE u \notin DOMAIN s.rows
    <3>1. done.store = [s EXCEPT !.rows = With(@, u, [row |-> NewRow(t, u), sub |-> sub])]
      BY <2>1, <2>3 DEF ApplyInsert, Done
    <3>2. /\ DOMAIN done.store = DOMAIN s /\ done.store.unique = s.unique
          /\ done.store.rows = With(s.rows, u, [row |-> NewRow(t, u), sub |-> sub])
      BY <3>1, <1>3
    <3>3. /\ DOMAIN done.store.rows = {u} \cup DOMAIN s.rows
          /\ done.store.rows[u] = [row |-> NewRow(t, u), sub |-> txn[t].subs[u[1]]]
          /\ \A v \in DOMAIN s.rows : done.store.rows[v] = s.rows[v]
      BY <3>2, <2>3, <1>1 DEF With
    <3>4. u \in Inserts(t)
      BY <1>5 DEF Inserts
    <3>5. StoreInv(done.store)
      BY <3>2, <3>3, <3>4, <1>3 DEF StoreInv
    <3> QED BY <3>2, <3>3, <3>5, <1>4 DEF Grows
  <2> QED BY <2>2, <2>3
<1>6. CASE txn[t].staged[u].cmd = "UPDATE"
  <2>1. done.store = s
    BY <1>4, <1>6 DEF ApplyRecord, NotYet
  <2> QED BY <2>1, <1>4, <1>6, GrowsNot
<1>7. CASE txn[t].staged[u].cmd = "DELETE"
  <2>1. ~(u \in DOMAIN s.rows /\ s.rows[u].sub = sub)
    <3>0. SUFFICES ASSUME u \in DOMAIN s.rows, s.rows[u].sub = sub PROVE FALSE
      OBVIOUS
    <3>1. PICK q \in Sent : u \in Inserts(q) /\ s.rows[u] = [row |-> NewRow(q, u), sub |-> txn[q].subs[u[1]]]
      BY <3>0 DEF StoreInv
    <3>2. q \in Txns /\ txn[q].subs[p] = sub /\ txn[t].subs[p] # 0
      <4>1. s.rows[u].sub = txn[q].subs[p]
        BY <3>1, <1>1
      <4> QED BY <4>1, <3>0, <1>1, <1>2 DEF Sent, ChangeInv
    <3>3. q = t
      BY <3>2, <1>1, <1>2 DEF Distinct
    <3> QED BY <3>1, <3>3, <1>7 DEF Inserts
  <2>2. done.store = s
    BY <2>1, <1>4, <1>7 DEF ApplyRecord, NotYet
  <2> QED BY <2>2, <1>4, <1>7, GrowsNot
<1> QED BY <1>2, <1>5, <1>6, <1>7 DEF ChangeInv

\* applyItem of an index change.
LEMMA ItemKept ==
  ASSUME ReplicationAssumption, NEW s, StoreInv(s), NEW p, NEW sub, NEW i \in Items,
         NEW done, done = ApplyIndex(s, p, sub, i)
  PROVE  /\ StoreInv(done.store) /\ Grows(s, done.store)
         /\ NoDeleteSent /\ IndexType[0] = "UNIQUE" /\ i.field = 0 /\ i.val # NULL =>
              <<0, i.val>> \in DOMAIN done.store.unique
<1>1. /\ i.add \in BOOLEAN /\ i.field \in Fields /\ IndexType[i.field] \in {"UNIQUE", "NONUNIQUE"}
      /\ NoDeleteSent /\ i.field = 0 => i.add /\ InsertedKey(i.val, i.rowid)
  BY DEF Items, Indexed, ReplicationAssumption, Fields
<1>2. DOMAIN s = {"rows", "unique", "multi", "nulls"}
  BY DEF StoreInv
<1>3. CASE i.val = NULL
  <2>1. done = ApplyNull(s, p, i)
    BY <1>3 DEF ApplyIndex
  <2>2. DOMAIN done.store = DOMAIN s /\ done.store.rows = s.rows /\ done.store.unique = s.unique
    BY <2>1, <1>1, <1>2 DEF ApplyNull, Done, NotYet
  <2> QED BY <2>2, <1>3 DEF StoreInv, Grows
<1>4. CASE i.val # NULL /\ IndexType[i.field] = "NONUNIQUE"
  <2>1. done = ApplyNonunique(s, i)
    BY <1>4 DEF ApplyIndex
  <2>2. DOMAIN done.store = DOMAIN s /\ done.store.rows = s.rows /\ done.store.unique = s.unique
    BY <2>1, <1>1, <1>2 DEF ApplyNonunique, Done, NotYet
  <2> QED BY <2>2, <1>4 DEF StoreInv, Grows
<1>5. CASE i.val # NULL /\ IndexType[i.field] = "UNIQUE" /\ i.add
  <2>1. done = ApplyUniqueAdd(s, sub, i)
    BY <1>5 DEF ApplyIndex
  <2>2. CASE CheckIfThere(s, i)
    <3>1. done.store = s
      BY <2>1, <2>2 DEF ApplyUniqueAdd, Done, NotYet
    <3> QED BY <3>1, <2>2, GrowsNot DEF CheckIfThere, Key
  <2>3. CASE ~CheckIfThere(s, i)
    <3>1. done.store = [s EXCEPT !.unique = Added(s, sub, i)]
      BY <2>1, <2>3 DEF ApplyUniqueAdd, Done
    <3>2. DOMAIN done.store = DOMAIN s /\ done.store.rows = s.rows /\ done.store.unique = Added(s, sub, i)
      BY <3>1, <1>2
    <3>3. PICK key : key = Key(i)
      OBVIOUS
    <3>4. /\ DOMAIN done.store.unique = {key} \cup DOMAIN s.unique
          /\ done.store.unique[key].rowid = i.rowid
          /\ \A k \in DOMAIN s.unique : done.store.unique[k] = s.unique[k]
      BY <3>2, <3>3, <2>3 DEF Added, With, CheckIfThere
    <3>5. key = <<i.field, i.val>> /\ key[1] = i.field /\ key[2] = i.val
      BY <3>3 DEF Key
    <3>6. NoDeleteSent => \A k \in DOMAIN done.store.unique :
            k[1] = 0 => InsertedKey(k[2], done.store.unique[k].rowid)
      BY <3>4, <3>5, <1>1 DEF StoreInv
    <3>7. StoreInv(done.store)
      BY <3>2, <3>6, <1>2 DEF StoreInv
    <3> QED BY <3>2, <3>4, <3>5, <3>7 DEF Grows
  <2> QED BY <2>2, <2>3
<1>6. CASE i.val # NULL /\ IndexType[i.field] = "UNIQUE" /\ ~i.add
  <2>1. done = ApplyUniqueDelete(s, sub, i)
    BY <1>6 DEF ApplyIndex
  <2>2. NoDeleteSent => i.field # 0
    BY <1>1, <1>6
  <2>3. CASE done.store = s
    BY <2>2, <2>3, GrowsNot
  <2>4. CASE done.store = [s EXCEPT !.unique = Rm(s, i)]
    <3>1. DOMAIN done.store = DOMAIN s /\ done.store.rows = s.rows /\ done.store.unique = Rm(s, i)
      BY <2>4, <1>2
    <3>2. PICK key : key = Key(i)
      OBVIOUS
    <3>3. /\ DOMAIN done.store.unique = DOMAIN s.unique \ {key}
          /\ \A k \in DOMAIN done.store.unique : done.store.unique[k] = s.unique[k]
      BY <3>1, <3>2 DEF Rm, Without, Restrict
    <3>4. NoDeleteSent => key[1] # 0
      BY <3>2, <2>2 DEF Key
    <3>5. StoreInv(done.store)
      BY <3>1, <3>3, <1>2 DEF StoreInv
    <3> QED BY <3>1, <3>3, <3>4, <3>5, <2>2 DEF Grows
  <2> QED BY <2>1, <2>3, <2>4 DEF ApplyUniqueDelete, Done, NotYet
<1> QED BY <1>1, <1>3, <1>4, <1>5, <1>6

\* What Engine::apply has at hand in the middle of a message.
AccInv(a, p, sub) ==
  /\ DOMAIN a = {"store", "records", "indices", "dies"}
  /\ StoreInv(a.store) /\ a.records \in Seq(RecordsUnder(p, sub)) /\ a.indices \in Seq(Items)

\* apply, a record: what does not fit is put aside.
LEMMA RecordStepKept ==
  ASSUME PrimaryInv, NEW p \in Partitions, NEW sub, NEW x \in RecordsUnder(p, sub),
         NEW a, AccInv(a, p, sub), NEW b, b = RecordStep(a, sub, x)
  PROVE  /\ AccInv(b, p, sub) /\ Grows(a.store, b.store)
         /\ x[2].cmd = "INSERT" => x[1] \in DOMAIN b.store.rows
<1>1. PICK done : done = ApplyRecord(a.store, sub, x)
  OBVIOUS
<1>2. /\ StoreInv(done.store) /\ Grows(a.store, done.store)
      /\ x[2].cmd = "INSERT" => x[1] \in DOMAIN done.store.rows
  BY <1>1, RecordKept DEF AccInv
<1>3. b = [a EXCEPT !.store = done.store, !.records = IF done.ok THEN @ ELSE Append(@, x),
                    !.dies = @ \/ UpdateDies(a.store, x)]
  BY <1>1 DEF RecordStep
<1>4. /\ DOMAIN b = DOMAIN a /\ b.store = done.store /\ b.indices = a.indices
      /\ b.records = a.records \/ b.records = Append(a.records, x)
  BY <1>3 DEF AccInv
<1>5. Append(a.records, x) \in Seq(RecordsUnder(p, sub))
  BY DEF AccInv
<1> QED BY <1>2, <1>4, <1>5 DEF AccInv

\* The records of a message: every row inserted is there afterwards.
LEMMA RecordsApplied ==
  ASSUME PrimaryInv, NEW p \in Partitions, NEW sub, NEW records \in Seq(RecordsUnder(p, sub)),
         NEW acc, AccInv(acc, p, sub), NEW a, a = ApplyRecords(acc, sub, records)
  PROVE  /\ AccInv(a, p, sub) /\ Grows(acc.store, a.store)
         /\ \A i \in DOMAIN records : records[i][2].cmd = "INSERT" => records[i][1] \in DOMAIN a.store.rows
<1>1. PICK n \in Nat : DOMAIN records = 1 .. n /\ \A i \in 1 .. n : records[i] \in RecordsUnder(p, sub)
  OBVIOUS
<1>0. PICK g : RecordsRun(g, acc, sub, records, n)
  BY <1>1, RecordsInTurn
<1>2. /\ g[0] = acc /\ a = g[n]
      /\ \A k \in 0 .. n - 1 : g[k + 1] = RecordStep(g[k], sub, records[k + 1])
  BY <1>0 DEF RecordsRun
<1> DEFINE In(k) == \A i \in 1 .. k : records[i][2].cmd = "INSERT" => records[i][1] \in DOMAIN g[k].store.rows
           K == {k \in Nat : k <= n => AccInv(g[k], p, sub) /\ Grows(acc.store, g[k].store) /\ In(k)}
<1>3. 0 \in K
  <2>1. 1 .. 0 = {}
    OBVIOUS
  <2> QED BY <1>2, <2>1, GrowsNot
<1>4. ASSUME NEW k \in K PROVE k + 1 \in K
  <2>1. k \in Nat /\ k + 1 \in Nat
    OBVIOUS
  <2> SUFFICES ASSUME k + 1 <= n PROVE AccInv(g[k + 1], p, sub) /\ Grows(acc.store, g[k + 1].store) /\ In(k + 1)
    BY <2>1
  <2>2. k \in 0 .. n - 1 /\ k <= n /\ k + 1 \in 1 .. n
    BY <2>1
  <2>3. AccInv(g[k], p, sub) /\ Grows(acc.store, g[k].store) /\ In(k)
    BY <2>2
  <2>4. g[k + 1] = RecordStep(g[k], sub, records[k + 1]) /\ records[k + 1] \in RecordsUnder(p, sub)
    BY <1>1, <1>2, <2>2
  <2>5. /\ AccInv(g[k + 1], p, sub) /\ Grows(g[k].store, g[k + 1].store)
        /\ records[k + 1][2].cmd = "INSERT" => records[k + 1][1] \in DOMAIN g[k + 1].store.rows
    BY <2>3, <2>4, RecordStepKept
  <2>6. In(k + 1)
    <3>1. \A i \in 1 .. k + 1 : i = k + 1 \/ i \in 1 .. k
      BY <2>1
    <3> QED BY <2>3, <2>5, <3>1 DEF Grows
  <2> QED BY <2>3, <2>5, <2>6, GrowsOn
<1>5. n \in K
  <2> HIDE DEF K
  <2>1. K \in SUBSET Nat
    BY DEF K
  <2> QED BY <1>3, <1>4, <2>1, SetInduction
<1> QED BY <1>1, <1>2, <1>5

\* apply, an index change.
LEMMA ItemStepKept ==
  ASSUME NEW p, NEW sub, NEW x \in Items, NEW a, AccInv(a, p, sub), NEW b, b = ItemStep(a, p, sub, x)
  PROVE  /\ AccInv(b, p, sub) /\ Grows(a.store, b.store)
         /\ NoDeleteSent /\ IndexType[0] = "UNIQUE" /\ x.field = 0 /\ x.val # NULL =>
              <<0, x.val>> \in DOMAIN b.store.unique
<1>1. PICK done : done = ApplyIndex(a.store, p, sub, x)
  OBVIOUS
<1>2. /\ StoreInv(done.store) /\ Grows(a.store, done.store)
      /\ NoDeleteSent /\ IndexType[0] = "UNIQUE" /\ x.field = 0 /\ x.val # NULL =>
           <<0, x.val>> \in DOMAIN done.store.unique
  BY <1>1, ItemKept, ReplicationAssumption DEF AccInv
<1>3. b = [a EXCEPT !.store = done.store, !.indices = IF done.ok THEN @ ELSE Append(@, x)]
  BY <1>1 DEF ItemStep
<1>4. /\ DOMAIN b = DOMAIN a /\ b.store = done.store /\ b.records = a.records
      /\ b.indices = a.indices \/ b.indices = Append(a.indices, x)
  BY <1>3 DEF AccInv
<1>5. Append(a.indices, x) \in Seq(Items)
  BY DEF AccInv
<1> QED BY <1>2, <1>4, <1>5 DEF AccInv

\* The index changes of a message: every key is there afterwards.
HasKeys(s, indices) ==
  NoDeleteSent /\ IndexType[0] = "UNIQUE" =>
    \A i \in DOMAIN indices : indices[i].field = 0 /\ indices[i].val # NULL =>
                                <<0, indices[i].val>> \in DOMAIN s.unique

\* apply, all the index changes of a message: the keys are there afterwards.
LEMMA ItemsApplied ==
  ASSUME NEW p, NEW sub, NEW indices \in Seq(Items),
         NEW acc, AccInv(acc, p, sub), NEW a, a = ApplyIndices(acc, p, sub, indices)
  PROVE  /\ AccInv(a, p, sub) /\ Grows(acc.store, a.store)
         /\ HasKeys(a.store, indices)
<1>1. PICK n \in Nat : DOMAIN indices = 1 .. n /\ \A i \in 1 .. n : indices[i] \in Items
  OBVIOUS
<1>2. PICK g : /\ g[0] = acc /\ a = g[n]
               /\ \A k \in 0 .. n - 1 : g[k + 1] = ItemStep(g[k], p, sub, indices[k + 1])
  BY <1>1, ItemsInTurn
<1> DEFINE In(k) == NoDeleteSent /\ IndexType[0] = "UNIQUE" =>
                      \A i \in 1 .. k : indices[i].field = 0 /\ indices[i].val # NULL =>
                                          <<0, indices[i].val>> \in DOMAIN g[k].store.unique
           K == {k \in Nat : k <= n => AccInv(g[k], p, sub) /\ Grows(acc.store, g[k].store) /\ In(k)}
<1>3. 0 \in K
  <2>1. 1 .. 0 = {}
    OBVIOUS
  <2> QED BY <1>2, <2>1, GrowsNot
<1>4. ASSUME NEW k \in K PROVE k + 1 \in K
  <2>1. k \in Nat /\ k + 1 \in Nat
    OBVIOUS
  <2> SUFFICES ASSUME k + 1 <= n PROVE AccInv(g[k + 1], p, sub) /\ Grows(acc.store, g[k + 1].store) /\ In(k + 1)
    BY <2>1
  <2>2. k \in 0 .. n - 1 /\ k <= n /\ k + 1 \in 1 .. n
    BY <2>1
  <2>3. AccInv(g[k], p, sub) /\ Grows(acc.store, g[k].store) /\ In(k)
    BY <2>2
  <2>4. g[k + 1] = ItemStep(g[k], p, sub, indices[k + 1]) /\ indices[k + 1] \in Items
    BY <1>1, <1>2, <2>2
  <2>5. /\ AccInv(g[k + 1], p, sub) /\ Grows(g[k].store, g[k + 1].store)
        /\ NoDeleteSent /\ IndexType[0] = "UNIQUE" /\ indices[k + 1].field = 0 /\ indices[k + 1].val # NULL =>
             <<0, indices[k + 1].val>> \in DOMAIN g[k + 1].store.unique
    BY <2>3, <2>4, ItemStepKept
  <2>6. In(k + 1)
    <3>1. \A i \in 1 .. k + 1 : i = k + 1 \/ i \in 1 .. k
      BY <2>1
    <3> SUFFICES ASSUME NoDeleteSent, IndexType[0] = "UNIQUE", NEW i \in 1 .. k + 1,
                        indices[i].field = 0, indices[i].val # NULL
                 PROVE  <<0, indices[i].val>> \in DOMAIN g[k + 1].store.unique
      OBVIOUS
    <3>2. CASE i = k + 1
      BY <3>2, <2>5
    <3>3. CASE i \in 1 .. k
      <4>1. PICK key : key = <<0, indices[i].val>>
        OBVIOUS
      <4>2. key[1] = 0 /\ key \in DOMAIN g[k].store.unique
        BY <3>3, <4>1, <2>3
      <4> QED BY <4>1, <4>2, <2>5 DEF Grows
    <3> QED BY <3>1, <3>2, <3>3
  <2> QED BY <2>3, <2>5, <2>6, GrowsOn
<1>5. n \in K
  <2> HIDE DEF K
  <2>1. K \in SUBSET Nat
    BY DEF K
  <2> QED BY <1>3, <1>4, <2>1, SetInduction
<1> QED BY <1>1, <1>2, <1>5 DEF HasKeys

\* The walk through the records put aside.
LEMMA RecordsKept ==
  ASSUME PrimaryInv, NEW p \in Partitions, NEW sub, NEW records \in Seq(RecordsUnder(p, sub)),
         NEW s0, StoreInv(s0), NEW a, a = RetryRecords(s0, sub, records)
  PROVE  StoreInv(a.store) /\ Grows(s0, a.store) /\ a.kept \in Seq(RecordsUnder(p, sub))
<1>1. PICK n \in Nat : DOMAIN records = 1 .. n /\ \A i \in 1 .. n : records[i] \in RecordsUnder(p, sub)
  OBVIOUS
<1>2. PICK g : /\ g[0] = RecordsLeft(s0) /\ a = g[n]
               /\ \A k \in 0 .. n - 1 : g[k + 1] = RecordAgain(g[k], sub, records[k + 1])
  BY <1>1, RecordsAgainInTurn
<1> DEFINE OK(k) == /\ DOMAIN g[k] = {"store", "kept", "skip", "dies"} /\ StoreInv(g[k].store)
                    /\ Grows(s0, g[k].store) /\ g[k].kept \in Seq(RecordsUnder(p, sub))
           K == {k \in Nat : k <= n => OK(k)}
<1>3. 0 \in K
  <2>1. /\ DOMAIN g[0] = {"store", "kept", "skip", "dies"} /\ g[0].store = s0
        /\ g[0].kept = <<>>
    BY <1>2 DEF RecordsLeft
  <2>2. <<>> \in Seq(RecordsUnder(p, sub))
    OBVIOUS
  <2>3. Grows(s0, g[0].store) /\ g[0].kept \in Seq(RecordsUnder(p, sub))
    BY <2>1, <2>2, GrowsNot
  <2>4. OK(0)
    BY <2>1, <2>3
  <2> QED BY <2>4
<1>4. ASSUME NEW k \in K PROVE k + 1 \in K
  <2>1. k \in Nat /\ k + 1 \in Nat
    OBVIOUS
  <2> SUFFICES ASSUME k + 1 <= n PROVE OK(k + 1)
    BY <2>1
  <2>2. k \in 0 .. n - 1 /\ k <= n /\ k + 1 \in 1 .. n
    BY <2>1
  <2>3. OK(k)
    BY <2>2
  <2>4. PICK x \in RecordsUnder(p, sub) : g[k + 1] = RecordAgain(g[k], sub, x)
    BY <1>1, <1>2, <2>2
  <2>5. PICK done : done = ApplyRecord(g[k].store, sub, x)
    OBVIOUS
  <2>6. StoreInv(done.store) /\ Grows(g[k].store, done.store)
    BY <2>3, <2>5, RecordKept
  <2>7. /\ DOMAIN g[k + 1] = DOMAIN g[k]
        /\ \/ g[k + 1].store = g[k].store /\ g[k + 1].kept = Append(g[k].kept, x)
           \/ g[k + 1].store = done.store /\ g[k + 1].kept = g[k].kept
    BY <2>3, <2>4, <2>5 DEF RecordAgain
  <2>8. Append(g[k].kept, x) \in Seq(RecordsUnder(p, sub))
    BY <2>3
  <2> QED BY <2>3, <2>6, <2>7, <2>8, GrowsOn
<1>5. n \in K
  <2> HIDE DEF K
  <2>1. K \in SUBSET Nat
    BY DEF K
  <2> QED BY <1>3, <1>4, <2>1, SetInduction
<1> QED BY <1>1, <1>2, <1>5

\* And through the index changes.
LEMMA ItemsKept ==
  ASSUME NEW p, NEW sub, NEW indices \in Seq(Items),
         NEW s0, StoreInv(s0), NEW a, a = RetryIndices(s0, p, sub, indices)
  PROVE  StoreInv(a.store) /\ Grows(s0, a.store) /\ a.kept \in Seq(Items)
<1>1. PICK n \in Nat : DOMAIN indices = 1 .. n /\ \A i \in 1 .. n : indices[i] \in Items
  OBVIOUS
<1>2. PICK g : /\ g[0] = ItemsLeft(s0) /\ a = g[n]
               /\ \A k \in 0 .. n - 1 : g[k + 1] = ItemAgain(g[k], p, sub, indices[k + 1])
  BY <1>1, ItemsAgainInTurn
<1> DEFINE OK(k) == /\ DOMAIN g[k] = {"store", "kept", "skip"} /\ StoreInv(g[k].store)
                    /\ Grows(s0, g[k].store) /\ g[k].kept \in Seq(Items)
           K == {k \in Nat : k <= n => OK(k)}
<1>3. 0 \in K
  <2>1. /\ DOMAIN g[0] = {"store", "kept", "skip"} /\ g[0].store = s0
        /\ g[0].kept = <<>>
    BY <1>2 DEF ItemsLeft
  <2>2. <<>> \in Seq(Items)
    OBVIOUS
  <2>3. Grows(s0, g[0].store) /\ g[0].kept \in Seq(Items)
    BY <2>1, <2>2, GrowsNot
  <2>4. OK(0)
    BY <2>1, <2>3
  <2> QED BY <2>4
<1>4. ASSUME NEW k \in K PROVE k + 1 \in K
  <2>1. k \in Nat /\ k + 1 \in Nat
    OBVIOUS
  <2> SUFFICES ASSUME k + 1 <= n PROVE OK(k + 1)
    BY <2>1
  <2>2. k \in 0 .. n - 1 /\ k <= n /\ k + 1 \in 1 .. n
    BY <2>1
  <2>3. OK(k)
    BY <2>2
  <2>4. PICK x \in Items : g[k + 1] = ItemAgain(g[k], p, sub, x)
    BY <1>1, <1>2, <2>2
  <2>5. PICK done : done = ApplyIndex(g[k].store, p, sub, x)
    OBVIOUS
  <2>6. StoreInv(done.store) /\ Grows(g[k].store, done.store)
    BY <2>3, <2>5, ItemKept, ReplicationAssumption
  <2>7. /\ DOMAIN g[k + 1] = DOMAIN g[k]
        /\ \/ g[k + 1].store = g[k].store /\ g[k + 1].kept = Append(g[k].kept, x)
           \/ g[k + 1].store = done.store /\ g[k + 1].kept = g[k].kept
    BY <2>3, <2>4, <2>5 DEF ItemAgain
  <2>8. Append(g[k].kept, x) \in Seq(Items)
    BY <2>3
  <2> QED BY <2>3, <2>6, <2>7, <2>8, GrowsOn
<1>5. n \in K
  <2> HIDE DEF K
  <2>1. K \in SUBSET Nat
    BY DEF K
  <2> QED BY <1>3, <1>4, <2>1, SetInduction
<1> QED BY <1>1, <1>2, <1>5

\* The walk through all that was put aside.
LEMMA WalkKept ==
  ASSUME PrimaryInv, NEW p \in Partitions, NEW b, BackgroundInv(b, p),
         NEW s0, StoreInv(s0), NEW a, a = Retry(s0, b, p)
  PROVE  StoreInv(a.store) /\ Grows(s0, a.store) /\ BackgroundInv(a.b, p)
<1>1. PICK n \in Nat : DOMAIN b \subseteq 0 .. n
  BY DEF BackgroundInv
<1>2. PICK g : /\ g[0] = SubsLeft(s0, b) /\ a = g[n + 1]
               /\ \A k \in 0 .. n : /\ k \in DOMAIN b => g[k + 1] = SubAgain(g[k], b, p, k)
                                    /\ k \notin DOMAIN b => g[k + 1] = g[k]
  BY <1>1, SubsInTurn
<1> DEFINE OK(k) == /\ DOMAIN g[k] = {"store", "b", "dies"} /\ StoreInv(g[k].store)
                    /\ Grows(s0, g[k].store) /\ BackgroundInv(g[k].b, p) /\ DOMAIN g[k].b = DOMAIN b
           K == {k \in Nat : k <= n + 1 => OK(k)}
<1>3. 0 \in K
  <2>1. DOMAIN g[0] = {"store", "b", "dies"} /\ g[0].store = s0 /\ g[0].b = b
    BY <1>2 DEF SubsLeft
  <2> QED BY <2>1, GrowsNot
<1>4. ASSUME NEW k \in K PROVE k + 1 \in K
  <2>1. k \in Nat /\ k + 1 \in Nat
    OBVIOUS
  <2> SUFFICES ASSUME k + 1 <= n + 1 PROVE OK(k + 1)
    BY <2>1
  <2>2. k \in 0 .. n /\ k <= n + 1
    BY <2>1
  <2>3. OK(k)
    BY <2>2
  <2>4. CASE k \notin DOMAIN b
    <3>1. g[k + 1] = g[k]
      BY <2>2, <2>4, <1>2
    <3> QED BY <3>1, <2>3
  <2>5. CASE k \in DOMAIN b
    <3>1. PICK rows : rows = RetryRecords(g[k].store, k, b[k].records)
      OBVIOUS
    <3>2. PICK idx : idx = RetryIndices(rows.store, p, k, b[k].indices)
      OBVIOUS
    <3>3. b[k].records \in Seq(RecordsUnder(p, k)) /\ b[k].indices \in Seq(Items)
      BY <2>5 DEF BackgroundInv
    <3>4. StoreInv(rows.store) /\ Grows(g[k].store, rows.store) /\ rows.kept \in Seq(RecordsUnder(p, k))
      BY <2>3, <3>1, <3>3, RecordsKept
    <3>5. StoreInv(idx.store) /\ Grows(rows.store, idx.store) /\ idx.kept \in Seq(Items)
      BY <3>2, <3>3, <3>4, ItemsKept
    <3>6. g[k + 1] = SubAgain(g[k], b, p, k)
      BY <2>2, <2>5, <1>2
    <3>7. /\ DOMAIN g[k + 1] = {"store", "b", "dies"} /\ g[k + 1].store = idx.store
          /\ g[k + 1].b = [g[k].b EXCEPT ![k].records = rows.kept, ![k].indices = idx.kept]
      BY <3>1, <3>2, <3>6 DEF SubAgain
    <3>8. PICK c : c = g[k].b
      OBVIOUS
    <3>9. PICK d : d = g[k + 1].b
      OBVIOUS
    <3>10. BackgroundInv(c, p) /\ DOMAIN c = DOMAIN b /\ d = [c EXCEPT ![k].records = rows.kept, ![k].indices = idx.kept]
      BY <3>7, <3>8, <3>9, <2>3
    <3>11. /\ DOMAIN d = DOMAIN c /\ DOMAIN d[k] = DOMAIN c[k]
           /\ d[k].records = rows.kept /\ d[k].indices = idx.kept
           /\ \A m \in DOMAIN c : m # k => d[m] = c[m]
      BY <3>10, <2>5 DEF BackgroundInv
    <3>12. BackgroundInv(d, p)
      BY <3>4, <3>5, <3>10, <3>11 DEF BackgroundInv
    <3>13. Grows(s0, idx.store)
      BY <2>3, <3>4, <3>5, GrowsOn
    <3> QED BY <3>5, <3>7, <3>9, <3>10, <3>11, <3>12, <3>13
  <2> QED BY <2>4, <2>5
<1>5. n + 1 \in K
  <2> HIDE DEF K
  <2>1. K \in SUBSET Nat /\ n + 1 \in Nat
    BY DEF K
  <2> QED BY <1>3, <1>4, <2>1, SetInduction
<1> QED BY <1>1, <1>2, <1>5

\* Engine::background.
LEMMA BackgroundKept ==
  ASSUME NEW p \in Partitions, NEW b, BackgroundInv(b, p), NEW msg, msg.sub \in Nat,
         NEW acc, AccInv(acc, p, msg.sub)
  PROVE  BackgroundInv(Background(b, msg, acc), p)
<1>1. PICK c : c = Background(b, msg, acc)
  OBVIOUS
<1>2. PICK sub : sub = msg.sub
  OBVIOUS
<1>3. CASE c = b
  BY <1>1, <1>3
<1>4. CASE c # b
  <2>1. PICK old : /\ old = IF sub \in DOMAIN b THEN b[sub] ELSE [from |-> msg.from, records |-> <<>>, indices |-> <<>>]
                   /\ c = With(b, sub, [old EXCEPT !.records = @ \o acc.records, !.indices = @ \o acc.indices])
    BY <1>1, <1>2, <1>4 DEF Background
  <2>2. /\ DOMAIN old = {"from", "records", "indices"}
        /\ old.records \in Seq(RecordsUnder(p, sub)) /\ old.indices \in Seq(Items)
    BY <2>1 DEF BackgroundInv
  <2>3. acc.records \in Seq(RecordsUnder(p, sub)) /\ acc.indices \in Seq(Items)
    BY <1>2 DEF AccInv
  <2>4. old.records \o acc.records \in Seq(RecordsUnder(p, sub)) /\ old.indices \o acc.indices \in Seq(Items)
    BY <2>2, <2>3
  <2>5. PICK new : new = [old EXCEPT !.records = @ \o acc.records, !.indices = @ \o acc.indices]
    OBVIOUS
  <2>6. /\ DOMAIN new = DOMAIN old /\ new.records = old.records \o acc.records
        /\ new.indices = old.indices \o acc.indices
    BY <2>2, <2>5
  <2>7. /\ DOMAIN c = {sub} \cup DOMAIN b /\ c[sub] = new
        /\ \A m \in DOMAIN b : m # sub => c[m] = b[m]
    BY <2>1, <2>5 DEF With
  <2>8. \E n \in Nat : DOMAIN c \subseteq 0 .. n
    <3>1. PICK n \in Nat : DOMAIN b \subseteq 0 .. n
      BY DEF BackgroundInv
    <3>2. sub \in Nat /\ n + sub \in Nat /\ 0 .. n \subseteq 0 .. n + sub /\ sub \in 0 .. n + sub
      BY <1>2
    <3> QED BY <2>7, <3>1, <3>2
  <2>9. \A m \in DOMAIN c : /\ DOMAIN c[m] = {"from", "records", "indices"}
                            /\ c[m].records \in Seq(RecordsUnder(p, m)) /\ c[m].indices \in Seq(Items)
    BY <2>2, <2>4, <2>6, <2>7 DEF BackgroundInv
  <2> QED BY <2>8, <2>9, <1>1 DEF BackgroundInv
<1> QED BY <1>3, <1>4

-----------------------------------------------------------------------------
\* A finite set as a sequence.
Lists(q, S) == q \in Seq(S) /\ \A x \in S : \E i \in DOMAIN q : q[i] = x

\* Every element of a finite set is somewhere in its sequence.
LEMMA SetAsSequence ==
  ASSUME NEW S, IsFiniteSet(S)
  PROVE  Lists(SetToSeq(S), S)
<1>0. PICK n \in Nat : n = Cardinality(S)
  BY FS_CardinalityType
<1>1. PICK f : f \in Bijection(1 .. Cardinality(S), S)
  BY FS_NatBijection, FS_CardinalityType DEF ExistsBijection
<1>2. f \in [1 .. Cardinality(S) -> S] /\ IsInjective(f)
  BY <1>1 DEF Bijection, Injection, IsInjective
<1>3. PICK q : q = SetToSeq(S)
  OBVIOUS
<1>4. q \in [1 .. n -> S] /\ IsInjective(q)
  BY <1>0, <1>2, <1>3 DEF SetToSeq
<1>5. q \in Injection(1 .. n, S)
  BY <1>4 DEF Injection, IsInjective
<1>6. IsFiniteSet(1 .. n) /\ Cardinality(1 .. n) = n
  BY FS_Interval
<1>7. q \in Surjection(1 .. n, S)
  BY <1>0, <1>5, <1>6, FS_Injection
<1>8. q \in Seq(S) /\ DOMAIN q = 1 .. n
  BY <1>4
<1>9. \A x \in S : \E i \in 1 .. n : q[i] = x
  BY <1>7 DEF Surjection
<1> QED BY <1>3, <1>8, <1>9 DEF Lists

\* A record has finitely many index changes.
LEMMA FewItems ==
  ASSUME NEW a, NEW b, NEW c, NEW d
  PROVE  IsFiniteSet({a, b, c, d})
<1>1. IsFiniteSet({a}) /\ IsFiniteSet({b}) /\ IsFiniteSet({c}) /\ IsFiniteSet({d})
  BY FS_Singleton
<1>2. IsFiniteSet({a} \cup {b}) /\ IsFiniteSet({c} \cup {d})
  BY <1>1, FS_Union
<1>3. IsFiniteSet(({a} \cup {b}) \cup ({c} \cup {d}))
  BY <1>2, FS_Union
<1>4. ({a} \cup {b}) \cup ({c} \cup {d}) = {a, b, c, d}
  OBVIOUS
<1> QED BY <1>3, <1>4

\* handledispatch: the index changes of a record are few.
LEMMA FiniteItems ==
  ASSUME NEW change, change.cmd \in {"INSERT", "UPDATE", "DELETE"}, NEW rowid, NEW garbage
  PROVE  IsFiniteSet(IndexItems(change, rowid, garbage))
<1>1. Indexed \subseteq {0, 1}
  BY DEF Indexed, Fields
<1> DEFINE Adds == {IndexItem(TRUE, 0, change.new[0], rowid), IndexItem(TRUE, 1, change.new[1], rowid),
                    IndexItem(FALSE, 0, change.original[0], rowid), IndexItem(FALSE, 1, change.original[1], rowid)}
           Dels == {IndexItem(FALSE, 0, garbage[0], rowid), IndexItem(FALSE, 1, garbage[1], rowid),
                    IndexItem(FALSE, 0, garbage[0], rowid), IndexItem(FALSE, 1, garbage[1], rowid)}
<1>2. IsFiniteSet(Adds) /\ IsFiniteSet(Dels)
  BY FewItems
<1>3. CASE change.cmd = "INSERT"
  <2>1. IndexItems(change, rowid, garbage) = {IndexItem(TRUE, f, change.new[f], rowid) : f \in Indexed}
    BY <1>3 DEF IndexItems
  <2>2. IndexItems(change, rowid, garbage) \subseteq Adds
    BY <1>1, <2>1
  <2> QED BY <1>2, <2>2, FS_Subset
<1>4. CASE change.cmd = "UPDATE"
  <2>1. IndexItems(change, rowid, garbage) =
          UNION {{IndexItem(FALSE, f, change.original[f], rowid), IndexItem(TRUE, f, change.new[f], rowid)}
                 : f \in {g \in Indexed : change.original[g] # change.new[g]}}
    BY <1>4 DEF IndexItems
  <2>2. IndexItems(change, rowid, garbage) \subseteq Adds
    BY <1>1, <2>1
  <2> QED BY <1>2, <2>2, FS_Subset
<1>5. CASE change.cmd = "DELETE"
  <2>1. IndexItems(change, rowid, garbage) = {IndexItem(FALSE, f, garbage[f], rowid) : f \in Indexed}
    BY <1>5 DEF IndexItems
  <2>2. IndexItems(change, rowid, garbage) \subseteq Dels
    BY <1>1, <2>1
  <2> QED BY <1>2, <2>2, FS_Subset
<1> QED BY <1>3, <1>4, <1>5

\* What the index changes of a sent record may be.
LEMMA SentItems ==
  ASSUME PrimaryInv, ReplicationAssumption, NEW t \in Sent, NEW u \in DOMAIN txn[t].staged, NEW garbage,
         txn[t].staged[u].cmd = "DELETE" => garbage \in Rows,
         NEW i \in IndexItems(txn[t].staged[u], u[2], garbage)
  PROVE  i \in Items
<1>1. PICK c : c = txn[t].staged[u]
  OBVIOUS
<1>2. /\ u[2] \in Nat /\ c.cmd \in {"INSERT", "UPDATE", "DELETE"} /\ c.new \in Rows
      /\ c.cmd = "UPDATE" => c.original \in Rows /\ c.original[0] = c.new[0]
  BY <1>1 DEF PrimaryInv, StagedInv, ChangeInv, Sent
<1>3. Indexed \subseteq Fields /\ \A row \in Rows : \A f \in Fields : row[f] \in Vals \cup {NULL}
  BY DEF Indexed, Rows
<1>4. CASE c.cmd = "INSERT"
  <2>1. PICK f \in Indexed : i = IndexItem(TRUE, f, c.new[f], u[2])
    BY <1>1, <1>4 DEF IndexItems
  <2>2. c.new[f] \in Vals \cup {NULL}
    BY <1>2, <1>3
  <2>3. i = [add |-> TRUE, field |-> f, val |-> c.new[f], rowid |-> u[2]]
    BY <2>1 DEF IndexItem
  <2>4. i.field = 0 => InsertedKey(i.val, i.rowid)
    BY <2>3, <1>1, <1>4 DEF InsertedKey, Inserts, NewRow
  <2>5. i \in [add : BOOLEAN, field : Indexed, val : Vals \cup {NULL}, rowid : Nat]
    BY <2>2, <2>3, <1>2
  <2> QED BY <2>3, <2>4, <2>5 DEF Items
<1>5. CASE c.cmd = "UPDATE"
  <2>1. PICK f \in Indexed : /\ c.original[f] # c.new[f]
                             /\ \/ i = IndexItem(TRUE, f, c.new[f], u[2])
                                \/ i = IndexItem(FALSE, f, c.original[f], u[2])
    BY <1>1, <1>5 DEF IndexItems
  <2>2. c.new[f] \in Vals \cup {NULL} /\ c.original[f] \in Vals \cup {NULL} /\ f # 0
    BY <1>2, <1>3, <1>5, <2>1
  <2>3. PICK add \in BOOLEAN, v \in Vals \cup {NULL} : i = [add |-> add, field |-> f, val |-> v, rowid |-> u[2]]
    BY <2>1, <2>2 DEF IndexItem
  <2>4. i \in [add : BOOLEAN, field : Indexed, val : Vals \cup {NULL}, rowid : Nat] /\ i.field # 0
    BY <2>2, <2>3, <1>2
  <2> QED BY <2>4 DEF Items
<1>6. CASE c.cmd = "DELETE"
  <2>1. PICK f \in Indexed : i = IndexItem(FALSE, f, garbage[f], u[2])
    BY <1>1, <1>6 DEF IndexItems
  <2>2. garbage[f] \in Vals \cup {NULL}
    BY <1>1, <1>3, <1>6
  <2>3. i = [add |-> FALSE, field |-> f, val |-> garbage[f], rowid |-> u[2]]
    BY <2>1 DEF IndexItem
  <2>4. ~NoDeleteSent
    BY <1>1, <1>6 DEF NoDeleteSent
  <2>5. i \in [add : BOOLEAN, field : Indexed, val : Vals \cup {NULL}, rowid : Nat]
    BY <2>2, <2>3, <1>2
  <2> QED BY <2>4, <2>5 DEF Items
<1> QED BY <1>2, <1>4, <1>5, <1>6

\* What is in a message to an Engine: the records of a partition and the index changes
\* that go to it.
SaysRecords(q, t, p) ==
  /\ q \in Seq(RecordsUnder(p, txn[t].subs[p]))
  /\ \A u \in Inserts(t) : u[1] = p => \E i \in DOMAIN q : q[i] = <<u, txn[t].staged[u]>>
SaysItems(q, t, p) ==
  /\ q \in Seq(Items)
  /\ IndexType[0] = "UNIQUE" => \A u \in Inserts(t) : u[1] = p =>
       \E i \in DOMAIN q : q[i].field = 0 /\ q[i].val = NewRow(t, u)[0]
Says(m, t) ==
  /\ m.from[1] = t /\ m.part \in Partitions /\ m.sub = txn[t].subs[m.part] /\ m.sub \in Nat
  /\ SaysRecords(m.records, t, m.part) /\ SaysItems(m.indices, t, m.part)

\* handledispatch: the records of a partition.
LEMMA MessageRecords ==
  ASSUME PrimaryInv, NEW t \in Sent, NEW p, NEW d, d.staged = txn[t].staged, NEW garbage,
         NEW q, q = ApplyMsg(d, p, garbage).records
  PROVE  SaysRecords(q, t, p)
<1> DEFINE U == RecordsOf(d.staged, p)
           S == {<<u, d.staged[u]>> : u \in U}
<1>1. U = {u \in DOMAIN txn[t].staged : u[1] = p}
  BY DEF RecordsOf
<1>2. IsFiniteSet(U)
  <2>1. IsFiniteSet(DOMAIN txn[t].staged)
    BY DEF PrimaryInv, StagedInv, Sent
  <2>2. U \subseteq DOMAIN txn[t].staged
    BY <1>1
  <2> HIDE DEF U
  <2> QED BY <2>1, <2>2, FS_Subset
<1>3. IsFiniteSet(S)
  <2>1. PICK f : f = [u \in U |-> <<u, d.staged[u]>>]
    OBVIOUS
  <2>2. f \in Surjection(U, S)
    BY <2>1 DEF Surjection
  <2> HIDE DEF U, S
  <2> QED BY <1>2, <2>2, FS_Surjection
<1>4. q \in Seq(S) /\ \A x \in S : \E i \in DOMAIN q : q[i] = x
  <2>1. q = SetToSeq(S)
    BY DEF ApplyMsg
  <2> HIDE DEF S
  <2>2. Lists(q, S)
    BY <1>3, <2>1, SetAsSequence
  <2> QED BY <2>2 DEF Lists
<1>5. S \subseteq RecordsUnder(p, txn[t].subs[p])
  BY <1>1 DEF RecordsUnder, Owners
<1>6. q \in Seq(RecordsUnder(p, txn[t].subs[p]))
  <2> HIDE DEF S
  <2> QED BY <1>4, <1>5
<1>7. ASSUME NEW u \in Inserts(t), u[1] = p PROVE \E i \in DOMAIN q : q[i] = <<u, txn[t].staged[u]>>
  <2>1. u \in U
    BY <1>1, <1>7 DEF Inserts
  <2>2. <<u, txn[t].staged[u]>> \in S
    BY <2>1
  <2> HIDE DEF S
  <2> QED BY <1>4, <2>2
<1> QED BY <1>6, <1>7 DEF SaysRecords

\* And the index changes that go to it.
LEMMA MessageItems ==
  ASSUME PrimaryInv, ReplicationAssumption, NEW t \in Sent, NEW p, NEW d, d.staged = txn[t].staged,
         NEW garbage \in Garbage(d), NEW q,
         q = SetToSeq({i \in UNION {ItemsOf(d, r, garbage) : r \in Destinations(d.staged)} :
                         PartitionOf[i.val] = p})
  PROVE  SaysItems(q, t, p)
<1> DEFINE U == DOMAIN txn[t].staged
           Of(u) == IndexItems(txn[t].staged[u], u[2], garbage)
           W == {Of(u) : u \in U}
           S == {i \in UNION {ItemsOf(d, r, garbage) : r \in Destinations(d.staged)} : PartitionOf[i.val] = p}
<1>1. StagedInv(t)
  BY DEF PrimaryInv, Sent
<1>2. \A i : i \in S <=> PartitionOf[i.val] = p /\ \E u \in U : i \in Of(u)
  BY DEF ItemsOf, Destinations, RecordsOf
<1>3. ASSUME NEW u \in U PROVE Of(u) \subseteq Items /\ IsFiniteSet(Of(u))
  <2>1. txn[t].staged[u].cmd \in {"INSERT", "UPDATE", "DELETE"}
    BY <1>1 DEF StagedInv, ChangeInv
  <2>2. txn[t].staged[u].cmd = "DELETE" => garbage \in Rows
    BY DEF Garbage
  <2>3. ASSUME NEW i \in Of(u) PROVE i \in Items
    BY <2>2, SentItems, ReplicationAssumption
  <2>4. IsFiniteSet(Of(u))
    BY <2>1, FiniteItems
  <2> QED BY <2>3, <2>4
<1>4. IsFiniteSet(W)
  <2>1. PICK f : f = [u \in U |-> Of(u)]
    OBVIOUS
  <2>2. f \in Surjection(U, W)
    <3> HIDE DEF Of, U
    <3> QED BY <2>1 DEF Surjection
  <2>3. IsFiniteSet(U)
    BY <1>1 DEF StagedInv
  <2> HIDE DEF U, W
  <2> QED BY <2>2, <2>3, FS_Surjection
<1>5. IsFiniteSet(S)
  <2>1. \A w \in W : IsFiniteSet(w)
    <3> HIDE DEF Of
    <3> QED BY <1>3
  <2>2. IsFiniteSet(UNION W)
    <3> HIDE DEF W
    <3> QED BY <1>4, <2>1, FS_UNION
  <2>3. S \subseteq UNION W
    <3> HIDE DEF S, Of, U
    <3> QED BY <1>2
  <2> HIDE DEF S, W
  <2> QED BY <2>2, <2>3, FS_Subset
<1>6. q \in Seq(S) /\ \A x \in S : \E i \in DOMAIN q : q[i] = x
  <2> HIDE DEF S
  <2>1. q = SetToSeq(S)
    BY DEF S
  <2>2. Lists(q, S)
    BY <1>5, <2>1, SetAsSequence
  <2> QED BY <2>2 DEF Lists
<1>7. q \in Seq(Items)
  <2> HIDE DEF S, Of, U
  <2>1. S \subseteq Items
    BY <1>2, <1>3
  <2> QED BY <1>6, <2>1
<1>8. ASSUME IndexType[0] = "UNIQUE", NEW u \in Inserts(t), u[1] = p
      PROVE  \E i \in DOMAIN q : q[i].field = 0 /\ q[i].val = NewRow(t, u)[0]
  <2>1. PICK c : c = txn[t].staged[u]
    OBVIOUS
  <2>2. u \in U /\ c.cmd = "INSERT" /\ p = PartitionOf[c.new[0]]
    BY <1>1, <1>8, <2>1 DEF Inserts, StagedInv, ChangeInv
  <2>3. PICK i : i = IndexItem(TRUE, 0, c.new[0], u[2])
    OBVIOUS
  <2>4. 0 \in Indexed
    BY <1>8 DEF Indexed, Fields
  <2>5. i \in Of(u)
    BY <2>1, <2>2, <2>3, <2>4 DEF IndexItems
  <2>6. i.field = 0 /\ i.val = c.new[0]
    BY <2>3 DEF IndexItem
  <2>7. i \in S
    <3> HIDE DEF S, Of, U
    <3> QED BY <1>2, <2>2, <2>5, <2>6
  <2> HIDE DEF S, Of, U
  <2>8. PICK j \in DOMAIN q : q[j] = i
    BY <1>6, <2>7
  <2>9. q[j].field = 0 /\ q[j].val = NewRow(t, u)[0]
    BY <2>1, <2>6, <2>8 DEF NewRow
  <2> QED BY <2>9
<1> QED BY <1>7, <1>8 DEF SaysItems

\* A message to an Engine says what its transaction has changed in the partition.
LEMMA MessageSays ==
  ASSUME PrimaryInv, ReplicationAssumption, NEW r, NEW m, ApplyInv(r, m)
  PROVE  \E t \in Sent : Says(m, t)
<1>1. PICK t \in Sent : \E copy \in {1, 2} : \E p \in Destinations(txn[t].staged) :
        \E garbage \in Garbage(Dispatch(t, r, copy)) : m = ApplyMsg(Dispatch(t, r, copy), p, garbage)
  BY DEF ApplyInv
<1>2. PICK copy, p : /\ p \in Destinations(txn[t].staged)
                     /\ \E garbage \in Garbage(Dispatch(t, r, copy)) : m = ApplyMsg(Dispatch(t, r, copy), p, garbage)
  BY <1>1
<1>3. PICK d : d = Dispatch(t, r, copy)
  OBVIOUS
<1>4. PICK garbage \in Garbage(d) : m = ApplyMsg(d, p, garbage)
  BY <1>2, <1>3
<1>5. d.txn = t /\ d.staged = txn[t].staged /\ d.subs = txn[t].subs
  BY <1>3 DEF Dispatch
<1>6. /\ m.from = <<t, d.copy>> /\ m.part = p /\ m.sub = txn[t].subs[p]
      /\ m.indices = SetToSeq({i \in UNION {ItemsOf(d, q, garbage) : q \in Destinations(d.staged)} :
                                 PartitionOf[i.val] = p})
  BY <1>4, <1>5 DEF ApplyMsg
<1>7. p \in Partitions /\ txn[t].subs[p] \in Nat
  BY <1>2 DEF Destinations, PrimaryInv, StagedInv, ChangeInv, Sent
<1>8. SaysRecords(m.records, t, p)
  BY <1>4, <1>5, MessageRecords
<1>9. SaysItems(m.indices, t, p)
  BY <1>5, <1>6, MessageItems
<1>10. m.from[1] = t
  BY <1>6
<1> QED BY <1>6, <1>7, <1>8, <1>9, <1>10 DEF Says

\* Engine::apply.
LEMMA EngineApplies ==
  ASSUME PrimaryInv, ReplicationAssumption, NEW s, StoreInv(s), NEW msg, NEW t \in Sent, Says(msg, t),
         NEW b0, BackgroundInv(b0, msg.part),
         NEW acc, acc = ApplyItems(msg, s), NEW b, b = Background(b0, msg, acc),
         NEW walk, walk = Retry(acc.store, b, msg.part)
  PROVE  /\ StoreInv(walk.store) /\ BackgroundInv(walk.b, msg.part) /\ Grows(s, walk.store)
         /\ \A u \in Inserts(t) : u[1] = msg.part => Has(walk.store, t, u)
<1>1. PICK p, sub : p = msg.part /\ sub = msg.sub
  OBVIOUS
<1>2. /\ p \in Partitions /\ sub \in Nat
      /\ msg.records \in Seq(RecordsUnder(p, sub)) /\ msg.indices \in Seq(Items)
  BY <1>1 DEF Says, SaysRecords, SaysItems
<1>3. AccInv(NoneLeft(s), p, sub) /\ NoneLeft(s).store = s
  <2>1. /\ DOMAIN NoneLeft(s) = {"store", "records", "indices", "dies"} /\ NoneLeft(s).store = s
        /\ NoneLeft(s).records = <<>> /\ NoneLeft(s).indices = <<>>
    BY DEF NoneLeft
  <2>2. <<>> \in Seq(RecordsUnder(p, sub)) /\ <<>> \in Seq(Items)
    OBVIOUS
  <2> QED BY <2>1, <2>2 DEF AccInv
<1>4. PICK a : a = ApplyRecords(NoneLeft(s), sub, msg.records)
  OBVIOUS
<1>5. /\ AccInv(a, p, sub) /\ Grows(s, a.store)
      /\ \A i \in DOMAIN msg.records : msg.records[i][2].cmd = "INSERT" => msg.records[i][1] \in DOMAIN a.store.rows
  BY <1>2, <1>3, <1>4, RecordsApplied
<1>6. acc = ApplyIndices(a, p, sub, msg.indices)
  BY <1>1, <1>4 DEF ApplyItems
<1>7. /\ AccInv(acc, p, sub) /\ Grows(a.store, acc.store)
      /\ HasKeys(acc.store, msg.indices)
  BY <1>2, <1>5, <1>6, ItemsApplied
<1>8. BackgroundInv(b, p) /\ StoreInv(acc.store)
  BY <1>1, <1>2, <1>7, BackgroundKept DEF AccInv
<1>9. StoreInv(walk.store) /\ Grows(acc.store, walk.store) /\ BackgroundInv(walk.b, p)
  BY <1>1, <1>2, <1>8, WalkKept
<1>10. Grows(s, walk.store) /\ Grows(a.store, walk.store)
  BY <1>5, <1>7, <1>9, GrowsOn
<1>11. ASSUME NEW u \in Inserts(t), u[1] = p PROVE Has(walk.store, t, u)
  <2>1. PICK i \in DOMAIN msg.records : msg.records[i] = <<u, txn[t].staged[u]>>
    BY <1>1, <1>11 DEF Says, SaysRecords
  <2>2. u \in DOMAIN a.store.rows
    BY <1>5, <2>1 DEF Inserts
  <2>3. u \in DOMAIN walk.store.rows
    BY <1>10, <2>2 DEF Grows
  <2>4. ASSUME NoDeleteSent, IndexType[0] = "UNIQUE" PROVE <<0, NewRow(t, u)[0]>> \in DOMAIN walk.store.unique
    <3>1. PICK j \in DOMAIN msg.indices : msg.indices[j].field = 0 /\ msg.indices[j].val = NewRow(t, u)[0]
      BY <1>1, <1>11, <2>4 DEF Says, SaysItems
    <3>2. NewRow(t, u)[0] # NULL
      BY DEF PrimaryInv, StagedInv, ChangeInv, Inserts, NewRow, Sent
    <3>3. PICK key : key = <<0, NewRow(t, u)[0]>>
      OBVIOUS
    <3>4. key \in DOMAIN acc.store.unique /\ key[1] = 0
      BY <1>7, <2>4, <3>1, <3>2, <3>3 DEF HasKeys
    <3> QED BY <1>9, <2>4, <3>3, <3>4 DEF Grows
  <2> QED BY <2>3, <2>4 DEF Has
<1> QED BY <1>1, <1>9, <1>10, <1>11

-----------------------------------------------------------------------------
\* What has been sent stays as it is.
SentStays == \A t \in Sent : t \in Sent' /\ txn'[t].staged = txn[t].staged /\ txn'[t].subs = txn[t].subs

\* What an Engine may have been sent is not less than before.
LEMMA FactsStay ==
  ASSUME SentStays
  PROVE  /\ NoDeleteSent' => NoDeleteSent
         /\ \A v, rowid : InsertedKey(v, rowid) => InsertedKey(v, rowid)'
         /\ Items \subseteq Items'
<1>1. NoDeleteSent' => NoDeleteSent
  BY DEF SentStays, NoDeleteSent
<1>2. ASSUME NEW v, NEW rowid, InsertedKey(v, rowid) PROVE InsertedKey(v, rowid)'
  <2>1. PICK t \in Sent : \E u \in Inserts(t) : NewRow(t, u)[0] = v /\ u[2] = rowid
    BY <1>2 DEF InsertedKey
  <2>2. PICK u \in Inserts(t) : NewRow(t, u)[0] = v /\ u[2] = rowid
    BY <2>1
  <2>3. t \in Sent' /\ u \in Inserts(t)' /\ NewRow(t, u)' = NewRow(t, u)
    BY DEF SentStays, Inserts, NewRow
  <2> QED BY <2>2, <2>3 DEF InsertedKey
<1>3. Items \subseteq Items'
  BY <1>1, <1>2 DEF Items
<1> QED BY <1>1, <1>2, <1>3

\* The same of the records.
LEMMA RecordsStay ==
  ASSUME SentStays, NEW p, NEW sub
  PROVE  RecordsUnder(p, sub) \subseteq RecordsUnder(p, sub)'
<1> SUFFICES ASSUME NEW x \in RecordsUnder(p, sub) PROVE x \in RecordsUnder(p, sub)'
  OBVIOUS
<1>1. PICK t \in Sent : /\ txn[t].subs[p] = sub
                        /\ \E u \in DOMAIN txn[t].staged : u[1] = p /\ x = <<u, txn[t].staged[u]>>
  BY DEF RecordsUnder, Owners
<1>2. t \in Sent' /\ txn'[t].staged = txn[t].staged /\ txn'[t].subs = txn[t].subs
  BY DEF SentStays
<1> QED BY <1>1, <1>2 DEF RecordsUnder, Owners

\* What an Engine holds was inserted, still.
LEMMA StoreStays ==
  ASSUME SentStays, NEW s, StoreInv(s)
  PROVE  StoreInv(s)'
<1>1. ASSUME NEW u \in DOMAIN s.rows
      PROVE  \E t \in Sent' : u \in Inserts(t)' /\ s.rows[u] = [row |-> NewRow(t, u)', sub |-> txn'[t].subs[u[1]]]
  <2>1. PICK t \in Sent : u \in Inserts(t) /\ s.rows[u] = [row |-> NewRow(t, u), sub |-> txn[t].subs[u[1]]]
    BY DEF StoreInv
  <2>2. t \in Sent' /\ u \in Inserts(t)' /\ NewRow(t, u)' = NewRow(t, u) /\ txn'[t].subs = txn[t].subs
    BY <2>1 DEF SentStays, Inserts, NewRow
  <2> QED BY <2>1, <2>2
<1>2. NoDeleteSent' => \A k \in DOMAIN s.unique : k[1] = 0 => InsertedKey(k[2], s.unique[k].rowid)'
  BY FactsStay DEF StoreInv
<1> QED BY <1>1, <1>2 DEF StoreInv

\* What it has put aside was sent, still.
LEMMA BackgroundStays ==
  ASSUME SentStays, NEW p, NEW b, BackgroundInv(b, p)
  PROVE  BackgroundInv(b, p)'
<1>1. ASSUME NEW sub \in DOMAIN b
      PROVE  b[sub].records \in Seq(RecordsUnder(p, sub)') /\ b[sub].indices \in Seq(Items')
  <2>1. RecordsUnder(p, sub) \subseteq RecordsUnder(p, sub)' /\ Items \subseteq Items'
    BY RecordsStay, FactsStay
  <2>2. b[sub].records \in Seq(RecordsUnder(p, sub)) /\ b[sub].indices \in Seq(Items)
    BY DEF BackgroundInv
  <2> QED BY <2>1, <2>2
<1> QED BY <1>1 DEF BackgroundInv

\* Messages and what they have brought are as good as before.
LEMMA MessagesStay ==
  ASSUME SentStays, NEW r
  PROVE  /\ \A m : ApplyInv(r, m) => ApplyInv(r, m)'
         /\ \A d : DispatchInv(d) => DispatchInv(d)'
         /\ \A t \in Sent : \A s : \A u \in Inserts(t) : Has(s, t, u) => Has(s, t, u)'
<1>1. \A t \in Sent : \A x, y : Dispatch(t, x, y)' = Dispatch(t, x, y)
  BY DEF Dispatch, SentStays
<1>2. ASSUME NEW m, ApplyInv(r, m) PROVE ApplyInv(r, m)'
  <2>1. PICK t \in Sent : \E copy \in {1, 2} : \E p \in Destinations(txn[t].staged) :
          \E garbage \in Garbage(Dispatch(t, r, copy)) : m = ApplyMsg(Dispatch(t, r, copy), p, garbage)
    BY <1>2 DEF ApplyInv
  <2>2. PICK copy \in {1, 2} : \E p \in Destinations(txn[t].staged) :
          \E garbage \in Garbage(Dispatch(t, r, copy)) : m = ApplyMsg(Dispatch(t, r, copy), p, garbage)
    BY <2>1
  <2>3. PICK d : d = Dispatch(t, r, copy) /\ d = Dispatch(t, r, copy)'
    BY <1>1
  <2>4. \E p \in Destinations(txn'[t].staged) : \E garbage \in Garbage(d) : m = ApplyMsg(d, p, garbage)
    BY <2>2, <2>3 DEF SentStays
  <2>5. t \in Sent'
    BY DEF SentStays
  <2> QED BY <2>3, <2>4, <2>5 DEF ApplyInv
<1>3. ASSUME NEW d, DispatchInv(d) PROVE DispatchInv(d)'
  BY <1>1, <1>3 DEF DispatchInv, SentStays
<1>4. ASSUME NEW t \in Sent, NEW s, NEW u, Has(s, t, u) PROVE Has(s, t, u)'
  <2>1. NewRow(t, u)' = NewRow(t, u)
    BY DEF SentStays, NewRow
  <2> QED BY <2>1, <1>4, FactsStay DEF Has
<1> QED BY <1>2, <1>3, <1>4

-----------------------------------------------------------------------------
(***************************************************************************)
(* The primary.                                                            *)
(***************************************************************************)

\* A staged change as the code makes it: an insert of a new row with a key nobody has, a
\* change of a committed row nobody else has staged.
GoodChange(u, c) ==
  /\ u[1] \in Partitions /\ u[2] \in Nat /\ u[2] < nextrowid'[u[1]]
  /\ c.cmd \in {"INSERT", "UPDATE", "DELETE"}
  /\ c.new \in Rows /\ c.new[0] # NULL /\ u[1] = PartitionOf[c.new[0]]
  /\ c.cmd = "UPDATE" => c.original \in Rows /\ c.original[0] = c.new[0]
  /\ c.cmd = "INSERT" => /\ u \notin DOMAIN primary /\ c.new[0] \notin TakenKeys
                         /\ \A s \in Txns : u \notin DOMAIN txn[s].staged
  /\ c.cmd # "INSERT" => u \in DOMAIN primary /\ c.new[0] = primary[u][0] /\ Staging(u) = {}

\* What a statement does to its transaction.
LEMMA StageSays ==
  ASSUME Shape, PrimaryInv, NEW t \in Txns, NEW u, NEW c, Stage(t, u, c), u[1] \in Partitions
  PROVE  /\ txn[t].phase = "running" /\ primary' = primary /\ DOMAIN txn' = Txns
         /\ \A s \in Txns : txn'[s].phase = txn[s].phase /\ (s # t => txn'[s] = txn[s])
         /\ txn'[t].staged = With(txn[t].staged, u, c)
         /\ nextsub' \in [Partitions -> Nat \ {0}] /\ \A p \in Partitions : nextsub[p] <= nextsub'[p]
         /\ txn'[t].subs \in [Partitions -> Nat] /\ txn'[t].subs[u[1]] # 0
         /\ \A p \in Partitions : \/ txn'[t].subs[p] = txn[t].subs[p]
                                  \/ txn'[t].subs[p] = nextsub[p] /\ nextsub'[p] = nextsub[p] + 1
<1>1. PICK p : p = u[1]
  OBVIOUS
<1>2. PICK sub : sub = IF txn[t].subs[p] # 0 THEN txn[t].subs[p] ELSE nextsub[p]
  OBVIOUS
<1>3. /\ txn[t].phase = "running" /\ primary' = primary
      /\ txn' = [txn EXCEPT ![t].staged = With(@, u, c),
                            ![t].subs[p] = IF txn[t].subs[p] # 0 THEN @ ELSE nextsub[p]]
      /\ nextsub' = [nextsub EXCEPT ![p] = IF txn[t].subs[p] # 0 THEN @ ELSE @ + 1]
  BY <1>1 DEF Stage
<1>4. /\ DOMAIN txn = Txns /\ DOMAIN txn[t] = {"phase", "staged", "wait", "subs"}
      /\ txn[t].subs \in [Partitions -> Nat] /\ nextsub \in [Partitions -> Nat \ {0}] /\ p \in Partitions
  BY <1>1 DEF Shape, PrimaryInv, StagedInv
<1>5. /\ DOMAIN txn' = Txns /\ \A s \in Txns : s # t => txn'[s] = txn[s]
      /\ txn'[t].phase = txn[t].phase /\ txn'[t].staged = With(txn[t].staged, u, c)
      /\ txn'[t].subs = [txn[t].subs EXCEPT ![p] = sub]
  BY <1>2, <1>3, <1>4
<1>6. /\ nextsub' \in [Partitions -> Nat \ {0}] /\ \A q \in Partitions : nextsub[q] <= nextsub'[q]
      /\ txn[t].subs[p] = 0 => nextsub'[p] = nextsub[p] + 1
  BY <1>3, <1>4
<1>7. /\ txn'[t].subs \in [Partitions -> Nat] /\ txn'[t].subs[p] # 0
      /\ \A q \in Partitions : \/ txn'[t].subs[q] = txn[t].subs[q]
                               \/ txn'[t].subs[q] = nextsub[q] /\ nextsub'[q] = nextsub[q] + 1
  BY <1>2, <1>4, <1>5, <1>6
<1> QED BY <1>1, <1>3, <1>5, <1>6, <1>7

\* The keys of all rows that were ever inserted are taken, while nothing has been deleted.
LEMMA KeysTaken ==
  ASSUME PrimaryInv, NoDeleteSent, NEW s \in Txns, NEW v \in Inserts(s)
  PROVE  NewRow(s, v)[0] \in TakenKeys
<1>1. CASE s \in Running
  BY <1>1 DEF TakenKeys, Inserts, NewRow
<1>2. CASE s \notin Running
  <2>1. InsertInv(s, v)
    BY <1>2 DEF PrimaryInv
  <2>2. v \in DOMAIN primary
    BY <2>1 DEF InsertInv, NoDeleteSent, Sent, Running
  <2>3. PICK q \in Txns \ Running : v \in Inserts(q) /\ primary[v][0] = NewRow(q, v)[0]
    BY <2>2 DEF PrimaryInv, RowInv
  <2>4. q = s
    BY <2>3 DEF PrimaryInv, Distinct
  <2> QED BY <2>2, <2>3, <2>4 DEF TakenKeys
<1> QED BY <1>1, <1>2

\* A statement changes what its transaction has staged and nothing that was sent.
LEMMA StagePrimary ==
  ASSUME Shape, PrimaryInv, NEW t \in Txns, NEW u, NEW c, Stage(t, u, c), GoodChange(u, c),
         nextrowid' \in [Partitions -> Nat], \A p \in Partitions : nextrowid[p] <= nextrowid'[p]
  PROVE  PrimaryInv' /\ SentStays /\ Sent' = Sent
<1>1. /\ txn[t].phase = "running" /\ primary' = primary /\ DOMAIN txn' = Txns
      /\ \A s \in Txns : txn'[s].phase = txn[s].phase /\ (s # t => txn'[s] = txn[s])
      /\ txn'[t].staged = With(txn[t].staged, u, c)
      /\ nextsub' \in [Partitions -> Nat \ {0}] /\ \A p \in Partitions : nextsub[p] <= nextsub'[p]
      /\ txn'[t].subs \in [Partitions -> Nat] /\ txn'[t].subs[u[1]] # 0
      /\ \A p \in Partitions : \/ txn'[t].subs[p] = txn[t].subs[p]
                               \/ txn'[t].subs[p] = nextsub[p] /\ nextsub'[p] = nextsub[p] + 1
  BY StageSays DEF GoodChange
<1>2. /\ nextrowid \in [Partitions -> Nat] /\ nextsub \in [Partitions -> Nat \ {0}]
      /\ \A s \in Txns : StagedInv(s)
      /\ Distinct
  BY DEF PrimaryInv
<1>3. Running' = Running /\ Sent' = Sent /\ t \in Running /\ t \notin Sent
  BY <1>1 DEF Running, Sent
<1>4. SentStays
  BY <1>1, <1>3 DEF SentStays, Sent
<1>5. u \notin DOMAIN txn[t].staged
  BY <1>3 DEF GoodChange, Staging
<1>6. /\ DOMAIN txn'[t].staged = {u} \cup DOMAIN txn[t].staged /\ txn'[t].staged[u] = c
      /\ \A v \in DOMAIN txn[t].staged : txn'[t].staged[v] = txn[t].staged[v]
  BY <1>1, <1>5 DEF With
<1>7. \A s \in Txns : /\ DOMAIN txn[s].staged \subseteq DOMAIN txn'[s].staged
                      /\ \A v \in DOMAIN txn'[s].staged :
                           \/ s = t /\ v = u
                           \/ v \in DOMAIN txn[s].staged /\ txn'[s].staged[v] = txn[s].staged[v]
  BY <1>1, <1>6
<1>8. \A s \in Running : u \notin DOMAIN txn[s].staged
  BY DEF GoodChange, Staging, Running
<1>9. Staging(u)' = {t} /\ \A v : v # u => Staging(v)' = Staging(v)
  BY <1>3, <1>6, <1>7, <1>8 DEF Staging, Running
<1>10. ASSUME NEW s \in Txns, NEW v \in DOMAIN txn'[s].staged, ~(s = t /\ v = u) PROVE ChangeInv(s, v)'
  <2>1. /\ v \in DOMAIN txn[s].staged /\ txn'[s].staged[v] = txn[s].staged[v]
        /\ ChangeInv(s, v)
    BY <1>2, <1>7, <1>10 DEF StagedInv
  <2>2. s \in Running => v # u
    BY <1>8, <2>1
  <2>3. /\ v[1] \in Partitions /\ v[2] \in Nat /\ v[2] < nextrowid[v[1]]
    BY <2>1 DEF ChangeInv
  <2>4. v[2] < nextrowid'[v[1]]
    BY <1>2, <2>3
  <2>5. txn'[s].subs[v[1]] # 0
    <3>1. PICK p \in Partitions : p = v[1]
      BY <2>3
    <3>2. txn[s].subs[p] # 0 /\ nextsub[p] # 0
      BY <1>2, <2>1, <3>1 DEF ChangeInv
    <3>3. txn'[s].subs[p] = txn[s].subs[p] \/ txn'[s].subs[p] = nextsub[p]
      <4>1. CASE s = t
        BY <1>1, <4>1
      <4>2. CASE s # t
        BY <1>1, <4>2
      <4> QED BY <4>1, <4>2
    <3> QED BY <3>1, <3>2, <3>3
  <2> QED BY <1>1, <1>3, <1>9, <2>1, <2>2, <2>4, <2>5 DEF ChangeInv
<1>11. ChangeInv(t, u)'
  BY <1>1, <1>6, <1>9 DEF ChangeInv, GoodChange
<1>12. ASSUME NEW s \in Txns PROVE StagedInv(s)'
  <2>1. IsFiniteSet(DOMAIN txn'[s].staged)
    <3>1. IsFiniteSet(DOMAIN txn[s].staged) /\ IsFiniteSet({u})
      BY <1>2, FS_Singleton DEF StagedInv
    <3>2. IsFiniteSet({u} \cup DOMAIN txn[s].staged)
      BY <3>1, FS_Union
    <3> QED BY <1>1, <1>6, <3>1, <3>2
  <2>2. txn'[s].subs \in [Partitions -> Nat] /\ \A p \in Partitions : txn'[s].subs[p] < nextsub'[p]
    <3>1. txn[s].subs \in [Partitions -> Nat] /\ \A p \in Partitions : txn[s].subs[p] < nextsub[p]
      BY <1>2 DEF StagedInv
    <3>2. txn'[s].subs \in [Partitions -> Nat]
      BY <1>1, <3>1
    <3>3. ASSUME NEW p \in Partitions PROVE txn'[s].subs[p] < nextsub'[p]
      <4>1. nextsub[p] \in Nat /\ nextsub'[p] \in Nat /\ nextsub[p] <= nextsub'[p] /\ txn[s].subs[p] \in Nat
        BY <1>1, <1>2, <3>1
      <4>2. \/ txn'[s].subs[p] = txn[s].subs[p]
            \/ txn'[s].subs[p] = nextsub[p] /\ nextsub'[p] = nextsub[p] + 1
        <5>1. CASE s = t
          BY <1>1, <5>1
        <5>2. CASE s # t
          BY <1>1, <5>2
        <5> QED BY <5>1, <5>2
      <4> QED BY <3>1, <4>1, <4>2
    <3> QED BY <3>2, <3>3
  <2>3. \A v \in DOMAIN txn'[s].staged : ChangeInv(s, v)'
    BY <1>10, <1>11
  <2> QED BY <2>1, <2>2, <2>3 DEF StagedInv
<1>13. ASSUME NEW s \in Txns \ Running PROVE s \in Txns /\ s # t /\ txn'[s] = txn[s]
  BY <1>1, <1>3
<1>14. \A v : Touched(v)' <=> Touched(v)
  BY <1>3, <1>13 DEF Touched
<1>15. \A v \in DOMAIN primary' : RowInv(v)'
  <2> SUFFICES ASSUME NEW v \in DOMAIN primary PROVE RowInv(v)'
    BY <1>1
  <2>1. RowInv(v)
    BY DEF PrimaryInv
  <2>2. PICK s \in Txns \ Running : /\ v \in Inserts(s) /\ primary[v][0] = NewRow(s, v)[0]
                                    /\ ~Touched(v) => primary[v] = NewRow(s, v)
    BY <2>1 DEF RowInv
  <2>3. v \in Inserts(s)' /\ NewRow(s, v)' = NewRow(s, v)
    BY <1>13, <2>2 DEF Inserts, NewRow
  <2> QED BY <1>1, <1>3, <1>14, <2>1, <2>2, <2>3 DEF RowInv
<1>16. \A s \in (Txns \ Running)' : \A v \in Inserts(s)' : InsertInv(s, v)'
  BY <1>1, <1>3, <1>13 DEF PrimaryInv, InsertInv, Inserts
<1>17. \A s \in Txns : \A v \in Inserts(s)' : \/ s = t /\ v = u /\ c.cmd = "INSERT"
                                              \/ v \in Inserts(s) /\ NewRow(s, v)' = NewRow(s, v)
  BY <1>6, <1>7 DEF Inserts, NewRow
<1>18. c.cmd = "INSERT" => \A s \in Txns : u \notin Inserts(s)
  BY DEF GoodChange, Inserts
<1>19. \A s, q \in Txns : \A v \in Inserts(s)' \cap Inserts(q)' : s = q
  BY <1>2, <1>17, <1>18 DEF Distinct
<1>20. ASSUME NEW s \in Txns, NEW q \in Txns, NEW p \in Partitions,
              txn'[s].subs[p] = txn'[q].subs[p], txn'[s].subs[p] # 0
       PROVE  s = q
  <2>1. \A x \in Txns : txn[x].subs[p] < nextsub[p] /\ txn[x].subs[p] \in Nat /\ nextsub[p] \in Nat
    BY <1>2 DEF StagedInv
  <2>2. \A x \in Txns : x # t => txn'[x].subs[p] = txn[x].subs[p]
    BY <1>1
  <2>3. txn'[t].subs[p] = txn[t].subs[p] \/ txn'[t].subs[p] = nextsub[p]
    BY <1>1
  <2>4. CASE txn'[t].subs[p] = txn[t].subs[p]
    BY <1>2, <1>20, <2>2, <2>4 DEF Distinct
  <2>5. CASE txn'[t].subs[p] = nextsub[p]
    <3>1. \A x \in Txns : x # t => txn'[x].subs[p] # txn'[t].subs[p]
      BY <2>1, <2>2, <2>5
    <3>2. CASE s = t \/ q = t
      BY <1>20, <3>1, <3>2
    <3>3. CASE s # t /\ q # t
      BY <1>2, <1>20, <2>2, <3>3 DEF Distinct
    <3> QED BY <3>2, <3>3
  <2> QED BY <2>3, <2>4, <2>5
<1>21. ASSUME NoDeleteSent', NEW s \in Txns, NEW q \in Txns, NEW v \in Inserts(s)', NEW w \in Inserts(q)',
              NewRow(s, v)'[0] = NewRow(q, w)'[0]
       PROVE  v = w
  <2>1. NoDeleteSent
    BY <1>4, <1>21, FactsStay
  <2>2. \A x \in Txns : \A y \in Inserts(x) : NewRow(x, y)[0] \in TakenKeys
    BY <2>1, KeysTaken
  <2>4. c.cmd = "INSERT" => NewRow(t, u)'[0] \notin TakenKeys
    BY <1>6 DEF GoodChange, NewRow
  <2>5. CASE v \in Inserts(s) /\ NewRow(s, v)' = NewRow(s, v) /\ w \in Inserts(q) /\ NewRow(q, w)' = NewRow(q, w)
    BY <1>2, <1>21, <2>1, <2>5 DEF Distinct
  <2>6. CASE s = t /\ v = u /\ c.cmd = "INSERT" /\ w \in Inserts(q) /\ NewRow(q, w)' = NewRow(q, w)
    BY <1>21, <2>2, <2>4, <2>6
  <2>7. CASE q = t /\ w = u /\ c.cmd = "INSERT" /\ v \in Inserts(s) /\ NewRow(s, v)' = NewRow(s, v)
    BY <1>21, <2>2, <2>4, <2>7
  <2> QED BY <1>17, <2>5, <2>6, <2>7
<1>22. Distinct'
  BY <1>19, <1>20, <1>21 DEF Distinct
<1>23. PrimaryInv'
  BY <1>1, <1>12, <1>15, <1>16, <1>22 DEF PrimaryInv
<1> QED BY <1>3, <1>4, <1>23

\* A committed row is in the partition of its key.
LEMMA CommittedRow ==
  ASSUME PrimaryInv, NEW u \in DOMAIN primary
  PROVE  /\ u[1] \in Partitions /\ u[2] \in Nat /\ u[2] < nextrowid[u[1]]
         /\ primary[u] \in Rows /\ primary[u][0] # NULL /\ u[1] = PartitionOf[primary[u][0]]
<1>1. PICK s \in Txns \ Running : u \in Inserts(s) /\ primary[u][0] = NewRow(s, u)[0]
  BY DEF PrimaryInv, RowInv
<1>2. ChangeInv(s, u)
  BY <1>1 DEF PrimaryInv, StagedInv, Inserts
<1> QED BY <1>1, <1>2 DEF PrimaryInv, RowInv, ChangeInv, NewRow

\* The statements.
LEMMA InsertPrimary ==
  ASSUME ReplicationAssumption, Shape, PrimaryInv, NEW t \in Txns, NEW row \in NewRows, StageInsert(t, row)
  PROVE  PrimaryInv' /\ SentStays /\ Sent' = Sent
<1>1. PICK p, n : p = PartitionOf[row[0]] /\ n = nextrowid[p]
  OBVIOUS
<1>2. PICK u, c : u = <<p, n>> /\ c = Change("INSERT", <<>>, row)
  OBVIOUS
<1>3. /\ row[0] \notin TakenKeys /\ Stage(t, u, c)
      /\ nextrowid' = [nextrowid EXCEPT ![p] = @ + 1]
  BY <1>1, <1>2 DEF StageInsert
<1>4. row \in Rows /\ row[0] # NULL /\ row[0] \in Vals \cup {NULL}
  BY DEF ReplicationAssumption, Rows, Fields
<1>5. p \in Partitions /\ nextrowid \in [Partitions -> Nat] /\ n \in Nat
  BY <1>1, <1>4 DEF ReplicationAssumption, PrimaryInv
<1>6. /\ nextrowid' \in [Partitions -> Nat] /\ nextrowid'[p] = n + 1
      /\ \A q \in Partitions : nextrowid[q] <= nextrowid'[q]
  BY <1>1, <1>3, <1>5
<1>7. u[1] = p /\ u[2] = n /\ c.cmd = "INSERT" /\ c.new = row
  BY <1>2 DEF Change
<1>8. ~(u[2] < nextrowid[u[1]])
  BY <1>1, <1>5, <1>7
<1>9. u \notin DOMAIN primary
  BY <1>8, CommittedRow
<1>10. \A s \in Txns : u \notin DOMAIN txn[s].staged
  BY <1>8 DEF PrimaryInv, StagedInv, ChangeInv
<1>11. u[2] < nextrowid'[u[1]]
  BY <1>5, <1>6, <1>7
<1>12. GoodChange(u, c)
  BY <1>1, <1>3, <1>4, <1>5, <1>7, <1>9, <1>10, <1>11 DEF GoodChange
<1> QED BY <1>3, <1>6, <1>12, StagePrimary

\* The statements: UPDATE and DELETE.
LEMMA ChangePrimary ==
  ASSUME Shape, PrimaryInv, NEW t \in Txns, NEW u \in DOMAIN primary,
         StageDelete(t, u) \/ \E v \in Vals \cup {NULL} : StageUpdate(t, u, v)
  PROVE  PrimaryInv' /\ SentStays /\ Sent' = Sent
<1>1. PICK c : /\ Stage(t, u, c) /\ c.cmd \in {"UPDATE", "DELETE"} /\ c.original = primary[u]
               /\ c.new \in Rows /\ c.new[0] = primary[u][0]
  <2>0. primary[u] \in Rows
    BY CommittedRow
  <2>1. CASE StageDelete(t, u)
    <3>1. PICK c : c = Change("DELETE", primary[u], primary[u])
      OBVIOUS
    <3>2. Stage(t, u, c)
      BY <2>1, <3>1 DEF StageDelete
    <3> QED BY <2>0, <3>1, <3>2 DEF Change
  <2>2. CASE \E v \in Vals \cup {NULL} : StageUpdate(t, u, v)
    <3>1. PICK v \in Vals \cup {NULL} : StageUpdate(t, u, v)
      BY <2>2
    <3>2. PICK c : c = Change("UPDATE", primary[u], [primary[u] EXCEPT ![1] = v])
      OBVIOUS
    <3>3. Stage(t, u, c)
      BY <3>1, <3>2 DEF StageUpdate
    <3>4. [primary[u] EXCEPT ![1] = v] \in Rows /\ [primary[u] EXCEPT ![1] = v][0] = primary[u][0]
      BY <2>0 DEF Rows, Fields
    <3>5. c.cmd = "UPDATE" /\ c.original = primary[u] /\ c.new = [primary[u] EXCEPT ![1] = v]
      BY <3>2 DEF Change
    <3> QED BY <3>3, <3>4, <3>5
  <2> QED BY <2>1, <2>2
<1>2. nextrowid' = nextrowid /\ Staging(u) = {}
  BY DEF StageDelete, StageUpdate
<1>3. /\ u[1] \in Partitions /\ u[2] \in Nat /\ u[2] < nextrowid[u[1]]
      /\ primary[u] \in Rows /\ primary[u][0] # NULL /\ u[1] = PartitionOf[primary[u][0]]
  BY CommittedRow
<1>4. GoodChange(u, c)
  BY <1>1, <1>2, <1>3 DEF GoodChange
<1>5. nextrowid' \in [Partitions -> Nat] /\ \A p \in Partitions : nextrowid[p] <= nextrowid'[p]
  BY <1>2 DEF PrimaryInv
<1> QED BY <1>1, <1>4, <1>5, StagePrimary

\* A transaction moves on: from now on the replicas may know of it, and when it is
\* committed its changes are in the primary.
MovesOn(t, phase) ==
  /\ DOMAIN txn' = Txns /\ \A s \in Txns : s # t => txn'[s] = txn[s]
  /\ txn'[t].phase = phase /\ txn'[t].staged = txn[t].staged /\ txn'[t].subs = txn[t].subs
  /\ nextrowid' = nextrowid /\ nextsub' = nextsub

\* A transaction that has moved on counts as sent.
LEMMA SentOn ==
  ASSUME NEW t \in Txns, NEW phase, phase # "running", MovesOn(t, phase)
  PROVE  SentStays /\ Sent' = Sent \cup {t}
  BY DEF MovesOn, SentStays, Sent

\* What the transactions have staged stays.
LEMMA SameChanges ==
  ASSUME NEW t \in Txns, NEW phase, MovesOn(t, phase)
  PROVE  \A s \in Txns : /\ txn'[s].staged = txn[s].staged /\ txn'[s].subs = txn[s].subs
                         /\ Inserts(s)' = Inserts(s) /\ \A u : NewRow(s, u)' = NewRow(s, u)
  BY DEF MovesOn, Inserts, NewRow

\* Rows, keys and subtransactions stay distinct.
LEMMA DistinctOn ==
  ASSUME PrimaryInv, NEW t \in Txns, NEW phase, phase # "running", MovesOn(t, phase)
  PROVE  Distinct'
<1>1. \A s \in Txns : /\ txn'[s].staged = txn[s].staged /\ txn'[s].subs = txn[s].subs
                      /\ Inserts(s)' = Inserts(s) /\ \A u : NewRow(s, u)' = NewRow(s, u)
  BY SameChanges
<1>2. NoDeleteSent' => NoDeleteSent
  BY SentOn, FactsStay
<1> QED BY <1>1, <1>2 DEF PrimaryInv, Distinct

\* A commit that waits for the replicas.
LEMMA DispatchingPrimary ==
  ASSUME PrimaryInv, NEW t \in Txns, txn[t].phase # "committed", MovesOn(t, "dispatching"), primary' = primary
  PROVE  PrimaryInv'
<1>1. \A s \in Txns : /\ txn'[s].staged = txn[s].staged /\ txn'[s].subs = txn[s].subs
                      /\ Inserts(s)' = Inserts(s) /\ \A u : NewRow(s, u)' = NewRow(s, u)
  BY SameChanges
<1>2. Running' = Running
  BY DEF Running, MovesOn
<1>3. \A u : (Staging(u)' = Staging(u)) /\ (Touched(u)' <=> Touched(u))
  BY <1>1, <1>2 DEF Staging, Touched, Running
<1>4. nextrowid' = nextrowid /\ nextsub' = nextsub
  BY DEF MovesOn
<1>5. \A s \in Txns : StagedInv(s)'
  BY <1>1, <1>2, <1>3, <1>4 DEF PrimaryInv, StagedInv, ChangeInv
<1>6. \A u \in DOMAIN primary' : RowInv(u)'
  BY <1>1, <1>2, <1>3 DEF PrimaryInv, RowInv
<1>7. \A s \in (Txns \ Running)' : \A u \in Inserts(s)' : InsertInv(s, u)'
  BY <1>1, <1>2 DEF PrimaryInv, InsertInv
<1> QED BY <1>4, <1>5, <1>6, <1>7, DistinctOn DEF PrimaryInv

\* continueCommitTransaction(1): the changes are in the primary.
LEMMA CommittedPrimary ==
  ASSUME PrimaryInv, NEW t \in Txns, txn[t].phase # "committed", MovesOn(t, "committed"),
         primary' = Committed(txn[t].staged)
  PROVE  PrimaryInv'
<1>1. \A s \in Txns : /\ txn'[s].staged = txn[s].staged /\ txn'[s].subs = txn[s].subs
                      /\ Inserts(s)' = Inserts(s) /\ \A u : NewRow(s, u)' = NewRow(s, u)
  BY SameChanges
<1>2. Running' = Running \ {t} /\ t \in Running
  BY DEF Running, MovesOn
<1>3. PICK gone : gone = {u \in DOMAIN txn[t].staged : txn[t].staged[u].cmd = "DELETE"}
  OBVIOUS
<1>4. PICK kept : kept = DOMAIN txn[t].staged \ gone
  OBVIOUS
<1>5. primary' = [u \in kept \cup (DOMAIN primary \ gone) |-> IF u \in kept THEN txn[t].staged[u].new ELSE primary[u]]
  BY <1>3, <1>4 DEF Committed
<1>6. /\ DOMAIN primary' = kept \cup (DOMAIN primary \ gone)
      /\ \A u \in kept : primary'[u] = txn[t].staged[u].new
      /\ \A u \in DOMAIN primary' : u \notin kept => u \in DOMAIN primary /\ u \notin gone /\ primary'[u] = primary[u]
  BY <1>5
<1>7. nextrowid' = nextrowid /\ nextsub' = nextsub
  BY DEF MovesOn
<1>8. \A s \in Txns : StagedInv(s)
  BY DEF PrimaryInv
<1>9. ASSUME NEW s \in Txns, NEW u \in DOMAIN txn[s].staged PROVE ChangeInv(s, u)'
  <2>1. ChangeInv(s, u)
    BY <1>8, <1>9 DEF StagedInv
  <2>2. s \in Running' => u \notin DOMAIN txn[t].staged
    <3> SUFFICES ASSUME s \in Running', u \in DOMAIN txn[t].staged PROVE FALSE
      OBVIOUS
    <3>1. s # t /\ s \in Running /\ Staging(u) = {s}
      BY <1>2, <2>1 DEF ChangeInv
    <3>2. t \in Staging(u)
      BY <1>2 DEF Staging
    <3> QED BY <3>1, <3>2
  <2>3. s \in Running' => Staging(u)' = {s}
    <3>1. Staging(u)' = Staging(u) \ {t}
      BY <1>1, <1>2 DEF Staging, Running
    <3> QED BY <1>2, <2>1, <3>1 DEF ChangeInv
  <2>4. s \in Running' => u \notin kept /\ u \notin gone
    BY <1>3, <1>4, <2>2
  <2>5. s \in Running' => /\ txn[s].staged[u].cmd = "INSERT" => u \notin DOMAIN primary'
                          /\ txn[s].staged[u].cmd # "INSERT" =>
                               u \in DOMAIN primary' /\ txn[s].staged[u].new[0] = primary'[u][0]
    BY <1>2, <1>6, <2>1, <2>4 DEF ChangeInv
  <2> QED BY <1>1, <1>7, <2>1, <2>3, <2>5 DEF ChangeInv
<1>10. \A s \in Txns : StagedInv(s)'
  BY <1>1, <1>7, <1>8, <1>9 DEF StagedInv
<1>11. \A u : Touched(u) => Touched(u)'
  BY <1>1, <1>2 DEF Touched
<1>12. ASSUME NEW u \in DOMAIN primary' PROVE RowInv(u)'
  <2>1. CASE u \notin kept
    <3>1. u \in DOMAIN primary /\ primary'[u] = primary[u] /\ RowInv(u)
      BY <1>6, <2>1 DEF PrimaryInv
    <3>2. PICK s \in Txns \ Running : /\ u \in Inserts(s) /\ primary[u][0] = NewRow(s, u)[0]
                                      /\ ~Touched(u) => primary[u] = NewRow(s, u)
      BY <3>1 DEF RowInv
    <3>3. s \in (Txns \ Running)' /\ u \in Inserts(s)' /\ NewRow(s, u)' = NewRow(s, u)
      BY <1>1, <1>2, <3>2
    <3> QED BY <1>11, <3>1, <3>2, <3>3 DEF RowInv
  <2>2. CASE u \in kept
    <3>1. /\ u \in DOMAIN txn[t].staged /\ ChangeInv(t, u) /\ primary'[u] = NewRow(t, u)
          /\ txn[t].staged[u].cmd # "DELETE"
      BY <1>3, <1>4, <1>6, <1>8, <2>2 DEF StagedInv, NewRow
    <3>2. t \in (Txns \ Running)' /\ primary'[u] \in Rows
      BY <1>2, <3>1 DEF ChangeInv, NewRow, Rows, Running
    <3>3. CASE txn[t].staged[u].cmd = "INSERT"
      <4>1. u \in Inserts(t)' /\ NewRow(t, u)' = NewRow(t, u)
        BY <1>1, <3>1, <3>3 DEF Inserts
      <4> QED BY <3>1, <3>2, <4>1 DEF RowInv, Rows
    <3>4. CASE txn[t].staged[u].cmd # "INSERT"
      <4>1. u \in DOMAIN primary /\ NewRow(t, u)[0] = primary[u][0]
        BY <1>2, <3>1, <3>4 DEF ChangeInv, NewRow
      <4>2. PICK s \in Txns \ Running : u \in Inserts(s) /\ primary[u][0] = NewRow(s, u)[0]
        BY <4>1 DEF PrimaryInv, RowInv
      <4>3. s \in (Txns \ Running)' /\ u \in Inserts(s)' /\ NewRow(s, u)' = NewRow(s, u)
        BY <1>1, <1>2, <4>2
      <4>4. Touched(u)'
        BY <1>1, <3>1, <3>2, <3>4 DEF Touched
      <4> QED BY <3>1, <3>2, <4>1, <4>2, <4>3, <4>4 DEF RowInv, Rows
    <3> QED BY <3>3, <3>4
  <2> QED BY <2>1, <2>2
<1>13. ASSUME NEW s \in (Txns \ Running)', NEW u \in Inserts(s)' PROVE InsertInv(s, u)'
  <2>0. s \in Txns /\ u \in Inserts(s)
    BY <1>1
  <2>1. CASE s = t
    <3>1. u \in kept
      BY <1>3, <1>4, <2>0, <2>1 DEF Inserts
    <3> QED BY <1>6, <3>1 DEF InsertInv
  <2>2. CASE s # t
    <3>1. InsertInv(s, u)
      BY <1>2, <1>13, <2>0, <2>2 DEF PrimaryInv
    <3>2. CASE u \in DOMAIN primary /\ u \notin gone
      BY <1>6, <3>2 DEF InsertInv
    <3>3. CASE u \in gone
      <4>1. t \in (Txns \ Running)' /\ u \in DOMAIN txn'[t].staged /\ txn'[t].staged[u].cmd = "DELETE"
        BY <1>1, <1>2, <1>3, <3>3
      <4> QED BY <4>1 DEF InsertInv
    <3>4. CASE u \notin DOMAIN primary
      <4>1. PICK q \in Txns \ Running : u \in DOMAIN txn[q].staged /\ txn[q].staged[u].cmd = "DELETE"
        BY <3>1, <3>4 DEF InsertInv
      <4>2. q \in (Txns \ Running)' /\ u \in DOMAIN txn'[q].staged /\ txn'[q].staged[u].cmd = "DELETE"
        BY <1>1, <1>2, <4>1
      <4> QED BY <4>2 DEF InsertInv
    <3> QED BY <3>2, <3>3, <3>4
  <2> QED BY <2>1, <2>2
<1> QED BY <1>7, <1>10, <1>12, <1>13, DistinctOn DEF PrimaryInv

-----------------------------------------------------------------------------
(***************************************************************************)
(* The messages.                                                           *)
(***************************************************************************)

\* What the Engines hold is as good as before when they do nothing.
LEMMA StoresStay ==
  ASSUME StoresInv, SentStays, store' = store, backgrounded' = backgrounded
  PROVE  StoresInv'
<1>1. ASSUME NEW r \in Replicas PROVE StoreInv(store[r])'
  <2>1. PICK s : s = store[r]
    OBVIOUS
  <2>2. StoreInv(s)'
    BY <2>1, StoreStays DEF StoresInv
  <2>3. s = store'[r]
    BY <2>1
  <2> QED BY <2>2, <2>3
<1>2. ASSUME NEW r \in Replicas, NEW p \in Partitions PROVE BackgroundInv(backgrounded[r][p], p)'
  <2>1. PICK b : b = backgrounded[r][p]
    OBVIOUS
  <2>2. BackgroundInv(b, p)'
    BY <2>1, BackgroundStays DEF StoresInv
  <2>3. b = backgrounded'[r][p]
    BY <2>1
  <2> QED BY <2>2, <2>3
<1> QED BY <1>1, <1>2 DEF StoresInv

\* What is delivered stays so when the replicas do nothing, whatever more is sent.
LEMMA RestKeeps ==
  ASSUME ReplicaInv, SentStays, dispatches \subseteq dispatches', applies' = applies,
         store' = store, backgrounded' = backgrounded, up' = up,
         \A d \in dispatches' \ dispatches : DispatchInv(d)',
         \A k \in acks' : k \in acks \/ k.txn \in Sent',
         \A t \in Sent' \ Sent : \A r \in Replicas \ LeftOut : Delivered(t, r)'
  PROVE  ReplicaInv'
<1>1. \A d \in dispatches' : DispatchInv(d)'
  BY MessagesStay DEF ReplicaInv
<1>2. \A r \in Replicas : \A m \in applies[r] : ApplyInv(r, m)'
  BY MessagesStay DEF ReplicaInv
<1>3. StoresInv'
  BY StoresStay DEF ReplicaInv
<1>4. ASSUME NEW t \in Sent, NEW r \in Replicas \ LeftOut PROVE Delivered(t, r)'
  <2>1. Delivered(t, r)
    BY DEF ReplicaInv
  <2>2. Inserts(t)' = Inserts(t)
    BY DEF SentStays, Inserts
  <2>3. PICK s : s = store[r] /\ s = store'[r]
    OBVIOUS
  <2>4. \A u \in Inserts(t) : Has(s, t, u) => Has(s, t, u)'
    BY MessagesStay
  <2>5. \A u \in Inserts(t) : Has(store[r], t, u) => Has(store[r], t, u)'
    BY <2>3, <2>4
  <2> QED BY <2>1, <2>2, <2>5 DEF Delivered
<1>5. \A k \in acks' : k.txn \in Sent'
  BY DEF ReplicaInv, SentStays
<1> QED BY <1>1, <1>2, <1>3, <1>4, <1>5 DEF ReplicaInv

\* A commit: the messages say what the transaction has staged, and there is one for
\* every replica that is not left out.
LEMMA DispatchesSay ==
  ASSUME ReplicationAssumption, NEW t, NumReplicas > 1
  PROVE  /\ \A d \in DispatchesOf(t) : /\ d = Dispatch(t, d.to, d.copy) /\ d.txn = t
                                       /\ d.to \in Replicas /\ d.copy \in {1, 2}
         /\ txn[t].staged # Nothing =>
              \A r \in Replicas \ LeftOut : \E d \in DispatchesOf(t) : d.txn = t /\ d.to = r
<1>1. NumReplicas \in Nat
  BY DEF ReplicationAssumption
<1>2. ASSUME NEW d \in DispatchesOf(t)
      PROVE  d = Dispatch(t, d.to, d.copy) /\ d.txn = t /\ d.to \in Replicas /\ d.copy \in {1, 2}
  <2>1. \/ d = Dispatch(t, 1, 1) /\ NumReplicas = 2
        \/ d = Dispatch(t, NumReplicas - 1, 2) /\ NumReplicas > 2
        \/ \E r \in Replicas \ {1} : d = Dispatch(t, r, 1)
    BY <1>1 DEF DispatchesOf
  <2>2. PICK r, copy : r \in Replicas /\ copy \in {1, 2} /\ d = Dispatch(t, r, copy)
    BY <2>1, <1>1 DEF Replicas
  <2> QED BY <2>2 DEF Dispatch
<1> QED BY <1>2, SentMessages

\* Transaction::commit.
LEMMA CommitPrimary ==
  ASSUME ReplicationAssumption, Shape, PrimaryInv, ReplicaInv, NEW t \in Txns, Commit(t)
  PROVE  PrimaryInv' /\ ReplicaInv'
<1>1. /\ txn[t].phase = "running" /\ dispatches' = dispatches \cup DispatchesOf(t)
      /\ acks' = acks /\ applies' = applies /\ store' = store /\ backgrounded' = backgrounded /\ up' = up
      /\ nextrowid' = nextrowid /\ nextsub' = nextsub
      /\ \/ /\ NumReplicas = 1 /\ txn' = [txn EXCEPT ![t].phase = "committed"]
            /\ primary' = Committed(txn[t].staged)
         \/ /\ NumReplicas # 1
            /\ txn' = [txn EXCEPT ![t].phase = "dispatching", ![t].wait = WaitForDispatched]
            /\ primary' = primary
  BY DEF Commit, replicaVars
<1>2. NumReplicas \in Nat \ {0}
  BY DEF ReplicationAssumption
<1>3. CASE NumReplicas = 1
  <2>1. MovesOn(t, "committed") /\ primary' = Committed(txn[t].staged)
    BY <1>1, <1>3 DEF MovesOn, Shape
  <2>2. PrimaryInv'
    BY <2>1, <1>1, CommittedPrimary
  <2>3. SentStays
    BY <2>1, SentOn
  <2>4. DispatchesOf(t) = {} /\ Replicas = {}
    BY <1>3 DEF DispatchesOf, Replicas
  <2> QED BY <2>2, <2>3, <2>4, <1>1, RestKeeps
<1>4. CASE NumReplicas > 1
  <2>1. MovesOn(t, "dispatching") /\ primary' = primary
    BY <1>1, <1>4 DEF MovesOn, Shape
  <2>2. PrimaryInv'
    BY <2>1, <1>1, DispatchingPrimary
  <2>3. SentStays /\ Sent' = Sent \cup {t}
    BY <2>1, SentOn
  <2>4. \A x, y : Dispatch(t, x, y)' = Dispatch(t, x, y)
    BY <2>1 DEF Dispatch, MovesOn
  <2>5. ASSUME NEW d \in dispatches' \ dispatches PROVE DispatchInv(d)'
    <3>1. d \in DispatchesOf(t)
      BY <1>1
    <3>2. d = Dispatch(t, d.to, d.copy) /\ d.txn = t /\ d.to \in Replicas /\ d.copy \in {1, 2}
      BY <3>1, <1>4, DispatchesSay
    <3> QED BY <3>2, <2>3, <2>4 DEF DispatchInv
  <2>6. ASSUME NEW r \in Replicas \ LeftOut PROVE Delivered(t, r)'
    <3>1. CASE txn[t].staged = Nothing
      <4>1. Inserts(t)' = {}
        BY <3>1, <2>1 DEF MovesOn, Inserts, Nothing
      <4> QED BY <4>1 DEF Delivered
    <3>2. CASE txn[t].staged # Nothing
      <4>1. \E d \in DispatchesOf(t) : d.txn = t /\ d.to = r
        BY <3>2, <1>4, DispatchesSay
      <4> QED BY <4>1, <1>1 DEF Delivered
    <3> QED BY <3>1, <3>2
  <2>7. \A s \in Sent' \ Sent : s = t
    BY <2>3
  <2> QED BY <2>2, <2>3, <2>5, <2>6, <2>7, <1>1, RestKeeps
<1> QED BY <1>2, <1>3, <1>4

\* A step of the replicas changes nothing at the primary.
LEMMA PrimaryStays ==
  ASSUME PrimaryInv, txn' = txn, primary' = primary, nextrowid' = nextrowid, nextsub' = nextsub
  PROVE  PrimaryInv' /\ SentStays /\ Sent' = Sent
<1>1. SentStays /\ Sent' = Sent
  BY DEF SentStays, Sent
<1>2. \A t \in Txns : StagedInv(t)'
  BY DEF PrimaryInv, StagedInv, ChangeInv, Running, Staging
<1>3. \A u \in DOMAIN primary' : RowInv(u)'
  BY DEF PrimaryInv, RowInv, Running, Inserts, NewRow, Touched
<1>4. \A t \in (Txns \ Running)' : \A u \in Inserts(t)' : InsertInv(t, u)'
  BY DEF PrimaryInv, InsertInv, Running, Inserts
<1>5. Distinct'
  BY DEF PrimaryInv, Distinct, NoDeleteSent, Sent, Inserts, NewRow
<1> QED BY <1>1, <1>2, <1>3, <1>4, <1>5 DEF PrimaryInv

\* A replica's answer may commit the transaction.
LEMMA AckDispatchPrimary ==
  ASSUME Shape, PrimaryInv, ReplicaInv, NEW ack \in acks, AckDispatch(ack)
  PROVE  PrimaryInv' /\ ReplicaInv'
<1>1. PICK t : t = ack.txn
  OBVIOUS
<1>2. /\ acks' = acks \ {ack} /\ dispatches' = dispatches
      /\ applies' = applies /\ store' = store /\ backgrounded' = backgrounded /\ up' = up
      /\ nextrowid' = nextrowid /\ nextsub' = nextsub
      /\ \/ txn[t].phase = "committed" /\ txn' = txn /\ primary' = primary
         \/ txn[t].phase # "committed" /\ txn' = [txn EXCEPT ![t].wait = @ - 1] /\ primary' = primary
         \/ /\ txn[t].phase # "committed" /\ txn' = [txn EXCEPT ![t].phase = "committed", ![t].wait = 0]
            /\ primary' = Committed(txn[t].staged)
  BY <1>1 DEF AckDispatch, replicaVars
<1>3. t \in Sent /\ t \in Txns /\ txn[t].phase \in {"dispatching", "committed"}
  BY <1>1 DEF ReplicaInv, Sent, Shape
<1>4. /\ PrimaryInv'
      /\ SentStays /\ Sent' = Sent
  <2>1. CASE txn[t].phase = "committed"
    <3>1. txn' = txn /\ primary' = primary
      BY <1>2, <2>1
    <3> QED BY <3>1, <1>2, PrimaryStays
  <2>2. CASE txn[t].phase = "dispatching" /\ primary' = primary /\ txn' = [txn EXCEPT ![t].wait = @ - 1]
    <3>1. MovesOn(t, "dispatching")
      BY <1>2, <1>3, <2>2 DEF MovesOn, Shape
    <3>2. PrimaryInv'
      BY <3>1, <1>3, <2>2, DispatchingPrimary
    <3> QED BY <3>1, <3>2, <1>3, SentOn
  <2>3. CASE /\ txn[t].phase = "dispatching" /\ primary' = Committed(txn[t].staged)
             /\ txn' = [txn EXCEPT ![t].phase = "committed", ![t].wait = 0]
    <3>1. MovesOn(t, "committed")
      BY <1>2, <1>3, <2>3 DEF MovesOn, Shape
    <3>2. PrimaryInv'
      BY <3>1, <1>3, <2>3, CommittedPrimary
    <3> QED BY <3>1, <3>2, <1>3, SentOn
  <2> QED BY <1>2, <1>3, <2>1, <2>2, <2>3
<1> QED BY <1>2, <1>4, RestKeeps

\* A step of replica r's agent or of one of its Engines: what has been delivered stays
\* so when a message goes only for what it brings.
LEMMA DeliveredStays ==
  ASSUME txn' = txn, NEW t \in Sent, NEW r, Delivered(t, r),
         up'[r] => up[r] /\ Grows(store[r], store'[r]),
         \A d \in dispatches : d.txn = t /\ d.to = r /\ d \notin dispatches' =>
           \/ ~up'[r]
           \/ \A u \in Inserts(t) : \E m \in applies'[r] : m.from[1] = t /\ m.part = u[1],
         \A m \in applies[r] : m.from[1] = t /\ m \notin applies'[r] =>
           \/ ~up'[r]
           \/ \A u \in Inserts(t) : m.part = u[1] => Has(store'[r], t, u)
  PROVE  Delivered(t, r)'
<1>1. Inserts(t)' = Inserts(t) /\ \A u : NewRow(t, u)' = NewRow(t, u) /\ NoDeleteSent' = NoDeleteSent
  BY DEF Inserts, NewRow, NoDeleteSent, Sent
<1>3. CASE ~up'[r]
  BY <1>3 DEF Delivered
<1>4. CASE up'[r] /\ \E d \in dispatches : d.txn = t /\ d.to = r
  <2>1. PICK d \in dispatches : d.txn = t /\ d.to = r
    BY <1>4
  <2>2. CASE d \in dispatches'
    BY <2>1, <2>2 DEF Delivered
  <2>3. CASE d \notin dispatches'
    <3>1. \A u \in Inserts(t) : \E m \in applies'[r] : m.from[1] = t /\ m.part = u[1]
      BY <1>4, <2>1, <2>3
    <3> QED BY <3>1, <1>1 DEF Delivered
  <2> QED BY <2>2, <2>3
<1>5. CASE /\ up'[r]
           /\ \A u \in Inserts(t) : \/ \E m \in applies[r] : m.from[1] = t /\ m.part = u[1]
                                    \/ Has(store[r], t, u)
  <2>1. ASSUME NEW u \in Inserts(t)
        PROVE  (\E m \in applies'[r] : m.from[1] = t /\ m.part = u[1]) \/ Has(store'[r], t, u)
    <3>1. CASE Has(store[r], t, u)
      BY <3>1, <1>5 DEF Has, Grows
    <3>2. CASE \E m \in applies[r] : m.from[1] = t /\ m.part = u[1]
      BY <3>2, <1>5
    <3> QED BY <3>1, <3>2, <1>5
  <2>2. ASSUME NEW u \in Inserts(t), Has(store'[r], t, u) PROVE Has(store[r], t, u)'
    BY <1>1, <2>2 DEF Has
  <2> QED BY <2>1, <2>2, <1>1 DEF Delivered
<1> QED BY <1>3, <1>4, <1>5 DEF Delivered

\* A Transaction Agent of a replica takes a message, or dies of it.
LEMMA HandleDispatchReplica ==
  ASSUME Shape, PrimaryInv, ReplicaInv, NEW d \in dispatches, HandleDispatch(d) \/ HandleDispatchDies(d)
  PROVE  PrimaryInv' /\ ReplicaInv'
<1>1. /\ dispatches' = dispatches \ {d} /\ txn' = txn /\ primary' = primary
      /\ nextrowid' = nextrowid /\ nextsub' = nextsub /\ store' = store /\ backgrounded' = backgrounded
      /\ \A k \in acks' : k \in acks \/ k.txn = d.txn
  BY DEF HandleDispatch, HandleDispatchDies, primaryVars
<1>2. DispatchInv(d) /\ d.to \in Replicas /\ d.txn \in Sent
  BY DEF ReplicaInv, DispatchInv
<1>3. PrimaryInv' /\ SentStays /\ Sent' = Sent
  BY <1>1, PrimaryStays
<1>4. PICK r, t : r = d.to /\ t = d.txn
  OBVIOUS
<1>5. PICK garbage :
        \/ /\ up' = up /\ garbage \in Garbage(d)
           /\ applies' = [applies EXCEPT ![r] = @ \cup {ApplyMsg(d, p, garbage) : p \in Destinations(d.staged)}]
        \/ up' = [up EXCEPT ![r] = FALSE] /\ applies' = applies
  <2>1. CASE HandleDispatch(d)
    <3>1. \E garbage \in Garbage(d) :
            applies' = [applies EXCEPT ![r] = @ \cup {ApplyMsg(d, p, garbage) : p \in Destinations(d.staged)}]
      BY <2>1, <1>4 DEF HandleDispatch
    <3>2. up' = up
      BY <2>1 DEF HandleDispatch
    <3> QED BY <3>1, <3>2
  <2>2. CASE HandleDispatchDies(d)
    BY <2>2, <1>4 DEF HandleDispatchDies
  <2> QED BY <2>1, <2>2
<1>6. /\ d = Dispatch(t, r, d.copy) /\ d.copy \in {1, 2} /\ d.staged = txn[t].staged /\ t \in Sent /\ r \in Replicas
  <2>1. d = Dispatch(t, r, d.copy) /\ d.copy \in {1, 2} /\ t \in Sent /\ r \in Replicas
    BY <1>2, <1>4 DEF DispatchInv
  <2> QED BY <2>1 DEF Dispatch
<1>7. DOMAIN applies = Replicas /\ DOMAIN up = Replicas
  BY DEF ReplicaInv, Shape
<1>8. \A p : ApplyMsg(d, p, garbage).from[1] = t /\ ApplyMsg(d, p, garbage).part = p
  BY <1>4 DEF ApplyMsg
<1>9. ASSUME NEW q \in Replicas, NEW m \in applies'[q] PROVE ApplyInv(q, m)'
  <2>1. CASE m \in applies[q]
    BY <2>1, <1>3, MessagesStay DEF ReplicaInv
  <2>2. CASE m \notin applies[q]
    <3>1. q = r /\ garbage \in Garbage(d)
      BY <2>2, <1>5, <1>7, <1>9
    <3>2. \E p \in Destinations(d.staged) : m = ApplyMsg(d, p, garbage)
      BY <2>2, <1>5, <1>6, <1>7, <1>9
    <3>3. \E copy \in {1, 2} : d = Dispatch(t, r, copy)
      BY <1>6
    <3>4. ApplyInv(r, m)
      BY <3>1, <3>2, <3>3, <1>6 DEF ApplyInv
    <3> QED BY <3>1, <3>4, <1>3, MessagesStay
  <2> QED BY <2>1, <2>2
<1>10. ASSUME NEW s \in Sent, NEW q \in Replicas \ LeftOut PROVE Delivered(s, q)'
  <2>1. Delivered(s, q)
    BY DEF ReplicaInv
  <2>2. \A m \in applies[q] : m \in applies'[q]
    BY <1>5, <1>7
  <2>3. up'[q] => up[q] /\ Grows(store[q], store'[q])
    BY <1>1, <1>5, <1>7 DEF Grows
  <2>4. ASSUME NEW e \in dispatches, e.txn = s, e.to = q, e \notin dispatches', up'[q]
        PROVE  \A u \in Inserts(s) : \E m \in applies'[q] : m.from[1] = s /\ m.part = u[1]
    <3>1. e = d /\ s = t /\ q = r
      BY <2>4, <1>1, <1>4
    <3>2. applies'[q] = applies[q] \cup {ApplyMsg(d, p, garbage) : p \in Destinations(d.staged)}
      BY <2>4, <3>1, <1>5, <1>7
    <3>3. \A u \in Inserts(s) : u[1] \in Destinations(d.staged)
      BY <3>1, <1>6 DEF Inserts, Destinations
    <3>4. \A u \in Inserts(s) : ApplyMsg(d, u[1], garbage) \in applies'[q]
      BY <3>2, <3>3
    <3> QED BY <3>1, <3>4, <1>8
  <2> QED BY <2>1, <2>2, <2>3, <2>4, <1>1, DeliveredStays
<1>11. \A e \in dispatches' : DispatchInv(e)'
  BY <1>1, <1>3, MessagesStay DEF ReplicaInv
<1>12. \A k \in acks' : k.txn \in Sent'
  BY <1>1, <1>2, <1>3 DEF ReplicaInv
<1>13. StoresInv'
  BY <1>1, <1>3, StoresStay DEF ReplicaInv
<1>14. DOMAIN applies' = Replicas
  BY <1>5, <1>7
<1> QED BY <1>3, <1>9, <1>10, <1>11, <1>12, <1>13, <1>14 DEF ReplicaInv

\* An Engine applies a message, with what it has put aside before.
LEMMA ApplyReplica ==
  ASSUME ReplicationAssumption, Shape, PrimaryInv, ReplicaInv, NEW r \in Replicas, NEW msg \in applies[r], Apply(r, msg)
  PROVE  PrimaryInv' /\ ReplicaInv'
<1>1. /\ applies' = [applies EXCEPT ![r] = @ \ {msg}] /\ dispatches' = dispatches /\ acks' = acks
      /\ txn' = txn /\ primary' = primary /\ nextrowid' = nextrowid /\ nextsub' = nextsub /\ up[r]
  BY DEF Apply, primaryVars
<1>2. PrimaryInv' /\ SentStays /\ Sent' = Sent
  BY <1>1, PrimaryStays
<1>3. DOMAIN applies = Replicas /\ DOMAIN store = Replicas /\ DOMAIN backgrounded = Replicas /\ DOMAIN up = Replicas
  BY DEF ReplicaInv, StoresInv, Shape
<1>4. PICK t \in Sent : Says(msg, t)
  BY MessageSays DEF ReplicaInv
<1>5. PICK s, b0 : s = store[r] /\ b0 = backgrounded[r][msg.part]
  OBVIOUS
<1>6. PICK acc : acc = ApplyItems(msg, s)
  OBVIOUS
<1>7. PICK b : b = Background(b0, msg, acc)
  OBVIOUS
<1>8. PICK walk : walk = Retry(acc.store, b, msg.part)
  OBVIOUS
<1>9. /\ msg.part \in Partitions /\ msg.from[1] = t
      /\ StoreInv(walk.store) /\ BackgroundInv(walk.b, msg.part) /\ Grows(s, walk.store)
      /\ \A u \in Inserts(t) : u[1] = msg.part => Has(walk.store, t, u)
  <2>1. StoreInv(s)
    BY <1>5 DEF ReplicaInv, StoresInv
  <2>2. msg.part \in Partitions /\ msg.from[1] = t
    BY <1>4 DEF Says
  <2>3. BackgroundInv(b0, msg.part)
    BY <2>2, <1>5 DEF ReplicaInv, StoresInv
  <2> QED BY <2>1, <2>2, <2>3, <1>4, <1>6, <1>7, <1>8, EngineApplies
<1>10. \/ up' = [up EXCEPT ![r] = FALSE] /\ store' = store /\ backgrounded' = backgrounded
       \/ /\ up' = up /\ store' = [store EXCEPT ![r] = walk.store]
          /\ backgrounded' = [backgrounded EXCEPT ![r][msg.part] = walk.b]
  BY <1>5, <1>6, <1>7, <1>8 DEF Apply
<1>11. StoresInv'
  <2>1. CASE store' = store /\ backgrounded' = backgrounded
    BY <2>1, <1>2, StoresStay DEF ReplicaInv
  <2>2. CASE /\ store' = [store EXCEPT ![r] = walk.store]
             /\ backgrounded' = [backgrounded EXCEPT ![r][msg.part] = walk.b]
    <3>1. ASSUME NEW q \in Replicas PROVE StoreInv(store[q])'
      <4>1. PICK x : x = store'[q]
        OBVIOUS
      <4>2. x = walk.store \/ x = store[q]
        BY <4>1, <2>2, <1>3
      <4>3. StoreInv(x)
        BY <4>2, <1>9 DEF ReplicaInv, StoresInv
      <4>4. StoreInv(x)'
        BY <4>3, <1>2, StoreStays
      <4> QED BY <4>1, <4>4
    <3>2. ASSUME NEW q \in Replicas, NEW p \in Partitions PROVE BackgroundInv(backgrounded[q][p], p)'
      <4>1. PICK x : x = backgrounded'[q][p]
        OBVIOUS
      <4>2. (x = walk.b /\ p = msg.part) \/ x = backgrounded[q][p]
        BY <4>1, <2>2, <1>3
      <4>3. BackgroundInv(x, p)
        BY <4>2, <1>9 DEF ReplicaInv, StoresInv
      <4>4. BackgroundInv(x, p)'
        BY <4>3, <1>2, BackgroundStays
      <4> QED BY <4>1, <4>4
    <3>3. \A q \in Replicas : DOMAIN backgrounded'[q] = Partitions
      BY <2>2, <1>3 DEF ReplicaInv, StoresInv
    <3> QED BY <3>1, <3>2, <3>3, <2>2, <1>3 DEF StoresInv
  <2> QED BY <2>1, <2>2, <1>10
<1>12. ASSUME NEW s1 \in Sent, NEW q \in Replicas \ LeftOut PROVE Delivered(s1, q)'
  <2>1. Delivered(s1, q)
    BY DEF ReplicaInv
  <2>2. up'[q] => up[q] /\ Grows(store[q], store'[q])
    BY <1>3, <1>5, <1>9, <1>10 DEF Grows
  <2>3. ASSUME NEW m \in applies[q], m.from[1] = s1, m \notin applies'[q], up'[q]
        PROVE  \A u \in Inserts(s1) : m.part = u[1] => Has(store'[q], s1, u)
    <3>1. m = msg /\ q = r
      BY <2>3, <1>1, <1>3
    <3>2. s1 = t /\ store'[q] = walk.store
      BY <3>1, <2>3, <1>3, <1>9, <1>10
    <3> QED BY <3>1, <3>2, <1>9
  <2> QED BY <2>1, <2>2, <2>3, <1>1, DeliveredStays
<1>13. ASSUME NEW q \in Replicas, NEW m \in applies'[q] PROVE ApplyInv(q, m)'
  <2>1. m \in applies[q]
    BY <1>1, <1>3, <1>13
  <2> QED BY <2>1, <1>2, MessagesStay DEF ReplicaInv
<1>14. \A e \in dispatches' : DispatchInv(e)'
  BY <1>1, <1>2, MessagesStay DEF ReplicaInv
<1>15. \A k \in acks' : k.txn \in Sent'
  BY <1>1, <1>2 DEF ReplicaInv
<1>16. DOMAIN applies' = Replicas
  BY <1>1, <1>3
<1> QED BY <1>2, <1>11, <1>12, <1>13, <1>14, <1>15, <1>16 DEF ReplicaInv

\* At the start nothing has been sent.
LEMMA InitReplicates == Init => PrimaryInv /\ ReplicaInv
<1> SUFFICES ASSUME Init PROVE PrimaryInv /\ ReplicaInv
  OBVIOUS
<1>1. /\ \A t \in Txns : /\ txn[t].phase = "running" /\ DOMAIN txn[t].staged = {}
                         /\ txn[t].subs = [p \in Partitions |-> 0]
      /\ DOMAIN primary = {} /\ dispatches = {} /\ acks = {}
      /\ nextrowid = [p \in Partitions |-> 1] /\ nextsub = [p \in Partitions |-> 1]
  BY DEF Init, FreshTxn, Nothing
<1>2. Sent = {} /\ \A t \in Txns : Inserts(t) = {}
  BY <1>1 DEF Sent, Inserts
<1>3. \A t \in Txns : StagedInv(t)
  <2> SUFFICES ASSUME NEW t \in Txns PROVE StagedInv(t)
    OBVIOUS
  <2>1. IsFiniteSet(DOMAIN txn[t].staged)
    BY <1>1, FS_EmptySet
  <2>2. txn[t].subs \in [Partitions -> Nat] /\ \A p \in Partitions : txn[t].subs[p] < nextsub[p]
    BY <1>1
  <2>3. \A u \in DOMAIN txn[t].staged : ChangeInv(t, u)
    BY <1>1
  <2> QED BY <2>1, <2>2, <2>3 DEF StagedInv
<1>4. PrimaryInv
  BY <1>1, <1>2, <1>3 DEF PrimaryInv, Distinct
<1>5. ASSUME NEW r \in Replicas
      PROVE  /\ applies[r] = {} /\ StoreInv(store[r]) /\ DOMAIN backgrounded[r] = Partitions
             /\ \A p \in Partitions : BackgroundInv(backgrounded[r][p], p)
  <2>1. applies[r] = {} /\ store[r] = EmptyStore /\ backgrounded[r] = [p \in Partitions |-> Nothing]
    BY DEF Init
  <2>2. StoreInv(EmptyStore)
    BY DEF StoreInv, EmptyStore, Nothing
  <2>3. \A p \in Partitions : BackgroundInv(Nothing, p)
    <3>1. DOMAIN Nothing = {} /\ 0 \in Nat
      BY DEF Nothing
    <3> QED BY <3>1 DEF BackgroundInv
  <2>4. \A p \in Partitions : backgrounded[r][p] = Nothing
    BY <2>1
  <2> QED BY <2>1, <2>2, <2>3, <2>4
<1>6. DOMAIN applies = Replicas /\ DOMAIN store = Replicas /\ DOMAIN backgrounded = Replicas
  BY DEF Init
<1>7. StoresInv
  BY <1>5, <1>6 DEF StoresInv
<1>8. ReplicaInv
  BY <1>1, <1>2, <1>5, <1>6, <1>7 DEF ReplicaInv
<1> QED BY <1>4, <1>8

\* Every step keeps the invariant.
LEMMA StepReplicates == RInv /\ PrimaryInv /\ ReplicaInv /\ [Next]_vars => PrimaryInv' /\ ReplicaInv'
<1> SUFFICES ASSUME RInv, PrimaryInv, ReplicaInv, [Next]_vars PROVE PrimaryInv' /\ ReplicaInv'
  OBVIOUS
<1> USE ReplicationAssumption
<1>1. Shape
  BY DEF RInv
<1>2. ASSUME NEW t \in Txns, ClientNext(t) PROVE PrimaryInv' /\ ReplicaInv'
  <2>1. CASE Commit(t)
    BY <2>1, <1>1, CommitPrimary
  <2>2. CASE ~Commit(t)
    <3>1. \/ \E row \in NewRows : StageInsert(t, row)
          \/ \E u \in DOMAIN primary : StageDelete(t, u) \/ \E v \in Vals \cup {NULL} : StageUpdate(t, u, v)
      BY <1>2, <2>2 DEF ClientNext
    <3>2. PrimaryInv' /\ SentStays /\ Sent' = Sent
      BY <3>1, <1>1, InsertPrimary, ChangePrimary
    <3>3. /\ dispatches' = dispatches /\ acks' = acks /\ applies' = applies
          /\ store' = store /\ backgrounded' = backgrounded /\ up' = up
      BY <3>1 DEF StageInsert, StageUpdate, StageDelete, Stage, replicaVars
    <3> QED BY <3>2, <3>3, RestKeeps
  <2> QED BY <2>1, <2>2
<1>3. ASSUME AgentNext PROVE PrimaryInv' /\ ReplicaInv'
  BY <1>1, <1>3, AckDispatchPrimary, HandleDispatchReplica DEF AgentNext
<1>4. ASSUME NEW r \in Replicas, ReplicaNext(r) PROVE PrimaryInv' /\ ReplicaInv'
  <2>1. ASSUME NEW msg \in applies[r], Apply(r, msg) PROVE PrimaryInv' /\ ReplicaInv'
    BY <2>1, <1>1, ApplyReplica
  <2>2. ASSUME NEW ack \in ackapplies[r], AckApply(r, ack) PROVE PrimaryInv' /\ ReplicaInv'
    <3>1. /\ txn' = txn /\ primary' = primary /\ nextrowid' = nextrowid /\ nextsub' = nextsub
          /\ dispatches' = dispatches /\ acks' = acks /\ applies' = applies
          /\ store' = store /\ backgrounded' = backgrounded /\ up' = up
      BY <2>2 DEF AckApply, primaryVars
    <3> QED BY <3>1, PrimaryStays, RestKeeps
  <2> QED BY <1>4, <2>1, <2>2 DEF ReplicaNext
<1>5. CASE UNCHANGED vars
  <2>1. /\ txn' = txn /\ primary' = primary /\ nextrowid' = nextrowid /\ nextsub' = nextsub
        /\ dispatches' = dispatches /\ acks' = acks /\ applies' = applies
        /\ store' = store /\ backgrounded' = backgrounded /\ up' = up
    BY <1>5 DEF vars
  <2> QED BY <2>1, PrimaryStays, RestKeeps
<1> QED BY <1>2, <1>3, <1>4, <1>5 DEF Next

\* A replica that commits do not leave out, has the inserts once it has applied
\* everything.
ServedHaveTheInserts == \A r \in Replicas \ LeftOut : up[r] /\ Quiet(r) => HasTheInserts(r)

\* When nothing is on its way, the invariant says that the inserts are there.
LEMMA InvServes == RInv /\ PrimaryInv /\ ReplicaInv => ServedHaveTheInserts
<1> SUFFICES ASSUME RInv, PrimaryInv, ReplicaInv, NEW r \in Replicas \ LeftOut, up[r], Quiet(r)
             PROVE  HasTheInserts(r)
  BY DEF ServedHaveTheInserts
<1>1. Sent = Txns \ Running /\ Sent \subseteq Txns
  BY DEF Sent, Running, Quiet, RInv, Shape
<1>2. applies[r] = {} /\ dispatches = {} /\ StoreInv(store[r])
  BY DEF Quiet, ReplicaInv, StoresInv
<1>3. ASSUME NEW u \in DOMAIN store[r].rows PROVE u \in DOMAIN primary \/ Touched(u)
  <2>1. PICK t \in Sent : u \in Inserts(t)
    BY <1>2 DEF StoreInv
  <2>2. InsertInv(t, u)
    BY <2>1, <1>1 DEF PrimaryInv
  <2> QED BY <2>2 DEF InsertInv, Touched
<1>4. ASSUME NEW u \in DOMAIN primary, ~Touched(u)
      PROVE  /\ u \in DOMAIN store[r].rows /\ store[r].rows[u].row = primary[u]
             /\ IndexType[0] = "UNIQUE" /\ ~SomeDelete =>
                  LET item == [field |-> 0, val |-> primary[u][0], rowid |-> u[2]]
                  IN  CheckIfThere(store[r], item) /\ CheckIfMatch(store[r], item)
  <2>1. PICK t \in Sent : u \in Inserts(t) /\ primary[u] = NewRow(t, u)
    BY <1>1, <1>4 DEF PrimaryInv, RowInv
  <2>2. Has(store[r], t, u)
    BY <2>1, <1>2 DEF ReplicaInv, Delivered
  <2>3. u \in DOMAIN store[r].rows
    BY <2>2 DEF Has
  <2>4. PICK s \in Sent : u \in Inserts(s) /\ store[r].rows[u].row = NewRow(s, u)
    <3>1. PICK s \in Sent : /\ u \in Inserts(s)
                            /\ store[r].rows[u] = [row |-> NewRow(s, u), sub |-> txn[s].subs[u[1]]]
      BY <2>3, <1>2 DEF StoreInv
    <3> QED BY <3>1
  <2>5. s = t
    BY <2>1, <2>4, <1>1 DEF PrimaryInv, Distinct
  <2>6. ASSUME IndexType[0] = "UNIQUE", ~SomeDelete
        PROVE  LET item == [field |-> 0, val |-> primary[u][0], rowid |-> u[2]]
               IN  CheckIfThere(store[r], item) /\ CheckIfMatch(store[r], item)
    <3> DEFINE k == <<0, primary[u][0]>>
    <3>1. NoDeleteSent
      BY <2>6, <1>1 DEF NoDeleteSent, SomeDelete
    <3>2. k \in DOMAIN store[r].unique
      BY <3>1, <2>1, <2>2, <2>6 DEF Has
    <3>3. InsertedKey(primary[u][0], store[r].unique[k].rowid)
      BY <3>1, <3>2, <1>2 DEF StoreInv
    <3>4. PICK x \in Sent : \E v \in Inserts(x) : NewRow(x, v)[0] = primary[u][0] /\ v[2] = store[r].unique[k].rowid
      BY <3>3 DEF InsertedKey
    <3>5. PICK v \in Inserts(x) : NewRow(x, v)[0] = primary[u][0] /\ v[2] = store[r].unique[k].rowid
      BY <3>4
    <3>6. u = v
      BY <3>1, <3>5, <2>1, <1>1 DEF PrimaryInv, Distinct
    <3> QED BY <3>2, <3>5, <3>6 DEF CheckIfThere, CheckIfMatch, Key
  <2> QED BY <2>1, <2>3, <2>4, <2>5, <2>6
<1> QED BY <1>3, <1>4 DEF HasTheInserts

\* A replica that commits do not leave out has, once it has applied all that is on its way,
\* every inserted row with its key, for any number of replicas and in whatever order
\* Engine::apply met the items.
THEOREM ServedReplicasHaveTheInserts == Spec => []ServedHaveTheInserts
<1>1. Spec => [](RInv /\ PrimaryInv /\ ReplicaInv)
  <2>1. Init => RInv /\ PrimaryInv /\ ReplicaInv
    BY InitKeeps, InitReplicates
  <2>2. RInv /\ PrimaryInv /\ ReplicaInv /\ [Next]_vars => (RInv /\ PrimaryInv /\ ReplicaInv)'
    BY StepKeeps, StepReplicates
  <2> QED BY <2>1, <2>2, PTL DEF Spec
<1> QED BY <1>1, InvServes, PTL

\* With one replica beside the primary, and with none, that is every replica.
THEOREM ReplicasHaveTheInserts ==
  ASSUME NumReplicas <= 2
  PROVE  Spec => []ReplicaHasTheInserts
<1>1. ServedHaveTheInserts => ReplicaHasTheInserts
  BY ReplicationAssumption DEF ServedHaveTheInserts, ReplicaHasTheInserts, LeftOut
<1> QED BY <1>1, ServedReplicasHaveTheInserts, PTL
=============================================================================
