-------------------------------- MODULE Fifo --------------------------------
(***************************************************************************)
(* What a mailbox promises: "The queue is very simple: it is a straight    *)
(* FIFO" (docs/pubs/overview.xml).  Many producers put, each its messages  *)
(* in order, one consumer takes.                                           *)
(***************************************************************************)
EXTENDS Naturals, Sequences, FiniteSets

CONSTANTS Producers, MaxMsgs

VARIABLES queue,   \* messages that can be taken
          got      \* messages that were

vars == <<queue, got>>

\* How many messages of p have been put so far.
PutBy(p) == LET all == got \o queue
            IN  Cardinality({i \in DOMAIN all : all[i][1] = p})

Init == queue = <<>> /\ got = <<>>

Put(p) == LET k == PutBy(p)
          IN  /\ k < MaxMsgs
              /\ queue' = Append(queue, <<p, k + 1>>)
              /\ UNCHANGED got

Take == /\ queue # <<>>
        /\ got' = Append(got, Head(queue))
        /\ queue' = Tail(queue)

Next == Take \/ \E p \in Producers : Put(p)

Spec == Init /\ [][Next]_vars
=============================================================================
