-------------------------------- MODULE Mbox --------------------------------
(***************************************************************************)
(* The mailbox of an actor, a lock-free queue with many producers and one  *)
(* consumer (src/infinisqld/Mbox.cc): MboxProducer::sendMsg to an actor of *)
(* the same node, and Mbox::receive.  Each step below is one atomic access *)
(* to shared memory; every access is SEQ_CST, so they interleave.          *)
(*                                                                         *)
(* A Message is linked through its own nextmsg, a pointer and a count that *)
(* are compared and exchanged together.  The consumer deletes the message  *)
(* before the one it returns, which a producer may still hold as the tail. *)
(* Reading a deleted message is undefined in C++; what a build does is     *)
(* read the memory, which keeps its old content until the allocator hands  *)
(* it out again (nextmsg lies behind the words allocators use, and the     *)
(* constructor of Message does not initialise it).                         *)
(*                                                                         *)
(* Names that Table has too begin with Mbox: EngineProofs extends both.    *)
(***************************************************************************)
EXTENDS Naturals, Sequences, FiniteSets

CONSTANTS Producers,
          MaxMsgs,     \* bound on the messages each producer sends
          Addrs,       \* memory for Message objects
          First,       \* address of firstMsg
          NoAddr,      \* NULL
          NoMsg,       \* content of firstMsg and of memory not used yet
          Recycle      \* which freed memory the allocator hands out again

ASSUME MboxAssumption == /\ Addrs \subseteq Nat /\ IsFiniteSet(Addrs)
                         /\ First \in Addrs /\ NoAddr \notin Addrs
                         /\ MaxMsgs \in Nat
                         /\ Recycle \in {"never", "unreferenced", "any"}
                         /\ NoMsg \notin Producers \X (1..MaxMsgs)

VARIABLES heap,      \* the Message objects
          fresh,     \* memory that has never been allocated
          freed,     \* memory that has been deleted
          tail,      \* Mbox::tail
          counter,   \* Mbox::counter
          current,   \* Mbox::current, the consumer's own
          received,  \* what receive has returned
          prod       \* the producers: where each is in sendMsg, and its locals

mboxVars == <<heap, fresh, freed, tail, counter, current, received, prod>>

\* getInt128FromPointer
Link(a, n) == [ptr |-> a, count |-> n]
Links == [ptr : Addrs \cup {NoAddr}, count : Nat]

Messages == Producers \X (1..MaxMsgs)

Steps == {"idle", "new", "loadtail", "loadnext", "recheck", "link", "help", "swing"}

MboxTypeOK ==
  /\ heap \in [Addrs -> [msg : Messages \cup {NoMsg}, nextmsg : Links]]
  /\ fresh \subseteq Addrs /\ freed \subseteq Addrs \ fresh
  /\ tail \in Links /\ tail.ptr # NoAddr
  /\ counter \in Nat
  /\ current \in Addrs \ fresh
  /\ received \in Seq(Messages)
  /\ prod \in [Producers -> [at : Steps, sent : 0..MaxMsgs,
                             msg : Addrs \cup {NoAddr}, mytail : Links, mynext : Links]]

\* Mbox::Mbox
MboxInit ==
  /\ heap = [a \in Addrs |-> [msg |-> NoMsg, nextmsg |-> Link(NoAddr, 5000)]]
  /\ fresh = Addrs \ {First}
  /\ freed = {}
  /\ tail = Link(First, 10000)
  /\ counter = 8888
  /\ current = First
  /\ received = <<>>
  /\ prod = [p \in Producers |-> [at |-> "idle", sent |-> 0, msg |-> NoAddr,
                                  mytail |-> Link(First, 10000),
                                  mynext |-> Link(NoAddr, 5000)]]

-----------------------------------------------------------------------------
At(p, step) == prod[p].at = step
Goto(p, step) == prod' = [prod EXCEPT ![p].at = step]

\* The memory that the queue still points to: the tail, and what a producer in the
\* loop of sendMsg took for the tail.  The consumer deletes it all the same.
Referenced == {tail.ptr} \cup {prod[p].mytail.ptr : p \in
                {q \in Producers : prod[q].at \in {"loadnext", "recheck", "link", "help", "swing"}}}

\* The memory manager: untouched memory in order, or memory that was given back.  The
\* code leaves it to the allocator which ("any").
Available == {a \in fresh : \A b \in fresh : a <= b}
             \cup (CASE Recycle = "never"        -> {}
                     [] Recycle = "unreferenced" -> freed \ Referenced
                     [] Recycle = "any"          -> freed)

\* new class Message...: nextmsg is what it was.
NewMessage(p) ==
  /\ At(p, "idle")
  /\ prod[p].sent < MaxMsgs
  /\ \E a \in Available :
       /\ heap' = [heap EXCEPT ![a].msg = <<p, prod[p].sent + 1>>]
       /\ fresh' = fresh \ {a}
       /\ freed' = freed \ {a}
       /\ prod' = [prod EXCEPT ![p].at = "new", ![p].msg = a, ![p].sent = @ + 1]
  /\ UNCHANGED <<tail, counter, current, received>>

\* msg.nextmsg = NULL, 5555
ClearNext(p) ==
  /\ At(p, "new")
  /\ heap' = [heap EXCEPT ![prod[p].msg].nextmsg = Link(NoAddr, 5555)]
  /\ Goto(p, "loadtail")
  /\ UNCHANGED <<fresh, freed, tail, counter, current, received>>

LoadTail(p) ==
  /\ At(p, "loadtail")
  /\ prod' = [prod EXCEPT ![p].mytail = tail, ![p].at = "loadnext"]
  /\ UNCHANGED <<heap, fresh, freed, tail, counter, current, received>>

\* The message mytail points to may have been deleted by now.
LoadNext(p) ==
  /\ At(p, "loadnext")
  /\ prod' = [prod EXCEPT ![p].mynext = heap[prod[p].mytail.ptr].nextmsg,
                          ![p].at = "recheck"]
  /\ UNCHANGED <<heap, fresh, freed, tail, counter, current, received>>

Recheck(p) ==
  /\ At(p, "recheck")
  /\ Goto(p, IF prod[p].mytail # tail          THEN "loadtail"
             ELSE IF prod[p].mynext.ptr = NoAddr THEN "link" ELSE "help")
  /\ UNCHANGED <<heap, fresh, freed, tail, counter, current, received>>

\* A slip in sendMsg: the pointer is stored and not compared.
LinkMessageBlindly(p) ==
  /\ At(p, "link")
  /\ counter' = counter + 1
  /\ heap' = [heap EXCEPT ![prod[p].mytail.ptr].nextmsg = Link(prod[p].msg, counter + 1)]
  /\ Goto(p, "swing")
  /\ UNCHANGED <<fresh, freed, tail, current, received>>

\* A slip in sendMsg: a failed compare and exchange ends the loop too.
LinkMessageOnce(p) ==
  LET a == prod[p].mytail.ptr
  IN  /\ At(p, "link")
      /\ counter' = counter + 1
      /\ Goto(p, "swing")
      /\ heap' = IF heap[a].nextmsg = prod[p].mynext
                   THEN [heap EXCEPT ![a].nextmsg = Link(prod[p].msg, counter + 1)]
                   ELSE heap
      /\ UNCHANGED <<fresh, freed, tail, current, received>>

\* The compare and exchange that puts the message into the queue.  The count it
\* brings along only has to be new, so taking it is part of the step.
LinkMessage(p) ==
  LET a == prod[p].mytail.ptr
  IN  /\ At(p, "link")
      /\ counter' = counter + 1
      /\ IF heap[a].nextmsg = prod[p].mynext
           THEN /\ heap' = [heap EXCEPT ![a].nextmsg = Link(prod[p].msg, counter + 1)]
                /\ Goto(p, "swing")
           ELSE /\ Goto(p, "loadtail")
                /\ UNCHANGED heap
      /\ UNCHANGED <<fresh, freed, tail, current, received>>

\* Compare and exchange of the tail, whose outcome nobody looks at.
MoveTail(p, to) ==
  /\ counter' = counter + 1
  /\ tail' = IF tail = prod[p].mytail THEN Link(to, counter + 1) ELSE tail
  /\ UNCHANGED <<heap, fresh, freed, current, received>>

\* The tail lags behind: another producer has linked a message and not moved it.
HelpTail(p) == At(p, "help") /\ MoveTail(p, prod[p].mynext.ptr) /\ Goto(p, "loadtail")

SwingTail(p) == At(p, "swing") /\ MoveTail(p, prod[p].msg) /\ Goto(p, "idle")

SendMsg(p) == \/ NewMessage(p) \/ ClearNext(p) \/ LoadTail(p) \/ LoadNext(p)
              \/ Recheck(p) \/ LinkMessage(p) \/ HelpTail(p) \/ SwingTail(p)

\* Mbox::receive with a message there: the previous one is deleted, this one
\* becomes the head of the queue and is returned.  Only the consumer changes
\* current, and nextmsg stays what it is once it is set, so this is one step.
Receive ==
  LET next == heap[current].nextmsg.ptr
  IN  /\ next # NoAddr
      /\ freed' = freed \cup {current}
      /\ current' = next
      /\ received' = Append(received, heap[next].msg)
      /\ UNCHANGED <<heap, fresh, tail, counter, prod>>

MboxNext == Receive \/ \E p \in Producers : SendMsg(p)

MboxSpec == MboxInit /\ [][MboxNext]_mboxVars

\* Every thread goes on running.
MboxFairSpec == MboxSpec /\ WF_mboxVars(Receive) /\ \A p \in Producers : WF_mboxVars(SendMsg(p))

-----------------------------------------------------------------------------
(* Properties.                                                              *)

\* The addresses reached from current along nextmsg in at most n steps.
ChainOf[n \in Nat] ==
  IF n = 0 THEN <<current>>
  ELSE LET c == ChainOf[n - 1]
           next == heap[c[Len(c)]].nextmsg.ptr
       IN  IF next = NoAddr THEN c ELSE Append(c, next)

Chain == ChainOf[Cardinality(Addrs)]

\* The messages waiting in the mailbox.
Waiting == LET c == Chain IN [i \in 1..(Len(c) - 1) |-> heap[c[i + 1]].msg]

\* The mailbox is a straight FIFO: a message enters it in the one step in which it
\* is linked, at the end, and leaves it from the front, so the messages of a
\* producer arrive in order and once (sendMsg and receive share nothing but
\* nextmsg and tail).
Queue == INSTANCE Fifo
           WITH queue <- Waiting, got <- received

ImplementsFifo == Queue!Spec

\* "The queue is very simple: it is a straight FIFO" (docs/pubs/overview.xml): when
\* sendMsg is over the message can be received or has been, once.
NoMessageLost ==
  LET all == received \o Waiting
  IN  \A p \in Producers : At(p, "idle") => \A k \in 1..prod[p].sent :
        Cardinality({i \in DOMAIN all : all[i] = <<p, k>>}) = 1

\* The tail is the last message or the one before it, also when the consumer has
\* already deleted that one: a producer that follows it finds the end of the queue.
TailLagsByOne ==
  LET c    == Chain
      last == c[Len(c)]
  IN  tail.ptr = last \/ heap[tail.ptr].nextmsg.ptr = last

\* Some message of p has been sent, or is being sent, and not been received.
Outstanding(p) == \E k \in 1..prod[p].sent : \A i \in DOMAIN received : received[i] # <<p, k>>

\* Whatever is sent arrives (a producer sends boundedly many), although it may be
\* overtaken any number of times in the loop of sendMsg and may stop between linking
\* its message and moving the tail.
EveryMessageArrives == \A p \in Producers : Outstanding(p) ~> ~Outstanding(p)
=============================================================================
