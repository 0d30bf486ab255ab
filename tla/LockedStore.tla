---------------------------- MODULE LockedStore -----------------------------
(***************************************************************************)
(* What a table promises the subtransactions that share it: a store of     *)
(* committed rows under strict two-phase row locks.  Readers share a row,  *)
(* a writer has it alone, a step belongs to one subtransaction and touches *)
(* no lock of another one, and a committed row changes only in the step in *)
(* which its writer lets go of it.                                         *)
(***************************************************************************)
CONSTANTS Rowids, Subs, NoSub, Values, NoVal

VARIABLES committed,   \* the row everyone agrees on, NoVal when there is none
          writer,      \* who may change the row, NoSub when nobody
          readers      \* who rely on the row not changing

vars == <<committed, writer, readers>>

Init == /\ committed = [r \in Rowids |-> NoVal]
        /\ writer    = [r \in Rowids |-> NoSub]
        /\ readers   = [r \in Rowids |-> {}]

SameRow(r) == /\ committed'[r] = committed[r]
              /\ writer'[r]    = writer[r]
              /\ readers'[r]   = readers[r]

Share(s, r) == /\ writer[r] = NoSub
               /\ committed'[r] = committed[r]
               /\ writer'[r]    = NoSub
               /\ readers'[r]   = readers[r] \cup {s}

Seize(s, r) == /\ writer[r] = NoSub
               /\ readers[r] = {}
               /\ committed'[r] = committed[r]
               /\ writer'[r]    = s
               /\ readers'[r]   = {}

LetGoRead(s, r) == /\ s \in readers[r]
                   /\ committed'[r] = committed[r]
                   /\ writer'[r]    = writer[r]
                   /\ readers'[r]   = readers[r] \ {s}

LetGoWrite(s, r) == /\ writer[r] = s
                    /\ committed'[r] \in Values \cup {NoVal}
                    /\ writer'[r]    = NoSub
                    /\ readers'[r]   = readers[r]

Acquire(s) == \A r \in Rowids : SameRow(r) \/ Share(s, r) \/ Seize(s, r)

Release(s) == \A r \in Rowids : SameRow(r) \/ LetGoRead(s, r) \/ LetGoWrite(s, r)

Next == \E s \in Subs : Acquire(s) \/ Release(s)

Spec == Init /\ [][Next]_vars
=============================================================================
