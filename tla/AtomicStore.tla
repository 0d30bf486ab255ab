---------------------------- MODULE AtomicStore -----------------------------
(***************************************************************************)
(* What the transaction protocol promises its clients: a database whose    *)
(* committed rows change only when a transaction commits, by all of its    *)
(* changes at once, at most once for each transaction, and in which no two *)
(* rows have the same value in a field with a unique index.                *)
(***************************************************************************)
CONSTANTS Txns, Uurs, UniqueFields, Values, NoVal

VARIABLES db,          \* the row at each place, NoVal where there is none
          committed    \* transactions that have committed

vars == <<db, committed>>

KeysUnique(rows) ==
  \A u, w \in Uurs, n \in UniqueFields :
    u # w /\ rows[u] # NoVal /\ rows[w] # NoVal => rows[u][n] # rows[w][n]

Init == /\ db \in [Uurs -> Values \cup {NoVal}]
        /\ KeysUnique(db)
        /\ committed = {}

Commit(t) == /\ t \notin committed
             /\ committed' = committed \cup {t}
             /\ db' \in [Uurs -> Values \cup {NoVal}]
             /\ KeysUnique(db')

Next == \E t \in Txns : Commit(t)

Spec == Init /\ [][Next]_vars
=============================================================================
