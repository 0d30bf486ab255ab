------------------------------ MODULE MCSearch ------------------------------
(***************************************************************************)
(* Search on small tables: the key of row n is n, the other field varies.  *)
(***************************************************************************)
EXTENDS Search

MCEngineOf == [v \in 0 .. 3 |-> v % NumEngines]
MCHome     == [r \in Rows |-> MCEngineOf[r]]

Row(a, b)  == (0 :> a) @@ (1 :> b)
MCValues   == {Row(a, b) : a \in Rows, b \in {NULL, 0, 1, 2}}
MCInt      == [f \in Fields |-> "INT"]
MCUint     == [f \in Fields |-> "UINT"]

\* Every table: nulls, equal values and every order.
MCContents == {[r \in Rows |-> Row(r, b[r])] : b \in [Rows -> {NULL, 0, 1, 2}]}

Leaf(f, op, args) == [op |-> op, field |-> f, args |-> args]
And == [op |-> "AND"]
Or  == [op |-> "OR"]

\* Every predicate, on the nonunique field.
MCPredicates ==
  {Leaf(1, op, <<1>>) : op \in {"EQ", "NE", "LT", "LTE", "GT", "GTE"}}
  \cup {Leaf(1, "BETWEEN", <<0, 1>>), Leaf(1, "NOTBETWEEN", <<1, 1>>),
        Leaf(1, "IN", <<0, 2>>), Leaf(1, "NOTIN", <<0, 2>>),
        Leaf(1, "ISNULL", <<>>), Leaf(1, "ISNOTNULL", <<>>)}

Key1  == Leaf(0, "EQ", <<1>>)
Key0  == Leaf(0, "EQ", <<0>>)
Above == Leaf(0, "GT", <<1>>)
One   == Leaf(1, "EQ", <<1>>)
Most  == Leaf(1, "GTE", <<1>>)

Query(cmd, expr) == [cmd |-> cmd, expr |-> expr]
Cmds == {"SELECT", "UPDATE"}

MCSingle == {Query(cmd, <<p>>) : p \in MCPredicates \cup {Key1, Key0}, cmd \in Cmds}

MCPairs == {Query(cmd, <<p, q, Or>>) : p \in {Key0, Most}, q \in {Above, One}, cmd \in Cmds}
           \cup {Query("UPDATE", <<p, q, And>>) : p \in {Above, One}, q \in {Key1, Most}}

MCNested == {Query("UPDATE", <<Most, Above, And, One, Or>>),
             Query("UPDATE", <<One, Above, Or, Most, And>>)}

MCQueries == MCSingle \cup MCPairs \cup MCNested

\* SELECT ... WHERE a AND b.
MCReadAnd == {Query("SELECT", <<Above, Most, And>>)}

\* UPDATE ... WHERE c OR (a AND b).
MCOrAnd == {Query("UPDATE", <<One, Most, Above, And, Or>>)}

\* SELECT ... WHERE a < 2, for unsigned fields.
MCLess == {Query("SELECT", <<Leaf(1, "LT", <<2>>)>>)}

\* SELECT ... WHERE a OR b, where nothing has a.
MCEmptyOr == {Query("SELECT", <<Leaf(1, "GT", <<2>>), One, Or>>)}
=============================================================================
