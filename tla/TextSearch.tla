----------------------------- MODULE TextSearch -----------------------------
(***************************************************************************)
(* What SubTransaction::indexSearch returns for the index of TextIndex: the *)
(* rows the methods of Index push to returnEntries, as a set.               *)
(***************************************************************************)
EXTENDS TextIndex

\* A search that walks past the end of its map: it never comes back.
NoAnswer == {0}

\* The order of the map: std::string compares bytes without sign, a CHAR index
\* compares chars, which have one.
Signed(b)  == IF b > 127 THEN b - 256 ELSE b
Less(a, b) ==
  IF fieldtype = "CHAR" THEN Signed(a[1]) < Signed(b[1])
  ELSE \E i \in 1..Len(b) : /\ \A j \in 1..(i - 1) : j \in DOMAIN a /\ a[j] = b[j]
                            /\ i \notin DOMAIN a \/ a[i] < b[i]
Atmost(a, b) == a = b \/ Less(a, b)

\* What an iterator from lower_bound(k) on, and from upper_bound(k) on, passes.
FromLower(k) == {e \in entries : Atmost(k, e.key)}
FromUpper(k) == {e \in entries : Less(k, e.key)}

\* Walking from one iterator up to another: behind the last entry a walk that has
\* not met its end goes on without one.
Walk(from, upto) == IF upto \subseteq from THEN {e.row : e \in from \ upto} ELSE NoAnswer

RowsOf(es) == {e.row : e \in es}

Ordered == MapType \in {"Unique", "Nonunique"}

-----------------------------------------------------------------------------
\* Index::getequal_f, of a string and of a char, which is not trimmed.
GetEqual(x) == RowsOf(At(KeyOf(x)))

\* Index::getnotequal(string) and getnotequal(char).
GetNotEqual(x)     == RowsOf({e \in entries : e.key # TrimSpace(x)})
GetNotEqualChar(x) == RowsOf({e \in entries : e.key # x})
NotEqual(x)        == IF fieldtype = "CHAR" THEN GetNotEqualChar(x) ELSE GetNotEqual(x)

\* Index::getin.
GetIn(xs) == UNION {GetEqual(x) : x \in xs}

\* Index::comparison(string *).  LT and LTE walk from the beginning to the upper
\* bound, GT and GTE from the lower bound to the end; the strict ones skip the equal
\* keys.  An unordered map returns nothing.
Comparison(op, x) ==
  LET k     == TrimSpace(x)
      walk  == IF op \in {"LT", "LTE"} THEN entries \ FromUpper(k) ELSE FromLower(k)
  IN  IF ~Ordered THEN {}
      ELSE RowsOf(IF op \in {"LT", "GT"} THEN walk \ At(k) ELSE walk)

\* Index::comparison(char): the same walks over the order of char.
ComparisonChar(op, x) ==
  LET walk == IF op \in {"LT", "LTE"} THEN entries \ FromUpper(x) ELSE FromLower(x)
  IN  IF ~Ordered THEN {}
      ELSE RowsOf(IF op \in {"LT", "GT"} THEN walk \ At(x) ELSE walk)

\* Index::between(string): from the lower bound of the one up to the lower bound of
\* the other, whose entry is added; a nonunique map walks to its upper bound.
Between(x, y) ==
  LET lower == TrimSpace(x)
      upper == TrimSpace(y)
  IN  IF ~Ordered \/ Less(upper, lower) THEN {}
      ELSE IF MapType = "Unique" THEN Walk(FromLower(lower), FromLower(upper)) \cup RowsOf(At(upper))
      ELSE Walk(FromLower(lower), FromUpper(upper))

\* Index::between(char).
BetweenChar(x, y) ==
  IF ~Ordered \/ Less(y, x) THEN {}
  ELSE IF MapType = "Unique" THEN Walk(FromLower(x), FromLower(y)) \cup RowsOf(At(y))
  ELSE Walk(FromLower(x), FromUpper(y))

Compare(op, x) == IF fieldtype = "CHAR" THEN ComparisonChar(op, x) ELSE Comparison(op, x)
BetweenOf(x, y) == IF fieldtype = "CHAR" THEN BetweenChar(x, y) ELSE Between(x, y)

\* Index::notbetween.
NotBetween(x, y) == Compare("LT", x) \cup Compare("GT", y)

\* Index::getnotin(string): the operands are trimmed for CHARX keys in a map or a
\* multimap and for VARCHAR keys in a map, and compared as they are otherwise.
NotInTrims == \/ fieldtype = "CHARX" /\ Ordered
              \/ fieldtype = "VARCHAR" /\ MapType = "Unique"
GetNotIn(xs) ==
  RowsOf({e \in entries : \A x \in xs : e.key # IF NotInTrims THEN TrimSpace(x) ELSE x})

\* Index::getnotin(char).
GetNotInChar(xs) == RowsOf({e \in entries : e.key \notin xs})

NotIn(xs) == IF fieldtype = "CHAR" THEN GetNotInChar(xs) ELSE GetNotIn(xs)

-----------------------------------------------------------------------------
\* like2Regex: _ becomes . and % becomes .* and every other byte stays.
Like2Regex(p) ==
  FlattenSeq([i \in DOMAIN p |-> CASE p[i] = LikeOne  -> <<AnyByte>>
                                   [] p[i] = LikeMany -> <<AnyByte, Star>>
                                   [] OTHER           -> <<p[i]>>])

\* pcrecpp::RE::FullMatch (external) for what like2Regex makes: bytes and dots, each
\* with a star or not.  m[i, j]: the expression from i on matches s from j on.
FullMatch(re, s) ==
  LET Takes(i, j) == j \in DOMAIN s /\ (re[i] = AnyByte \/ re[i] = s[j])
      m[i \in 1..(Len(re) + 1), j \in 1..(Len(s) + 1)] ==
        IF i > Len(re) THEN j > Len(s)
        ELSE IF i < Len(re) /\ re[i + 1] = Star
        THEN m[i + 2, j] \/ (Takes(i, j) /\ m[i, j + 1])
        ELSE Takes(i, j) /\ m[i + 1, j + 1]
  IN  m[1, 1]

\* Slip: getIterators ends at the prefix itself.
RegexWalkShort(re) ==
  LET b == SelectSeq(re, LAMBDA x : x \notin {AnyByte, Star})
  IN  IF re = <<>> THEN {} ELSE IF re[1] = AnyByte THEN RowsOf(entries) ELSE RowsOf(At(b))

\* Index::getIterators: what begins with the bytes before the first metacharacter,
\* from find or upper_bound of them to lower_bound of them with the last one raised,
\* a char; the test for 255 is never true of a char.  An empty expression leaves
\* both iterators as they were made, equal.
RegexEnd(b) == [b EXCEPT ![Len(b)] = (@ + 1) % 256]
RegexWalk(re) ==
  LET meta == {i \in DOMAIN re : re[i] \in {AnyByte, Star}}
      n    == IF meta = {} THEN Len(re) ELSE (CHOOSE i \in meta : \A j \in meta : i <= j) - 1
      b    == SubSeq(re, 1, n)
  IN  IF re = <<>> THEN {}
      ELSE IF n = 0 THEN RowsOf(entries)
      ELSE Walk(FromLower(b), FromLower(RegexEnd(b)))

\* Index::like and Index::regex.  An unordered map is walked whole; a CHAR index is
\* none of regex's cases.
Like(p) ==
  LET re   == Like2Regex(TrimSpace(p))
      walk == IF Ordered THEN RegexWalk(re) ELSE RowsOf(entries)
  IN  IF fieldtype = "CHAR" THEN {}
      ELSE IF walk = NoAnswer THEN NoAnswer
      ELSE walk \cap RowsOf({e \in entries : FullMatch(re, e.key)})

\* Index::notlike asks for ^((?!R).)*$, of every entry: R matches the beginning of no
\* tail of the key.
NotLike(p) ==
  LET re    == Like2Regex(TrimSpace(p))
      In(s) == \E i \in 1..Len(s), j \in 0..Len(s) : FullMatch(re, SubSeq(s, i, j))
  IN  IF fieldtype = "CHAR" THEN {} ELSE RowsOf({e \in entries : ~In(e.key)})

-----------------------------------------------------------------------------
(* Properties.                                                             *)

\* The rows the column is to be found under, each with its key: what is committed,
\* and in a unique index also what is staged.
Known ==
  {<<r, RowKey(rows[r])>> : r \in {q \in Rows : rows[q] # Absent}}
  \cup {<<work[s].row, work[s].key>> :
          s \in {t \in Subs : IsUnique /\ work[t].cmd \in {"INSERT", "UPDATE"}}}

TypeOK ==
  /\ fieldtype \in FieldTypes /\ indextype \in IndexTypes
  /\ \A e \in entries : e.row \in Rows /\ e.sub \in Subs \cup {NoSub}
  /\ \A r \in Rows : \/ rows[r] = Absent
                     \/ /\ \A i \in DOMAIN rows[r] : rows[r][i] \in Byte
                        /\ fieldtype = "CHARX" => Len(rows[r]) = Length
  /\ \A s \in Subs : work[s].cmd \in {"NONE", "INSERT", "UPDATE", "REPLACE", "DELETE"}
  /\ subs \in 0..MaxSubs /\ down \in BOOLEAN

\* The index holds an entry for every row and none for a row that is gone: the key an
\* entry was staged or inserted under is the key the commit, the rollback and the
\* delete compute again from the padded row (Transaction::continueCommitTransaction,
\* Index::commitRollback, deleteUniqueEntry, deleteNonuniqueEntry, replaceUnique).
EntriesFollowTheRows == {<<e.row, e.key>> : e \in entries} = Known

\* A staged entry is one of a transaction that is still open: no commit leaves a key
\* locked, and no rollback that the Engine survives, see RollbacksAreSurvived
\* (Index::commitRollback compares the key it is sent).
StagedKeysHaveWork ==
  \A e \in entries : e.sub # NoSub => work[e.sub].row = e.row /\ work[e.sub].key = e.key

\* No two rows of a unique index have values that differ in trailing blanks only
\* (SubTransaction::uniqueIndex, trimspace).
NoTwoRowsAlike ==
  IsUnique => \A q, r \in Rows :
    q # r /\ rows[q] # Absent /\ rows[r] # Absent => RowKey(rows[q]) # RowKey(rows[r])

Found(P(_)) == {p[1] : p \in {q \in Known : P(q[2])}}

\* Operands of IN lists have no trailing blanks here: see NotInIsExact.
InLists == {xs \in SUBSET {KeyOf(x) : x \in Values} : Cardinality(xs) \in 1..2}

\* Each search returns the rows whose value, trailing blanks apart, satisfies it, and
\* no other (Index::getequal_f, getnotequal, comparison, between, notbetween, getin,
\* getnotin).  Ranges are for ordered maps: the others answer them with nothing.
ComparisonsAreExact ==
  /\ \A x \in Values :
       LET k == KeyOf(x) IN
       /\ GetEqual(x) = Found(LAMBDA y : y = k)
       /\ NotEqual(x) = Found(LAMBDA y : y # k)
       /\ Ordered => /\ Compare("LT", x) = Found(LAMBDA y : Less(y, k))
                     /\ Compare("LTE", x) = Found(LAMBDA y : ~Less(k, y))
                     /\ Compare("GT", x) = Found(LAMBDA y : Less(k, y))
                     /\ Compare("GTE", x) = Found(LAMBDA y : ~Less(y, k))
                     /\ \A z \in Values :
                          LET j == KeyOf(z) IN
                          /\ BetweenOf(x, z) = Found(LAMBDA y : ~Less(y, k) /\ ~Less(j, y))
                          /\ NotBetween(x, z) = Found(LAMBDA y : Less(y, k) \/ Less(j, y))
  /\ \A xs \in InLists : /\ GetIn(xs) = Found(LAMBDA y : y \in xs)
                         /\ NotIn(xs) = Found(LAMBDA y : y \notin xs)

\* NOT IN is exact whatever the operands end in (Index::getnotin).
NotInIsExact ==
  \A x \in Values : NotIn({x}) = Found(LAMBDA y : y # KeyOf(x))

\* What LIKE means: _ is any one byte, % any number of them, all others themselves.
LikeMatches(p, s) ==
  LET m[i \in 1..(Len(p) + 1), j \in 1..(Len(s) + 1)] ==
        IF i > Len(p) THEN j > Len(s)
        ELSE IF p[i] = LikeMany THEN \E k \in j..(Len(s) + 1) : m[i + 1, k]
        ELSE j \in DOMAIN s /\ p[i] \in {LikeOne, s[j]} /\ m[i + 1, j + 1]
  IN  m[1, 1]

\* LIKE returns the rows whose value matches the pattern (Index::like, like2Regex,
\* getIterators, regex): the range the iterators are set to leaves no match out.
LikeIsExact ==
  fieldtype # "CHAR" =>
    \A p \in Patterns : Like(p) = Found(LAMBDA y : LikeMatches(TrimSpace(p), y))

\* NOT LIKE returns only rows with a value that is empty or not like the pattern
\* (Index::notlike); a row that is being updated has two.
NotLikeKeepsOut ==
  fieldtype # "CHAR" =>
    \A p \in Patterns :
      NotLike(p) \subseteq Found(LAMBDA y : y = <<>> \/ ~LikeMatches(TrimSpace(p), y))

\* Every search on the column returns the rows its predicate is true of, of NOT LIKE
\* no other (SubTransaction::indexSearch and the methods of Index it calls).
SearchesAreExact == ComparisonsAreExact /\ LikeIsExact /\ NotLikeKeepsOut

\* NOT LIKE returns every row whose value is not like the pattern.
NotLikeIsExact ==
  fieldtype # "CHAR" =>
    \A p \in Patterns : NotLike(p) = Found(LAMBDA y : ~LikeMatches(TrimSpace(p), y))

\* Rolling a transaction back does not end infinisqld (Index::commitRollback).
RollbacksAreSurvived == ~down
=============================================================================
