----------------------------- MODULE TextProofs -----------------------------
(***************************************************************************)
(* Proofs about TextIndex: for any rows, literals and transactions the     *)
(* index holds an entry for each row and none besides, as long as no       *)
(* literal is too long for its column and, if the index is not unique, no  *)
(* UPDATE changes trailing blanks only.                                    *)
(***************************************************************************)
EXTENDS TextSearch, TLAPS, WellFoundedInduction, SequenceTheorems

(***************************************************************************)
(* Trimming and padding.                                                   *)
(***************************************************************************)

\* A set of natural numbers has a smallest element.
LEMMA Smallest ==
  ASSUME NEW T \in SUBSET Nat, T # {}
  PROVE  \E m \in T : \A k \in T : m <= k
<1> DEFINE R == OpToRel(<, Nat)
<1>1. IsWellFoundedOn(R, Nat)
  BY NatLessThanWellFounded, Zenon
<1>2. \A x, y \in Nat : x < y => <<x, y>> \in R
  BY DEF OpToRel
<1> HIDE DEF R
<1>3. T \subseteq Nat
  OBVIOUS
<1>4. PICK m \in T : \A y \in T : ~(<<y, m>> \in R)
  BY <1>1, <1>3, WFMin
<1>5. \A k \in T : m <= k
  <2> TAKE k \in T
  <2>1. m \in Nat /\ k \in Nat
    BY <1>3
  <2>2. ~(k < m)
    BY <1>2, <1>4, <2>1
  <2> QED BY <2>1, <2>2
<1> QED BY <1>5

Text == Seq(Byte)

\* n is where trimspace cuts s: only blanks follow, and no blank precedes.
CutAt(s, n) ==
  /\ n \in 0..Len(s)
  /\ \A i \in (n + 1)..Len(s) : s[i] = Blank
  /\ n # 0 => s[n] # Blank

\* Every string has such a place.
LEMMA CutExists ==
  ASSUME NEW s \in Text
  PROVE  \E n : CutAt(s, n)
<1> DEFINE T == {n \in 0..Len(s) : \A i \in (n + 1)..Len(s) : s[i] = Blank}
<1>1. Len(s) \in Nat
  BY DEF Text
<1>2. Len(s) \in T
  BY <1>1
<1>3. T \in SUBSET Nat /\ T # {}
  BY <1>1, <1>2
<1> HIDE DEF T
<1>4. PICK n \in T : \A k \in T : n <= k
  BY <1>3, Smallest
<1> USE DEF T
<1>5. n # 0 => s[n] # Blank
  <2> SUFFICES ASSUME n # 0, s[n] = Blank PROVE FALSE
    OBVIOUS
  <2>1. n - 1 \in 0..Len(s)
    BY <1>1, <1>4
  <2>2. \A i \in ((n - 1) + 1)..Len(s) : i = n \/ i \in (n + 1)..Len(s)
    BY <1>1, <1>4
  <2>3. \A i \in ((n - 1) + 1)..Len(s) : s[i] = Blank
    BY <1>4, <2>2
  <2>4. n - 1 \in T
    BY <2>1, <2>3
  <2>5. n <= n - 1 /\ n \in Nat
    BY <1>4, <2>4, <1>3
  <2> QED BY <2>5
<1> QED BY <1>4, <1>5 DEF CutAt

\* trimspace cuts there.
LEMMA TrimCuts ==
  ASSUME NEW s \in Text, NEW n, CutAt(s, n)
  PROVE  TrimSpace(s) = [i \in 1..n |-> s[i]]
<1> DEFINE ends == {i \in DOMAIN s : s[i] # Blank}
<1>1. Len(s) \in Nat /\ DOMAIN s = 1..Len(s) /\ n \in 0..Len(s)
  BY DEF Text, CutAt
<1>2. \A i \in ends : i \in 1..n
  BY <1>1 DEF CutAt
<1>3. CASE n = 0
  <2>1. ends = {}
    BY <1>2, <1>3
  <2>2. TrimSpace(s) = <<>>
    BY <2>1 DEF TrimSpace
  <2> QED BY <1>3, <2>2
<1>4. CASE n # 0
  <2>1. n \in ends
    BY <1>1, <1>4 DEF CutAt
  <2>2. \A j \in ends : j <= n
    BY <1>1, <1>2
  <2>3. \A i \in ends : (\A j \in ends : j <= i) => i = n
    BY <1>1, <1>2, <2>1
  <2>4. (CHOOSE i \in ends : \A j \in ends : j <= i) = n
    <3> HIDE DEF ends
    <3> QED BY <2>1, <2>2, <2>3
  <2>5. TrimSpace(s) = SubSeq(s, 1, n)
    BY <2>1, <2>4 DEF TrimSpace
  <2> QED BY <2>5, <1>1, <1>4 DEF Text
<1> QED BY <1>3, <1>4

\* What is trimmed is a string that trimming leaves alone.
LEMMA TrimTwice ==
  ASSUME NEW s \in Text
  PROVE  TrimSpace(s) \in Text /\ TrimSpace(TrimSpace(s)) = TrimSpace(s)
         /\ Len(TrimSpace(s)) <= Len(s)
<1>1. PICK n : CutAt(s, n)
  BY CutExists
<1>2. Len(s) \in Nat /\ n \in 0..Len(s) /\ \A i \in 1..Len(s) : s[i] \in Byte
  BY <1>1 DEF CutAt, Text
<1> DEFINE t == [i \in 1..n |-> s[i]]
<1>3. TrimSpace(s) = t
  BY <1>1, TrimCuts
<1>4. t \in Text /\ Len(t) = n
  BY <1>2 DEF Text
<1>5. CutAt(t, n)
  BY <1>1, <1>2, <1>4 DEF CutAt
<1>6. TrimSpace(t) = [i \in 1..n |-> t[i]]
  BY <1>4, <1>5, TrimCuts
<1> QED BY <1>2, <1>3, <1>4, <1>6

\* What makerow stores, when the string fits: what trims alike.
LEMMA PaddedTrims ==
  ASSUME NEW s \in Text, Length \in Nat, Len(TrimSpace(s)) <= Length,
         NEW t, t = [i \in 1..Length |-> IF i \in DOMAIN s THEN s[i] ELSE Blank]
  PROVE  t \in Text /\ Len(t) = Length /\ TrimSpace(t) = TrimSpace(s)
<1>1. PICK n : CutAt(s, n)
  BY CutExists
<1>2. /\ Len(s) \in Nat /\ n \in 0..Len(s) /\ DOMAIN s = 1..Len(s)
      /\ \A i \in 1..Len(s) : s[i] \in Byte
  BY <1>1 DEF CutAt, Text
<1>3. TrimSpace(s) = [i \in 1..n |-> s[i]]
  BY <1>1, TrimCuts
<1>4. Len(TrimSpace(s)) = n
  BY <1>2, <1>3
<1>5. t \in Text /\ Len(t) = Length
  BY <1>2 DEF Text, Byte, Blank
<1>6. CutAt(t, n)
  BY <1>1, <1>2, <1>4, <1>5 DEF CutAt
<1>7. TrimSpace(t) = [i \in 1..n |-> t[i]]
  BY <1>5, <1>6, TrimCuts
<1>8. \A i \in 1..n : t[i] = s[i]
  BY <1>2, <1>4
<1>9. [i \in 1..n |-> t[i]] = [i \in 1..n |-> s[i]]
  BY <1>8
<1> QED BY <1>3, <1>5, <1>7, <1>9

-----------------------------------------------------------------------------
(***************************************************************************)
(* The invariant.                                                          *)
(***************************************************************************)

\* No literal is cut: what a CHARX column has no room for is blanks.
Fits == "CHARX" \in FieldTypes => \A v \in Literals : Len(TrimSpace(v)) <= Length

\* Nor does an UPDATE change trailing blanks only, which a unique index refuses.
Intact == IsUnique \/ BlankUpdates = FALSE

Commands == {"INSERT", "UPDATE", "REPLACE", "DELETE"}
Staging  == {"INSERT", "UPDATE"}

Works    == [cmd : Commands \cup {"NONE"}, row : Rows \cup {0}, to : Rows \cup {0},
             key : Text, new : Text \cup {Absent}]

Kinds ==
  /\ fieldtype \in FieldTypes /\ indextype \in IndexTypes
  /\ entries \subseteq [key : Text, row : Rows, sub : Subs \cup {NoSub}]
  /\ rows \in [Rows -> Text \cup {Absent}]
  /\ work \in [Subs -> Works]
  /\ subs \in 0..MaxSubs
  /\ \A s \in Subs : s > subs => work[s] = Idle

\* What an open transaction has staged fits the row it is about, and what its commit
\* computes from the row is the key it has staged.
Fitting(w) ==
  /\ w.cmd = "NONE" => w = Idle
  /\ w.cmd \in Commands => w.row \in Rows /\ w.to \in Rows
  /\ w.cmd \in Commands \ {"REPLACE"} => w.to = w.row
  /\ w.cmd = "INSERT" => rows[w.row] = Absent
  /\ w.cmd \in Commands \ {"INSERT"} => rows[w.row] # Absent
  /\ w.cmd \in Staging => w.new # Absent /\ w.key = RowKey(w.new)
  /\ w.cmd = "UPDATE" => w.new = rows[w.row] \/ w.key # RowKey(rows[w.row])
  /\ w.cmd = "REPLACE" => w.to # w.row /\ rows[w.to] = Absent /\ w.new = rows[w.row]
  /\ w.cmd = "DELETE" => w.new = Absent
WorkFits == \A s \in Subs : Fitting(work[s])

\* No two transactions are about the same row: the row is locked.
Disjoint(s, t) == /\ work[s].row \notin {work[t].row, work[t].to}
                  /\ work[s].to \notin {work[t].row, work[t].to}
Apart == \A s, t \in Subs : s # t /\ work[s].cmd # "NONE" /\ work[t].cmd # "NONE"
                              => Disjoint(s, t)

\* The index has an entry for every row, and in a unique index for every staged key.
RowsHaveEntries == \A r \in Rows : rows[r] # Absent => Entry(RowKey(rows[r]), r, NoSub) \in entries
WorkHasEntries  == \A s \in Subs : IsUnique /\ work[s].cmd \in Staging
                                     => Entry(work[s].key, work[s].row, s) \in entries

\* It has no others.
OfARow(e)  == e.sub = NoSub /\ rows[e.row] # Absent /\ e.key = RowKey(rows[e.row])
OfWork(e)  == /\ IsUnique /\ e.sub \in Subs /\ work[e.sub].cmd \in Staging
              /\ e.row = work[e.sub].row /\ e.key = work[e.sub].key
NoOthers   == \A e \in entries : OfARow(e) \/ OfWork(e)

\* A unique index has one entry for a key.
OneForAKey == IsUnique => \A e, f \in entries : e.key = f.key => e = f

TextInv ==
  /\ Kinds /\ WorkFits /\ Apart
  /\ RowsHaveEntries /\ WorkHasEntries /\ NoOthers /\ OneForAKey

-----------------------------------------------------------------------------
(***************************************************************************)
(* Keys.                                                                   *)
(***************************************************************************)

\* The mark of a row that is not there is no value, and nothing is staged under it.
LEMMA AbsentIsNoText == Absent \notin Text
<1>1. \A s \in Text : Len(s) = 1 => s[1] \in Byte
  BY DEF Text
<1>2. Len(Absent) = 1 /\ Absent[1] = -1
  BY DEF Absent
<1> QED BY <1>1, <1>2 DEF Byte

\* Literals are strings.
LEMMA LiteralsAreText == Literals \subseteq Text
BY TextAssumption DEF Text

\* A key is a string, and the key of a key.
LEMMA KeyIsText ==
  ASSUME NEW v \in Text
  PROVE  KeyOf(v) \in Text /\ KeyOf(KeyOf(v)) = KeyOf(v) /\ Len(KeyOf(v)) <= Len(v)
<1>1. Len(v) \in Nat
  BY DEF Text
<1> QED BY <1>1, TrimTwice DEF KeyOf

\* The key a commit computes from the row is the one the statement staged, whether the
\* row was made of the value or of the trimmed value.
LEMMA RowKeyIsTheKey ==
  ASSUME Fits, fieldtype \in FieldTypes, NEW v \in Literals
  PROVE  /\ MakeRow(v) \in Text /\ RowKey(MakeRow(v)) = KeyOf(v)
         /\ MakeRow(KeyOf(v)) \in Text /\ RowKey(MakeRow(KeyOf(v))) = KeyOf(v)
<1>1. v \in Text /\ Length \in Nat
  BY LiteralsAreText, TextAssumption
<1>2. KeyOf(v) \in Text /\ KeyOf(KeyOf(v)) = KeyOf(v)
  BY <1>1, KeyIsText
<1>3. CASE fieldtype = "CHARX"
  <2>1. KeyOf(v) = TrimSpace(v) /\ \A x : RowKey(x) = TrimSpace(x)
    BY <1>3 DEF KeyOf, RowKey
  <2>2. Len(TrimSpace(v)) <= Length
    BY <1>3 DEF Fits
  <2>3. TrimSpace(v) \in Text /\ TrimSpace(TrimSpace(v)) = TrimSpace(v)
    BY <1>1, TrimTwice
  <2>4. MakeRow(v) \in Text /\ TrimSpace(MakeRow(v)) = TrimSpace(v)
    <3>1. MakeRow(v) = [i \in 1..Length |-> IF i \in DOMAIN v THEN v[i] ELSE Blank]
      BY <1>3 DEF MakeRow
    <3> QED BY <1>1, <2>2, <3>1, PaddedTrims
  <2>5. MakeRow(TrimSpace(v)) \in Text /\ TrimSpace(MakeRow(TrimSpace(v))) = TrimSpace(TrimSpace(v))
    <3> DEFINE u == TrimSpace(v)
    <3>1. MakeRow(u) = [i \in 1..Length |-> IF i \in DOMAIN u THEN u[i] ELSE Blank]
      BY <1>3 DEF MakeRow
    <3>2. u \in Text /\ Len(TrimSpace(u)) <= Length
      BY <2>2, <2>3
    <3> HIDE DEF u
    <3>3. MakeRow(u) \in Text /\ TrimSpace(MakeRow(u)) = TrimSpace(u)
      BY <1>1, <3>1, <3>2, PaddedTrims
    <3> QED BY <3>3 DEF u
  <2> QED BY <2>1, <2>3, <2>4, <2>5
<1>4. CASE fieldtype # "CHARX"
  <2>1. MakeRow(v) = v /\ MakeRow(KeyOf(v)) = KeyOf(v)
    BY <1>4 DEF MakeRow
  <2> QED BY <1>1, <1>2, <2>1 DEF RowKey
<1> QED BY <1>3, <1>4

\* The values a statement writes are literals.
LEMMA ValuesAreLiterals == Values \subseteq Literals
BY DEF Values

-----------------------------------------------------------------------------
(***************************************************************************)
(* Statements.                                                             *)
(***************************************************************************)

\* Before the first statement.
LEMMA TextInit == Init => TextInv
<1> SUFFICES ASSUME Init PROVE TextInv
  OBVIOUS
<1>1. Idle \in Works /\ Idle.cmd = "NONE"
  BY DEF Idle, Works, Text
<1>2. Kinds
  BY <1>1, TextAssumption DEF Init, Kinds, Subs
<1>3. WorkFits
  BY <1>1 DEF Init, WorkFits, Fitting, Commands, Staging
<1>4. Apart
  BY <1>1 DEF Init, Apart
<1>5. RowsHaveEntries /\ WorkHasEntries /\ NoOthers /\ OneForAKey
  BY <1>1 DEF Init, RowsHaveEntries, WorkHasEntries, NoOthers, OneForAKey, Staging
<1> QED BY <1>2, <1>3, <1>4, <1>5 DEF TextInv

\* What a statement does to the index: in a unique index it stages the new key, which
\* no entry has, for the next transaction.
StagesFor(w) ==
  IF IsUnique /\ w.cmd \in Staging
  THEN At(w.key) = {} /\ entries' = entries \cup {Entry(w.key, w.row, subs + 1)}
  ELSE entries' = entries

\* A statement on rows that no other transaction is about.
LEMMA StatementKeepsInv ==
  ASSUME TextInv, NEW w \in Works, w.cmd # "NONE", Fitting(w),
         w.row \notin Touched, w.to \notin Touched, Begin(w), StagesFor(w)
  PROVE  TextInv'
<1> DEFINE n == subs + 1
<1>1. /\ n \in Subs /\ n # NoSub /\ work' = [work EXCEPT ![n] = w] /\ subs' = n
      /\ rows' = rows /\ fieldtype' = fieldtype /\ indextype' = indextype
  BY TextAssumption DEF TextInv, Kinds, Begin, Subs, NoSub
<1>2. work[n] = Idle /\ Idle.cmd = "NONE" /\ NoSub \notin Subs
  BY <1>1 DEF TextInv, Kinds, Idle, Subs, NoSub
<1>3. /\ work'[n] = w /\ \A s \in Subs \ {n} : work'[s] = work[s]
      /\ work \in [Subs -> Works] /\ work' \in [Subs -> Works]
  BY <1>1 DEF TextInv, Kinds
<1>4. w.cmd \in Commands /\ w.row \in Rows /\ w.to \in Rows /\ w.key \in Text
  BY DEF Works, Fitting
<1>5. /\ entries \subseteq entries'
      /\ \A e \in entries' : e \in entries \/ (e = Entry(w.key, w.row, n) /\ IsUnique
                                                /\ w.cmd \in Staging /\ At(w.key) = {})
  BY DEF StagesFor
<1>6. IsUnique /\ w.cmd \in Staging => Entry(w.key, w.row, n) \in entries'
  BY DEF StagesFor
<1>7. IsUnique' = IsUnique /\ \A x : RowKey(x)' = RowKey(x)
  BY <1>1 DEF IsUnique, RowKey, KeyOf
<1> HIDE DEF n
<1>8. Entry(w.key, w.row, n) \in [key : Text, row : Rows, sub : Subs \cup {NoSub}]
  BY <1>1, <1>4 DEF Entry
<1>9. Kinds'
  <2>1. entries' \subseteq [key : Text, row : Rows, sub : Subs \cup {NoSub}]
    BY <1>5, <1>8 DEF TextInv, Kinds
  <2>2. \A s \in Subs : s > n => s > subs /\ s # n
    BY DEF n, Subs, TextInv, Kinds
  <2>3. \A s \in Subs : s > subs' => work'[s] = Idle
    BY <1>1, <1>3, <2>2 DEF TextInv, Kinds
  <2>4. subs' \in 0..MaxSubs
    BY <1>1 DEF Subs
  <2> QED BY <1>1, <1>3, <2>1, <2>3, <2>4 DEF TextInv, Kinds
<1>10. WorkFits'
  <2> SUFFICES ASSUME NEW s \in Subs PROVE Fitting(work[s])'
    BY DEF WorkFits
  <2>1. Fitting(work'[s])
    BY <1>3 DEF TextInv, WorkFits
  <2>2. PICK x : x = work'[s]
    OBVIOUS
  <2>3. Fitting(x) /\ work'[s] = x
    BY <2>1, <2>2
  <2>4. Fitting(x)'
    BY <1>1, <1>7, <2>3 DEF Fitting
  <2> QED BY <2>2, <2>4 DEF Fitting
<1>11. Apart'
  <2>1. \A s \in Subs : /\ work[s].row \in Touched /\ work[s].to \in Touched
    BY DEF Touched
  <2>2. \A s \in Subs : {work[s].row, work[s].to} \cap {w.row, w.to} = {}
    BY <2>1
  <2> QED BY <1>3, <2>2 DEF TextInv, Apart, Disjoint
<1>12. RowsHaveEntries'
  BY <1>1, <1>5, <1>7 DEF TextInv, RowsHaveEntries, Entry
<1>13. WorkHasEntries'
  <2> SUFFICES ASSUME NEW s \in Subs, IsUnique, work'[s].cmd \in Staging
               PROVE  Entry(work'[s].key, work'[s].row, s) \in entries'
    BY <1>7 DEF WorkHasEntries, Entry
  <2>1. CASE s = n
    BY <2>1, <1>3, <1>6
  <2>2. CASE s # n
    BY <2>2, <1>3, <1>5 DEF TextInv, WorkHasEntries
  <2> QED BY <2>1, <2>2
<1>14. NoOthers'
  <2> SUFFICES ASSUME NEW e \in entries' PROVE OfARow(e)' \/ OfWork(e)'
    BY DEF NoOthers, OfARow, OfWork
  <2>1. CASE e \in entries
    <3>1. CASE OfARow(e)
      BY <3>1, <1>1, <1>7 DEF OfARow
    <3>2. CASE OfWork(e)
      <4>1. e.sub # n
        BY <3>2, <1>2 DEF OfWork, Staging
      <4> QED BY <3>2, <4>1, <1>3, <1>7 DEF OfWork
    <3> QED BY <2>1, <3>1, <3>2 DEF TextInv, NoOthers
  <2>2. CASE e = Entry(w.key, w.row, n) /\ IsUnique /\ w.cmd \in Staging
    BY <2>2, <1>1, <1>3, <1>7 DEF OfWork, Entry
  <2> QED BY <2>1, <2>2, <1>5
<1>15. OneForAKey'
  <2> SUFFICES ASSUME IsUnique, NEW e \in entries', NEW f \in entries', e.key = f.key
               PROVE  e = f
    BY <1>7 DEF OneForAKey
  <2>1. Entry(w.key, w.row, n).key = w.key
    BY DEF Entry
  <2> QED BY <1>5, <2>1 DEF TextInv, OneForAKey, At
<1> QED BY <1>9, <1>10, <1>11, <1>12, <1>13, <1>14, <1>15 DEF TextInv

\* INSERT (Table::makerow, SubTransaction::uniqueIndex).
LEMMA InsertKeepsInv ==
  ASSUME TextInv, Fits, NEW r \in Rows, NEW v \in Values, InsertRow(r, v)
  PROVE  TextInv'
<1> DEFINE w == [cmd |-> "INSERT", row |-> r, to |-> r, key |-> KeyOf(v), new |-> MakeRow(v)]
<1>1. v \in Literals /\ v \in Text
  BY ValuesAreLiterals, LiteralsAreText
<1>2. MakeRow(v) \in Text /\ RowKey(MakeRow(v)) = KeyOf(v) /\ KeyOf(v) \in Text
  BY <1>1, RowKeyIsTheKey, KeyIsText DEF TextInv, Kinds
<1>3. w \in Works
  BY <1>2 DEF Works, Commands
<1>4. Fitting(w)
  BY <1>2, AbsentIsNoText DEF Fitting, Commands, Staging, InsertRow
<1>5. Begin(w) /\ r \notin Touched
  BY DEF InsertRow
<1>6. StagesFor(w)
  BY DEF InsertRow, Stage, StagesFor, UniqueIndexLocks, Staging
<1> HIDE DEF w
<1>7. w.cmd # "NONE" /\ w.row \notin Touched /\ w.to \notin Touched
  BY <1>5 DEF w
<1> QED BY <1>3, <1>4, <1>5, <1>6, <1>7, StatementKeepsInv

\* UPDATE of the column.
LEMMA UpdateKeepsInv ==
  ASSUME TextInv, Fits, Intact, NEW r \in Rows, NEW v \in Values, UpdateRow(r, v)
  PROVE  TextInv'
<1> DEFINE made == MakeRow(IF IsUnique THEN KeyOf(v) ELSE v)
           w == [cmd |-> "UPDATE", row |-> r, to |-> r, key |-> KeyOf(v), new |-> made]
<1>1. v \in Literals /\ v \in Text
  BY ValuesAreLiterals, LiteralsAreText
<1>2. made \in Text /\ RowKey(made) = KeyOf(v) /\ KeyOf(v) \in Text
  BY <1>1, RowKeyIsTheKey, KeyIsText DEF TextInv, Kinds
<1>3. w \in Works
  BY <1>2 DEF Works, Commands
<1>4. made = rows[r] \/ KeyOf(v) # RowKey(rows[r])
  <2>1. CASE IsUnique
    <3>1. \A e \in entries : e.key # KeyOf(v)
      BY <2>1 DEF UpdateRow, UniqueIndexLocks, At
    <3>2. Entry(RowKey(rows[r]), r, NoSub) \in entries
      BY DEF UpdateRow, TextInv, RowsHaveEntries
    <3>3. Entry(RowKey(rows[r]), r, NoSub).key = RowKey(rows[r])
      BY DEF Entry
    <3> QED BY <3>1, <3>2, <3>3
  <2>2. CASE ~IsUnique
    BY <2>2 DEF UpdateRow, Intact
  <2> QED BY <2>1, <2>2
<1>5. rows[r] # Absent /\ r \notin Touched /\ Begin(w)
  BY DEF UpdateRow
<1>6. StagesFor(w)
  BY DEF UpdateRow, Stage, StagesFor, UniqueIndexLocks, Staging
<1> HIDE DEF made
<1>7. Fitting(w)
  BY <1>2, <1>4, <1>5, AbsentIsNoText DEF Fitting, Commands, Staging
<1> HIDE DEF w
<1>8. w.cmd # "NONE" /\ w.row \notin Touched /\ w.to \notin Touched
  BY <1>5 DEF w
<1> QED BY <1>3, <1>5, <1>6, <1>7, <1>8, StatementKeepsInv

\* UPDATE of the first column.
LEMMA MoveKeepsInv ==
  ASSUME TextInv, NEW r \in Rows, NEW to \in Rows, r # to, MoveRow(r, to)
  PROVE  TextInv'
<1> DEFINE w == [cmd |-> "REPLACE", row |-> r, to |-> to, key |-> <<>>, new |-> rows[r]]
<1>1. <<>> \in Text /\ rows[r] \in Text \cup {Absent}
  BY DEF Text, TextInv, Kinds
<1>2. w \in Works
  BY <1>1 DEF Works, Commands
<1>3. rows[r] # Absent /\ rows[to] = Absent /\ r \notin Touched /\ to \notin Touched /\ Begin(w)
  BY DEF MoveRow
<1>4. Fitting(w)
  BY <1>3 DEF Fitting, Commands, Staging
<1>5. StagesFor(w)
  BY DEF MoveRow, StagesFor, Staging
<1> HIDE DEF w
<1>6. w.cmd # "NONE" /\ w.row \notin Touched /\ w.to \notin Touched
  BY <1>3 DEF w
<1> QED BY <1>2, <1>3, <1>4, <1>5, <1>6, StatementKeepsInv

\* DELETE.
LEMMA DeleteKeepsInv ==
  ASSUME TextInv, NEW r \in Rows, DeleteRow(r)
  PROVE  TextInv'
<1> DEFINE w == [cmd |-> "DELETE", row |-> r, to |-> r, key |-> <<>>, new |-> Absent]
<1>1. w \in Works
  BY DEF Works, Commands, Text
<1>2. rows[r] # Absent /\ r \notin Touched /\ Begin(w)
  BY DEF DeleteRow
<1>3. Fitting(w)
  BY <1>2 DEF Fitting, Commands, Staging
<1>4. StagesFor(w)
  BY DEF DeleteRow, StagesFor, Staging
<1> HIDE DEF w
<1>5. w.cmd # "NONE" /\ w.row \notin Touched /\ w.to \notin Touched
  BY <1>2 DEF w
<1> QED BY <1>1, <1>2, <1>3, <1>4, <1>5, StatementKeepsInv

-----------------------------------------------------------------------------
(***************************************************************************)
(* Ends of transactions.                                                   *)
(***************************************************************************)

\* The entries that the transaction s is not about.
Others(s) == {e \in entries : e.sub # s /\ ~(e.sub = NoSub /\ e.row = work[s].row)}

\* The row s leaves, with its entry.
Left(s) == IF work[s].new = Absent THEN {} ELSE {Entry(RowKey(work[s].new), work[s].to, NoSub)}

\* What is known of an open transaction.
LEMMA OpenWork ==
  ASSUME TextInv, NEW s \in Subs, work[s] # Idle
  PROVE  /\ work[s] \in Works /\ work[s].cmd \in Commands /\ Fitting(work[s])
         /\ work[s].row \in Rows /\ work[s].to \in Rows
         /\ s # NoSub
         /\ \A t \in Subs : t # s /\ work[t].cmd # "NONE" => Disjoint(t, s)
<1>1. work[s] \in Works /\ Fitting(work[s])
  BY DEF TextInv, Kinds, WorkFits
<1>2. work[s].cmd \in Commands
  BY <1>1 DEF Works, Fitting
<1>3. work[s].cmd # "NONE" /\ s # NoSub
  BY <1>2 DEF Commands, Subs, NoSub
<1> QED BY <1>1, <1>2, <1>3 DEF TextInv, Apart, Fitting

\* The end of s leaves the other transactions as they are, if it changes no rows but
\* its own.
LEMMA EndKeepsWork ==
  ASSUME TextInv, NEW s \in Subs, work[s] # Idle,
         work' = [work EXCEPT ![s] = Idle], rows' \in [Rows -> Text \cup {Absent}],
         \A r \in Rows \ {work[s].row, work[s].to} : rows'[r] = rows[r],
         entries' \subseteq [key : Text, row : Rows, sub : Subs \cup {NoSub}],
         UNCHANGED <<fieldtype, indextype, subs>>
  PROVE  Kinds' /\ WorkFits' /\ Apart'
<1>1. /\ work \in [Subs -> Works] /\ Idle \in Works /\ Idle.cmd = "NONE"
  BY DEF TextInv, Kinds, Idle, Works, Text
<1>2. work'[s] = Idle /\ \A t \in Subs \ {s} : work'[t] = work[t]
  BY <1>1
<1>3. work' \in [Subs -> Works]
  BY <1>1
<1>4. Kinds'
  BY <1>2, <1>3 DEF TextInv, Kinds
<1>5. WorkFits'
  <2> SUFFICES ASSUME NEW t \in Subs PROVE Fitting(work[t])'
    BY DEF WorkFits
  <2>1. CASE t = s
    BY <2>1, <1>1, <1>2 DEF Fitting, Commands, Staging
  <2>2. CASE t # s /\ work[t].cmd = "NONE"
    BY <2>2, <1>1, <1>2 DEF Fitting, Commands, Staging, TextInv, WorkFits
  <2>3. CASE t # s /\ work[t].cmd # "NONE"
    <3>1. PICK x : x = work[t]
      OBVIOUS
    <3>2. Fitting(x) /\ x \in Works /\ x.cmd # "NONE" /\ work'[t] = x
      BY <1>1, <1>2, <2>3, <3>1 DEF TextInv, WorkFits
    <3>3. x.row \in Rows /\ x.to \in Rows
      BY <3>2 DEF Fitting, Works
    <3>4. x.row \notin {work[s].row, work[s].to} /\ x.to \notin {work[s].row, work[s].to}
      BY <2>3, <3>1, OpenWork DEF Disjoint
    <3>5. rows'[x.row] = rows[x.row] /\ rows'[x.to] = rows[x.to]
      BY <3>3, <3>4
    <3>6. \A y : RowKey(y)' = RowKey(y)
      BY DEF RowKey, KeyOf
    <3>7. Fitting(x)'
      BY <3>2, <3>5, <3>6 DEF Fitting
    <3> QED BY <3>2, <3>7 DEF Fitting
  <2> QED BY <2>1, <2>2, <2>3
<1>6. Apart'
  BY <1>1, <1>2 DEF TextInv, Apart, Disjoint
<1> QED BY <1>4, <1>5, <1>6

\* A commit that leaves the entries of others and that of its own row.
LEMMA CommitToKeepsInv ==
  ASSUME TextInv, NEW s \in Subs, Commit(s), entries' = Others(s) \cup Left(s),
         IsUnique => \A e \in Others(s), f \in Left(s) : e.key # f.key
  PROVE  TextInv'
<1>1. /\ work[s] # Idle /\ work' = [work EXCEPT ![s] = Idle]
      /\ rows' = [rows EXCEPT ![work[s].row] = Absent, ![work[s].to] = work[s].new]
      /\ UNCHANGED <<fieldtype, indextype, subs>>
  BY DEF Commit
<1>2. /\ work[s] \in Works /\ work[s].cmd \in Commands /\ Fitting(work[s])
      /\ work[s].row \in Rows /\ work[s].to \in Rows /\ s # NoSub
      /\ \A t \in Subs : t # s /\ work[t].cmd # "NONE" => Disjoint(t, s)
  BY <1>1, OpenWork
<1>3. PICK w : w = work[s]
  OBVIOUS
<1>4. w \in Works /\ w.row \in Rows /\ w.to \in Rows /\ w.new \in Text \cup {Absent}
  BY <1>2, <1>3 DEF Works
<1>5. /\ rows \in [Rows -> Text \cup {Absent}] /\ rows' \in [Rows -> Text \cup {Absent}]
      /\ rows'[w.to] = w.new /\ (w.row # w.to => rows'[w.row] = Absent)
      /\ \A r \in Rows \ {w.row, w.to} : rows'[r] = rows[r]
  BY <1>1, <1>3, <1>4 DEF TextInv, Kinds
<1>6. IsUnique' = IsUnique /\ \A x : RowKey(x)' = RowKey(x)
  BY <1>1 DEF IsUnique, RowKey, KeyOf
<1>7. /\ work \in [Subs -> Works] /\ Idle.cmd = "NONE"
      /\ work'[s] = Idle /\ \A t \in Subs \ {s} : work'[t] = work[t]
  BY <1>1 DEF TextInv, Kinds, Idle
<1>8. /\ Others(s) = {e \in entries : e.sub # s /\ ~(e.sub = NoSub /\ e.row = w.row)}
      /\ Left(s) = IF w.new = Absent THEN {} ELSE {Entry(RowKey(w.new), w.to, NoSub)}
  BY <1>3 DEF Others, Left
<1>9. w.new # Absent => Entry(RowKey(w.new), w.to, NoSub)
                           \in [key : Text, row : Rows, sub : Subs \cup {NoSub}]
  BY <1>4, KeyIsText DEF Entry, RowKey
<1>10. entries' \subseteq [key : Text, row : Rows, sub : Subs \cup {NoSub}]
  BY <1>8, <1>9 DEF TextInv, Kinds
<1>11. Kinds' /\ WorkFits' /\ Apart'
  BY <1>1, <1>3, <1>5, <1>10, EndKeepsWork
<1>12. w.to # w.row => rows[w.to] = Absent
  BY <1>2, <1>3 DEF Fitting, Commands
<1>13. RowsHaveEntries'
  <2> SUFFICES ASSUME NEW r \in Rows, rows'[r] # Absent
               PROVE  Entry(RowKey(rows'[r]), r, NoSub) \in entries'
    BY <1>6 DEF RowsHaveEntries, Entry
  <2>1. CASE r = w.to
    BY <2>1, <1>5, <1>8
  <2>2. CASE r # w.to
    <3>1. r # w.row /\ rows'[r] = rows[r]
      BY <2>2, <1>5
    <3>2. Entry(RowKey(rows[r]), r, NoSub) \in entries
      BY <3>1 DEF TextInv, RowsHaveEntries
    <3> QED BY <3>1, <3>2, <1>2, <1>8 DEF Entry
  <2> QED BY <2>1, <2>2
<1>14. WorkHasEntries'
  <2> SUFFICES ASSUME NEW t \in Subs, IsUnique, work'[t].cmd \in Staging
               PROVE  Entry(work'[t].key, work'[t].row, t) \in entries'
    BY <1>6 DEF WorkHasEntries, Entry
  <2>1. t # s /\ work'[t] = work[t] /\ t # NoSub
    BY <1>7 DEF Staging, Subs, NoSub
  <2>2. Entry(work[t].key, work[t].row, t) \in entries
    BY <2>1 DEF TextInv, WorkHasEntries
  <2> QED BY <2>1, <2>2, <1>8 DEF Entry
<1>15. NoOthers'
  <2> SUFFICES ASSUME NEW e \in entries' PROVE OfARow(e)' \/ OfWork(e)'
    BY DEF NoOthers, OfARow, OfWork
  <2>1. CASE e \in Left(s)
    BY <2>1, <1>5, <1>6, <1>8 DEF OfARow, Entry
  <2>2. CASE e \in Others(s)
    <3>1. e \in entries /\ e.sub # s /\ ~(e.sub = NoSub /\ e.row = w.row) /\ e.row \in Rows
      BY <2>2, <1>8 DEF TextInv, Kinds
    <3>2. CASE OfARow(e)
      <4>1. e.row # w.row /\ e.row # w.to
        BY <3>1, <3>2, <1>12 DEF OfARow
      <4>2. rows'[e.row] = rows[e.row]
        BY <4>1, <3>1, <1>5
      <4> QED BY <3>2, <4>2, <1>6 DEF OfARow
    <3>3. CASE OfWork(e)
      BY <3>1, <3>3, <1>6, <1>7 DEF OfWork
    <3> QED BY <3>1, <3>2, <3>3 DEF TextInv, NoOthers
  <2> QED BY <2>1, <2>2
<1>16. OneForAKey'
  <2> SUFFICES ASSUME IsUnique, NEW e \in entries', NEW f \in entries', e.key = f.key
               PROVE  e = f
    BY <1>6 DEF OneForAKey
  <2>1. \A x, y \in Left(s) : x = y
    BY <1>8
  <2>2. \A x, y \in Others(s) : x.key = y.key => x = y
    BY <1>8 DEF TextInv, OneForAKey
  <2> QED BY <2>1, <2>2
<1> QED BY <1>11, <1>13, <1>14, <1>15, <1>16 DEF TextInv

\* The entries of an open transaction and of its row.
LEMMA OwnEntries ==
  ASSUME TextInv, NEW s \in Subs, work[s] # Idle,
         NEW w, w = work[s]
  PROVE  /\ \A e \in entries : e.sub = s => IsUnique /\ w.cmd \in Staging /\ e = Entry(w.key, w.row, s)
         /\ \A e \in entries : e.sub = NoSub /\ e.row = w.row =>
              rows[w.row] # Absent /\ e = Entry(RowKey(rows[w.row]), w.row, NoSub)
         /\ rows[w.row] # Absent => Entry(RowKey(rows[w.row]), w.row, NoSub) \in entries
         /\ IsUnique /\ w.cmd \in Staging => Entry(w.key, w.row, s) \in entries
<1>1. s # NoSub /\ w.row \in Rows
  BY OpenWork
<1>2. \A e \in entries : e = Entry(e.key, e.row, e.sub)
  BY DEF TextInv, Kinds, Entry
<1>3. \A e \in entries : e.sub = s => OfWork(e)
  BY <1>1 DEF TextInv, NoOthers, OfARow
<1>4. \A e \in entries : e.sub = NoSub => OfARow(e)
  BY <1>1 DEF TextInv, NoOthers, OfWork, Subs, NoSub
<1>5. \A e \in entries : e.sub = s => IsUnique /\ w.cmd \in Staging /\ e = Entry(w.key, w.row, s)
  BY <1>2, <1>3 DEF OfWork
<1>6. \A e \in entries : e.sub = NoSub /\ e.row = w.row =>
        rows[w.row] # Absent /\ e = Entry(RowKey(rows[w.row]), w.row, NoSub)
  BY <1>2, <1>4 DEF OfARow
<1> QED BY <1>1, <1>5, <1>6 DEF TextInv, RowsHaveEntries, WorkHasEntries

\* The commit of an INSERT or an UPDATE leaves the staged entry as a committed one and
\* drops that of the old row.
LEMMA StagedCommits ==
  ASSUME TextInv, NEW s \in Subs, work[s] # Idle, work[s].cmd \in Staging
  PROVE  /\ CommittedEntries(s) = Others(s) \cup Left(s)
         /\ IsUnique => \A e \in Others(s), f \in Left(s) : e.key # f.key
<1>1. PICK w : w = work[s]
  OBVIOUS
<1>2. w \in Works /\ Fitting(w) /\ w.row \in Rows /\ s # NoSub
  BY <1>1, OpenWork
<1>3. w.to = w.row /\ w.new # Absent /\ w.key = RowKey(w.new) /\ w.cmd \in {"INSERT", "UPDATE"}
  BY <1>1, <1>2 DEF Fitting, Staging, Commands
<1> DEFINE mine == Entry(w.key, w.row, s)
           new  == Entry(w.key, w.row, NoSub)
           old  == Entry(RowKey(rows[w.row]), w.row, NoSub)
<1>4. /\ \A e \in entries : e.sub = s => IsUnique /\ e = mine
      /\ \A e \in entries : e.sub = NoSub /\ e.row = w.row => rows[w.row] # Absent /\ e = old
      /\ rows[w.row] # Absent => old \in entries
      /\ IsUnique => mine \in entries
  BY <1>1, <1>3, OwnEntries DEF Staging
<1>5. /\ Others(s) = {e \in entries : e.sub # s /\ ~(e.sub = NoSub /\ e.row = w.row)}
      /\ Left(s) = {new}
  BY <1>1, <1>3 DEF Others, Left
<1>6. /\ mine.key = w.key /\ mine.sub = s /\ mine.row = w.row
      /\ new.key = w.key /\ new.sub = NoSub /\ new.row = w.row
      /\ old.key = RowKey(rows[w.row]) /\ old.sub = NoSub /\ old.row = w.row
      /\ [mine EXCEPT !.sub = NoSub] = new
  BY DEF Entry
<1> HIDE DEF mine, new, old
<1>7. Others(s) = {e \in entries : e # mine /\ (rows[w.row] # Absent => e # old)}
  BY <1>2, <1>4, <1>5, <1>6
<1>8. CASE IsUnique
  <2>1. \A e \in entries : e.key = w.key => e = mine
    BY <1>4, <1>6, <1>8 DEF TextInv, OneForAKey
  <2>2. rows[w.row] # Absent => /\ old # mine
                                /\ w.key # RowKey(rows[w.row])
                                /\ \A e \in entries : e.key = RowKey(rows[w.row]) => e = old
    BY <1>2, <1>4, <1>6, <1>8, <2>1 DEF TextInv, OneForAKey
  <2>3. CommitKey(entries, w.key, s) = (entries \ {mine}) \cup {new}
    <3>1. \A e \in entries : (e.key = w.key /\ e.sub = s) <=> e = mine
      BY <1>6, <2>1
    <3>2. CommitKey(entries, w.key, s) = {IF e = mine THEN new ELSE e : e \in entries}
      BY <1>6, <3>1 DEF CommitKey
    <3> QED BY <3>2, <1>4, <1>8
  <2>4. CASE w.cmd = "INSERT"
    <3>1. rows[w.row] = Absent
      BY <2>4, <1>2 DEF Fitting
    <3>2. CommittedEntries(s) = CommitKey(entries, w.key, s)
      BY <1>1, <1>3, <1>8, <2>4 DEF CommittedEntries, AddKey
    <3> QED BY <3>1, <3>2, <2>1, <2>3, <1>5, <1>6, <1>7
  <2>5. CASE w.cmd = "UPDATE"
    <3>1. rows[w.row] # Absent
      BY <2>5, <1>2 DEF Fitting, Commands
    <3>2. w.new # rows[w.row]
      BY <1>3, <2>2, <3>1
    <3>3. CommittedEntries(s) = DeleteUnique(CommitKey(entries, w.key, s), RowKey(rows[w.row]))
      BY <1>1, <1>3, <1>8, <2>5, <3>2 DEF CommittedEntries, AddKey, DropKey
    <3>4. CommittedEntries(s) = {e \in (entries \ {mine}) \cup {new} : e.key # RowKey(rows[w.row])}
      BY <2>3, <3>3 DEF DeleteUnique
    <3>5. \A e \in entries : e.key # RowKey(rows[w.row]) <=> e # old
      BY <1>6, <2>2, <3>1
    <3>6. new.key # RowKey(rows[w.row])
      BY <1>6, <2>2, <3>1
    <3>7. CommittedEntries(s) = {e \in entries : e # mine /\ e # old} \cup {new}
      BY <3>4, <3>5, <3>6
    <3> QED BY <3>1, <3>7, <2>1, <1>5, <1>6, <1>7
  <2> QED BY <1>3, <2>4, <2>5
<1>9. CASE ~IsUnique
  <2>1. mine \notin entries
    BY <1>4, <1>6, <1>9
  <2>2. InsertNonunique(entries, w.key, w.row) = entries \cup {new}
    BY DEF InsertNonunique, new
  <2>3. CASE w.cmd = "INSERT"
    <3>1. rows[w.row] = Absent
      BY <2>3, <1>2 DEF Fitting
    <3>2. CommittedEntries(s) = InsertNonunique(entries, w.key, w.row)
      BY <1>1, <1>3, <1>9, <2>3 DEF CommittedEntries, AddKey
    <3> QED BY <3>1, <3>2, <2>1, <2>2, <1>5, <1>7, <1>9
  <2>4. CASE w.cmd = "UPDATE" /\ w.new = rows[w.row]
    <3>1. CommittedEntries(s) = entries /\ rows[w.row] # Absent /\ old = new
      BY <1>1, <1>3, <2>4 DEF CommittedEntries, old, new
    <3> QED BY <3>1, <2>1, <1>4, <1>5, <1>7, <1>9
  <2>5. CASE w.cmd = "UPDATE" /\ w.new # rows[w.row]
    <3>1. rows[w.row] # Absent /\ w.key # RowKey(rows[w.row])
      BY <2>5, <1>2 DEF Fitting, Commands
    <3>2. CommittedEntries(s) = DeleteNonunique(entries \cup {new}, RowKey(rows[w.row]), w.row)
      BY <1>1, <1>3, <1>9, <2>2, <2>5 DEF CommittedEntries, AddKey, DropKey
    <3>3. \A e \in entries : (e.key = RowKey(rows[w.row]) /\ e.row = w.row) <=> e = old
      <4>1. \A e \in entries : e.sub = NoSub
        BY <1>9 DEF TextInv, NoOthers, OfARow, OfWork
      <4> QED BY <4>1, <1>4, <1>6
    <3>4. CommittedEntries(s) = {e \in entries : e # old} \cup {new}
      BY <3>1, <3>2, <3>3, <1>6 DEF DeleteNonunique
    <3> QED BY <3>1, <3>4, <2>1, <1>5, <1>7, <1>9
  <2> QED BY <1>3, <2>3, <2>4, <2>5
<1> QED BY <1>8, <1>9

\* The commit of a row that moved or was deleted changes the entry of that row.
LEMMA OtherCommits ==
  ASSUME TextInv, NEW s \in Subs, work[s] # Idle, work[s].cmd \notin Staging
  PROVE  /\ CommittedEntries(s) = Others(s) \cup Left(s)
         /\ IsUnique => \A e \in Others(s), f \in Left(s) : e.key # f.key
<1>1. PICK w : w = work[s]
  OBVIOUS
<1>2. w \in Works /\ Fitting(w) /\ w.row \in Rows /\ s # NoSub /\ w.cmd \in Commands
  BY <1>1, OpenWork
<1>3. w.cmd \in {"REPLACE", "DELETE"} /\ rows[w.row] # Absent
  BY <1>1, <1>2 DEF Fitting, Staging, Commands
<1> DEFINE key == RowKey(rows[w.row])
           old == Entry(key, w.row, NoSub)
           new == Entry(key, w.to, NoSub)
<1>4. /\ \A e \in entries : e.sub # s
      /\ \A e \in entries : e.sub = NoSub /\ e.row = w.row => e = old
      /\ old \in entries
  BY <1>1, <1>3, OwnEntries DEF Staging
<1>5. /\ old.key = key /\ old.sub = NoSub /\ old.row = w.row /\ new.key = key
      /\ [old EXCEPT !.row = w.to] = new
  BY DEF Entry
<1>6. \A k, r : DeleteUnique(entries, k) = {e \in entries : e.key # k}
  BY DEF DeleteUnique
<1>7. ReplaceUnique(entries, key, w.to) = DeleteUnique(entries, key) \cup {new}
  BY DEF ReplaceUnique
<1> HIDE DEF old, new
<1>8. Others(s) = entries \ {old}
  <2>1. Others(s) = {e \in entries : e.sub # s /\ ~(e.sub = NoSub /\ e.row = w.row)}
    BY <1>1 DEF Others
  <2> QED BY <2>1, <1>4, <1>5
<1>9. IsUnique => \A e \in entries : e.key = key => e = old
  BY <1>4, <1>5 DEF TextInv, OneForAKey
<1>10. ~IsUnique => \A e \in entries : (e.key = key /\ e.row = w.row) <=> e = old
  <2> SUFFICES ASSUME ~IsUnique PROVE \A e \in entries : (e.key = key /\ e.row = w.row) <=> e = old
    OBVIOUS
  <2>1. \A e \in entries : e.sub = NoSub
    BY DEF TextInv, NoOthers, OfARow, OfWork
  <2> QED BY <2>1, <1>4, <1>5
<1> HIDE DEF key
<1>11. CASE w.cmd = "REPLACE"
  <2>1. w.new = rows[w.row] /\ w.new # Absent
    BY <1>2, <1>3, <1>11 DEF Fitting
  <2>2. Left(s) = {new}
    BY <1>1, <2>1 DEF Left, new, key
  <2>3. CASE IsUnique
    <3>1. CommittedEntries(s) = ReplaceUnique(entries, key, w.to)
      BY <1>1, <1>11, <2>3 DEF CommittedEntries, key
    <3>2. DeleteUnique(entries, key) = entries \ {old}
      BY <1>5, <1>6, <1>9, <2>3
    <3> QED BY <3>1, <3>2, <2>2, <1>5, <1>7, <1>8, <1>9, <2>3
  <2>4. CASE ~IsUnique
    <3>1. CommittedEntries(s) = ReplaceNonunique(entries, key, w.row, w.to)
      BY <1>1, <1>11, <2>4 DEF CommittedEntries, key
    <3>2. CommittedEntries(s) = {IF e = old THEN new ELSE e : e \in entries}
      BY <3>1, <1>5, <1>10, <2>4 DEF ReplaceNonunique
    <3>3. CommittedEntries(s) = (entries \ {old}) \cup {new}
      BY <3>2, <1>4
    <3> QED BY <3>3, <2>2, <1>8, <2>4
  <2> QED BY <2>3, <2>4
<1>12. CASE w.cmd = "DELETE"
  <2>1. Left(s) = {}
    BY <1>1, <1>2, <1>12 DEF Left, Fitting
  <2>2. CommittedEntries(s) = DropKey(entries, key, w.row)
    BY <1>1, <1>12 DEF CommittedEntries, key
  <2>3. CommittedEntries(s) = entries \ {old}
    <3>1. CASE IsUnique
      BY <3>1, <2>2, <1>5, <1>6, <1>9 DEF DropKey
    <3>2. CASE ~IsUnique
      BY <3>2, <2>2, <1>10 DEF DropKey, DeleteNonunique
    <3> QED BY <3>1, <3>2
  <2> QED BY <2>1, <2>3, <1>8
<1> QED BY <1>3, <1>11, <1>12

\* Transaction::continueCommitTransaction.
LEMMA CommitKeepsInv ==
  ASSUME TextInv, NEW s \in Subs, Commit(s)
  PROVE  TextInv'
<1>1. work[s] # Idle /\ entries' = CommittedEntries(s)
  BY DEF Commit
<1>2. /\ CommittedEntries(s) = Others(s) \cup Left(s)
      /\ IsUnique => \A e \in Others(s), f \in Left(s) : e.key # f.key
  BY <1>1, StagedCommits, OtherCommits
<1> QED BY <1>1, <1>2, CommitToKeepsInv

\* Transaction::rollback: the key it sends is the one it staged.
LEMMA RollbackKeepsInv ==
  ASSUME TextInv, NEW s \in Subs, Rollback(s)
  PROVE  TextInv'
<1>1. /\ work[s] # Idle /\ work' = [work EXCEPT ![s] = Idle]
      /\ entries' = RollbackKey(entries, work[s].key, s)
      /\ UNCHANGED <<fieldtype, indextype, rows, subs>>
  BY DEF Rollback
<1>2. entries' = {e \in entries : e.sub # s}
  <2>1. \A e \in entries : e.sub = s => e = Entry(work[s].key, work[s].row, s)
    BY <1>1, OwnEntries
  <2>2. Entry(work[s].key, work[s].row, s).key = work[s].key
    BY DEF Entry
  <2>3. \A e \in entries : (e.key = work[s].key /\ e.sub = s) <=> e.sub = s
    BY <2>1, <2>2
  <2> QED BY <1>1, <2>3 DEF RollbackKey
<1>3. Kinds' /\ WorkFits' /\ Apart'
  BY <1>1, <1>2, EndKeepsWork DEF TextInv, Kinds
<1>4. IsUnique' = IsUnique /\ \A x : RowKey(x)' = RowKey(x)
  BY <1>1 DEF IsUnique, RowKey, KeyOf
<1>5. /\ Idle.cmd = "NONE" /\ work'[s] = Idle /\ \A t \in Subs \ {s} : work'[t] = work[t]
      /\ s # NoSub
  BY <1>1 DEF TextInv, Kinds, Idle, Subs, NoSub
<1>6. RowsHaveEntries'
  <2> SUFFICES ASSUME NEW r \in Rows, rows[r] # Absent
               PROVE  Entry(RowKey(rows[r]), r, NoSub) \in entries'
    BY <1>1, <1>4 DEF RowsHaveEntries, Entry
  <2>1. Entry(RowKey(rows[r]), r, NoSub) \in entries
    BY DEF TextInv, RowsHaveEntries
  <2> QED BY <2>1, <1>2, <1>5 DEF Entry
<1>7. WorkHasEntries'
  <2> SUFFICES ASSUME NEW t \in Subs, IsUnique, work'[t].cmd \in Staging
               PROVE  Entry(work'[t].key, work'[t].row, t) \in entries'
    BY <1>4 DEF WorkHasEntries, Entry
  <2>1. t # s /\ work'[t] = work[t]
    BY <1>5 DEF Staging
  <2>2. Entry(work[t].key, work[t].row, t) \in entries
    BY <2>1 DEF TextInv, WorkHasEntries
  <2> QED BY <2>1, <2>2, <1>2 DEF Entry
<1>8. NoOthers'
  <2> SUFFICES ASSUME NEW e \in entries, e.sub # s PROVE OfARow(e)' \/ OfWork(e)'
    BY <1>2 DEF NoOthers, OfARow, OfWork
  <2>1. OfARow(e) => OfARow(e)'
    BY <1>1, <1>4 DEF OfARow
  <2>2. OfWork(e) => OfWork(e)'
    BY <1>4, <1>5 DEF OfWork
  <2> QED BY <2>1, <2>2 DEF TextInv, NoOthers
<1>9. OneForAKey'
  BY <1>2, <1>4 DEF TextInv, OneForAKey
<1> QED BY <1>3, <1>6, <1>7, <1>8, <1>9 DEF TextInv

-----------------------------------------------------------------------------
(***************************************************************************)
(* Theorems.                                                               *)
(***************************************************************************)

\* Every statement, commit and rollback keeps the invariant.
LEMMA TextStep ==
  ASSUME Fits, Intact, TextInv, [Next]_vars
  PROVE  TextInv'
<1>1. CASE UNCHANGED vars
  BY <1>1 DEF vars, TextInv, Kinds, WorkFits, Fitting, Apart, Disjoint, RowsHaveEntries,
              WorkHasEntries, NoOthers, OfARow, OfWork, OneForAKey, IsUnique, RowKey, KeyOf
<1>2. ASSUME NEW r \in Rows, DeleteRow(r) PROVE TextInv'
  BY <1>2, DeleteKeepsInv
<1>3. ASSUME NEW r \in Rows, NEW v \in Values, InsertRow(r, v) PROVE TextInv'
  BY <1>3, InsertKeepsInv
<1>4. ASSUME NEW r \in Rows, NEW v \in Values, UpdateRow(r, v) PROVE TextInv'
  BY <1>4, UpdateKeepsInv
<1>5. ASSUME NEW r \in Rows, NEW to \in Rows, r # to, MoveRow(r, to) PROVE TextInv'
  BY <1>5, MoveKeepsInv
<1>6. ASSUME NEW s \in Subs, Commit(s) PROVE TextInv'
  BY <1>6, CommitKeepsInv
<1>7. ASSUME NEW s \in Subs, Rollback(s) PROVE TextInv'
  BY <1>7, RollbackKeepsInv
<1> QED BY <1>1, <1>2, <1>3, <1>4, <1>5, <1>6, <1>7 DEF Next

\* The index stays what it was made.
LEMMA SameIndex ==
  ASSUME [Next]_vars
  PROVE  IsUnique' = IsUnique /\ Intact' = Intact
<1>1. indextype' = indextype
  BY DEF Next, vars, DeleteRow, InsertRow, UpdateRow, MoveRow, Begin, Commit, Rollback
<1> QED BY <1>1 DEF IsUnique, Intact

\* The invariant holds of every behaviour.
THEOREM TextInvHolds ==
  ASSUME Fits
  PROVE  Spec => [](Intact => TextInv)
<1>1. Init => (Intact => TextInv)
  BY TextInit
<1>2. (Intact => TextInv) /\ [Next]_vars => (Intact => TextInv)'
  BY TextStep, SameIndex
<1> QED BY <1>1, <1>2, PTL DEF Spec

\* In an index that is not unique nothing is ever staged.
LEMMA NothingStaged == Spec => [](IsUnique \/ \A e \in entries : e.sub = NoSub)
<1> DEFINE I == IsUnique \/ \A e \in entries : e.sub = NoSub
           J == DOMAIN work = Subs /\ \A s \in Subs : work[s] = Idle \/ work[s].cmd \in Commands
<1>1. Init => I /\ J
  BY DEF Init
<1>2. J /\ [Next]_vars => J'
  <2>1. ASSUME J, NEW w, Begin(w), w.cmd \in Commands PROVE J'
    BY <2>1 DEF Begin
  <2>2. ASSUME J, NEW s \in Subs, work' = [work EXCEPT ![s] = Idle] PROVE J'
    BY <2>2
  <2> QED BY <2>1, <2>2 DEF Next, vars, DeleteRow, InsertRow, UpdateRow, MoveRow, Commit, Rollback,
                            Commands
<1>3. I /\ J /\ [Next]_vars => I'
  <2> SUFFICES ASSUME ~IsUnique, \A e \in entries : e.sub = NoSub, J, [Next]_vars
               PROVE  \A e \in entries' : e.sub = NoSub
    BY SameIndex
  <2>1. \A k, r : Entry(k, r, NoSub).sub = NoSub
    BY DEF Entry
  <2>2. ASSUME entries' = entries PROVE \A e \in entries' : e.sub = NoSub
    BY <2>2
  <2>3. ASSUME NEW s \in Subs, Commit(s) PROVE \A e \in entries' : e.sub = NoSub
    <3>1. \A k, r : \A e \in AddKey(entries, k, r, s) : e.sub = NoSub
      BY <2>1 DEF AddKey, InsertNonunique
    <3>2. \A es, k, r : DropKey(es, k, r) \subseteq es
      BY DEF DropKey, DeleteNonunique
    <3>3. ASSUME NEW k, NEW old, NEW r, NEW f \in ReplaceNonunique(entries, k, old, r)
          PROVE  f.sub = NoSub
      <4>1. PICK e \in entries : f = IF e.key = k /\ e.row = old THEN [e EXCEPT !.row = r] ELSE e
        BY <3>3 DEF ReplaceNonunique
      <4>2. [e EXCEPT !.row = r].sub = e.sub
        OBVIOUS
      <4> QED BY <4>1, <4>2
    <3>4. entries' = CommittedEntries(s) /\ work[s].cmd \in Commands
      BY <2>3 DEF Commit
    <3>5. PICK w : w = work[s]
      OBVIOUS
    <3>6. \/ w.cmd = "INSERT" /\ entries' = AddKey(entries, RowKey(w.new), w.row, s)
          \/ entries' = entries
          \/ w.cmd = "UPDATE" /\ entries' = DropKey(AddKey(entries, RowKey(w.new), w.row, s),
                                                    RowKey(rows[w.row]), w.row)
          \/ entries' = ReplaceNonunique(entries, RowKey(rows[w.row]), w.row, w.to)
          \/ entries' = DropKey(entries, RowKey(rows[w.row]), w.row)
      BY <3>4, <3>5 DEF CommittedEntries, Commands
    <3> QED BY <3>1, <3>2, <3>3, <3>6
  <2>4. ASSUME NEW s \in Subs, Rollback(s) PROVE \A e \in entries' : e.sub = NoSub
    BY <2>4 DEF Rollback, RollbackKey
  <2> QED BY <2>2, <2>3, <2>4 DEF Next, vars, DeleteRow, InsertRow, UpdateRow, MoveRow, Stage
<1> QED BY <1>1, <1>2, <1>3, PTL DEF Spec

\* The invariant says it of the rows and the work: they are what is known.
LEMMA EntriesAreKnown ==
  ASSUME TextInv
  PROVE  {<<e.row, e.key>> : e \in entries} = Known
<1>1. ASSUME NEW e \in entries PROVE <<e.row, e.key>> \in Known
  <2>1. CASE OfARow(e)
    BY <2>1 DEF OfARow, Known, TextInv, Kinds
  <2>2. CASE OfWork(e)
    BY <2>2 DEF OfWork, Known, Staging
  <2> QED BY <2>1, <2>2 DEF TextInv, NoOthers
<1>2. ASSUME NEW r \in Rows, rows[r] # Absent
      PROVE  <<r, RowKey(rows[r])>> \in {<<e.row, e.key>> : e \in entries}
  <2>1. Entry(RowKey(rows[r]), r, NoSub) \in entries
    BY <1>2 DEF TextInv, RowsHaveEntries
  <2> QED BY <2>1 DEF Entry
<1>3. ASSUME NEW s \in Subs, IsUnique, work[s].cmd \in Staging
      PROVE  <<work[s].row, work[s].key>> \in {<<e.row, e.key>> : e \in entries}
  <2>1. Entry(work[s].key, work[s].row, s) \in entries
    BY <1>3 DEF TextInv, WorkHasEntries
  <2> QED BY <2>1 DEF Entry
<1>4. Known \subseteq {<<e.row, e.key>> : e \in entries}
  BY <1>2, <1>3 DEF Known, Staging
<1> QED BY <1>1, <1>4

\* The index follows the rows: whatever transactions insert, update, move, delete,
\* commit and roll back, in any order, for any table and any literals, it holds an entry
\* for every row, and in a unique index for every staged key, and no other.  Literals fit
\* their column (README 5.39), and an index that is not unique meets no UPDATE of blanks
\* only (5.33) (Transaction::continueCommitTransaction, Index::commitRollback).
THEOREM IndexFollowsTheRows ==
  ASSUME Fits
  PROVE  Spec => [](IsUnique \/ BlankUpdates = FALSE => EntriesFollowTheRows)
<1>1. (Intact => TextInv) => (IsUnique \/ BlankUpdates = FALSE => EntriesFollowTheRows)
  BY EntriesAreKnown DEF EntriesFollowTheRows, Intact
<1> QED BY <1>1, TextInvHolds, PTL

\* No commit and no rollback that the Engine survives leaves a key locked: a staged
\* entry is one of a transaction that is open, whatever UPDATEs change, as long as
\* literals fit their column (Index::commitRollback compares the key it is sent).
THEOREM NoKeyStaysStaged ==
  ASSUME Fits
  PROVE  Spec => []StagedKeysHaveWork
<1>1. (Intact => TextInv) /\ (IsUnique \/ \A e \in entries : e.sub = NoSub) => StagedKeysHaveWork
  BY DEF Intact, TextInv, NoOthers, OfARow, OfWork, StagedKeysHaveWork
<1> QED BY <1>1, TextInvHolds, NothingStaged, PTL

\* Two rows of a unique index never have values that differ in trailing blanks only
\* (SubTransaction::uniqueIndex, trimspace).
THEOREM UniqueMeansUnique ==
  ASSUME Fits
  PROVE  Spec => []NoTwoRowsAlike
<1>1. (Intact => TextInv) => NoTwoRowsAlike
  <2> SUFFICES ASSUME Intact => TextInv, IsUnique, NEW q \in Rows, NEW r \in Rows, q # r,
                      rows[q] # Absent, rows[r] # Absent
               PROVE  RowKey(rows[q]) # RowKey(rows[r])
    BY DEF NoTwoRowsAlike
  <2>1. TextInv
    BY DEF Intact
  <2>2. /\ Entry(RowKey(rows[q]), q, NoSub) \in entries
        /\ Entry(RowKey(rows[r]), r, NoSub) \in entries
    BY <2>1 DEF TextInv, RowsHaveEntries
  <2> QED BY <2>1, <2>2 DEF TextInv, OneForAKey, Entry
<1> QED BY <1>1, TextInvHolds, PTL

-----------------------------------------------------------------------------
(***************************************************************************)
(* Searches.  The order of the map is a total order of the keys it may     *)
(* hold, so that the walks between two iterators are the ranges they stand *)
(* for.                                                                    *)
(***************************************************************************)

\* The keys of the column.
Keys == IF fieldtype = "CHAR" THEN {t \in Text : Len(t) = 1} ELSE Text

\* Where two strings first differ: one of them ends there, or the bytes do.
DiffersAt(a, b, d) ==
  /\ d \in Nat \ {0}
  /\ \A j \in 1..(d - 1) : j \in 1..Len(a) /\ j \in 1..Len(b) /\ a[j] = b[j]
  /\ d \in 1..Len(a) \/ d \in 1..Len(b)
  /\ d \in 1..Len(a) /\ d \in 1..Len(b) => a[d] # b[d]

\* Two different strings have such a place.
LEMMA DifferenceExists ==
  ASSUME NEW a \in Text, NEW b \in Text, a # b
  PROVE  \E d : DiffersAt(a, b, d)
<1> DEFINE Same(i) == i \in 1..Len(a) /\ i \in 1..Len(b) /\ a[i] = b[i]
           D == {i \in Nat \ {0} : (i \in 1..Len(a) \/ i \in 1..Len(b)) /\ ~Same(i)}
<1>1. Len(a) \in Nat /\ Len(b) \in Nat
  BY DEF Text
<1>2. D # {}
  <2> SUFFICES ASSUME D = {} PROVE a = b
    OBVIOUS
  <2>1. \A i \in Nat \ {0} : i \in 1..Len(a) \/ i \in 1..Len(b) => Same(i)
    OBVIOUS
  <2>2. Len(a) \in 1..Len(a) => Len(a) \in 1..Len(b)
    BY <1>1, <2>1
  <2>3. Len(b) \in 1..Len(b) => Len(b) \in 1..Len(a)
    BY <1>1, <2>1
  <2>4. Len(a) = Len(b)
    BY <1>1, <2>2, <2>3
  <2>5. \A i \in 1..Len(a) : a[i] = b[i]
    BY <1>1, <2>1
  <2> QED BY <2>4, <2>5 DEF Text
<1>3. D \in SUBSET Nat
  OBVIOUS
<1>4. PICK d \in D : \A k \in D : d <= k
  <2> HIDE DEF D
  <2> QED BY <1>2, <1>3, Smallest
<1>5. ASSUME NEW j \in 1..(d - 1) PROVE Same(j)
  <2>1. d \in Nat /\ j \in Nat \ {0} /\ j < d /\ ~(d <= j)
    BY <1>4
  <2>2. j \notin D
    BY <1>4, <2>1
  <2>3. j \in 1..Len(a) \/ j \in 1..Len(b)
    BY <1>1, <1>4, <2>1
  <2> QED BY <2>1, <2>2, <2>3
<1> QED BY <1>4, <1>5 DEF DiffersAt

\* The lexicographic order, as Less has it of strings.
Lex(a, b) == \E i \in 1..Len(b) : /\ \A j \in 1..(i - 1) : j \in DOMAIN a /\ a[j] = b[j]
                                  /\ i \notin DOMAIN a \/ a[i] < b[i]

\* The bytes of a string are numbers.
LEMMA TextBytes ==
  ASSUME NEW s \in Text
  PROVE  Len(s) \in Nat /\ DOMAIN s = 1..Len(s) /\ \A i \in 1..Len(s) : s[i] \in Int
<1>1. \A x \in Byte : x \in Int
  BY DEF Byte
<1>2. Len(s) \in Nat /\ DOMAIN s = 1..Len(s) /\ \A i \in 1..Len(s) : s[i] \in Byte
  BY DEF Text
<1> QED BY <1>1, <1>2

\* What std::string's comparison decides at the first difference.
LEMMA LexAtDifference ==
  ASSUME NEW a \in Text, NEW b \in Text, NEW d, DiffersAt(a, b, d)
  PROVE  Lex(a, b) <=> d \in 1..Len(b) /\ (d \in 1..Len(a) => a[d] < b[d])
<1>1. /\ Len(a) \in Nat /\ Len(b) \in Nat /\ DOMAIN a = 1..Len(a) /\ d \in Nat
      /\ \A i \in 1..Len(a) : a[i] \in Int
      /\ \A i \in 1..Len(b) : b[i] \in Int
  BY TextBytes DEF DiffersAt
<1>2. ASSUME d \in 1..Len(b), d \in 1..Len(a) => a[d] < b[d] PROVE Lex(a, b)
  BY <1>1, <1>2 DEF Lex, DiffersAt
<1>3. ASSUME Lex(a, b) PROVE d \in 1..Len(b) /\ (d \in 1..Len(a) => a[d] < b[d])
  <2>1. PICK i \in 1..Len(b) : /\ \A j \in 1..(i - 1) : j \in 1..Len(a) /\ a[j] = b[j]
                               /\ i \notin 1..Len(a) \/ a[i] < b[i]
    BY <1>1, <1>3 DEF Lex
  <2>2. ~(i < d)
    <3> SUFFICES ASSUME i < d PROVE FALSE
      OBVIOUS
    <3>1. i \in 1..(d - 1)
      BY <1>1, <2>1
    <3>2. i \in 1..Len(a) /\ a[i] = b[i]
      BY <3>1 DEF DiffersAt
    <3> QED BY <3>2, <2>1, <1>1
  <2>3. ~(d < i)
    <3> SUFFICES ASSUME d < i PROVE FALSE
      OBVIOUS
    <3>1. d \in 1..(i - 1) /\ d \in 1..Len(b)
      BY <1>1, <2>1 DEF DiffersAt
    <3>2. d \in 1..Len(a) /\ a[d] = b[d]
      BY <3>1, <2>1
    <3> QED BY <3>1, <3>2 DEF DiffersAt
  <2>4. i = d
    BY <1>1, <2>1, <2>2, <2>3
  <2> QED BY <2>1, <2>4
<1> QED BY <1>2, <1>3

\* It is irreflexive, asymmetric, total and transitive.
LEMMA LexIsAnOrder ==
  ASSUME NEW a \in Text, NEW b \in Text
  PROVE  /\ ~Lex(a, a)
         /\ a = b \/ Lex(a, b) \/ Lex(b, a)
         /\ ~(Lex(a, b) /\ Lex(b, a))
<1>1. /\ Len(a) \in Nat /\ Len(b) \in Nat /\ DOMAIN a = 1..Len(a)
      /\ \A i \in 1..Len(a) : a[i] \in Int
      /\ \A i \in 1..Len(b) : b[i] \in Int
  BY TextBytes
<1>2. ~Lex(a, a)
  BY <1>1 DEF Lex
<1>3. CASE a # b
  <2>1. PICK d : DiffersAt(a, b, d)
    BY <1>3, DifferenceExists
  <2>2. DiffersAt(b, a, d)
    BY <2>1 DEF DiffersAt
  <2>3. Lex(a, b) <=> d \in 1..Len(b) /\ (d \in 1..Len(a) => a[d] < b[d])
    BY <2>1, LexAtDifference
  <2>4. Lex(b, a) <=> d \in 1..Len(a) /\ (d \in 1..Len(b) => b[d] < a[d])
    BY <2>2, LexAtDifference
  <2> QED BY <1>1, <1>2, <2>1, <2>3, <2>4 DEF DiffersAt
<1> QED BY <1>2, <1>3

LEMMA LexIsTransitive ==
  ASSUME NEW a \in Text, NEW b \in Text, NEW c \in Text, Lex(a, b), Lex(b, c)
  PROVE  Lex(a, c)
<1>1. /\ Len(a) \in Nat /\ Len(b) \in Nat /\ Len(c) \in Nat
      /\ DOMAIN a = 1..Len(a) /\ DOMAIN b = 1..Len(b)
      /\ \A i \in 1..Len(a) : a[i] \in Int
      /\ \A i \in 1..Len(b) : b[i] \in Int
      /\ \A i \in 1..Len(c) : c[i] \in Int
  BY TextBytes
<1>2. PICK i \in 1..Len(b) : /\ \A j \in 1..(i - 1) : j \in 1..Len(a) /\ a[j] = b[j]
                             /\ i \notin 1..Len(a) \/ a[i] < b[i]
  BY <1>1 DEF Lex
<1>3. PICK k \in 1..Len(c) : /\ \A j \in 1..(k - 1) : j \in 1..Len(b) /\ b[j] = c[j]
                             /\ k \notin 1..Len(b) \/ b[k] < c[k]
  BY <1>1 DEF Lex
<1>4. i \in Nat /\ k \in Nat
  BY <1>1
<1>5. CASE i < k
  <2>1. i \in 1..(k - 1) /\ i \in 1..Len(c) /\ b[i] = c[i]
    BY <1>1, <1>3, <1>4, <1>5
  <2>2. \A j \in 1..(i - 1) : j \in 1..Len(a) /\ a[j] = c[j]
    BY <1>1, <1>2, <1>3, <1>4, <1>5
  <2> QED BY <1>1, <1>2, <2>1, <2>2 DEF Lex
<1>6. CASE k < i
  <2>1. k \in 1..(i - 1) /\ k \in 1..Len(b) /\ b[k] < c[k] /\ a[k] = b[k]
    BY <1>1, <1>2, <1>3, <1>4, <1>6
  <2>2. \A j \in 1..(k - 1) : j \in 1..Len(a) /\ a[j] = c[j]
    BY <1>1, <1>2, <1>3, <1>4, <1>6
  <2> QED BY <1>1, <1>3, <2>1, <2>2 DEF Lex
<1>7. CASE k = i
  <2>1. \A j \in 1..(k - 1) : j \in 1..Len(a) /\ a[j] = c[j]
    BY <1>1, <1>2, <1>3, <1>7
  <2>2. b[k] < c[k] /\ (k \notin 1..Len(a) \/ a[k] < b[k])
    BY <1>2, <1>3, <1>7
  <2>3. k \notin 1..Len(a) \/ a[k] < c[k]
    BY <1>1, <1>2, <1>7, <2>2
  <2> QED BY <1>1, <2>1, <2>3 DEF Lex
<1> QED BY <1>4, <1>5, <1>6, <1>7

\* The order of the map is a total order of the keys, signed or not.
LEMMA KeyOrder ==
  ASSUME NEW a \in Keys, NEW b \in Keys, NEW c \in Keys
  PROVE  /\ ~Less(a, a)
         /\ a = b \/ Less(a, b) \/ Less(b, a)
         /\ ~(Less(a, b) /\ Less(b, a))
         /\ Less(a, b) /\ Less(b, c) => Less(a, c)
<1>1. CASE fieldtype = "CHAR"
  <2>1. \A t \in Keys : Len(t) = 1 /\ t \in Text /\ t = <<t[1]>> /\ t[1] \in Byte
    BY <1>1 DEF Keys, Text
  <2>2. \A x, y \in Byte : /\ Signed(x) \in Int
                           /\ Signed(x) = Signed(y) => x = y
    BY DEF Signed, Byte
  <2>3. \A x, y : Less(x, y) <=> Signed(x[1]) < Signed(y[1])
    BY <1>1 DEF Less
  <2>4. Signed(a[1]) \in Int /\ Signed(b[1]) \in Int /\ Signed(c[1]) \in Int
    BY <2>1, <2>2
  <2>5. Signed(a[1]) = Signed(b[1]) => a = b
    BY <2>1, <2>2
  <2> QED BY <2>3, <2>4, <2>5
<1>2. CASE fieldtype # "CHAR"
  <2>1. a \in Text /\ b \in Text /\ c \in Text
    BY <1>2 DEF Keys
  <2>2. \A x, y : Less(x, y) <=> Lex(x, y)
    BY <1>2 DEF Less, Lex
  <2>3. /\ ~Lex(a, a)
        /\ a = b \/ Lex(a, b) \/ Lex(b, a)
        /\ ~(Lex(a, b) /\ Lex(b, a))
    BY <2>1, LexIsAnOrder
  <2>4. Lex(a, b) /\ Lex(b, c) => Lex(a, c)
    BY <2>1, LexIsTransitive
  <2> QED BY <2>2, <2>3, <2>4
<1> QED BY <1>1, <1>2

\* Rows and staged rows have values of the column's type.
ValuesFit ==
  /\ \A r \in Rows : rows[r] \in Keys \cup {Absent}
  /\ \A s \in Subs : work[s].new \in Keys \cup {Absent}

\* What a statement writes, and its key, is one.
LEMMA ValuesAreKeys ==
  ASSUME Fits, fieldtype \in FieldTypes, NEW v \in Values
  PROVE  /\ KeyOf(v) \in Keys /\ MakeRow(v) \in Keys /\ MakeRow(KeyOf(v)) \in Keys
         /\ KeyOf(KeyOf(v)) = KeyOf(v)
<1>1. v \in Literals /\ v \in Text
  BY ValuesAreLiterals, LiteralsAreText
<1>2. /\ KeyOf(v) \in Text /\ MakeRow(v) \in Text /\ MakeRow(KeyOf(v)) \in Text
      /\ KeyOf(KeyOf(v)) = KeyOf(v)
  BY <1>1, KeyIsText, RowKeyIsTheKey
<1>3. CASE fieldtype = "CHAR"
  BY <1>1, <1>2, <1>3 DEF Values, Keys, KeyOf, MakeRow
<1>4. CASE fieldtype # "CHAR"
  BY <1>2, <1>4 DEF Keys
<1> QED BY <1>3, <1>4

\* They stay so.
LEMMA ValuesFitStep ==
  ASSUME Fits, TextInv, ValuesFit, [Next]_vars
  PROVE  ValuesFit'
<1>1. Idle.new = Absent
  BY DEF Idle
<1>2. /\ rows \in [Rows -> Text \cup {Absent}] /\ work \in [Subs -> Works]
      /\ fieldtype \in FieldTypes /\ Fits
  BY DEF TextInv, Kinds
<1>3. ASSUME UNCHANGED fieldtype PROVE Keys' = Keys
  BY <1>3 DEF Keys
<1>4. CASE UNCHANGED vars
  BY <1>3, <1>4 DEF vars, ValuesFit
<1>5. ASSUME NEW w, Begin(w), w.new \in Keys \cup {Absent} PROVE ValuesFit'
  <2>1. rows' = rows /\ Keys' = Keys /\ \A s \in Subs : work'[s] \in {w, work[s]}
    BY <1>2, <1>3, <1>5 DEF Begin
  <2> QED BY <1>5, <2>1 DEF ValuesFit
<1>6. ASSUME NEW r \in Rows, DeleteRow(r) PROVE ValuesFit'
  BY <1>5, <1>6 DEF DeleteRow
<1>7. ASSUME NEW r \in Rows, NEW v \in Values, InsertRow(r, v) PROVE ValuesFit'
  <2>1. MakeRow(v) \in Keys
    BY <1>2, ValuesAreKeys
  <2> QED BY <1>5, <1>7, <2>1 DEF InsertRow
<1>8. ASSUME NEW r \in Rows, NEW v \in Values, UpdateRow(r, v) PROVE ValuesFit'
  <2>1. MakeRow(IF IsUnique THEN KeyOf(v) ELSE v) \in Keys
    BY <1>2, ValuesAreKeys
  <2> QED BY <1>5, <1>8, <2>1 DEF UpdateRow
<1>9. ASSUME NEW r \in Rows, NEW to \in Rows, MoveRow(r, to) PROVE ValuesFit'
  BY <1>5, <1>9 DEF MoveRow, ValuesFit
<1>10. ASSUME NEW s \in Subs, Commit(s) PROVE ValuesFit'
  <2>1. /\ rows' = [rows EXCEPT ![work[s].row] = Absent, ![work[s].to] = work[s].new]
        /\ work' = [work EXCEPT ![s] = Idle] /\ Keys' = Keys
    BY <1>3, <1>10 DEF Commit
  <2>2. \A r \in Rows : rows'[r] \in {rows[r], Absent, work[s].new}
    BY <1>2, <2>1
  <2>3. \A t \in Subs : work'[t] \in {Idle, work[t]}
    BY <1>2, <2>1
  <2> QED BY <1>1, <2>1, <2>2, <2>3 DEF ValuesFit
<1>11. ASSUME NEW s \in Subs, Rollback(s) PROVE ValuesFit'
  <2>1. rows' = rows /\ Keys' = Keys /\ \A t \in Subs : work'[t] \in {Idle, work[t]}
    BY <1>2, <1>3, <1>11 DEF Rollback
  <2> QED BY <1>1, <2>1 DEF ValuesFit
<1> QED BY <1>4, <1>6, <1>7, <1>8, <1>9, <1>10, <1>11 DEF Next

\* So the keys in the index are keys of the column.
LEMMA EntriesHaveKeys ==
  ASSUME TextInv, ValuesFit, NEW e \in entries
  PROVE  e.key \in Keys
<1>1. \A t \in Keys : RowKey(t) \in Keys
  BY KeyIsText DEF Keys, RowKey, KeyOf
<1>2. CASE OfARow(e)
  BY <1>1, <1>2 DEF OfARow, ValuesFit, TextInv, Kinds
<1>3. CASE OfWork(e)
  BY <1>1, <1>3 DEF OfWork, ValuesFit, TextInv, WorkFits, Fitting
<1> QED BY <1>2, <1>3 DEF TextInv, NoOthers

\* The rows with a key of K, by what is known and by the entries.
Hits(K) == {p[1] : p \in {q \in Known : q[2] \in K}}
LEMMA HitsAreEntries ==
  ASSUME TextInv, NEW K
  PROVE  Hits(K) = RowsOf({e \in entries : e.key \in K})
<1>1. Known = {<<e.row, e.key>> : e \in entries}
  BY EntriesAreKnown
<1>2. ASSUME NEW r \in Hits(K) PROVE r \in RowsOf({e \in entries : e.key \in K})
  <2>1. PICK q \in Known : q[2] \in K /\ r = q[1]
    BY <1>2 DEF Hits
  <2>2. PICK e \in entries : q = <<e.row, e.key>>
    BY <1>1, <2>1
  <2> QED BY <2>1, <2>2 DEF RowsOf
<1>3. ASSUME NEW e \in entries, e.key \in K PROVE e.row \in Hits(K)
  <2>1. <<e.row, e.key>> \in Known
    BY <1>1
  <2>2. <<e.row, e.key>>[2] \in K /\ <<e.row, e.key>>[1] = e.row
    BY <1>3
  <2> QED BY <2>1, <2>2 DEF Hits
<1>4. RowsOf({e \in entries : e.key \in K}) \subseteq Hits(K)
  BY <1>3 DEF RowsOf
<1> QED BY <1>2, <1>4

\* Equality and inequality.
LEMMA EqualIsExact ==
  ASSUME TextInv, ValuesFit, Fits, NEW x \in Values
  PROVE  /\ GetEqual(x) = Found(LAMBDA y : y = KeyOf(x))
         /\ NotEqual(x) = Found(LAMBDA y : y # KeyOf(x))
<1>1. PICK k : k = KeyOf(x)
  OBVIOUS
<1>2. GetEqual(x) = RowsOf({e \in entries : e.key = k})
  BY <1>1 DEF GetEqual, At
<1>3. NotEqual(x) = RowsOf({e \in entries : e.key # k})
  BY <1>1 DEF NotEqual, GetNotEqual, GetNotEqualChar, KeyOf
<1>4. \A K : Hits(K) = RowsOf({e \in entries : e.key \in K})
  BY HitsAreEntries
<1>5. {e \in entries : e.key = k} = {e \in entries : e.key \in {k}}
  OBVIOUS
<1>6. {e \in entries : e.key # k} = {e \in entries : e.key \in Keys \ {k}}
  BY EntriesHaveKeys
<1>7. \A q \in Known : q[2] \in Keys
  BY EntriesAreKnown, EntriesHaveKeys
<1>8. Found(LAMBDA y : y = KeyOf(x)) = Hits({k})
  BY <1>1 DEF Found, Hits
<1>9. Found(LAMBDA y : y # KeyOf(x)) = Hits(Keys \ {k})
  BY <1>1, <1>7 DEF Found, Hits
<1> QED BY <1>2, <1>3, <1>4, <1>5, <1>6, <1>8, <1>9

\* Ranges from the beginning or to the end.
LEMMA RangesAreExact ==
  ASSUME TextInv, ValuesFit, Fits, Ordered, NEW x \in Values
  PROVE  /\ Compare("LT", x) = Found(LAMBDA y : Less(y, KeyOf(x)))
         /\ Compare("LTE", x) = Found(LAMBDA y : ~Less(KeyOf(x), y))
         /\ Compare("GT", x) = Found(LAMBDA y : Less(KeyOf(x), y))
         /\ Compare("GTE", x) = Found(LAMBDA y : ~Less(y, KeyOf(x)))
<1>1. PICK k : k = KeyOf(x)
  OBVIOUS
<1>2. k \in Keys
  BY <1>1, ValuesAreKeys DEF TextInv, Kinds
<1>3. /\ Compare("LT", x) = RowsOf({e \in entries : ~Less(k, e.key) /\ e.key # k})
      /\ Compare("LTE", x) = RowsOf({e \in entries : ~Less(k, e.key)})
      /\ Compare("GT", x) = RowsOf({e \in entries : Atmost(k, e.key) /\ e.key # k})
      /\ Compare("GTE", x) = RowsOf({e \in entries : Atmost(k, e.key)})
  <2>1. /\ entries \ FromUpper(k) = {e \in entries : ~Less(k, e.key)}
        /\ (entries \ FromUpper(k)) \ At(k) = {e \in entries : ~Less(k, e.key) /\ e.key # k}
        /\ FromLower(k) = {e \in entries : Atmost(k, e.key)}
        /\ FromLower(k) \ At(k) = {e \in entries : Atmost(k, e.key) /\ e.key # k}
    BY DEF FromUpper, FromLower, At
  <2>2. CASE fieldtype = "CHAR"
    <3>1. x = k /\ \A op : Compare(op, x) = ComparisonChar(op, x)
      BY <1>1, <2>2 DEF KeyOf, Compare
    <3>2. /\ ComparisonChar("LT", x) = RowsOf((entries \ FromUpper(k)) \ At(k))
          /\ ComparisonChar("LTE", x) = RowsOf(entries \ FromUpper(k))
          /\ ComparisonChar("GT", x) = RowsOf(FromLower(k) \ At(k))
          /\ ComparisonChar("GTE", x) = RowsOf(FromLower(k))
      BY <3>1 DEF ComparisonChar
    <3> QED BY <2>1, <3>1, <3>2
  <2>3. CASE fieldtype # "CHAR"
    <3>1. TrimSpace(x) = k /\ \A op : Compare(op, x) = Comparison(op, x)
      BY <1>1, <2>3 DEF KeyOf, Compare
    <3>2. /\ Comparison("LT", x) = RowsOf((entries \ FromUpper(k)) \ At(k))
          /\ Comparison("LTE", x) = RowsOf(entries \ FromUpper(k))
          /\ Comparison("GT", x) = RowsOf(FromLower(k) \ At(k))
          /\ Comparison("GTE", x) = RowsOf(FromLower(k))
      BY <3>1 DEF Comparison
    <3> QED BY <2>1, <3>1, <3>2
  <2> QED BY <2>2, <2>3
<1>4. \A e \in entries : /\ e.key \in Keys
                         /\ (~Less(k, e.key) /\ e.key # k) <=> Less(e.key, k)
                         /\ (Atmost(k, e.key) /\ e.key # k) <=> Less(k, e.key)
                         /\ Atmost(k, e.key) <=> ~Less(e.key, k)
  BY <1>2, EntriesHaveKeys, KeyOrder DEF Atmost
<1>5. /\ Compare("LT", x) = RowsOf({e \in entries : e.key \in {y \in Keys : Less(y, k)}})
      /\ Compare("LTE", x) = RowsOf({e \in entries : e.key \in {y \in Keys : ~Less(k, y)}})
      /\ Compare("GT", x) = RowsOf({e \in entries : e.key \in {y \in Keys : Less(k, y)}})
      /\ Compare("GTE", x) = RowsOf({e \in entries : e.key \in {y \in Keys : ~Less(y, k)}})
  BY <1>3, <1>4
<1>6. \A K : Hits(K) = RowsOf({e \in entries : e.key \in K})
  BY HitsAreEntries
<1>7. \A q \in Known : q[2] \in Keys
  BY EntriesAreKnown, EntriesHaveKeys
<1>8. /\ Found(LAMBDA y : Less(y, k)) = Hits({y \in Keys : Less(y, k)})
      /\ Found(LAMBDA y : ~Less(k, y)) = Hits({y \in Keys : ~Less(k, y)})
      /\ Found(LAMBDA y : Less(k, y)) = Hits({y \in Keys : Less(k, y)})
      /\ Found(LAMBDA y : ~Less(y, k)) = Hits({y \in Keys : ~Less(y, k)})
  BY <1>7 DEF Found, Hits
<1> QED BY <1>1, <1>5, <1>6, <1>8

\* Ranges between two values: the walk meets its end, and the rows outside are the two
\* open ranges.
LEMMA BetweenIsExact ==
  ASSUME TextInv, ValuesFit, Fits, Ordered, NEW x \in Values, NEW z \in Values
  PROVE  /\ BetweenOf(x, z) = Found(LAMBDA y : ~Less(y, KeyOf(x)) /\ ~Less(KeyOf(z), y))
         /\ NotBetween(x, z) = Found(LAMBDA y : Less(y, KeyOf(x)) \/ Less(KeyOf(z), y))
<1>1. PICK k, j : k = KeyOf(x) /\ j = KeyOf(z)
  OBVIOUS
<1>2. k \in Keys /\ j \in Keys
  BY <1>1, ValuesAreKeys DEF TextInv, Kinds
<1>3. \A e \in entries : e.key \in Keys
  BY EntriesHaveKeys
<1> DEFINE Inside == {y \in Keys : ~Less(y, k) /\ ~Less(j, y)}
           Below  == {y \in Keys : Less(y, k)}
           Above  == {y \in Keys : Less(j, y)}
<1>4. \A K : Hits(K) = RowsOf({e \in entries : e.key \in K})
  BY HitsAreEntries
<1>5. \A q \in Known : q[2] \in Keys
  BY EntriesAreKnown, EntriesHaveKeys
<1>6. BetweenOf(x, z) =
        IF Less(j, k) THEN {}
        ELSE IF MapType = "Unique" THEN Walk(FromLower(k), FromLower(j)) \cup RowsOf(At(j))
        ELSE Walk(FromLower(k), FromUpper(j))
  <2>1. CASE fieldtype = "CHAR"
    <3>1. x = k /\ z = j /\ BetweenOf(x, z) = BetweenChar(x, z)
      BY <1>1, <2>1 DEF KeyOf, BetweenOf
    <3> QED BY <3>1 DEF BetweenChar
  <2>2. CASE fieldtype # "CHAR"
    <3>1. TrimSpace(x) = k /\ TrimSpace(z) = j /\ BetweenOf(x, z) = Between(x, z)
      BY <1>1, <2>2 DEF KeyOf, BetweenOf
    <3> QED BY <3>1 DEF Between
  <2> QED BY <2>1, <2>2
<1>7. BetweenOf(x, z) = RowsOf({e \in entries : e.key \in Inside})
  <2>1. CASE Less(j, k)
    <3>1. \A e \in entries : ~(~Less(e.key, k) /\ ~Less(j, e.key))
      BY <1>2, <1>3, <2>1, KeyOrder
    <3>2. {e \in entries : e.key \in Inside} = {}
      BY <3>1
    <3> QED BY <1>6, <2>1, <3>2 DEF RowsOf
  <2>2. CASE ~Less(j, k)
    <3>1. FromLower(j) \subseteq FromLower(k) /\ FromUpper(j) \subseteq FromLower(k)
      <4>1. k = j \/ Less(k, j)
        BY <1>2, <2>2, KeyOrder
      <4>2. ASSUME NEW e \in entries, Atmost(j, e.key) PROVE Atmost(k, e.key)
        BY <1>2, <1>3, <4>1, <4>2, KeyOrder DEF Atmost
      <4> QED BY <4>2 DEF FromLower, FromUpper, Atmost
    <3>2. CASE MapType = "Unique"
      <4>1. BetweenOf(x, z) = RowsOf(FromLower(k) \ FromLower(j)) \cup RowsOf(At(j))
        BY <1>6, <2>2, <3>1, <3>2 DEF Walk, RowsOf
      <4>2. (FromLower(k) \ FromLower(j)) \cup At(j) = {e \in entries : e.key \in Inside}
        <5>1. \A e \in entries : (Atmost(k, e.key) /\ ~Atmost(j, e.key)) \/ e.key = j
                                   <=> ~Less(e.key, k) /\ ~Less(j, e.key)
          BY <1>2, <1>3, <2>2, KeyOrder DEF Atmost
        <5> QED BY <1>3, <5>1 DEF FromLower, At
      <4> QED BY <4>1, <4>2 DEF RowsOf
    <3>3. CASE MapType # "Unique"
      <4>1. BetweenOf(x, z) = RowsOf(FromLower(k) \ FromUpper(j))
        BY <1>6, <2>2, <3>1, <3>3 DEF Walk, RowsOf
      <4>2. FromLower(k) \ FromUpper(j) = {e \in entries : e.key \in Inside}
        <5>1. \A e \in entries : Atmost(k, e.key) <=> ~Less(e.key, k)
          BY <1>2, <1>3, KeyOrder DEF Atmost
        <5> QED BY <1>3, <5>1 DEF FromLower, FromUpper
      <4> QED BY <4>1, <4>2
    <3> QED BY <3>2, <3>3
  <2> QED BY <2>1, <2>2
<1>8. Found(LAMBDA y : ~Less(y, k) /\ ~Less(j, y)) = Hits(Inside)
  BY <1>5 DEF Found, Hits
<1>9. NotBetween(x, z) = Found(LAMBDA y : Less(y, k)) \cup Found(LAMBDA y : Less(j, y))
  <2>1. Compare("LT", x) = Found(LAMBDA y : Less(y, KeyOf(x)))
    BY RangesAreExact
  <2>2. Compare("GT", z) = Found(LAMBDA y : Less(KeyOf(z), y))
    BY RangesAreExact
  <2> QED BY <1>1, <2>1, <2>2 DEF NotBetween, Found
<1>10. Found(LAMBDA y : Less(y, k)) \cup Found(LAMBDA y : Less(j, y))
         = Found(LAMBDA y : Less(y, k) \/ Less(j, y))
  BY DEF Found
<1>11. BetweenOf(x, z) = Found(LAMBDA y : ~Less(y, k) /\ ~Less(j, y))
  BY <1>4, <1>7, <1>8
<1>12. NotBetween(x, z) = Found(LAMBDA y : Less(y, k) \/ Less(j, y))
  BY <1>9, <1>10
<1> QED BY <1>1, <1>11, <1>12 DEF Found

\* IN lists of keys.
LEMMA ListsAreExact ==
  ASSUME TextInv, ValuesFit, Fits, NEW xs \in InLists
  PROVE  /\ GetIn(xs) = Found(LAMBDA y : y \in xs)
         /\ NotIn(xs) = Found(LAMBDA y : y \notin xs)
<1>1. \A x \in xs : KeyOf(x) = x
  <2>1. \A x \in xs : \E v \in Values : x = KeyOf(v)
    BY DEF InLists
  <2> QED BY <2>1, ValuesAreKeys DEF TextInv, Kinds
<1>2. GetIn(xs) = RowsOf({e \in entries : e.key \in xs})
  <2>1. \A x \in xs : GetEqual(x) = {e.row : e \in {f \in entries : f.key = x}}
    BY <1>1 DEF GetEqual, At, RowsOf
  <2> QED BY <2>1 DEF GetIn, RowsOf
<1>3. NotIn(xs) = RowsOf({e \in entries : e.key \notin xs})
  <2>1. CASE fieldtype = "CHAR"
    BY <2>1 DEF NotIn, GetNotInChar
  <2>2. CASE fieldtype # "CHAR"
    <3>1. \A x \in xs : (IF NotInTrims THEN TrimSpace(x) ELSE x) = x
      BY <1>1, <2>2 DEF KeyOf
    <3>2. \A e \in entries : (\A x \in xs : e.key # IF NotInTrims THEN TrimSpace(x) ELSE x)
                               <=> e.key \notin xs
      BY <3>1
    <3>3. NotIn(xs) = RowsOf({e \in entries :
                         \A x \in xs : e.key # IF NotInTrims THEN TrimSpace(x) ELSE x})
      BY <2>2 DEF NotIn, GetNotIn
    <3>4. {e \in entries : \A x \in xs : e.key # IF NotInTrims THEN TrimSpace(x) ELSE x}
            = {e \in entries : e.key \notin xs}
      BY <3>2
    <3> QED BY <3>3, <3>4
  <2> QED BY <2>1, <2>2
<1>4. \A K : Hits(K) = RowsOf({e \in entries : e.key \in K})
  BY HitsAreEntries
<1>5. \A q \in Known : q[2] \in Keys
  BY EntriesAreKnown, EntriesHaveKeys
<1>6. {e \in entries : e.key \notin xs} = {e \in entries : e.key \in Keys \ xs}
  BY EntriesHaveKeys
<1>7. Found(LAMBDA y : y \in xs) = Hits(xs) /\ Found(LAMBDA y : y \notin xs) = Hits(Keys \ xs)
  BY <1>5 DEF Found, Hits
<1> QED BY <1>2, <1>3, <1>4, <1>6, <1>7

\* Every comparison, range and list search on the index returns the rows whose value
\* satisfies it, trailing blanks apart, and no other, for any literals that fit their
\* column, unique or not, where the index follows the rows (Index::getequal_f,
\* getnotequal, comparison, between, notbetween, getin, getnotin).
THEOREM ComparisonsStayExact ==
  ASSUME Fits
  PROVE  Spec => [](IsUnique \/ BlankUpdates = FALSE => ComparisonsAreExact)
<1>1. Init => (Intact => ValuesFit)
  BY DEF Init, ValuesFit, Idle
<1>2. (Intact => TextInv) /\ (Intact => ValuesFit) /\ [Next]_vars => (Intact => ValuesFit)'
  BY ValuesFitStep, SameIndex
<1>3. (Intact => TextInv) /\ (Intact => ValuesFit)
        => (IsUnique \/ BlankUpdates = FALSE => ComparisonsAreExact)
  <2> SUFFICES ASSUME TextInv, ValuesFit PROVE ComparisonsAreExact
    BY DEF Intact
  <2>1. Fits
    OBVIOUS
  <2>2. ASSUME NEW x \in Values
        PROVE  /\ GetEqual(x) = Found(LAMBDA y : y = KeyOf(x))
               /\ NotEqual(x) = Found(LAMBDA y : y # KeyOf(x))
    BY <2>1, EqualIsExact
  <2>3. ASSUME NEW x \in Values, Ordered
        PROVE  /\ Compare("LT", x) = Found(LAMBDA y : Less(y, KeyOf(x)))
               /\ Compare("LTE", x) = Found(LAMBDA y : ~Less(KeyOf(x), y))
               /\ Compare("GT", x) = Found(LAMBDA y : Less(KeyOf(x), y))
               /\ Compare("GTE", x) = Found(LAMBDA y : ~Less(y, KeyOf(x)))
    BY <2>1, <2>3, RangesAreExact
  <2>4. ASSUME NEW x \in Values, NEW z \in Values, Ordered
        PROVE  /\ BetweenOf(x, z) = Found(LAMBDA y : ~Less(y, KeyOf(x)) /\ ~Less(KeyOf(z), y))
               /\ NotBetween(x, z) = Found(LAMBDA y : Less(y, KeyOf(x)) \/ Less(KeyOf(z), y))
    BY <2>1, <2>4, BetweenIsExact
  <2>5. ASSUME NEW xs \in InLists
        PROVE  /\ GetIn(xs) = Found(LAMBDA y : y \in xs)
               /\ NotIn(xs) = Found(LAMBDA y : y \notin xs)
    BY <2>1, ListsAreExact
  <2> QED BY <2>2, <2>3, <2>4, <2>5 DEF ComparisonsAreExact
<1> QED BY <1>1, <1>2, <1>3, TextInvHolds, PTL DEF Spec
=============================================================================
