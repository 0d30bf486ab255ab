------------------------------ MODULE TextIndex ------------------------------
(***************************************************************************)
(* One indexed character column of a table: what the index                 *)
(* (src/infinisqld/Index.cc) holds for the rows while transactions insert, *)
(* update, move and delete them, and what each kind of search on it        *)
(* returns.  Search and Transactions take the values of a field as given;  *)
(* here a value is its bytes, because blanks, padding, the order of bytes  *)
(* and patterns are what this code is about.                               *)
(*                                                                         *)
(* Index.cc keeps a std::map, a std::multimap or a boost::unordered_map    *)
(* from key to entry.  `entries' is the content of whichever it is, a set  *)
(* of [key, row, sub]; sub is the subtransaction that has staged the entry *)
(* of a unique index, NoSub when it is committed.                          *)
(*                                                                         *)
(* The column is not the first of its table, so that setting it never      *)
(* moves a row.  All its entries are at one Engine.  NULLs are not here.   *)
(* An Engine that crashes takes infinisqld with it: nothing happens after. *)
(***************************************************************************)
EXTENDS Integers, Sequences, FiniteSets, SequencesExt

CONSTANTS
  Rows,           \* row numbers, none of them 0
  FieldTypes,     \* of CHAR, CHARX, VARCHAR: the types the column may have
  IndexTypes,     \* the indextype_e it may have
  Length,         \* the declared length of a CHARX
  Literals,       \* the strings statements write: sequences of bytes
  Patterns,       \* the strings they search with LIKE
  MaxSubs,        \* bound on transactions
  BlankUpdates    \* TRUE: an UPDATE may change nothing but trailing blanks

Byte     == 0..255
Blank    == 32
AnyByte  == 46      \* . of a regular expression
Star     == 42      \* * of a regular expression
LikeOne  == 95      \* _ of LIKE
LikeMany == 37      \* % of LIKE

\* What getIterators stops at, other than . and *; no literal has one of these, so
\* that the regular expressions below are all that patterns turn into.
OtherMeta == {91, 92, 94, 36, 124, 63, 43, 40, 41}

ASSUME TextAssumption ==
  /\ FieldTypes \subseteq {"CHAR", "CHARX", "VARCHAR"}
  /\ IndexTypes \subseteq {"UNIQUE", "UNIQUENOTNULL", "NONUNIQUE", "NONUNIQUENOTNULL",
                           "UNORDERED", "UNORDEREDNOTNULL"}
  /\ 0 \notin Rows /\ Length \in Nat \ {0} /\ MaxSubs \in Nat /\ BlankUpdates \in BOOLEAN
  /\ Literals \cup Patterns \subseteq Seq(Byte \ OtherMeta)

Subs   == 1..MaxSubs
NoSub  == 0
Absent == <<-1>>

VARIABLES fieldtype, indextype,   \* of Index
          entries,                \* the map
          rows,                   \* what each committed row has in the column
          work,                   \* by transaction: its stagedRow
          subs,                   \* transactions so far
          down                    \* infinisqld has crashed

vars == <<fieldtype, indextype, entries, rows, work, subs, down>>

-----------------------------------------------------------------------------
\* Index::makeindex.
IsUnique == indextype \in {"UNIQUE", "UNIQUENOTNULL", "UNORDERED", "UNORDEREDNOTNULL"}
MapType  == CASE indextype \in {"UNIQUE", "UNIQUENOTNULL"}       -> "Unique"
              [] indextype \in {"NONUNIQUE", "NONUNIQUENOTNULL"} -> "Nonunique"
              [] indextype \in {"UNORDERED", "UNORDEREDNOTNULL"} -> "Unordered"

\* trimspace.
TrimSpace(s) ==
  LET ends == {i \in DOMAIN s : s[i] # Blank}
  IN  IF ends = {} THEN <<>> ELSE SubSeq(s, 1, CHOOSE i \in ends : \A j \in ends : j <= i)

\* Transaction::getengine: it trims the string it hashes, in place, and what it
\* leaves is what goes to the Engine.
KeyOf(v) == IF fieldtype = "CHAR" THEN v ELSE TrimSpace(v)

\* Table::makerow pads or cuts a CHARX to its length.
MakeRow(v) == IF fieldtype = "CHARX"
              THEN [i \in 1..Length |-> IF i \in DOMAIN v THEN v[i] ELSE Blank]
              ELSE v

\* The key a transaction computes at commit from the row.
RowKey(row) == KeyOf(row)

-----------------------------------------------------------------------------
(* Changes of the map, for the transaction s.                              *)

Entry(k, r, s) == [key |-> k, row |-> r, sub |-> s]
At(k)          == {e \in entries : e.key = k}

\* Slip: only a committed entry counts.
UniqueIndexLocksStaged(k) == \A e \in At(k) : e.sub # NoSub

\* SubTransaction::uniqueIndex answers INDEXLOCK: the value is free.  A value that
\* is taken, by a staged entry or by a committed one, fails the statement.
UniqueIndexLocks(k) == At(k) = {}

\* Index::commitRollback(string): an entry of another transaction is left alone.  The
\* ROLLBACKCMD of a CHARX in an unordered index has no break: having erased the entry
\* it goes on to uniqueStringIndex, which is NULL there.
FallsThrough == fieldtype = "CHARX" /\ MapType = "Unordered"
CommitKey(es, k, s)   == {IF e.key = k /\ e.sub = s THEN [e EXCEPT !.sub = NoSub] ELSE e :
                          e \in es}
RollbackKey(es, k, s) == {e \in es : ~(e.key = k /\ e.sub = s)}
RollbackCrashes(es, k, s) == FallsThrough /\ \E e \in es : e.key = k /\ e.sub = s

\* Slip: deleteNonuniqueEntry erases the whole equal_range.
DeleteNonuniqueAll(es, k, r) == {e \in es : e.key # k}

\* Index::insertNonuniqueEntry, deleteNonuniqueEntry, deleteUniqueEntry (string).
InsertNonunique(es, k, r) == es \cup {Entry(k, r, NoSub)}
DeleteNonunique(es, k, r) == {e \in es : ~(e.key = k /\ e.row = r)}
DeleteUnique(es, k)       == {e \in es : e.key # k}

\* Index::replaceUnique and replaceNonunique (string).
ReplaceUnique(es, k, r)         == DeleteUnique(es, k) \cup {Entry(k, r, NoSub)}
ReplaceNonunique(es, k, old, r) == {IF e.key = k /\ e.row = old THEN [e EXCEPT !.row = r]
                                    ELSE e : e \in es}

\* The two kinds of change a commit asks of an Engine.
AddKey(es, k, r, s) == IF IsUnique THEN CommitKey(es, k, s) ELSE InsertNonunique(es, k, r)
DropKey(es, k, r)   == IF IsUnique THEN DeleteUnique(es, k) ELSE DeleteNonunique(es, k, r)

-----------------------------------------------------------------------------
(* Transactions.  Each changes one row; what several statements of one     *)
(* transaction and several Engines do is in Transactions.                  *)

Idle == [cmd |-> "NONE", row |-> 0, to |-> 0, key |-> <<>>, new |-> Absent]

Touched == {work[s].row : s \in Subs} \cup {work[s].to : s \in Subs}
Values  == IF fieldtype = "CHAR" THEN {v \in Literals : Len(v) = 1} ELSE Literals

Stage(s, r, k) == entries' = IF IsUnique THEN entries \cup {Entry(k, r, s)} ELSE entries

Begin(w) ==
  /\ ~down
  /\ subs < MaxSubs
  /\ subs' = subs + 1
  /\ work' = [work EXCEPT ![subs + 1] = w]
  /\ UNCHANGED <<fieldtype, indextype, rows, down>>

\* INSERT: makerow comes first, then the unique entry is staged.
InsertRow(r, v) ==
  /\ rows[r] = Absent /\ r \notin Touched
  /\ IsUnique => UniqueIndexLocks(KeyOf(v))
  /\ Stage(subs + 1, r, KeyOf(v))
  /\ Begin([cmd |-> "INSERT", row |-> r, to |-> r, key |-> KeyOf(v), new |-> MakeRow(v)])

\* UPDATE of this column: a unique entry is staged first, which trims the value the
\* row is then made of.
UpdateRow(r, v) ==
  /\ rows[r] # Absent /\ r \notin Touched
  /\ IsUnique => UniqueIndexLocks(KeyOf(v))
  /\ BlankUpdates \/ KeyOf(v) # RowKey(rows[r]) \/ MakeRow(v) = rows[r]
  /\ Stage(subs + 1, r, KeyOf(v))
  /\ Begin([cmd |-> "UPDATE", row |-> r, to |-> r, key |-> KeyOf(v),
            new |-> MakeRow(IF IsUnique THEN KeyOf(v) ELSE v)])

\* UPDATE of the first column: the row moves to another Engine and another number.
MoveRow(r, to) ==
  /\ rows[r] # Absent /\ r \notin Touched
  /\ rows[to] = Absent /\ to \notin Touched
  /\ entries' = entries
  /\ Begin([cmd |-> "REPLACE", row |-> r, to |-> to, key |-> <<>>, new |-> rows[r]])

DeleteRow(r) ==
  /\ rows[r] # Absent /\ r \notin Touched
  /\ entries' = entries
  /\ Begin([cmd |-> "DELETE", row |-> r, to |-> r, key |-> <<>>, new |-> Absent])

\* Slip: an UPDATE deletes the old entry only.
CommittedUpdatesDrop(s) ==
  LET w == work[s]
  IN  CASE w.cmd = "INSERT"  -> AddKey(entries, RowKey(w.new), w.row, s)
        [] w.cmd = "UPDATE"  -> DropKey(entries, RowKey(rows[w.row]), w.row)
        [] w.cmd = "REPLACE" -> entries
        [] w.cmd = "DELETE"  -> DropKey(entries, RowKey(rows[w.row]), w.row)

\* Transaction::continueCommitTransaction and what SubTransaction does with it.  An
\* UPDATE adds the new entry and then deletes the old one, if the values differ.
CommittedEntries(s) ==
  LET w   == work[s]
      old == rows[w.row]
  IN  CASE w.cmd = "INSERT"  -> AddKey(entries, RowKey(w.new), w.row, s)
        [] w.cmd = "UPDATE"  -> IF w.new = old THEN entries
                                ELSE DropKey(AddKey(entries, RowKey(w.new), w.row, s),
                                             RowKey(old), w.row)
        [] w.cmd = "REPLACE" -> IF IsUnique THEN ReplaceUnique(entries, RowKey(old), w.to)
                                ELSE ReplaceNonunique(entries, RowKey(old), w.row, w.to)
        [] w.cmd = "DELETE"  -> DropKey(entries, RowKey(old), w.row)

Commit(s) ==
  /\ ~down /\ work[s] # Idle
  /\ entries' = CommittedEntries(s)
  /\ rows' = [rows EXCEPT ![work[s].row] = Absent, ![work[s].to] = work[s].new]
  /\ work' = [work EXCEPT ![s] = Idle]
  /\ UNCHANGED <<fieldtype, indextype, subs, down>>

\* Transaction::rollback sends the keys as they were staged.
Rollback(s) ==
  /\ ~down /\ work[s] # Idle
  /\ down' = RollbackCrashes(entries, work[s].key, s)
  /\ entries' = RollbackKey(entries, work[s].key, s)
  /\ work' = [work EXCEPT ![s] = Idle]
  /\ UNCHANGED <<fieldtype, indextype, rows, subs>>

Init ==
  /\ fieldtype \in FieldTypes /\ indextype \in IndexTypes
  /\ entries = {} /\ rows = [r \in Rows |-> Absent]
  /\ work = [s \in Subs |-> Idle] /\ subs = 0 /\ down = FALSE

Next ==
  \/ \E r \in Rows : DeleteRow(r) \/ \E v \in Values : InsertRow(r, v) \/ UpdateRow(r, v)
  \/ \E r, to \in Rows : r # to /\ MoveRow(r, to)
  \/ \E s \in Subs : Commit(s) \/ Rollback(s)

Spec == Init /\ [][Next]_vars
=============================================================================
