------------------------------ MODULE LockView ------------------------------
(***************************************************************************)
(* The data pane: a table read in the order of one index, with the last    *)
(* lock snapshot drawn onto its rows (internal/engine/data.go), and what   *)
(* is said of each lock (internal/engine/inspect.go).  Pure functions.     *)
(*                                                                         *)
(* A table has the columns id and v, and an index over an expression on v. *)
(* A lock mode is the set of its flags.  Where the text of LOCK_DATA       *)
(* matters it is a sequence of letters; elsewhere a lock's key is the      *)
(* sequence of its components, each a value and the way it is spelled.     *)
(* Values are numbers, in the order the index has them in.                 *)
(***************************************************************************)
EXTENDS Integers, FiniteSets, Sequences, SequencesExt

\* What a loop over 1..n makes of what it starts with.  FoldLeftDomain, as a
\* function that can be reasoned about.
Loop(n, start, Step(_, _)) ==
  LET after[i \in 0..n] == IF i = 0 THEN start ELSE Step(after[i - 1], i)
  IN after[n]

\* The elements of s that are not in X, in their order.
Without(s, X) ==
  Loop(Len(s), <<>>, LAMBDA out, i : IF s[i] \in X THEN out ELSE Append(out, s[i]))

-----------------------------------------------------------------------------
(***************************************************************************)
(* Tables and indexes.                                                     *)
(***************************************************************************)

\* information_schema.STATISTICS of a table; the expression of a functional
\* index has no column.
Expr == "(expr)"
Statistics(hasPK) ==
  {[name |-> "by_expr", seq |-> 1, column |-> Expr], [name |-> "by_v", seq |-> 1, column |-> "v"]}
  \union (IF hasPK THEN {[name |-> "PRIMARY", seq |-> 1, column |-> "id"]} ELSE {})

\* One index per name, with its columns in the order of SEQ_IN_INDEX.
IndexOf(rows, name) ==
  LET its == {row \in rows : row.name = name}
  IN [name |-> name,
      columns |-> [i \in 1..Cardinality(its) |-> (CHOOSE row \in its : row.seq = i).column],
      orderable |-> \A row \in its : row.column # Expr]
Indexes(hasPK) ==
  [name \in {row.name : row \in Statistics(hasPK)} |-> IndexOf(Statistics(hasPK), name)]

\* sortIndexes: PRIMARY comes first, the others by their names.
Position == [PRIMARY |-> 1, by_expr |-> 2, by_v |-> 3]
FirstOf(names) == CHOOSE name \in names : \A other \in names : Position[name] <= Position[other]

PrimaryKey(indexes) ==
  IF "PRIMARY" \in DOMAIN indexes THEN indexes["PRIMARY"].columns ELSE <<>>

\* The index asked for, or the first.
Index(indexes, name) ==
  IF name \in DOMAIN indexes THEN indexes[name] ELSE indexes[FirstOf(DOMAIN indexes)]

\* A fault to seed: an entry of a secondary index is its own columns.
KeyColumnsOwn(idx, pk) == idx.columns

\* An entry of a secondary index holds the primary key too.
KeyColumns(idx, pk) ==
  IF idx.name = "PRIMARY" THEN idx.columns
  ELSE idx.columns \o Without(pk, Range(idx.columns))

\* What an entry of the index holds in a column; the expression is some function
\* of v.
ValueIn(row, column) == IF column = Expr THEN 3 - row.v ELSE row[column]

\* The columns of the result set; an expression is none of them.
RowKey(row, columns) ==
  LET shown == Without(columns, {Expr})
  IN [i \in 1..Len(shown) |-> ValueIn(row, shown[i])]

\* Lexicographic order of keys.
Precedes(a, b) ==
  \E k \in DOMAIN a \intersect DOMAIN b : a[k] < b[k] /\ \A j \in 1..(k - 1) : a[j] = b[j]

\* The rows in the order of their keys.
RowsInOrder(rows, key) ==
  [i \in 1..Cardinality(rows) |->
     CHOOSE r \in rows : Cardinality({s \in rows : Precedes(key[s], key[r])}) = i - 1]

\* The table read in the index's order, at most `limit' rows of it; an index over
\* an expression is read in no particular order, here the primary key's.
FetchTable(rows, hasPK, name, limit) ==
  LET indexes == Indexes(hasPK)
      idx == Index(indexes, name)
      columns == KeyColumns(idx, PrimaryKey(indexes))
      order == [r \in rows |-> IF idx.orderable THEN RowKey(r, columns) \o <<r.id>> ELSE <<r.id>>]
      sorted == RowsInOrder(rows, order)
      seen == SubSeq(sorted, 1, IF Len(sorted) < limit THEN Len(sorted) ELSE limit)
  IN [index |-> idx.name, truncated |-> Len(sorted) > limit,
      rows |-> [i \in 1..Len(seen) |-> [row |-> seen[i], key |-> RowKey(seen[i], columns)]]]

-----------------------------------------------------------------------------
(***************************************************************************)
(* Drawing locks.                                                          *)
(***************************************************************************)

\* A lock on a partition names it after the table.
BaseTable(object) == [object EXCEPT !.partition = 0]

\* REC_NOT_GAP has GAP in it.
Mentions(mode, word) ==
  \/ word \in mode
  \/ word = "GAP" /\ "REC_NOT_GAP" \in mode

LockKind(l) ==
  IF l.type = "TABLE" THEN "table"
  ELSE IF Mentions(l.mode, "INSERT_INTENTION") THEN "insert-intention"
  ELSE IF Mentions(l.mode, "REC_NOT_GAP") THEN "record"
  ELSE IF Mentions(l.mode, "GAP") THEN "gap"
  ELSE "next-key"

\* explainLockMode: which sentence a lock gets, from the mode taken apart.
ExplainLockMode(l) ==
  IF l.type = "TABLE" THEN "table"
  ELSE IF "INSERT_INTENTION" \in l.mode THEN "insert-intention"
  ELSE IF "GAP" \in l.mode THEN "gap"
  ELSE IF "REC_NOT_GAP" \in l.mode THEN "record"
  ELSE "next-key"

CoversRecord(kind) == kind \in {"record", "next-key"}
CoversGap(kind) == kind \in {"gap", "next-key", "insert-intention"}

\* strings.TrimRight of a value: the even number after an odd one stands for the
\* same text with a blank at its end.
TrimRight(value) == IF value % 2 = 0 /\ value > 0 THEN value - 1 ELSE value

\* LOCK_DATA writes a value as text, padded with blanks perhaps, or in hex: of the
\* text, or of the bytes InnoDB stores, which no text is (DATETIME, DECIMAL).
\* Blanks at the end are trimmed from the lock's text and from the row's.  A text
\* that itself reads as another's hex is left out.
ComponentMatches(value, lock) ==
  CASE lock.spelled \in {"plain", "padded"} -> TrimRight(value) = TrimRight(lock.value)
    [] lock.spelled = "hex" -> value = lock.value
    [] lock.spelled = "stored" -> FALSE

\* As many components as both have.
KeyMatches(rowKey, lockKey) ==
  LET n == IF Len(lockKey) < Len(rowKey) THEN Len(lockKey) ELSE Len(rowKey)
  IN n > 0 /\ \A i \in 1..n : ComponentMatches(rowKey[i], lockKey[i])

\* The first row the key names, or 0.
FindRow(rows, lockKey) ==
  LET hits == {i \in 1..Len(rows) : KeyMatches(rows[i].key, lockKey)}
  IN IF hits = {} THEN 0 ELSE CHOOSE i \in hits : \A j \in hits : i <= j

\* Where Annotate draws a lock: nowhere (the Locks tab has it), beside the rows,
\* or on or before one of them.
Place(view, table, l) ==
  IF BaseTable(l.object) # table \/ LockKind(l) = "table" THEN <<"nowhere">>
  ELSE IF l.index # view.index THEN <<"other index">>
  ELSE IF l.supremum THEN <<"supremum">>
  ELSE IF FindRow(view.rows, l.key) = 0 THEN <<"unmatched">>
  ELSE <<"row", FindRow(view.rows, l.key)>>

\* The view with a snapshot's locks; in which order a list has them is left out.
Annotate(view, table, locks) ==
  LET in(where) == {l \in locks : Place(view, table, l) = where}
  IN [supremum |-> in(<<"supremum">>), unmatched |-> in(<<"unmatched">>),
      otherIndex |-> in(<<"other index">>),
      rows |-> [i \in 1..Len(view.rows) |->
        [locks |-> {l \in in(<<"row", i>>) : CoversRecord(LockKind(l))},
         gapLocks |-> {l \in in(<<"row", i>>) : CoversGap(LockKind(l))}]]]

-----------------------------------------------------------------------------
(***************************************************************************)
(* LOCK_DATA.                                                              *)
(***************************************************************************)

Quote == "'"
Comma == ","
Space == " "

Trim(s) ==
  LET letters == {i \in 1..Len(s) : s[i] # Space}
  IN IF letters = {} THEN <<>> ELSE SubSeq(s, Min(letters), Max(letters))

\* Every two quotes are one.
UndoubleLetter(s, acc, i) ==
  IF acc.skip THEN [acc EXCEPT !.skip = FALSE]
  ELSE [out |-> Append(acc.out, s[i]),
        skip |-> s[i] = Quote /\ i < Len(s) /\ s[i + 1] = Quote]
Undoubled(s) ==
  Loop(Len(s), [out |-> <<>>, skip |-> FALSE], LAMBDA acc, i : UndoubleLetter(s, acc, i)).out

UnquoteComponent(s) ==
  LET t == Trim(s)
  IN IF Len(t) >= 2 /\ Head(t) = Quote /\ Last(t) = Quote
     THEN Undoubled(SubSeq(t, 2, Len(t) - 1)) ELSE t

\* A fault to seed: a comma ends a value wherever it is.
SplitLetterAtCommas(data, acc, i) ==
  IF data[i] = Comma
  THEN [acc EXCEPT !.out = Append(@, UnquoteComponent(acc.current)), !.current = <<>>]
  ELSE [acc EXCEPT !.current = Append(@, data[i])]

\* One letter of the text: a doubled quote within quotes is part of the value, a
\* comma outside them ends it.
SplitLetter(data, acc, i) ==
  IF acc.skip THEN [acc EXCEPT !.skip = FALSE]
  ELSE IF data[i] = Quote /\ acc.inQuote /\ i < Len(data) /\ data[i + 1] = Quote
    THEN [acc EXCEPT !.current = @ \o <<Quote, Quote>>, !.skip = TRUE]
  ELSE IF data[i] = Quote THEN [acc EXCEPT !.current = Append(@, Quote), !.inQuote = ~ @]
  ELSE IF data[i] = Comma /\ ~ acc.inQuote
    THEN [acc EXCEPT !.out = Append(@, UnquoteComponent(acc.current)), !.current = <<>>]
  ELSE [acc EXCEPT !.current = Append(@, data[i])]

SplitLockData(text) ==
  LET data == Trim(text)
      end == Loop(Len(data), [out |-> <<>>, current |-> <<>>, inQuote |-> FALSE, skip |-> FALSE],
                  LAMBDA acc, i : SplitLetter(data, acc, i))
  IN IF data = <<>> THEN <<>> ELSE Append(end.out, UnquoteComponent(end.current))

\* How InnoDB writes a key: strings in quotes with theirs doubled.
Doubled(s) ==
  Loop(Len(s), <<>>, LAMBDA out, i : out \o (IF s[i] = Quote THEN <<Quote, Quote>> ELSE <<s[i]>>))
Written(component) ==
  IF component.string THEN <<Quote>> \o Doubled(component.text) \o <<Quote>> ELSE component.text
WrittenKey(key) ==
  Loop(Len(key), <<>>, LAMBDA out, i :
    out \o (IF i = 1 THEN <<>> ELSE <<Comma, Space>>) \o Written(key[i]))
=============================================================================
