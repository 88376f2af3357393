------------------------------ MODULE Shaping ------------------------------
(* How an answer is cut to its budget: withinByteBudget of mcp/rows.go for the  *)
(* rows of a query, schemaTables and describeTables of internal/db for the      *)
(* catalog tools. Of a row or a name only its size in bytes is kept, of a cell  *)
(* whether it decodes.                                                          *)
EXTENDS Integers, Sequences, FiniteSets, SequencesExt

CONSTANTS
  executeResultBudget,
  SchemaResultBudget,  \* describeResultBudget is the same
  FixedBytes,          \* what every encoded query answer has around its columns and rows
  schemaTableBytes, schemaColumnBytes,
  describeTableBytes, describeColumnBytes, describeKeyBytes, describeIndexBytes

ASSUME BudgetsAssumption ==
  {executeResultBudget, SchemaResultBudget, FixedBytes, schemaTableBytes, schemaColumnBytes,
   describeTableBytes, describeColumnBytes, describeKeyBytes, describeIndexBytes} \subseteq Nat

Once(S) == CHOOSE x \in S : TRUE
\* The sums of the first n sizes, and of all of them.
Sums(sizes) == LET sum[n \in 0 .. Len(sizes)] == IF n = 0 THEN 0 ELSE sum[n - 1] + sizes[n] IN sum
Total(sizes) == Sums(sizes)[Len(sizes)]

TruncationOf(capped, over) == IF over THEN "byte_budget" ELSE IF capped THEN "row_cap" ELSE "none"

\* The bytes that the truncated and truncation fields of an answer take.
FlagBytes == [none |-> 9, row_cap |-> 11, byte_budget |-> 15]
encodedSizeWithoutRows(columns, truncation) == FixedBytes + columns + FlagBytes[truncation]

\* Mutant: the cut answer is measured with the header of one that is not cut.
cutHeaderUncut(columns) == encodedSizeWithoutRows(columns, "none")
cutHeader(columns) == encodedSizeWithoutRows(columns, "byte_budget")

\* Two sizes run over the rows, of the whole answer and of the cut one; both count
\* a comma before every row but the first.
RowBytes(rows, i) == rows[i] + (IF i > 1 THEN 1 ELSE 0)
Measured(s, rows, i) ==
  LET keeps == s.kept = i - 1 /\ s.spent + RowBytes(rows, i) <= executeResultBudget
  IN IF s.whole > executeResultBudget THEN s
     ELSE [whole |-> s.whole + RowBytes(rows, i),
           spent |-> s.spent + (IF keeps THEN RowBytes(rows, i) ELSE 0),
           kept |-> IF keeps THEN i ELSE s.kept]

\* A result: the bytes of its column names, the sizes of its encoded rows, and
\* whether the row cap cut it.
Measures(result) ==
  LET upTo[i \in 0 .. Len(result.rows)] ==
        IF i = 0 THEN [whole |-> encodedSizeWithoutRows(result.columns, TruncationOf(result.capped, FALSE)),
                       spent |-> cutHeader(result.columns), kept |-> 0]
        ELSE Once({Measured(s, result.rows, i) : s \in {upTo[i - 1]}})
  IN upTo
withinByteBudget(result) ==
  LET s == Measures(result)[Len(result.rows)]
  IN IF s.whole <= executeResultBudget
     THEN [kept |-> Len(result.rows), truncation |-> TruncationOf(result.capped, FALSE)]
     ELSE [kept |-> s.kept, truncation |-> "byte_budget"]

-----------------------------------------------------------------------------
(* Entries of the catalog answers: one per table, in the order of their rows.   *)
Entry(table) == [table |-> table, columns |-> <<>>, primaryKey |-> <<>>, indexes |-> <<>>, cut |-> FALSE]
At(entries, table) == {k \in DOMAIN entries : entries[k].table = table}
\* The entry of a table, empty if there is none; and the entries with that one as
\* the table's entry, at the end if there was none.
Find(entries, table) == IF At(entries, table) = {} THEN Entry(table) ELSE entries[CHOOSE k \in At(entries, table) : TRUE]
Put(entries, entry) ==
  IF At(entries, entry.table) = {} THEN Append(entries, entry)
  ELSE [k \in DOMAIN entries |-> IF entries[k].table = entry.table THEN entry ELSE entries[k]]

\* schemaTables. A row has a table, a column ("" when it does not decode) and which
\* of the two names matched; one whose other cells do not decode says nothing. The
\* sizes of the names are part of them.
hasColumn(row) == row.columnMatched /\ row.column.size > 0
Speaks(row) == row.decodes /\ (row.tableMatched \/ hasColumn(row))
RowCost(entries, row) ==
  (IF At(entries, row.table) = {} THEN schemaTableBytes + row.table.size ELSE 0)
  + (IF hasColumn(row) THEN schemaColumnBytes + row.column.size ELSE 0)

\* The cut marks the entry that it lands in, when the table has one.
Marked(entries, table) ==
  IF At(entries, table) = {} THEN entries ELSE Put(entries, [Find(entries, table) EXCEPT !.cut = TRUE])
Extended(entry, row) == IF hasColumn(row) THEN [entry EXCEPT !.columns = Append(@, row.column)] ELSE entry
Grouped(s, row) ==
  LET cost == RowCost(s.tables, row)
  IN IF s.over \/ ~Speaks(row) THEN s
     ELSE IF s.spent + cost > SchemaResultBudget
     THEN [tables |-> Marked(s.tables, row.table), spent |-> s.spent, over |-> TRUE]
     ELSE [tables |-> Put(s.tables, Extended(Find(s.tables, row.table), row)), spent |-> s.spent + cost, over |-> FALSE]
Groupings(rows) ==
  LET upTo[i \in 0 .. Len(rows)] ==
        IF i = 0 THEN [tables |-> <<>>, spent |-> 0, over |-> FALSE] ELSE Once({Grouped(s, rows[i]) : s \in {upTo[i - 1]}})
  IN upTo
schemaTables(rows) == Groupings(rows)[Len(rows)]

-----------------------------------------------------------------------------
(* describeTables: every key and index or none, then the columns while they fit. *)
WithColumn(entries, row) ==
  IF row.decodes THEN Put(entries, [Find(entries, row.table) EXCEPT !.columns = Append(@, row.column)]) ELSE entries
WithKey(entries, row) ==
  IF row.decodes THEN Put(entries, [Find(entries, row.table) EXCEPT !.primaryKey = Append(@, row.column)]) ELSE entries
Columned(rows) ==
  LET upTo[i \in 0 .. Len(rows)] == IF i = 0 THEN <<>> ELSE Once({WithColumn(s, rows[i]) : s \in {upTo[i - 1]}}) IN upTo
Keyed(entries, rows) ==
  LET upTo[i \in 0 .. Len(rows)] == IF i = 0 THEN entries ELSE Once({WithKey(s, rows[i]) : s \in {upTo[i - 1]}}) IN upTo

\* An index row continues the last index of its table or begins the next one.
Index(row) == [name |-> row.name, unique |-> row.unique, columns |-> <<row.column>>]
Continues(entry, row) == entry.indexes # <<>> /\ entry.indexes[Len(entry.indexes)].name = row.name
Indexed(entry, row) ==
  IF Continues(entry, row)
  THEN [entry EXCEPT !.indexes[Len(entry.indexes)].columns = Append(@, row.column)]
  ELSE [entry EXCEPT !.indexes = Append(@, Index(row))]
\* A uniqueness that does not decode, or that contradicts the index it continues.
describeIndexUnique(row) == row.unique # "undecodable"
Contradicts(entry, row) == Continues(entry, row) /\ entry.indexes[Len(entry.indexes)].unique # row.unique
WithIndex(s, row) ==
  IF s.failed \/ ~row.decodes THEN s
  ELSE IF ~describeIndexUnique(row) \/ Contradicts(Find(s.tables, row.table), row)
  THEN [tables |-> s.tables, failed |-> TRUE]
  ELSE [tables |-> Put(s.tables, Indexed(Find(s.tables, row.table), row)), failed |-> FALSE]
Completed(entries, rows) ==
  LET upTo[i \in 0 .. Len(rows)] ==
        IF i = 0 THEN [tables |-> entries, failed |-> FALSE] ELSE Once({WithIndex(s, rows[i]) : s \in {upTo[i - 1]}})
  IN upTo

KeyBytes(columns) == Total([k \in DOMAIN columns |-> describeKeyBytes + columns[k].size])
IndexBytes(index) == describeIndexBytes + index.name.size + KeyBytes(index.columns)
EntryBytes(entry) ==
  describeTableBytes + entry.table.size + KeyBytes(entry.primaryKey)
  + Total([k \in DOMAIN entry.indexes |-> IndexBytes(entry.indexes[k])])
Fixed(entries) == Total([k \in DOMAIN entries |-> EntryBytes(entries[k])])
ColumnBytes(columns) == Total([k \in DOMAIN columns |-> describeColumnBytes + columns[k].size])

\* The columns of the entries that fit beside the keys and indexes; the entry
\* that the cut lands in is the last one.
Charged(s, entry) ==
  LET fits(n) == s.spent + ColumnBytes(SubSeq(entry.columns, 1, n)) <= SchemaResultBudget
      n == CHOOSE n \in 0 .. Len(entry.columns) : fits(n) /\ (n = Len(entry.columns) \/ ~fits(n + 1))
      kept == SubSeq(entry.columns, 1, n)
  IN IF s.over THEN s
     ELSE [tables |-> Append(s.tables, [entry EXCEPT !.columns = kept, !.cut = n < Len(entry.columns)]),
           spent |-> s.spent + ColumnBytes(kept),
           over |-> n < Len(entry.columns)]
Charges(entries) ==
  LET upTo[i \in 0 .. Len(entries)] ==
        IF i = 0 THEN [tables |-> <<>>, spent |-> Fixed(entries), over |-> FALSE]
        ELSE Once({Charged(s, entries[i]) : s \in {upTo[i - 1]}})
  IN upTo

\* A description, or the failure that keys and indexes do not fit or do not decode.
describeTables(columns, keys, indexes) ==
  LET all == Completed(Keyed(Columned(columns)[Len(columns)], keys)[Len(keys)], indexes)[Len(indexes)]
      charged == Charges(all.tables)[Len(all.tables)]
  IN IF all.failed \/ Fixed(all.tables) > SchemaResultBudget
     THEN [failed |-> TRUE, tables |-> <<>>, over |-> FALSE]
     ELSE [failed |-> FALSE, tables |-> charged.tables, over |-> charged.over]
=============================================================================
