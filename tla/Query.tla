------------------------------- MODULE Query -------------------------------
(* The statement gate behind its ruleset, and the answers of the tools that ask  *)
(* it: gate.New and Gate.Reload (mcp/overlay.go logs what each load changed),    *)
(* Gate.Validate for one caller, and the cutting of execute_query, search_schema *)
(* and describe_table. Concurrency and the database are in ToolCalls and Server. *)
EXTENDS GateAnalyse, Shaping

CONSTANTS
  Baseline,        \* the embedded ruleset
  Overlays,        \* what the overlay file may hold; decodes is FALSE when it is unreadable
  NoOverlay,       \* the overlay path is empty
  Statements,      \* the statements a caller sends: identity, bytes, tokens by engine
  Results,         \* by identity: the results the database may have for one
  CatalogTokens,   \* the catalog statements of the server, by engine
  CatalogRows,     \* the rows the schema search may return
  Descriptions     \* the columns, keys and indexes the describe reads may return

\* What the file of a ruleset decodes to, and what a lexer yields.
RuleType == [id : STRING, match : Seq(Seq(STRING)), engines : SUBSET STRING, reason : STRING,
             prefix : BOOLEAN, safeAs : STRING]
ASSUME RulesetsAssumption ==
  \A rs \in Overlays \cup {Baseline} : \A k \in 1 .. 3 : Groups(rs)[k] \in Seq(RuleType)
\* baseline.json is validated before anything is merged into it (BaselineRuleset).
\* Of one keyword on one engine it does not say both that it introduces a statement
\* and that it does not: the later of two rules counts, and an overlay that removes
\* the earlier and brings it back puts it last with nothing in the diff.
ASSUME BaselineAssumption ==
  /\ validate(Baseline)
  /\ \A r, s \in ToSet(Baseline.read) :
       Name(r) = Name(s) /\ enginesOverlap(r.engines, s.engines) => r.prefix = s.prefix
TokenType == [kind : STRING, lower : Seq(STRING)]
ASSUME StatementsAssumption == \A st \in Statements : st.tokens \in [Engines -> Seq(TokenType)]

\* What the database may answer: the rows of a query, of the schema search and of the
\* describe reads. The search statements order their rows by schema and table.
NameType == [name : STRING, size : Nat]
SchemaRowType == [table : NameType, column : NameType, tableMatched : BOOLEAN, columnMatched : BOOLEAN, decodes : BOOLEAN]
CellType == [table : NameType, column : NameType, decodes : BOOLEAN]
IndexRowType == [table : NameType, name : NameType, column : NameType, unique : STRING, decodes : BOOLEAN]
OrderedByTable(rows) ==
  \A i, j, k \in DOMAIN rows :
    i < j /\ j < k /\ rows[i].decodes /\ rows[j].decodes /\ rows[k].decodes /\ rows[i].table = rows[k].table
      => rows[j].table = rows[i].table
ASSUME ResultsAssumption ==
  \A st \in Statements : \A result \in Results[st.id] : result.columns \in Nat /\ result.rows \in Seq(Nat)
ASSUME CatalogAssumption ==
  /\ \A read \in CatalogRows : read.rows \in Seq(SchemaRowType) /\ OrderedByTable(read.rows)
  /\ \A d \in Descriptions :
       d.columns \in Seq(CellType) /\ d.keys \in Seq(CellType) /\ d.indexes \in Seq(IndexRowType)

VARIABLES
  gate,    \* Gate.rules: the compiled ruleset in force, or NoGate
  loaded,  \* what logGateLoad wrote when it was installed
  call     \* one call: what was asked, the decision, the answer

vars == <<gate, loaded, call>>

NoGate == [source |-> <<>>]
Idle == [stage |-> "idle"]

-----------------------------------------------------------------------------
loads(ov) == ov = NoOverlay \/ (ov.decodes /\ mergeable(Baseline, ov))
loadRules(ov) == compile(IF ov = NoOverlay THEN Baseline ELSE Merged(Baseline, ov))
logGateLoad(c, ov) ==
  [overlay |-> ov # NoOverlay, diff |-> DiffAgainstBaseline(Baseline, c.source), exemptions |-> Exemptions(c)]

Install(ov) ==
  \E c \in {loadRules(ov)} : gate' = c /\ loaded' = logGateLoad(c, ov)

\* gate.New: a gate without rules is never built, so the process does not start.
New(ov) ==
  /\ gate = NoGate
  /\ IF loads(ov) THEN Install(ov) ELSE UNCHANGED <<gate, loaded>>
  /\ UNCHANGED call

\* SIGHUP: nothing changes without an overlay path or with an overlay that is
\* rejected. A decision that waits for an approval is of the rules before it.
reloadGate(ov) ==
  /\ gate # NoGate /\ loaded.overlay /\ ov # NoOverlay
  /\ \/ call = Idle /\ UNCHANGED call
     \/ /\ call.stage = "decided" /\ call.decision.verdict = "needs-approval"
        /\ call' = [call EXCEPT !.stale = TRUE]
  /\ IF loads(ov) THEN Install(ov) ELSE UNCHANGED <<gate, loaded>>

-----------------------------------------------------------------------------
Decides(e, st, grants) ==
  call' = [stage |-> "decided", engine |-> e, statement |-> st, grants |-> grants, stale |-> FALSE,
           decision |-> Validate(gate, e, st, grants)]

\* The server passes no grant; a caller of the package that has some passes them.
Ask(e, st, grants) ==
  /\ gate # NoGate /\ call = Idle
  /\ Decides(e, st, grants)
  /\ UNCHANGED <<gate, loaded>>

\* A human approves what is pending and the statement is validated again.
Approve ==
  /\ call.stage = "decided" /\ call.decision.verdict = "needs-approval"
  /\ Decides(call.engine, call.statement, call.grants \cup call.decision.pending)
  /\ UNCHANGED <<gate, loaded>>

\* executeQuery: the rows of an allowed statement, cut to the byte budget.
executeQuery(result) ==
  /\ call.stage = "decided" /\ call.decision.verdict = "allow"
  /\ call' = [stage |-> "answered", tool |-> "execute_query", result |-> result, answer |-> withinByteBudget(result)]
  /\ UNCHANGED <<gate, loaded>>

\* The catalog tools send statements of their own, which the gate decides as well.
CatalogAllowed(e) == Validate(gate, e, [id |-> "catalog", bytes |-> 1, tokens |-> CatalogTokens], {}).verdict = "allow"

SearchSchema(e, read) ==
  /\ gate # NoGate /\ call = Idle /\ CatalogAllowed(e)
  /\ \E out \in {schemaTables(read.rows)} :
       call' = [stage |-> "answered", tool |-> "search_schema", result |-> read,
                answer |-> [tables |-> out.tables, truncation |-> TruncationOf(read.capped, out.over)]]
  /\ UNCHANGED <<gate, loaded>>

\* Keys or indexes that the row cap cut fail the call, the columns may be cut.
DescribeTable(e, d) ==
  /\ gate # NoGate /\ call = Idle /\ CatalogAllowed(e)
  /\ \E out \in {describeTables(d.columns, d.keys, d.indexes)} :
       call' = [stage |-> "answered", tool |-> "describe_table", result |-> d,
                answer |-> IF d.detailCapped \/ out.failed THEN [tables |-> <<>>, truncation |-> "failed"]
                           ELSE [tables |-> out.tables, truncation |-> TruncationOf(d.capped, out.over)]]
  /\ UNCHANGED <<gate, loaded>>

\* The caller has its answer or its refusal.
Done == call # Idle /\ call' = Idle /\ UNCHANGED <<gate, loaded>>

-----------------------------------------------------------------------------
Init == gate = NoGate /\ loaded = [overlay |-> FALSE] /\ call = Idle

Next ==
  \/ \E ov \in Overlays \cup {NoOverlay} : New(ov) \/ reloadGate(ov)
  \/ call = Idle /\ \E e \in Engines, st \in Statements, grants \in {{}, {<<"f">>}} : Ask(e, st, grants)
  \/ Approve
  \/ call.stage = "decided" /\ \E result \in Results[call.statement.id] : executeQuery(result)
  \/ call = Idle /\ \E e \in Engines, read \in CatalogRows : SearchSchema(e, read)
  \/ call = Idle /\ \E e \in Engines, d \in Descriptions : DescribeTable(e, d)
  \/ Done

Spec == Init /\ [][Next]_vars

-----------------------------------------------------------------------------
(* References: what a statement is, over its positions and the rules as written. *)
Toks == call.statement.tokens[call.engine]
Words == {i \in DOMAIN Toks : Toks[i].kind = "word"}
DepthAt(i) == Cardinality({k \in 1 .. i - 1 : IsPunct(Toks, k, "(")}) - Cardinality({k \in 1 .. i - 1 : IsPunct(Toks, k, ")")})
InForce(rules) == {r \in ToSet(rules) : ruleApplies(r, call.engine)}
ReadWord(i) == \E r \in InForce(gate.source.read) : Name(r) = Bare(Toks, i)
SafeCall(i) == IsCall(Toks, i) /\ \E n \in Names(Toks, i) : call.engine \in AllowedOn(gate.source, n)

Balanced ==
  /\ DepthAt(Len(Toks) + 1) = 0
  /\ \A i \in 1 .. Len(Toks) : DepthAt(i) >= 0

\* The words at depth 0 that begin a statement or a part of one after the first
\* word: a WITH has one such part, and so has a statement that introduces another.
Parts == {i \in Words \ {1} : ReadWord(i) /\ DepthAt(i) = 0 /\ ~IsWord(Toks, i - 1, setOperators)
                              /\ ~(IsWord(Toks, i, {"with"}) /\ IsCall(Toks, i))}
PartsOf(first) ==
  {x \in {"body"} : Bare(Toks, first) = <<"with">>}
  \cup {x \in {"introduced"} : \E r \in InForce(gate.source.read) : Name(r) = Bare(Toks, first) /\ r.prefix}

Begins(r, i) == \A j \in DOMAIN r.match : i + j - 1 \in Words /\ Bare(Toks, i + j - 1) = r.match[j]

OneRead ==
  /\ 1 \in Words /\ ReadWord(1) /\ Balanced
  /\ \A i \in 1 .. Len(Toks) - 1 : ~IsPunct(Toks, i, ";")
  /\ Cardinality(Parts) <= Cardinality(PartsOf(1))

NothingForbidden ==
  /\ \A r \in InForce(gate.source.forbidden) : \A i \in Words : Begins(r, i) => SafeCall(i)
  /\ \A r \in InForce(gate.source.forbidFunc) : \A i \in DOMAIN Toks :
       IsName(Toks, i) => Name(r) \notin Names(Toks, i)

\* The calls that need no approval: of a safe function, of a word that is not a
\* name, and the column list of a CTE, which stands before the body of the WITH.
Definition(i) ==
  /\ IsWord(Toks, 1, {"with"}) /\ \A body \in Parts : IsPunct(Toks, body - 1, ")") => i < body
  /\ DepthAt(i) = 0
  /\ IsPunct(Toks, i - 1, ",") \/ IsWord(Toks, i - 1, {"with", "recursive"})
Plain(i) ==
  \/ SafeCall(i)
  \/ i \in Words /\ (ReadWord(i) \/ IsWord(Toks, i, gate.source.nonFunc) \/ Definition(i))
Unknown == {qualifiedName(Toks, i) : i \in {i \in DOMAIN Toks : IsName(Toks, i) /\ IsCall(Toks, i) /\ ~Plain(i)}}

Verdict(c, grants) == Validate(c, call.engine, call.statement, grants).verdict

\* An allowed statement is one read: balanced, led by a read keyword, without a
\* second statement, without a forbidden keyword or function, and every call in it
\* is of a name that is safe or granted. Names are compared as the code joins them
\* (Names), so a delimited identifier that holds a dot passes for the qualified name
\* it spells. A statement that waits for approval is the same but for its pending
\* names; granting them all allows it, and granting less does not (engine.go:9-17,
\* Decision.Pending and GrantsUsed of gate.go).
VerdictIsEarned ==
  (call.stage = "decided" /\ ~call.stale) =>
    LET d == call.decision
    IN /\ d.verdict # "deny" => OneRead /\ NothingForbidden
       /\ d.verdict = "allow" => Unknown \subseteq call.grants /\ d.used = Unknown
       /\ d.verdict = "needs-approval" =>
            /\ d.pending = Unknown \ call.grants
            /\ \A some \in SUBSET d.pending : Verdict(gate, call.grants \cup some) = "allow" <=> some = d.pending

\* Why the baseline would deny what the rules in force do not: the change that
\* the log of the last load shows for it.
Accounted(reason, id, diff) ==
  LET changed == diff.removed \cup diff.replaced
  IN /\ reason \in {"statement-too-long", "unknown-statement", "multiple-statements", "forbidden-construct",
                    "forbidden-statement"}
     /\ reason = "statement-too-long" => diff.bytes = "changed"
     /\ reason = "unknown-statement" => diff.added \cup diff.replaced # {}
     /\ reason = "multiple-statements" => changed \cup diff.added # {}
     /\ reason = "forbidden-construct" => id \in changed
     /\ reason = "forbidden-statement" =>
          id \in changed \/ \E i \in Words : IsCall(Toks, i) /\ Names(Toks, i) \cap diff.safeAdded[call.engine] # {}

\* Every loosening is on the record: a statement that the baseline denies and the
\* rules in force do not is accounted for by the diff logged when they were
\* loaded, and so is a call that no longer needs approval (overlay.go of mcp,
\* Exemptions of gate.go:151-178).
LooseningIsLogged ==
  (call.stage = "decided" /\ ~call.stale) =>
    \A was \in {Validate(compile(Baseline), call.engine, call.statement, call.grants)} :
      /\ (was.verdict = "deny" /\ call.decision.verdict # "deny") => Accounted(was.reason, was.rule, loaded.diff)
      /\ (was.verdict = "needs-approval" /\ call.decision.verdict = "allow") =>
           \/ loaded.diff.keywordsAdded # {} \/ loaded.diff.safeAdded[call.engine] # {}
           \/ loaded.diff.added \cup loaded.diff.removed \cup loaded.diff.replaced # {}

\* A forbidden keyword that a safe function of the same name disables has stated
\* why it may (ruleset.go:336-339).
LooseningIsArgued ==
  gate # NoGate =>
    \A e \in Engines : \A r \in ToSet(gate.source.forbidden) :
      (ruleApplies(r, e) /\ \E n \in gate.safeFunc[e] : r.match = <<n>>) => declaresSafeAsFunction(r)

-----------------------------------------------------------------------------
\* The size of a query answer that holds the first n rows.
Encoded(result, n, truncation) ==
  encodedSizeWithoutRows(result.columns, truncation)
  + Total(SubSeq(result.rows, 1, n)) + (IF n > 1 THEN n - 1 ELSE 0)
Uncut(result) == TruncationOf(result.capped, FALSE)

\* The rows of an answer fit its budget, are whole when the whole fits, and no
\* further row would fit. Columns that alone exceed the budget are sent without
\* rows, and reported as a cut even when there were none.
QueryAnswer(result, out) ==
  IF Encoded(result, Len(result.rows), Uncut(result)) <= executeResultBudget
  THEN out = [kept |-> Len(result.rows), truncation |-> Uncut(result)]
  ELSE /\ out.truncation = "byte_budget"
       /\ out.kept < Len(result.rows) \/ Encoded(result, 0, Uncut(result)) > executeResultBudget
       /\ out.kept < Len(result.rows) => Encoded(result, out.kept + 1, "byte_budget") > executeResultBudget
       /\ out.kept > 0 => Encoded(result, out.kept, "byte_budget") <= executeResultBudget

\* The columns of a table that the rows of a read have, as far as they count.
ColumnsUpTo(rows, table, counted) ==
  LET own[n \in 0 .. Len(rows)] ==
        IF n = 0 THEN <<>>
        ELSE IF rows[n].table = table /\ rows[n] \in counted THEN Append(own[n - 1], rows[n].column) ELSE own[n - 1]
  IN own
ColumnsIn(rows, table, counted) == ColumnsUpTo(rows, table, counted)[Len(rows)]
Decoded(rows) == {r \in ToSet(rows) : r.decodes}
Speaking(rows) == {r \in ToSet(rows) : Speaks(r)}
Matching(rows) == {r \in Speaking(rows) : hasColumn(r)}
\* The columns of the indexes of an entry, one index after the other.
JoinedUpTo(indexes) ==
  LET joined[n \in 0 .. Len(indexes)] == IF n = 0 THEN <<>> ELSE joined[n - 1] \o indexes[n].columns IN joined
Joined(indexes) == JoinedUpTo(indexes)[Len(indexes)]

\* Which entries of a catalog answer may be short: one that says so, the last, and
\* none unless the answer is cut. The others have every column that was read, and an
\* answer that is not cut has every table.
ShortOnesSaySo(entries, over, rows, counted, shown) ==
  /\ \A k \in DOMAIN entries :
       /\ entries[k].cut => k = Len(entries) /\ over
       /\ ~entries[k].cut => entries[k].columns = ColumnsIn(rows, entries[k].table, counted)
       /\ IsPrefix(entries[k].columns, ColumnsIn(rows, entries[k].table, counted))
  /\ ~over => {entries[k].table : k \in DOMAIN entries} = {r.table : r \in shown}

FoundBytes(entry) ==
  schemaTableBytes + entry.table.size
  + Total([j \in DOMAIN entry.columns |-> schemaColumnBytes + entry.columns[j].size])
SearchAnswer(read, out) ==
  /\ ShortOnesSaySo(out.tables, out.truncation = "byte_budget", read.rows, Matching(read.rows), Speaking(read.rows))
  /\ Total([k \in DOMAIN out.tables |-> FoundBytes(out.tables[k])]) <= SchemaResultBudget
  /\ out.truncation # "byte_budget" => out.truncation = TruncationOf(read.capped, FALSE)

\* A description has every key and index of its tables, and fits.
DescribedBytes(entry) == EntryBytes(entry) + ColumnBytes(entry.columns)
DescribeAnswer(read, out) ==
  IF out.truncation = "failed" THEN out.tables = <<>>
  ELSE /\ ShortOnesSaySo(out.tables, out.truncation = "byte_budget", read.columns, Decoded(read.columns),
                         Decoded(read.columns) \cup Decoded(read.keys) \cup Decoded(read.indexes))
       /\ \A k \in DOMAIN out.tables :
            /\ out.tables[k].primaryKey = ColumnsIn(read.keys, out.tables[k].table, Decoded(read.keys))
            /\ Joined(out.tables[k].indexes) = ColumnsIn(read.indexes, out.tables[k].table, Decoded(read.indexes))
       /\ Total([k \in DOMAIN out.tables |-> DescribedBytes(out.tables[k])]) <= SchemaResultBudget

\* What a tool returns is the longest beginning of what was read that fits its
\* budget, and says which bound cut it and which entry is short: an entry that
\* does not is complete as far as it was read (ExecuteQueryResult of tools.go,
\* SchemaTable.ColumnsTruncated, DescribeTable of db.go).
AnswersSayWhatTheyLack ==
  call.stage = "answered" =>
    /\ call.tool = "execute_query" => QueryAnswer(call.result, call.answer)
    /\ call.tool = "search_schema" => SearchAnswer(call.result, call.answer)
    /\ call.tool = "describe_table" => DescribeAnswer(call.result, call.answer)
=============================================================================
