------------------------------ MODULE MCQuery ------------------------------
(* Query with two engines, a baseline of every kind of rule, overlays of which  *)
(* each changes or breaks one thing, every statement of up to three tokens of a *)
(* small alphabet, and longer ones built around the shapes the walk tells apart.*)
EXTENDS Query

AllEngines == {"mysql", "sqlserver"}
Single(w) == <<<<w>>>>
On(r, engines) == [r EXCEPT !.engines = engines]

Base ==
  [version |-> 1, maxBytes |-> 14,
   read |-> <<Rule("select", Single("select"), {}, "read"), Rule("with", Single("with"), {}, "read"),
              [Rule("explain", Single("explain"), {}, "read") EXCEPT !.prefix = TRUE]>>,
   forbidden |-> <<Rule("execute", Single("execute"), {}, "write"), Rule("drop", Single("drop"), {}, "write"),
                   Rule("execute as", <<<<"execute">>, <<"as">>>>, {}, "write"),
                   [Rule("replace", Single("replace"), {}, "write") EXCEPT !.safeAs = "never before a parenthesis"]>>,
   forbidFunc |-> <<Rule("xp", Single("xp"), {}, "procedure")>>,
   safe |-> <<Allowance({}, {<<"count">>, <<"left">>}), Allowance({"mysql"}, {<<"replace">>})>>,
   nonFunc |-> {"as", "in"}]

Empty == [decodes |-> TRUE, version |-> 1, maxBytes |-> {}, read |-> <<>>, forbidden |-> <<>>, forbidFunc |-> <<>>,
          safe |-> <<>>, nonFunc |-> {}, removeRules |-> <<>>, removeSafe |-> <<>>]
Missing == [Empty EXCEPT !.version = 0, !.decodes = FALSE]
LockOn(engines) == On(Rule("lock", Single("lock"), engines, "write"), engines)
LockSafe(engines) == Allowance(engines, {<<"lock">>})
Argued == [Rule("execute argued", Single("execute"), {}, "write") EXCEPT !.safeAs = "argued"]

\* Overlays that load, and the one that restricts an allowance it gave everywhere.
Loosening ==
  {Empty, [Empty EXCEPT !.removeRules = <<"drop">>], [Empty EXCEPT !.removeRules = <<"select">>],
   [Empty EXCEPT !.removeRules = <<"explain">>, !.read = <<Rule("explain", Single("explain"), {}, "read")>>],
   [Empty EXCEPT !.removeRules = <<"drop">>, !.forbidden = <<On(Rule("drop", Single("drop"), {}, "write"), {"mysql"})>>],
   [Empty EXCEPT !.read = <<Rule("show", Single("show"), {"mysql"}, "read")>>],
   [Empty EXCEPT !.removeRules = <<"execute">>, !.forbidden = <<Argued>>, !.safe = <<Allowance({}, {<<"execute">>})>>],
   [Empty EXCEPT !.forbidden = <<LockOn({"mysql"})>>, !.safe = <<LockSafe({"sqlserver"})>>],
   [Empty EXCEPT !.forbidden = <<LockOn({"mysql"})>>, !.safe = <<LockSafe({}), LockSafe({"sqlserver"})>>],
   [Empty EXCEPT !.removeSafe = <<<<"count">>>>], [Empty EXCEPT !.safe = <<Allowance({"mysql"}, {<<"f">>, <<"dbo", "f">>})>>],
   [Empty EXCEPT !.safe = <<Allowance({"sqlserver"}, {<<"dbo", "f">>})>>],
   [Empty EXCEPT !.nonFunc = {"f"}], [Empty EXCEPT !.maxBytes = {15}],
   [Empty EXCEPT !.forbidFunc = <<Rule("dbo.f", <<<<"dbo", "f">>>>, {}, "procedure")>>]}
\* Overlays that must not load.
Rejected ==
  {Missing, [Empty EXCEPT !.version = 2], [Empty EXCEPT !.maxBytes = {0}], [Empty EXCEPT !.removeRules = <<"drop", "drop">>],
   [Empty EXCEPT !.removeRules = <<"dorp">>], [Empty EXCEPT !.removeSafe = <<<<"f">>>>],
   [Empty EXCEPT !.removeRules = <<"select", "with", "explain">>],
   [Empty EXCEPT !.safe = <<Allowance({}, {<<"execute">>})>>], [Empty EXCEPT !.safe = <<Allowance({}, {<<"xp">>})>>],
   [Empty EXCEPT !.forbidden = <<LockOn({"mysql"})>>, !.safe = <<LockSafe({"sqlserver"}), LockSafe({})>>],
   [Empty EXCEPT !.forbidden = <<Rule("drop", Single("lock"), {}, "write")>>],
   [Empty EXCEPT !.forbidden = <<Rule("lock", Single("LOCK"), {}, "write")>>],
   [Empty EXCEPT !.forbidden = <<LockOn({"oracle"})>>], [Empty EXCEPT !.forbidden = <<Rule("lock", Single("lock"), {}, "")>>],
   [Empty EXCEPT !.forbidden = <<[LockOn({}) EXCEPT !.prefix = TRUE]>>],
   [Empty EXCEPT !.read = <<Rule("show", <<<<"show">>, <<"all">>>>, {}, "read")>>],
   [Empty EXCEPT !.read = <<[Rule("show", Single("show"), {}, "read") EXCEPT !.safeAs = "argued"]>>],
   [Empty EXCEPT !.read = <<Rule("drop in", Single("drop"), {"mysql"}, "read")>>],
   [Empty EXCEPT !.forbidFunc = <<Rule("xp as", <<<<"xp">>, <<"as">>>>, {}, "procedure")>>],
   [Empty EXCEPT !.nonFunc = {"LOCK"}]}
AllOverlays == Loosening \cup Rejected

-----------------------------------------------------------------------------
Puncts == {"(", ")", ";", ",", "."}
\* "q" is the delimited f of SQL Server, a string on MySQL, "q.f" the delimited dbo.f,
\* one identifier that holds a dot, and "1" a literal.
Lexed(w, e) ==
  CASE w \in Puncts -> Token("punct", <<w>>)
    [] w = "q" -> Token(IF e = "mysql" THEN "string" ELSE "quoted", <<"f">>)
    [] w = "q.f" -> Token(IF e = "mysql" THEN "string" ELSE "quoted", <<"dbo", "f">>)
    [] w = "1" -> Token("number", <<"1">>)
    [] OTHER -> Token("word", <<w>>)
Statement(words) ==
  [id |-> words, bytes |-> Len(words), tokens |-> [e \in AllEngines |-> [i \in DOMAIN words |-> Lexed(words[i], e)]]]

Alphabet == {"select", "with", "explain", "drop", "execute", "f", "count", "(", ")", ";"}
Short == UNION {[1 .. n -> Alphabet] : n \in 0 .. 2} \cup {<<"select">> \o s : s \in [1 .. 2 -> Alphabet]}

\* The parts of longer statements.
Call(n) == <<n, "(", "1", ")">>
CTE == <<"with", "r", "as", "(", "select", "1", ")">>
Listed == {Call(n) : n \in {"f", "q", "count", "execute", "replace", "lock", "xp", "in", "select", "show"}}
          \cup {<<"dbo", ".">> \o Call("f"), Call("q.f"), <<"a", ".">> \o Call("q.f"), <<"a", ".", "b", ".", "dbo", ".">> \o Call("f"), <<"execute", "as", "f">>, <<"xp">>, <<"1">>}
Long ==
  {<<"select">> \o l : l \in Listed} \cup {<<"explain", "select">> \o l : l \in Listed} \cup {<<"show">> \o l : l \in Listed}
  \cup {<<"select">> \o Call("f") \o <<",">> \o l : l \in Listed}
  \cup {CTE \o <<"select">> \o l : l \in Listed}
  \cup {<<"select", "1">> \o t \o <<"select">> : t \in {<<>>, <<"union">>, <<"union", "all">>, <<";">>, <<"explain">>}}
  \cup {CTE \o t : t \in {<<",", "s", "(", "n", ")", "as">>, <<"select", ",", "f", "(", ")">>, <<"select", "(", "1", ")", "select">>,
                          <<"drop", "f">>, <<"f", "(", ")", "select">>, <<"select", "1", ";">>, <<"explain", "select">>}}
  \cup {<<"with", "recursive", "r", "(", "n", ")", "as", "(", "select", ")", "select">>, <<"with", "(", "select", ")", "select">>,
        <<"select", "with", "(", "in", ")">>, <<"explain", "with", "r", "as", "(", "1", ")", "select">>, <<"explain", "select", "explain">>,
        [i \in 1 .. 15 |-> "select"], <<"select">> \o [i \in 1 .. 14 |-> "1"], <<"select">> \o [i \in 1 .. 15 |-> "1"]}
AllStatements ==
  {Statement(words) : words \in Short \cup Long}
  \cup {[Statement(<<"select">>) EXCEPT !.id = <<"no tokens">>, !.tokens = [e \in AllEngines |-> Unreadable]]}

Catalog == Statement(CTE \o <<"select", "left", "(", "1", ")">>).tokens

-----------------------------------------------------------------------------
\* FixedBytes 10 and flags of 9 to 15 leave up to 21 bytes of 40 for columns and rows.
Rows == UNION {[1 .. n -> {1, 3, 7, 16}] : n \in 0 .. 3}
Replies == [id \in {st.id : st \in AllStatements} |->
              IF id = <<"select">> THEN [columns : {2, 4, 14, 20, 40}, rows : Rows, capped : BOOLEAN] ELSE {}]

Named(name, size) == [name |-> name, size |-> size]
Tables == <<Named("t", 1), Named("u", 2)>>
Columns == {Named("a", 1), Named("b", 3), Named("undecoded", 0)}

\* Rows of the first table, then rows of the second.
Row(t, c, tm, cm, d) == [table |-> Tables[t], column |-> c, tableMatched |-> tm, columnMatched |-> cm, decodes |-> d]
RowsOf(t) == {Row(t, c, tm, cm, TRUE) : c \in Columns, tm \in BOOLEAN, cm \in BOOLEAN} \cup {Row(t, Named("a", 1), TRUE, TRUE, FALSE)}
Upto(n, S) == UNION {[1 .. k -> S] : k \in 0 .. n}
AllRows == {[rows |-> first \o second, capped |-> c] : first \in Upto(2, RowsOf(1)), second \in Upto(1, RowsOf(2)), c \in BOOLEAN}

Cell(t, c, d) == [table |-> Tables[t], column |-> c, decodes |-> d]
Cells(t) == {Cell(t, c, TRUE) : c \in {Named("a", 1), Named("b", 3)}} \cup {Cell(t, Named("a", 1), FALSE)}
Keys == {<<>>, <<Cell(1, Named("a", 1), TRUE)>>, <<Cell(1, Named("a", 1), TRUE), Cell(2, Named("b", 3), TRUE)>>, <<Cell(2, Named("a", 1), FALSE)>>}
IndexRow(t, name, c, u, d) == [table |-> Tables[t], name |-> name, column |-> c, unique |-> u, decodes |-> d]
I == Named("i", 1)
J == Named("j", 2)
Indexes ==
  {<<>>} \cup {<<IndexRow(1, I, Named("a", 1), u, TRUE)>> : u \in {"yes", "undecodable"}}
  \cup {<<IndexRow(1, I, Named("a", 1), "yes", TRUE), IndexRow(t, n, Named("b", 3), u, d)>> :
          t \in 1 .. 2, n \in {I, J}, u \in {"yes", "no"}, d \in BOOLEAN}
AllDescriptions ==
  {[columns |-> first \o second, keys |-> k, indexes |-> x, capped |-> c, detailCapped |-> dc] :
     first \in Upto(2, Cells(1)), second \in Upto(1, Cells(2)), k \in Keys, x \in Indexes, c \in BOOLEAN, dc \in {FALSE}}
  \cup {[columns |-> <<>>, keys |-> <<>>, indexes |-> <<>>, capped |-> FALSE, detailCapped |-> TRUE]}
=============================================================================
