---------------------------- MODULE GateAnalyse ----------------------------
(* internal/gate/gate.go: whether a statement is provably one read under the    *)
(* compiled rules, and what it would take. The lexer is outside: a statement is *)
(* the tokens it yields for each engine, or none (Unreadable). A token has its  *)
(* text in lower case, as the sequence of what the dots in it separate: a word  *)
(* has none, a delimited identifier keeps those it was written with.            *)
EXTENDS Ruleset

CONSTANT maxNameParts

Token(kind, lower) == [kind |-> kind, lower |-> lower]
Unreadable == <<Token("error", <<>>)>>

IsPunct(toks, i, p) == i \in DOMAIN toks /\ toks[i] = Token("punct", <<p>>)
IsWord(toks, i, words) == i \in DOMAIN toks /\ toks[i].kind = "word" /\ \E w \in words : toks[i].lower = <<w>>
IsName(toks, i) == i \in DOMAIN toks /\ toks[i].kind \in {"word", "quoted"}
IsCall(toks, i) == IsPunct(toks, i + 1, "(")
Bare(toks, i) == toks[i].lower

\* The dotted name that ends at token i, its last maxNameParts parts at most.
\* They are joined with dots: a part that holds a dot is then two.
Dotted(toks, i, n) == \A k \in 1 .. n - 1 : IsPunct(toks, i - 2 * k + 1, ".") /\ IsName(toks, i - 2 * k)
nameParts(toks, i) ==
  LET n == CHOOSE n \in 1 .. maxNameParts :
             Dotted(toks, i, n) /\ (n = maxNameParts \/ ~Dotted(toks, i, n + 1))
  IN [k \in 1 .. n |-> toks[i - 2 * (n - k)].lower]
qualifiedName(toks, i) == FlattenSeq(nameParts(toks, i))

Names(toks, i) == {Bare(toks, i), qualifiedName(toks, i)}
safe(c, e, toks, i) == Names(toks, i) \cap c.safeFunc[e] # {}

\* The forbidden rules whose words begin at token i, and the one that is
\* reported: the longest, the first among equals.
Phrases(c, e, toks, i) ==
  {k \in DOMAIN c.forbidden :
     /\ ruleApplies(c.forbidden[k], e)
     /\ \A j \in DOMAIN c.forbidden[k].match :
          i + j - 1 \in DOMAIN toks /\ toks[i + j - 1].kind = "word"
          /\ toks[i + j - 1].lower = c.forbidden[k].match[j]}
matchPhrase(c, e, toks, i) ==
  LET length(k) == Len(c.forbidden[k].match)
      first == CHOOSE k \in Phrases(c, e, toks, i) : \A l \in Phrases(c, e, toks, i) :
                 length(k) > length(l) \/ (length(k) = length(l) /\ k <= l)
  IN c.forbidden[first].id
forbiddenFunction(c, e, toks, i) ==
  IF Bare(toks, i) \in DOMAIN c.forbidFunc[e] THEN c.forbidFunc[e][Bare(toks, i)].id
  ELSE c.forbidFunc[e][qualifiedName(toks, i)].id

setOperators == {"union", "all", "intersect", "except", "minus"}

\* What analyse carries from token to token. Only the first terminal obstacle is
\* ever reported, and none of the names to approve beside one.
NothingSeen == [depth |-> 0, terminal |-> <<>>, unknown |-> {}, withBody |-> FALSE, prefix |-> FALSE, by |-> ""]
deny(a, reason, rule) ==
  IF a.terminal = <<>> THEN [a EXCEPT !.terminal = <<[reason |-> reason, rule |-> rule]>>] ELSE a
escalate(a, name) == [a EXCEPT !.unknown = @ \cup {name}]

Punct(toks, a, i) ==
  LET closed == [a EXCEPT !.depth = @ - 1]
  IN IF IsPunct(toks, i, "(") THEN [a EXCEPT !.depth = @ + 1]
     ELSE IF IsPunct(toks, i, ")") THEN (IF closed.depth < 0 THEN deny(closed, "unbalanced-parens", "") ELSE closed)
     ELSE IF IsPunct(toks, i, ";") /\ i # Len(toks) THEN deny(a, "multiple-statements", "") ELSE a

\* Mutant: the body of a WITH may follow any parenthesis.
boundaryAlways(toks, a, i) ==
  IF IsWord(toks, i - 1, setOperators) THEN a
  ELSE IF IsPunct(toks, i - 1, ")") /\ a.withBody THEN a
  ELSE IF a.prefix THEN [a EXCEPT !.prefix = FALSE]
  ELSE deny(a, "multiple-statements", "")
\* A second leading keyword: explained by a set operator, as the body of a WITH
\* or as the statement of an EXPLAIN, the last two once; denied otherwise.
boundary(toks, a, i) ==
  IF IsWord(toks, i - 1, setOperators) THEN a
  ELSE IF IsPunct(toks, i - 1, ")") /\ a.withBody THEN [a EXCEPT !.withBody = FALSE]
  ELSE IF a.prefix THEN [a EXCEPT !.prefix = FALSE]
  ELSE deny(a, "multiple-statements", "")

\* The shape of the statement around a word: the leading keyword, or a boundary.
Shape(c, e, toks, a, i) ==
  LET read == c.read[e]
      name == Bare(toks, i)
  IN IF i = 1
     THEN IF name \in DOMAIN read
          THEN [a EXCEPT !.by = read[name].id, !.withBody = (name = <<"with">>), !.prefix = read[name].prefix]
          ELSE deny(a, "unknown-statement", "")
     ELSE IF name \in DOMAIN read /\ a.depth = 0 /\ ~(name = <<"with">> /\ IsCall(toks, i))
          THEN boundary(toks, a, i) ELSE a

cteName(toks, a, i) ==
  /\ a.withBody /\ a.depth = 0 /\ i > 1
  /\ IsPunct(toks, i - 1, ",") \/ IsWord(toks, i - 1, {"with", "recursive"})

UnknownCall(c, e, toks, a, i) ==
  /\ IsCall(toks, i) /\ ~safe(c, e, toks, i)
  /\ Bare(toks, i) \notin DOMAIN c.read[e]
  /\ ~IsWord(toks, i, c.nonFunc)
  /\ ~cteName(toks, a, i)

Word(c, e, toks, a, i) ==
  LET after == Shape(c, e, toks, a, i)
  IN IF UnknownCall(c, e, toks, after, i) THEN escalate(after, qualifiedName(toks, i)) ELSE after

Read(c, e, toks, a, i) ==
  IF toks[i].kind = "punct" THEN Punct(toks, a, i)
  ELSE IF ~IsName(toks, i) THEN a
  ELSE IF Names(toks, i) \cap DOMAIN c.forbidFunc[e] # {}
  THEN deny(a, "forbidden-construct", forbiddenFunction(c, e, toks, i))
  ELSE IF toks[i].kind = "quoted"
  THEN IF IsCall(toks, i) /\ ~safe(c, e, toks, i) THEN escalate(a, qualifiedName(toks, i)) ELSE a
  ELSE IF ~(IsCall(toks, i) /\ safe(c, e, toks, i)) /\ Phrases(c, e, toks, i) # {}
  THEN deny(a, "forbidden-statement", matchPhrase(c, e, toks, i))
  ELSE Word(c, e, toks, a, i)

\* The accumulator is bound as the element of a set, so that it is evaluated once.
The(S) == CHOOSE x \in S : TRUE
Seen(c, e, toks) ==
  LET upTo[i \in 0 .. Len(toks)] ==
        IF i = 0 THEN NothingSeen ELSE The({Read(c, e, toks, a, i) : a \in {upTo[i - 1]}})
  IN upTo[Len(toks)]

Decision(verdict, reason, rule, pending, used) ==
  [verdict |-> verdict, reason |-> reason, rule |-> rule, pending |-> pending, used |-> used]
Denied(reason, rule) == Decision("deny", reason, rule, {}, {})

\* A grant is the name of the function it is for.
Decided(a, grants) ==
  LET pending == a.unknown \ grants
  IN IF a.terminal # <<>> THEN Denied(a.terminal[1].reason, a.terminal[1].rule)
     ELSE IF a.depth # 0 THEN Denied("unbalanced-parens", "")
     ELSE IF pending = {} THEN Decision("allow", "read-statement", a.by, {}, a.unknown \cap grants)
     ELSE Decision("needs-approval", "unknown-function", "", pending, {})
analyse(c, e, toks, grants) ==
  IF toks[1].kind # "word" THEN Denied("leading-token", "")
  ELSE The({Decided(a, grants) : a \in {Seen(c, e, toks)}})

\* A statement has a size in bytes and the tokens of each engine.
Validate(c, e, statement, grants) ==
  LET toks == statement.tokens[e]
  IN IF e \notin Engines THEN Denied("invalid-engine", "")
     ELSE IF statement.bytes > c.source.maxBytes THEN Denied("statement-too-long", "")
     ELSE IF toks = Unreadable THEN Denied("tokenize-error", "")
     ELSE IF toks = <<>> THEN Denied("empty-statement", "")
     ELSE analyse(c, e, toks, grants)
=============================================================================
