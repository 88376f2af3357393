---------------------------- MODULE QueryProofs ----------------------------
(***************************************************************************)
(* Proofs about Query: for every baseline and overlay, every token         *)
(* sequence and any grants, any budgets and any rows of a database.        *)
(*                                                                         *)
(* VerdictsAreEarned rests on an invariant of the token walk: Consistent   *)
(* says what analyse has established after i tokens without a terminal     *)
(* obstacle. The walk is a recursive function; that it has a value and     *)
(* keeps the invariant is shown by induction over the number of tokens,    *)
(* by SetInduction of the module Induction.                                *)
(*                                                                         *)
(* LooseningsAreLogged lets the walks of the baseline and of the rules in  *)
(* force run over the same tokens: Traced says that where they differ, the *)
(* logged diff has a rule that tells them apart.                           *)
(*                                                                         *)
(* AnswersAreHonest is about the folds over rows. Each is a recursion that *)
(* has a value (Solvable), and each stage has an invariant over the rows   *)
(* read so far: Shows, ChargedSoFar, and Growing until the cut of a search,*)
(* Settled from then on.                                                   *)
(***************************************************************************)
EXTENDS Query, Induction, FiniteSetTheorems, SequenceTheorems, TLAPS

-----------------------------------------------------------------------------
(* The recursive functions of the gate satisfy their recursion.                 *)
LEMMA TheLemma == \A x : The({x}) = x
  BY DEF The

\* The tokens seen so far, and no more: Seen is the last of the steps of analyse.
IsWalk(walk, c, e, toks) ==
  /\ walk[0] = NothingSeen
  /\ \A i \in 1 .. Len(toks) : walk[i] = Read(c, e, toks, walk[i - 1], i)

LEMMA WalkLemma ==
  ASSUME NEW c, NEW e, NEW toks, Len(toks) \in Nat
  PROVE  \E walk : IsWalk(walk, c, e, toks) /\ Seen(c, e, toks) = walk[Len(toks)]
<1> DEFINE Step(a, i) == The({Read(c, e, toks, b, i) : b \in {a}})
           Walk(n, f) == [i \in 0 .. n |-> IF i = 0 THEN NothingSeen ELSE Step(f[i - 1], i)]
           Lengths == {n \in Nat : \E f : f = Walk(n, f)}
<1>1. 0 \in Lengths
  <2> HIDE DEF Step
  <2>1. [i \in 0 .. 0 |-> NothingSeen] = Walk(0, [i \in 0 .. 0 |-> NothingSeen])
    OBVIOUS
  <2> QED
    BY <2>1
<1>2. ASSUME NEW n \in Nat, n \in Lengths PROVE n + 1 \in Lengths
  <2> HIDE DEF Step
  <2>1. PICK f : f = Walk(n, f)
    BY <1>2
  <2> DEFINE g == [i \in 0 .. n + 1 |-> IF i = n + 1 THEN Step(f[n], n + 1) ELSE f[i]]
  <2>2. ASSUME NEW i \in 0 .. n + 1
        PROVE  g[i] = IF i = 0 THEN NothingSeen ELSE Step(g[i - 1], i)
    <3>1. CASE i = 0
      BY <3>1, <2>1
    <3>2. CASE i \in 1 .. n
      <4>1. f[i] = Step(f[i - 1], i)
        BY <2>1, <3>2
      <4>2. g[i] = f[i] /\ g[i - 1] = f[i - 1]
        BY <3>2
      <4> QED
        BY <4>1, <4>2, <3>2
    <3>3. CASE i = n + 1
      BY <3>3
    <3> QED
      BY <3>1, <3>2, <3>3
  <2>3. g = Walk(n + 1, g)
    <3> HIDE DEF g
    <3>1. g = [i \in 0 .. n + 1 |-> g[i]]
      BY DEF g
    <3> QED
      BY <3>1, <2>2
  <2> QED
    <3> HIDE DEF g
    <3> QED BY <2>3
<1>3. Len(toks) \in Lengths
  <2> HIDE DEF Lengths
  <2> QED BY <1>1, <1>2, SetInduction
<1> DEFINE walk == CHOOSE f : f = Walk(Len(toks), f)
<1>4. walk = Walk(Len(toks), walk)
  <2> HIDE DEF Step
  <2> QED BY <1>3
<1>5. Seen(c, e, toks) = walk[Len(toks)]
  BY DEF Seen
<1>6. \A a, i : Step(a, i) = Read(c, e, toks, a, i)
  BY TheLemma
<1>7. walk[0] = NothingSeen
  <2> HIDE DEF Step, walk
  <2> QED BY <1>4
<1>8. ASSUME NEW i \in 1 .. Len(toks) PROVE walk[i] = Read(c, e, toks, walk[i - 1], i)
  <2> HIDE DEF Step, walk
  <2> QED BY <1>4, <1>6
<1> QED
  BY <1>5, <1>7, <1>8 DEF IsWalk

-----------------------------------------------------------------------------
(* The rulesets: what is merged is made of rules, and what is compiled is what  *)
(* is in force.                                                                 *)
LEMMA WithoutLemma ==
  ASSUME NEW S, NEW rules \in Seq(S), NEW ids
  PROVE  Without(rules, ids) \in Seq(S)
<1> DEFINE Step(s, n) == IF rules[n].id \in ToSet(ids) THEN s ELSE Append(s, rules[n])
           Kept(n, f) == [k \in 0 .. n |-> IF k = 0 THEN <<>> ELSE
                            IF rules[k].id \in ToSet(ids) THEN f[k - 1] ELSE Append(f[k - 1], rules[k])]
           Lengths == {n \in Nat : n <= Len(rules) => \E f : f = Kept(n, f) /\ f[n] \in Seq(S)}
<1>1. 0 \in Lengths
  <2> DEFINE f == [k \in 0 .. 0 |-> <<>>]
  <2>1. f = Kept(0, f) /\ f[0] \in Seq(S)
    OBVIOUS
  <2> HIDE DEF f, Kept
  <2> QED
    BY <2>1
<1>2. ASSUME NEW n \in Nat, n \in Lengths PROVE n + 1 \in Lengths
  <2> SUFFICES ASSUME n + 1 <= Len(rules) PROVE \E f : f = Kept(n + 1, f) /\ f[n + 1] \in Seq(S)
    OBVIOUS
  <2>0. n <= Len(rules)
    OBVIOUS
  <2>1. PICK f : f = Kept(n, f) /\ f[n] \in Seq(S)
    <3> HIDE DEF Kept
    <3> QED BY <1>2, <2>0
  <2> DEFINE g == [k \in 0 .. n + 1 |-> IF k = n + 1 THEN Step(f[n], n + 1) ELSE f[k]]
  <2>2. ASSUME NEW k \in 0 .. n + 1
        PROVE  g[k] = IF k = 0 THEN <<>> ELSE Step(g[k - 1], k)
    <3> HIDE DEF Step
    <3>1. CASE k = 0
      BY <3>1, <2>1
    <3>2. CASE k \in 1 .. n
      <4>1. f[k] = Step(f[k - 1], k)
        <5>1. k \in 0 .. n /\ k # 0
          BY <3>2
        <5> QED
          BY <2>1, <5>1 DEF Step
      <4>2. g[k] = f[k] /\ g[k - 1] = f[k - 1]
        BY <3>2
      <4> QED
        BY <4>1, <4>2, <3>2
    <3>3. CASE k = n + 1
      BY <3>3
    <3> QED
      BY <3>1, <3>2, <3>3
  <2>3. g = Kept(n + 1, g)
    <3> HIDE DEF g
    <3>1. g = [k \in 0 .. n + 1 |-> g[k]]
      BY DEF g
    <3> QED
      BY <3>1, <2>2
  <2>4. g[n + 1] \in Seq(S)
    <3>1. g[n + 1] = Step(f[n], n + 1)
      OBVIOUS
    <3>2. rules[n + 1] \in S
      OBVIOUS
    <3> QED
      BY <3>1, <3>2, <2>1
  <2> QED
    <3> HIDE DEF g, Kept
    <3> QED BY <2>3, <2>4
<1>3. Len(rules) \in Lengths
  <2> HIDE DEF Lengths
  <2> QED BY <1>1, <1>2, SetInduction
<1> DEFINE kept == CHOOSE f : f = Kept(Len(rules), f)
<1>4. PICK f : f = Kept(Len(rules), f) /\ f[Len(rules)] \in Seq(S)
  BY <1>3
<1>5. kept = Kept(Len(rules), kept)
  BY <1>4
<1>6. Without(rules, ids) = kept[Len(rules)]
  BY DEF Without
\* The recursion has one solution.
<1> DEFINE Same == {n \in Nat : n <= Len(rules) => kept[n] = f[n]}
<1>7. 0 \in Same
  <2> HIDE DEF kept
  <2> QED BY <1>4, <1>5
<1>8. ASSUME NEW n \in Nat, n \in Same PROVE n + 1 \in Same
  <2> HIDE DEF kept
  <2> SUFFICES ASSUME n + 1 <= Len(rules) PROVE kept[n + 1] = f[n + 1]
    OBVIOUS
  <2>1. kept[n] = f[n]
    BY <1>8
  <2>2. n + 1 \in 0 .. Len(rules) /\ n + 1 # 0 /\ (n + 1) - 1 = n
    OBVIOUS
  <2>3. kept[n + 1] = Step(kept[n], n + 1)
    BY <1>5, <2>2
  <2>4. f[n + 1] = Step(f[n], n + 1)
    BY <1>4, <2>2
  <2> QED
    BY <2>1, <2>3, <2>4
<1>9. Len(rules) \in Same
  <2> HIDE DEF Same
  <2> QED BY <1>7, <1>8, SetInduction
<1>10. kept[Len(rules)] = f[Len(rules)]
  <2> HIDE DEF kept
  <2> QED BY <1>9
<1> QED
  <2> HIDE DEF kept
  <2> QED BY <1>4, <1>6, <1>10

\* A ruleset whose groups are lists of rules.
IsRuleset(rs) == rs.read \in Seq(RuleType) /\ rs.forbidden \in Seq(RuleType) /\ rs.forbidFunc \in Seq(RuleType)

LEMMA RulesetLemma ==
  ASSUME NEW ov \in Overlays \cup {NoOverlay}, loads(ov)
  PROVE  \E rs : IsRuleset(rs) /\ loadRules(ov) = compile(rs)
<1>1. \A rs \in Overlays \cup {Baseline} : IsRuleset(rs)
  <2> SUFFICES ASSUME NEW rs \in Overlays \cup {Baseline} PROVE IsRuleset(rs)
    OBVIOUS
  <2>1. \A k \in 1 .. 3 : Groups(rs)[k] \in Seq(RuleType)
    BY RulesetsAssumption
  <2>2. Groups(rs)[1] = rs.read /\ Groups(rs)[2] = rs.forbidden /\ Groups(rs)[3] = rs.forbidFunc
    BY DEF Groups
  <2> QED
    BY <2>1, <2>2 DEF IsRuleset
<1>2. CASE ov = NoOverlay
  BY <1>1, <1>2 DEF loadRules
<1>3. CASE ov # NoOverlay
  <2>1. IsRuleset(Baseline) /\ IsRuleset(ov)
    BY <1>1, <1>3
  <2>2. IsRuleset(Merged(Baseline, ov))
    BY <2>1, WithoutLemma DEF IsRuleset, Merged
  <2> QED
    BY <2>2, <1>3 DEF loadRules
<1> QED
  BY <1>2, <1>3

-----------------------------------------------------------------------------
(* What the references say of the call that has been decided, and what analyse  *)
(* looks up for it in the compiled rules.                                       *)
Asked ==
  /\ call.engine \in Engines
  /\ Toks \in Seq(TokenType) /\ Len(Toks) > 0 /\ Toks[1].kind = "word"
  /\ IsRuleset(gate.source) /\ gate = compile(gate.source)

\* The rules of one group under their names, for the engine of the call.
LEMMA LastOfLemma ==
  ASSUME NEW rules \in Seq(RuleType), NEW e
  PROVE  /\ \A name : name \in DOMAIN LastOf(rules, e) <=>
                       \E r \in ToSet(rules) : ruleApplies(r, e) /\ Name(r) = name
         /\ \A name \in DOMAIN LastOf(rules, e) :
              \E r \in ToSet(rules) : ruleApplies(r, e) /\ Name(r) = name /\ LastOf(rules, e)[name] = r
<1> DEFINE on == {k \in DOMAIN rules : ruleApplies(rules[k], e)}
           last(name) == CHOOSE k \in on : Name(rules[k]) = name /\ \A l \in on : Name(rules[l]) = name => l <= k
<1>1. LastOf(rules, e) = [name \in {Name(rules[k]) : k \in on} |-> rules[last(name)]]
  BY DEF LastOf
<1>2. ToSet(rules) = {rules[k] : k \in DOMAIN rules}
  BY DEF ToSet
<1>3. ASSUME NEW name
      PROVE  name \in {Name(rules[k]) : k \in on} <=> \E r \in ToSet(rules) : ruleApplies(r, e) /\ Name(r) = name
  BY <1>2
<1>4. ASSUME NEW name \in {Name(rules[k]) : k \in on}
      PROVE  last(name) \in on /\ Name(rules[last(name)]) = name
  <2> DEFINE T == {k \in on : Name(rules[k]) = name}
  <2>1. T \in SUBSET (1 .. Len(rules)) /\ T # {}
    BY <1>4
  <2>2. \E k \in T : \A l \in T : l <= k
    <3> HIDE DEF T
    <3>1. Len(rules) \in Nat
      OBVIOUS
    <3> QED
      BY <2>1, <3>1, GreatestLemma
  <2>3. \E k \in on : Name(rules[k]) = name /\ \A l \in on : Name(rules[l]) = name => l <= k
    <3> HIDE DEF on
    <3> QED BY <2>2
  <2> QED
    <3> HIDE DEF on
    <3> QED BY <2>3
<1> HIDE DEF last
<1>5. ASSUME NEW name \in DOMAIN LastOf(rules, e)
      PROVE  \E r \in ToSet(rules) : ruleApplies(r, e) /\ Name(r) = name /\ LastOf(rules, e)[name] = r
  <2>1. name \in {Name(rules[k]) : k \in on} /\ LastOf(rules, e)[name] = rules[last(name)]
    BY <1>1, <1>5
  <2>2. last(name) \in on /\ Name(rules[last(name)]) = name
    BY <2>1, <1>4
  <2> QED
    BY <2>1, <2>2, <1>2
<1> QED
  BY <1>1, <1>3, <1>5

LEMMA ReadWordLemma ==
  ASSUME Asked, NEW i
  PROVE  Bare(Toks, i) \in DOMAIN gate.read[call.engine] <=> ReadWord(i)
<1>1. gate.read[call.engine] = LastOf(gate.source.read, call.engine) /\ gate.source.read \in Seq(RuleType)
  BY DEF Asked, IsRuleset, compile
<1>2. Bare(Toks, i) \in DOMAIN LastOf(gate.source.read, call.engine) <=>
        \E r \in ToSet(gate.source.read) : ruleApplies(r, call.engine) /\ Name(r) = Bare(Toks, i)
  BY <1>1, LastOfLemma
<1> QED
  BY <1>1, <1>2 DEF ReadWord, InForce

\* A prefix keyword is one by a rule in force.
LEMMA PrefixLemma ==
  ASSUME Asked, ReadWord(1)
  PROVE  LET read == gate.read[call.engine][Bare(Toks, 1)]
         IN /\ read.prefix \in BOOLEAN
            /\ read.prefix => \E r \in InForce(gate.source.read) : Name(r) = Bare(Toks, 1) /\ r.prefix
<1>1. gate.read[call.engine] = LastOf(gate.source.read, call.engine) /\ gate.source.read \in Seq(RuleType)
  BY DEF Asked, IsRuleset, compile
<1>2. Bare(Toks, 1) \in DOMAIN gate.read[call.engine]
  BY ReadWordLemma
<1>3. PICK r \in ToSet(gate.source.read) :
        ruleApplies(r, call.engine) /\ Name(r) = Bare(Toks, 1) /\ gate.read[call.engine][Bare(Toks, 1)] = r
  <2> DEFINE read == LastOf(gate.source.read, call.engine)
  <2>1. \A name \in DOMAIN read : \E s \in ToSet(gate.source.read) :
          ruleApplies(s, call.engine) /\ Name(s) = name /\ read[name] = s
    BY <1>1, LastOfLemma
  <2> QED
    BY <1>1, <1>2, <2>1
<1>4. r \in RuleType
  BY <1>1, <1>3 DEF ToSet
<1>5. r.prefix \in BOOLEAN
  BY <1>4 DEF RuleType
<1> QED
  BY <1>3, <1>5 DEF InForce

LEMMA SafeLemma ==
  ASSUME Asked, NEW i
  PROVE  IsCall(Toks, i) /\ safe(gate, call.engine, Toks, i) <=> SafeCall(i)
<1>1. gate.safeFunc[call.engine] = {name \in SafeNames(gate.source) : call.engine \in AllowedOn(gate.source, name)}
  BY DEF Asked, compile
<1>2. ASSUME NEW name, call.engine \in AllowedOn(gate.source, name) PROVE name \in SafeNames(gate.source)
  BY <1>2 DEF AllowedOn, SafeNames
<1> QED
  BY <1>1, <1>2 DEF safe, SafeCall

LEMMA ForbiddenFunctionLemma ==
  ASSUME Asked, NEW i, Names(Toks, i) \cap DOMAIN gate.forbidFunc[call.engine] = {},
         NEW r \in InForce(gate.source.forbidFunc)
  PROVE  Name(r) \notin Names(Toks, i)
<1>1. /\ gate.forbidFunc[call.engine] = LastOf(gate.source.forbidFunc, call.engine)
      /\ gate.source.forbidFunc \in Seq(RuleType)
  BY DEF Asked, IsRuleset, compile
<1>2. r \in ToSet(gate.source.forbidFunc) /\ ruleApplies(r, call.engine)
  BY DEF InForce
<1>3. Name(r) \in DOMAIN gate.forbidFunc[call.engine]
  BY <1>1, <1>2, LastOfLemma
<1> QED
  BY <1>3

LEMMA ForbiddenPhraseLemma ==
  ASSUME Asked, NEW i, Phrases(gate, call.engine, Toks, i) = {},
         NEW r \in InForce(gate.source.forbidden)
  PROVE  ~Begins(r, i)
<1>1. SUFFICES ASSUME Begins(r, i) PROVE FALSE
  OBVIOUS
<1>2. gate.forbidden = gate.source.forbidden
  BY DEF Asked, compile
<1>3. PICK k \in DOMAIN gate.source.forbidden : gate.source.forbidden[k] = r
  BY DEF InForce, ToSet
<1>4. ruleApplies(r, call.engine)
  BY DEF InForce
<1>5. \A j \in DOMAIN r.match : /\ i + j - 1 \in DOMAIN Toks /\ Toks[i + j - 1].kind = "word"
                                /\ Toks[i + j - 1].lower = r.match[j]
  BY <1>1 DEF Begins, Words, Bare
<1>6. k \in Phrases(gate, call.engine, Toks, i)
  BY <1>2, <1>3, <1>4, <1>5, Zenon DEF Phrases
<1> QED
  BY <1>6

-----------------------------------------------------------------------------
(* Depth and parts, counted token by token.                                     *)
\* The numbers up to n that have a mark.
UpTo(n, marks) == {k \in 1 .. n : k \in marks}

LEMMA CountLemma ==
  ASSUME NEW i \in Nat, NEW marks
  PROVE  /\ IsFiniteSet(UpTo(i, marks)) /\ Cardinality(UpTo(i, marks)) \in Nat
         /\ Cardinality(UpTo(i + 1, marks)) = Cardinality(UpTo(i, marks)) + (IF i + 1 \in marks THEN 1 ELSE 0)
<1>1. IsFiniteSet(1 .. i) /\ UpTo(i, marks) \in SUBSET (1 .. i)
  BY FS_Interval DEF UpTo
<1>2. IsFiniteSet(UpTo(i, marks)) /\ Cardinality(UpTo(i, marks)) \in Nat
  BY <1>1, FS_Subset, FS_CardinalityType
<1>3. CASE i + 1 \in marks
  <2>1. UpTo(i + 1, marks) = UpTo(i, marks) \cup {i + 1} /\ i + 1 \notin UpTo(i, marks)
    BY <1>3 DEF UpTo
  <2>2. Cardinality(UpTo(i, marks) \cup {i + 1}) = Cardinality(UpTo(i, marks)) + 1
    BY <1>2, <2>1, FS_AddElement
  <2> QED
    BY <1>2, <1>3, <2>1, <2>2
<1>4. CASE i + 1 \notin marks
  <2>1. UpTo(i + 1, marks) = UpTo(i, marks)
    BY <1>4 DEF UpTo
  <2> QED
    BY <1>2, <1>4, <2>1
<1> QED
  BY <1>2, <1>3, <1>4

LEMMA DepthLemma ==
  ASSUME NEW i \in Nat
  PROVE  /\ DepthAt(i + 1) \in Int
         /\ IsPunct(Toks, i + 1, "(") => DepthAt(i + 2) = DepthAt(i + 1) + 1
         /\ IsPunct(Toks, i + 1, ")") => DepthAt(i + 2) = DepthAt(i + 1) - 1
         /\ ~IsPunct(Toks, i + 1, "(") /\ ~IsPunct(Toks, i + 1, ")") => DepthAt(i + 2) = DepthAt(i + 1)
<1> DEFINE opens == {k \in 1 .. i + 1 : IsPunct(Toks, k, "(")}
           closes == {k \in 1 .. i + 1 : IsPunct(Toks, k, ")")}
<1>1. \A n \in {i, i + 1} : /\ UpTo(n, opens) = {k \in 1 .. n : IsPunct(Toks, k, "(")}
                            /\ UpTo(n, closes) = {k \in 1 .. n : IsPunct(Toks, k, ")")}
  BY DEF UpTo
<1>2. i + 1 \in opens <=> IsPunct(Toks, i + 1, "(")
  OBVIOUS
<1>3. i + 1 \in closes <=> IsPunct(Toks, i + 1, ")")
  OBVIOUS
<1>4. IsPunct(Toks, i + 1, "(") => ~IsPunct(Toks, i + 1, ")")
  BY DEF IsPunct, Token
<1>5. DepthAt(i + 1) = Cardinality(UpTo(i, opens)) - Cardinality(UpTo(i, closes))
  <2>1. (i + 1) - 1 = i
    OBVIOUS
  <2> QED
    BY <1>1, <2>1 DEF DepthAt
<1>6. DepthAt(i + 2) = Cardinality(UpTo(i + 1, opens)) - Cardinality(UpTo(i + 1, closes))
  <2>1. (i + 2) - 1 = i + 1
    OBVIOUS
  <2> QED
    BY <1>1, <2>1 DEF DepthAt
<1> HIDE DEF opens, closes
<1>7. /\ Cardinality(UpTo(i, opens)) \in Nat
      /\ Cardinality(UpTo(i + 1, opens)) = Cardinality(UpTo(i, opens)) + (IF i + 1 \in opens THEN 1 ELSE 0)
  BY CountLemma
<1>8. /\ Cardinality(UpTo(i, closes)) \in Nat
      /\ Cardinality(UpTo(i + 1, closes)) = Cardinality(UpTo(i, closes)) + (IF i + 1 \in closes THEN 1 ELSE 0)
  BY CountLemma
<1> QED
  BY <1>2, <1>3, <1>4, <1>5, <1>6, <1>7, <1>8

-----------------------------------------------------------------------------
(* What analyse has established when it has read the first i tokens and found   *)
(* no terminal obstacle.                                                        *)
Flag(b) == IF b THEN 1 ELSE 0
IsWith == IsWord(Toks, 1, {"with"})
Introduces == \E r \in InForce(gate.source.read) : Name(r) = Bare(Toks, 1) /\ r.prefix
UnknownCalls == {i \in DOMAIN Toks : IsName(Toks, i) /\ IsCall(Toks, i) /\ ~Plain(i)}

IsSeen(a) ==
  a \in [depth : Int, terminal : {a.terminal}, unknown : {a.unknown}, withBody : BOOLEAN, prefix : BOOLEAN,
         by : {a.by}]

\* The depth is that of the next token, and no prefix has closed too much.
Depths(a, i) == a.depth = DepthAt(i + 1) /\ \A k \in 1 .. i : DepthAt(k + 1) >= 0

\* The parts so far and those still to come are no more than the first word explains.
CountsParts(a, i) ==
  Cardinality(UpTo(i, Parts)) + Flag(a.withBody) + Flag(a.prefix) <= Flag(IsWith) + Flag(Introduces)

\* The body of a WITH is to come as long as no part has followed a parenthesis.
BodyAhead(a, i) == a.withBody <=> IsWith /\ \A part \in UpTo(i, Parts) : ~IsPunct(Toks, part - 1, ")")

CleanAt(k) ==
  /\ k \in Words => \A r \in InForce(gate.source.forbidden) : Begins(r, k) => SafeCall(k)
  /\ IsName(Toks, k) => \A r \in InForce(gate.source.forbidFunc) : Name(r) \notin Names(Toks, k)

UnknownUpTo(i) == {qualifiedName(Toks, k) : k \in UpTo(i, UnknownCalls)}

Consistent(a, i) ==
  /\ Depths(a, i)
  /\ \A k \in 1 .. i : k # Len(Toks) => ~IsPunct(Toks, k, ";")
  /\ i > 0 => ReadWord(1) /\ CountsParts(a, i) /\ BodyAhead(a, i)
  /\ \A k \in 1 .. i : CleanAt(k)
  /\ a.unknown = UnknownUpTo(i)

LEMMA UpToLemma ==
  ASSUME NEW i \in Nat \ {0}, NEW marks
  PROVE  /\ i \notin marks => UpTo(i, marks) = UpTo(i - 1, marks)
         /\ i \in marks => UpTo(i, marks) = UpTo(i - 1, marks) \cup {i}
         /\ Cardinality(UpTo(i - 1, marks)) \in Nat
         /\ Cardinality(UpTo(i, marks)) = Cardinality(UpTo(i - 1, marks)) + Flag(i \in marks)
<1>1. i - 1 \in Nat /\ (i - 1) + 1 = i
  OBVIOUS
<1>2. /\ Cardinality(UpTo(i - 1, marks)) \in Nat
      /\ Cardinality(UpTo(i, marks)) = Cardinality(UpTo(i - 1, marks)) + (IF i \in marks THEN 1 ELSE 0)
  BY <1>1, CountLemma
<1>3. /\ i \notin marks => UpTo(i, marks) = UpTo(i - 1, marks)
      /\ i \in marks => UpTo(i, marks) = UpTo(i - 1, marks) \cup {i}
  BY <1>1 DEF UpTo
<1> QED
  BY <1>2, <1>3 DEF Flag

\* A terminal obstacle stays, and no step loses the shape of what is carried.
LEMMA DenyLemma ==
  ASSUME NEW a, IsSeen(a), NEW reason, NEW rule
  PROVE  IsSeen(deny(a, reason, rule)) /\ deny(a, reason, rule).terminal # <<>>
<1>1. CASE a.terminal = <<>>
  BY <1>1 DEF deny, IsSeen
<1>2. CASE a.terminal # <<>>
  BY <1>2 DEF deny
<1> QED
  BY <1>1, <1>2

-----------------------------------------------------------------------------
(* The shape of the statement around a word.                                    *)
LEMMA BareLemma ==
  ASSUME Asked, NEW i \in DOMAIN Toks, Toks[i].kind = "word"
  PROVE  IsWord(Toks, i, {"with"}) <=> Bare(Toks, i) = <<"with">>
BY DEF IsWord, Bare

LEMMA FirstShape ==
  ASSUME Asked, NEW a, IsSeen(a), NEW b, b = Shape(gate, call.engine, Toks, a, 1)
  PROVE  /\ IsSeen(b) /\ b.depth = a.depth /\ b.unknown = a.unknown
         /\ a.terminal # <<>> => b.terminal # <<>>
         /\ b.terminal = <<>> => ReadWord(1) /\ CountsParts(b, 1) /\ BodyAhead(b, 1)
<1> DEFINE read == gate.read[call.engine]
           name == Bare(Toks, 1)
<1>1. CASE name \notin DOMAIN read
  <2>1. b = deny(a, "unknown-statement", "")
    BY <1>1 DEF Shape
  <2>2. IsSeen(b) /\ b.terminal # <<>>
    BY <2>1, DenyLemma
  <2>3. b.depth = a.depth /\ b.unknown = a.unknown
    BY <2>1 DEF deny, IsSeen
  <2> QED
    BY <2>2, <2>3
<1>2. CASE name \in DOMAIN read
  <2>1. ReadWord(1)
    BY <1>2, ReadWordLemma
  <2>2. read[name].prefix \in BOOLEAN /\ (read[name].prefix => Introduces)
    BY <2>1, PrefixLemma DEF Introduces
  <2>3. b = [a EXCEPT !.by = read[name].id, !.withBody = (name = <<"with">>), !.prefix = read[name].prefix]
    BY <1>2 DEF Shape
  <2>4. /\ IsSeen(b) /\ b.depth = a.depth /\ b.unknown = a.unknown /\ b.terminal = a.terminal
        /\ b.prefix = read[name].prefix
    BY <2>2, <2>3 DEF IsSeen
  <2>5. b.withBody <=> name = <<"with">>
    BY <2>3 DEF IsSeen
  <2>6. b.withBody <=> IsWith
    BY <2>5, BareLemma DEF IsWith, Asked
  <2>7. UpTo(1, Parts) = {} /\ Cardinality(UpTo(1, Parts)) = 0
    BY FS_EmptySet DEF UpTo, Parts
  <2>8. BodyAhead(b, 1)
    BY <2>6, <2>7 DEF BodyAhead
  <2>9. Flag(b.prefix) <= Flag(Introduces) /\ Flag(b.withBody) = Flag(IsWith)
    BY <2>2, <2>4, <2>6 DEF Flag
  <2>10. Flag(b.prefix) \in {0, 1} /\ Flag(IsWith) \in {0, 1} /\ Flag(Introduces) \in {0, 1}
    BY DEF Flag
  <2>11. CountsParts(b, 1)
    BY <2>7, <2>9, <2>10 DEF CountsParts
  <2> QED
    BY <2>1, <2>4, <2>8, <2>11
<1> QED
  BY <1>1, <1>2

LEMMA PartLemma ==
  ASSUME Asked, NEW i \in 2 .. Len(Toks), Toks[i].kind = "word"
  PROVE  i \in Parts <=> /\ Bare(Toks, i) \in DOMAIN gate.read[call.engine] /\ DepthAt(i) = 0
                         /\ ~(Bare(Toks, i) = <<"with">> /\ IsCall(Toks, i))
                         /\ ~IsWord(Toks, i - 1, setOperators)
<1>1. i \in Words \ {1}
  BY DEF Words, Asked
<1>2. IsWord(Toks, i, {"with"}) <=> Bare(Toks, i) = <<"with">>
  BY BareLemma, <1>1 DEF Words
<1> QED
  BY <1>1, <1>2, ReadWordLemma DEF Parts

LEMMA LaterShape ==
  ASSUME Asked, NEW i \in 2 .. Len(Toks), Toks[i].kind = "word",
         NEW a, IsSeen(a), NEW b, b = Shape(gate, call.engine, Toks, a, i)
  PROVE  /\ IsSeen(b) /\ b.depth = a.depth /\ b.unknown = a.unknown
         /\ a.terminal # <<>> => b.terminal # <<>>
         /\ b.terminal = <<>> /\ a.depth = DepthAt(i) /\ CountsParts(a, i - 1) /\ BodyAhead(a, i - 1) =>
              CountsParts(b, i) /\ BodyAhead(b, i)
<1> DEFINE starts == /\ Bare(Toks, i) \in DOMAIN gate.read[call.engine] /\ a.depth = 0
                     /\ ~(Bare(Toks, i) = <<"with">> /\ IsCall(Toks, i))
           follows == IsWord(Toks, i - 1, setOperators)
           closes == IsPunct(Toks, i - 1, ")")
           n == Cardinality(UpTo(i - 1, Parts))
<1>1. b = IF starts THEN boundary(Toks, a, i) ELSE a
  <2>1. i # 1
    OBVIOUS
  <2>2. Shape(gate, call.engine, Toks, a, i) = IF starts THEN boundary(Toks, a, i) ELSE a
    BY <2>1, Zenon DEF Shape
  <2> QED
    BY <2>2
<1>2. a.withBody \in BOOLEAN /\ a.prefix \in BOOLEAN
  BY DEF IsSeen
<1>3. a.depth = DepthAt(i) => (i \in Parts <=> starts /\ ~follows)
  BY PartLemma
<1>4. /\ i \notin Parts => UpTo(i, Parts) = UpTo(i - 1, Parts)
      /\ i \in Parts => UpTo(i, Parts) = UpTo(i - 1, Parts) \cup {i}
      /\ n \in Nat /\ Cardinality(UpTo(i, Parts)) = n + Flag(i \in Parts)
  BY UpToLemma
<1>5. CASE ~starts \/ follows
  <2>1. b = a
    BY <1>1, <1>5 DEF boundary
  <2>2. a.depth = DepthAt(i) => UpTo(i, Parts) = UpTo(i - 1, Parts)
    BY <1>3, <1>4, <1>5
  <2> QED
    BY <2>1, <2>2 DEF CountsParts, BodyAhead
<1>6. CASE starts /\ ~follows /\ closes /\ a.withBody
  <2>1. b = [a EXCEPT !.withBody = FALSE]
    BY <1>1, <1>6 DEF boundary
  <2>2. /\ IsSeen(b) /\ b.depth = a.depth /\ b.unknown = a.unknown /\ b.terminal = a.terminal
        /\ ~b.withBody /\ b.prefix = a.prefix
    BY <2>1 DEF IsSeen
  <2>3. ASSUME a.depth = DepthAt(i), CountsParts(a, i - 1) PROVE CountsParts(b, i) /\ BodyAhead(b, i)
    <3>1. i \in Parts
      BY <1>3, <1>6, <2>3
    <3>2. BodyAhead(b, i)
      BY <3>1, <1>4, <1>6, <2>2 DEF BodyAhead
    <3>3. Flag(i \in Parts) = 1 /\ Flag(a.withBody) = 1 /\ Flag(b.withBody) = 0
      BY <3>1, <1>6, <2>2 DEF Flag
    <3>4. Cardinality(UpTo(i, Parts)) + Flag(b.withBody) + Flag(b.prefix) = n + Flag(a.withBody) + Flag(a.prefix)
      <4>1. Flag(a.prefix) \in {0, 1}
        BY DEF Flag
      <4> QED
        BY <3>3, <1>4, <2>2, <4>1
    <3> QED
      BY <3>2, <3>4, <2>3 DEF CountsParts
  <2> QED
    BY <2>2, <2>3
<1>7. CASE starts /\ ~follows /\ ~(closes /\ a.withBody) /\ a.prefix
  <2>1. b = [a EXCEPT !.prefix = FALSE]
    BY <1>1, <1>7 DEF boundary
  <2>2. /\ IsSeen(b) /\ b.depth = a.depth /\ b.unknown = a.unknown /\ b.terminal = a.terminal
        /\ b.withBody = a.withBody /\ ~b.prefix
    BY <2>1 DEF IsSeen
  <2>3. ASSUME a.depth = DepthAt(i), CountsParts(a, i - 1), BodyAhead(a, i - 1)
        PROVE  CountsParts(b, i) /\ BodyAhead(b, i)
    <3>1. i \in Parts
      BY <1>3, <1>7, <2>3
    <3>2. BodyAhead(b, i)
      BY <3>1, <1>4, <1>7, <2>2, <2>3 DEF BodyAhead
    <3>3. Flag(i \in Parts) = 1 /\ Flag(a.prefix) = 1 /\ Flag(b.prefix) = 0
      BY <3>1, <1>7, <2>2 DEF Flag
    <3>4. Cardinality(UpTo(i, Parts)) + Flag(b.withBody) + Flag(b.prefix) = n + Flag(a.withBody) + Flag(a.prefix)
      <4>1. Flag(a.withBody) \in {0, 1}
        BY DEF Flag
      <4> QED
        BY <3>3, <1>4, <2>2, <4>1
    <3> QED
      BY <3>2, <3>4, <2>3 DEF CountsParts
  <2> QED
    BY <2>2, <2>3
<1>8. CASE starts /\ ~follows /\ ~(closes /\ a.withBody) /\ ~a.prefix
  <2>1. b = deny(a, "multiple-statements", "")
    BY <1>1, <1>8 DEF boundary
  <2>2. IsSeen(b) /\ b.terminal # <<>>
    BY <2>1, DenyLemma
  <2>3. b.depth = a.depth /\ b.unknown = a.unknown
    BY <2>1 DEF deny, IsSeen
  <2> QED
    BY <2>2, <2>3
<1> QED
  BY <1>2, <1>5, <1>6, <1>7, <1>8

-----------------------------------------------------------------------------
(* One token: a step of analyse keeps what it has established.                  *)
Advances(a, b, i) ==
  /\ IsSeen(b)
  /\ a.terminal # <<>> => b.terminal # <<>>
  /\ b.terminal = <<>> /\ Consistent(a, i - 1) => Consistent(b, i)

LEMMA PositionLemma ==
  ASSUME Asked, NEW i \in 1 .. Len(Toks)
  PROVE  i \in Nat \ {0} /\ \A k \in 1 .. i : k \in 1 .. i - 1 \/ k = i
<1>1. Len(Toks) \in Nat
  BY DEF Asked
<1> QED
  BY <1>1

\* The name to approve that token i adds.
UnknownAt(i) == {qualifiedName(Toks, k) : k \in {i} \cap UnknownCalls}

LEMMA UnknownLemma ==
  ASSUME NEW i \in Nat \ {0}
  PROVE  /\ UnknownUpTo(i) = UnknownUpTo(i - 1) \cup UnknownAt(i)
         /\ i \notin UnknownCalls => UnknownAt(i) = {}
         /\ i \in UnknownCalls => UnknownAt(i) = {qualifiedName(Toks, i)}
<1>1. UpTo(i, UnknownCalls) = UpTo(i - 1, UnknownCalls) \cup ({i} \cap UnknownCalls)
  BY UpToLemma
<1> QED
  BY <1>1 DEF UnknownUpTo, UnknownAt

\* What has to be said of the last token, for all of them to be consistent.
LEMMA ConsistentLemma ==
  ASSUME NEW i \in 1 .. Len(Toks), Asked, NEW a, NEW b, Consistent(a, i - 1),
         b.depth = DepthAt(i + 1), DepthAt(i + 1) >= 0,
         i # Len(Toks) => ~IsPunct(Toks, i, ";"),
         ReadWord(1), CountsParts(b, i), BodyAhead(b, i), CleanAt(i),
         b.unknown = a.unknown \cup UnknownAt(i)
  PROVE  Consistent(b, i)
<1>0. i \in Nat \ {0} /\ \A k \in 1 .. i : k \in 1 .. i - 1 \/ k = i
  BY PositionLemma, Zenon
<1>1. Depths(b, i)
  BY <1>0 DEF Depths, Consistent
<1>2. \A k \in 1 .. i : k # Len(Toks) => ~IsPunct(Toks, k, ";")
  BY <1>0 DEF Consistent
<1>3. \A k \in 1 .. i : CleanAt(k)
  BY <1>0 DEF Consistent
<1>4. b.unknown = UnknownUpTo(i)
  BY <1>0, UnknownLemma DEF Consistent
<1> QED
  BY <1>1, <1>2, <1>3, <1>4 DEF Consistent

\* A token that is no part changes nothing of the shape.
LEMMA NoPartLemma ==
  ASSUME NEW i \in 2 .. Len(Toks), Asked, i \notin Parts, NEW a, NEW b, Consistent(a, i - 1),
         b.withBody = a.withBody, b.prefix = a.prefix
  PROVE  ReadWord(1) /\ CountsParts(b, i) /\ BodyAhead(b, i)
<1>1. i \in Nat \ {0} /\ i - 1 > 0
  BY DEF Asked
<1>2. ReadWord(1) /\ CountsParts(a, i - 1) /\ BodyAhead(a, i - 1)
  BY <1>1 DEF Consistent
<1>3. UpTo(i, Parts) = UpTo(i - 1, Parts)
  BY <1>1, UpToLemma
<1> QED
  BY <1>2, <1>3 DEF CountsParts, BodyAhead

\* Nothing is open before the first token.
LEMMA FirstDepth == DepthAt(1) = 0
<1>1. \A p : {k \in 1 .. 1 - 1 : IsPunct(Toks, k, p)} = {}
  OBVIOUS
<1> QED
  BY <1>1, FS_EmptySet DEF DepthAt

\* The depth before a token that is not the first is not below zero.
LEMMA DepthBefore ==
  ASSUME NEW i \in 1 .. Len(Toks), Asked, NEW a, Consistent(a, i - 1)
  PROVE  /\ a.depth = DepthAt(i) /\ DepthAt(i) \in Int
         /\ i > 1 => DepthAt(i) >= 0
         /\ IsPunct(Toks, i, "(") => DepthAt(i + 1) = DepthAt(i) + 1
         /\ IsPunct(Toks, i, ")") => DepthAt(i + 1) = DepthAt(i) - 1
         /\ ~IsPunct(Toks, i, "(") /\ ~IsPunct(Toks, i, ")") => DepthAt(i + 1) = DepthAt(i)
<1>1. i - 1 \in Nat /\ (i - 1) + 1 = i /\ (i - 1) + 2 = i + 1
  BY DEF Asked
<1>2. a.depth = DepthAt(i)
  BY <1>1 DEF Consistent, Depths
<1>3. i > 1 => i - 1 \in 1 .. i - 1
  BY <1>1
<1>4. i > 1 => DepthAt(i) >= 0
  BY <1>1, <1>3 DEF Consistent, Depths
<1>5. /\ DepthAt((i - 1) + 1) \in Int
      /\ IsPunct(Toks, (i - 1) + 1, "(") => DepthAt((i - 1) + 2) = DepthAt((i - 1) + 1) + 1
      /\ IsPunct(Toks, (i - 1) + 1, ")") => DepthAt((i - 1) + 2) = DepthAt((i - 1) + 1) - 1
      /\ ~IsPunct(Toks, (i - 1) + 1, "(") /\ ~IsPunct(Toks, (i - 1) + 1, ")") =>
           DepthAt((i - 1) + 2) = DepthAt((i - 1) + 1)
  BY <1>1, DepthLemma
<1> QED
  BY <1>1, <1>2, <1>4, <1>5

\* A token that is neither a name nor punctuation says nothing.
LEMMA OtherStep ==
  ASSUME Asked, NEW i \in 1 .. Len(Toks), NEW a, IsSeen(a), NEW b, b = Read(gate, call.engine, Toks, a, i),
         Toks[i].kind # "punct", ~IsName(Toks, i)
  PROVE  Advances(a, b, i)
<1>1. b = a
  BY DEF Read
<1>2. SUFFICES ASSUME Consistent(a, i - 1) PROVE Consistent(b, i)
  BY <1>1 DEF Advances
<1>3. i \in DOMAIN Toks /\ i \in 2 .. Len(Toks)
  BY DEF Asked, IsName
<1>4. i \notin Words /\ i \notin Parts /\ i \notin UnknownCalls
  BY DEF Words, Parts, UnknownCalls, IsName
<1>5. \A p : ~IsPunct(Toks, i, p)
  BY DEF IsPunct, Token
<1>6. CleanAt(i)
  BY <1>4 DEF CleanAt
<1>7. ReadWord(1) /\ CountsParts(b, i) /\ BodyAhead(b, i)
  BY <1>1, <1>2, <1>3, <1>4, NoPartLemma
<1>8. b.depth = DepthAt(i + 1) /\ DepthAt(i + 1) >= 0
  BY <1>1, <1>2, <1>3, <1>5, DepthBefore
<1>9. b.unknown = a.unknown \cup UnknownAt(i)
  BY <1>1, <1>3, <1>4, UnknownLemma
<1> QED
  BY <1>2, <1>5, <1>6, <1>7, <1>8, <1>9, ConsistentLemma

\* Parentheses move the depth; a semicolon that is not the last token is a
\* second statement.
LEMMA PunctStep ==
  ASSUME Asked, NEW i \in 1 .. Len(Toks), NEW a, IsSeen(a), NEW b, b = Read(gate, call.engine, Toks, a, i),
         Toks[i].kind = "punct"
  PROVE  Advances(a, b, i)
<1>1. b = Punct(Toks, a, i)
  BY DEF Read
<1>2. i \in DOMAIN Toks /\ i \in 2 .. Len(Toks) /\ i > 1
  BY DEF Asked
<1>3. i \notin Words /\ i \notin Parts /\ i \notin UnknownCalls
  BY DEF Words, Parts, UnknownCalls, IsName
<1>4. CleanAt(i)
  BY <1>3 DEF CleanAt, IsName
<1>5. /\ IsPunct(Toks, i, "(") => ~IsPunct(Toks, i, ")") /\ ~IsPunct(Toks, i, ";")
      /\ IsPunct(Toks, i, ")") => ~IsPunct(Toks, i, ";")
  <2>1. ASSUME NEW p, IsPunct(Toks, i, p) PROVE Toks[i].lower[1] = p
    BY <2>1 DEF IsPunct, Token
  <2>2. "(" # ")" /\ "(" # ";" /\ ")" # ";"
    OBVIOUS
  <2> QED
    BY <2>1, <2>2, Zenon
\* All that a step has to show is that the depth is kept.
<1>6. ASSUME b.withBody = a.withBody, b.prefix = a.prefix, b.unknown = a.unknown,
             Consistent(a, i - 1), b.depth = DepthAt(i + 1), DepthAt(i + 1) >= 0,
             i # Len(Toks) => ~IsPunct(Toks, i, ";")
      PROVE  Consistent(b, i)
  <2>1. ReadWord(1) /\ CountsParts(b, i) /\ BodyAhead(b, i)
    BY <1>2, <1>3, <1>6, NoPartLemma
  <2>2. b.unknown = a.unknown \cup UnknownAt(i)
    <3>1. i \in Nat \ {0}
      BY PositionLemma, Zenon
    <3>2. UnknownAt(i) = {}
      BY <1>3, <3>1, UnknownLemma, Zenon
    <3> QED
      BY <1>6, <3>2
  <2> QED
    BY <1>4, <1>6, <2>1, <2>2, ConsistentLemma
<1>7. CASE IsPunct(Toks, i, "(")
  <2>1. b = [a EXCEPT !.depth = @ + 1]
    BY <1>1, <1>7 DEF Punct
  <2>2. /\ IsSeen(b) /\ b.terminal = a.terminal /\ b.depth = a.depth + 1
        /\ b.withBody = a.withBody /\ b.prefix = a.prefix /\ b.unknown = a.unknown
    BY <2>1 DEF IsSeen
  <2>3. ASSUME Consistent(a, i - 1) PROVE b.depth = DepthAt(i + 1) /\ DepthAt(i + 1) >= 0
    BY <1>2, <1>7, <2>2, <2>3, DepthBefore
  <2> QED
    BY <1>5, <1>6, <1>7, <2>2, <2>3 DEF Advances
<1>8. CASE IsPunct(Toks, i, ")")
  <2> DEFINE closed == [a EXCEPT !.depth = @ - 1]
  <2>1. b = IF closed.depth < 0 THEN deny(closed, "unbalanced-parens", "") ELSE closed
    BY <1>1, <1>5, <1>8 DEF Punct
  <2>2. /\ IsSeen(closed) /\ closed.terminal = a.terminal /\ closed.depth = a.depth - 1
        /\ closed.withBody = a.withBody /\ closed.prefix = a.prefix /\ closed.unknown = a.unknown
    BY DEF IsSeen
  <2>3. closed.depth \in Int
    BY <2>2 DEF IsSeen
  <2>4. CASE closed.depth < 0
    <3>1. IsSeen(b) /\ b.terminal # <<>>
      <4> HIDE DEF closed
      <4> QED BY <2>1, <2>2, <2>4, DenyLemma
    <3> QED
      BY <3>1 DEF Advances
  <2>5. CASE ~(closed.depth < 0)
    <3>1. b = closed
      BY <2>1, <2>5
    <3>2. ASSUME Consistent(a, i - 1) PROVE b.depth = DepthAt(i + 1) /\ DepthAt(i + 1) >= 0
      <4> HIDE DEF closed
      <4> QED BY <1>2, <1>8, <2>2, <2>3, <2>5, <3>1, <3>2, DepthBefore
    <3> QED
      <4> HIDE DEF closed
      <4> QED BY <1>5, <1>6, <1>8, <2>2, <3>1, <3>2 DEF Advances
  <2> QED
    BY <2>4, <2>5
<1>9. CASE ~IsPunct(Toks, i, "(") /\ ~IsPunct(Toks, i, ")") /\ IsPunct(Toks, i, ";") /\ i # Len(Toks)
  <2>1. b = deny(a, "multiple-statements", "")
    BY <1>1, <1>9 DEF Punct
  <2> QED
    BY <2>1, DenyLemma DEF Advances
<1>10. CASE ~IsPunct(Toks, i, "(") /\ ~IsPunct(Toks, i, ")") /\ ~(IsPunct(Toks, i, ";") /\ i # Len(Toks))
  <2>1. b = a
    BY <1>1, <1>10 DEF Punct
  <2>2. ASSUME Consistent(a, i - 1) PROVE b.depth = DepthAt(i + 1) /\ DepthAt(i + 1) >= 0
    BY <1>2, <1>10, <2>1, <2>2, DepthBefore
  <2> QED
    BY <1>6, <1>10, <2>1, <2>2 DEF Advances
<1> QED
  BY <1>7, <1>8, <1>9, <1>10

\* A forbidden function, quoted or not, is a terminal obstacle.
LEMMA ForbiddenStep ==
  ASSUME Asked, NEW i \in 1 .. Len(Toks), NEW a, IsSeen(a), NEW b, b = Read(gate, call.engine, Toks, a, i),
         IsName(Toks, i), Names(Toks, i) \cap DOMAIN gate.forbidFunc[call.engine] # {}
  PROVE  Advances(a, b, i)
<1>1. Toks[i].kind # "punct"
  BY DEF IsName
<1>2. b = deny(a, "forbidden-construct", forbiddenFunction(gate, call.engine, Toks, i))
  BY <1>1 DEF Read
<1> QED
  BY <1>2, DenyLemma DEF Advances

LEMMA EscalateLemma ==
  ASSUME NEW a, IsSeen(a), NEW name, NEW b, b = escalate(a, name)
  PROVE  /\ IsSeen(b) /\ b.depth = a.depth /\ b.terminal = a.terminal /\ b.withBody = a.withBody
         /\ b.prefix = a.prefix /\ b.unknown = a.unknown \cup {name}
BY DEF escalate, IsSeen

\* A quoted name is no keyword: it can only be called.
LEMMA QuotedStep ==
  ASSUME Asked, NEW i \in 1 .. Len(Toks), NEW a, IsSeen(a), NEW b, b = Read(gate, call.engine, Toks, a, i),
         Toks[i].kind = "quoted", Names(Toks, i) \cap DOMAIN gate.forbidFunc[call.engine] = {}
  PROVE  Advances(a, b, i)
<1>0. i \in DOMAIN Toks /\ i \in 2 .. Len(Toks) /\ i \in Nat \ {0} /\ i > 1
  BY DEF Asked
<1>1. IsName(Toks, i) /\ i \notin Words /\ i \notin Parts
  BY <1>0 DEF IsName, Words, Parts
<1>2. b = IF IsCall(Toks, i) /\ ~safe(gate, call.engine, Toks, i)
          THEN escalate(a, qualifiedName(Toks, i)) ELSE a
  BY <1>1 DEF Read
<1>3. i \in UnknownCalls <=> IsCall(Toks, i) /\ ~safe(gate, call.engine, Toks, i)
  BY <1>0, <1>1, SafeLemma DEF UnknownCalls, Plain
<1>4. /\ IsSeen(b) /\ b.depth = a.depth /\ b.terminal = a.terminal /\ b.withBody = a.withBody
      /\ b.prefix = a.prefix /\ b.unknown = a.unknown \cup UnknownAt(i)
  <2>1. CASE i \in UnknownCalls
    <3>1. b = escalate(a, qualifiedName(Toks, i))
      BY <1>2, <1>3, <2>1
    <3>2. UnknownAt(i) = {qualifiedName(Toks, i)}
      BY <1>0, <2>1, UnknownLemma
    <3> QED
      BY <3>1, <3>2, EscalateLemma
  <2>2. CASE i \notin UnknownCalls
    <3>1. b = a
      BY <1>2, <1>3, <2>2
    <3>2. UnknownAt(i) = {}
      BY <1>0, <2>2, UnknownLemma
    <3> QED
      BY <3>1, <3>2
  <2> QED
    BY <2>1, <2>2
<1>5. SUFFICES ASSUME Consistent(a, i - 1) PROVE Consistent(b, i)
  BY <1>4 DEF Advances
<1>6. \A p : ~IsPunct(Toks, i, p)
  BY DEF IsPunct, Token
<1>7. CleanAt(i)
  BY <1>1, ForbiddenFunctionLemma DEF CleanAt
<1>8. ReadWord(1) /\ CountsParts(b, i) /\ BodyAhead(b, i)
  BY <1>0, <1>1, <1>4, <1>5, NoPartLemma
<1>9. b.depth = DepthAt(i + 1) /\ DepthAt(i + 1) >= 0
  BY <1>0, <1>4, <1>5, <1>6, DepthBefore
<1> QED
  BY <1>4, <1>5, <1>6, <1>7, <1>8, <1>9, ConsistentLemma

-----------------------------------------------------------------------------
(* A word.                                                                      *)
\* What cteName asks of the flag is what Definition asks of the parts.
LEMMA DefinitionLemma ==
  ASSUME Asked, NEW i \in 1 .. Len(Toks), NEW a, a.depth = DepthAt(i), BodyAhead(a, i)
  PROVE  cteName(Toks, a, i) <=> Definition(i)
<1>0. Len(Toks) \in Nat /\ Parts \subseteq DOMAIN Toks /\ DOMAIN Toks = 1 .. Len(Toks)
  BY DEF Asked, Parts, Words
<1>1. CASE i = 1
  <2>1. 0 \notin DOMAIN Toks /\ i - 1 = 0
    BY <1>0, <1>1
  <2>2. ~IsPunct(Toks, i - 1, ",") /\ ~IsWord(Toks, i - 1, {"with", "recursive"})
    BY <2>1 DEF IsPunct, IsWord
  <2> QED
    BY <1>1, <2>2 DEF cteName, Definition
<1>2. CASE i # 1
  <2>1. \A body \in Parts : i < body <=> body \notin 1 .. i
    BY <1>0
  <2>2. a.withBody <=> IsWord(Toks, 1, {"with"}) /\ \A body \in Parts : IsPunct(Toks, body - 1, ")") => i < body
    BY <2>1 DEF BodyAhead, IsWith, UpTo
  <2>3. i > 1
    BY <1>0, <1>2
  <2> QED
    BY <2>2, <2>3 DEF cteName, Definition
<1> QED
  BY <1>1, <1>2

\* What Word needs of the shape that is left after it.
LEMMA ShapeLemma ==
  ASSUME Asked, NEW i \in 1 .. Len(Toks), Toks[i].kind = "word",
         NEW a, IsSeen(a), NEW b, b = Shape(gate, call.engine, Toks, a, i)
  PROVE  /\ IsSeen(b) /\ b.depth = a.depth /\ b.unknown = a.unknown
         /\ a.terminal # <<>> => b.terminal # <<>>
         /\ b.terminal = <<>> /\ Consistent(a, i - 1) => ReadWord(1) /\ CountsParts(b, i) /\ BodyAhead(b, i)
<1>1. CASE i = 1
  <2>1. b = Shape(gate, call.engine, Toks, a, 1)
    BY <1>1
  <2> QED
    BY <1>1, <2>1, FirstShape
<1>2. CASE i # 1
  <2>1. i \in 2 .. Len(Toks) /\ i - 1 > 0
    <3>1. i \in Nat \ {0} /\ Len(Toks) \in Nat
      BY DEF Asked
    <3> QED
      BY <1>2, <3>1
  <2>2. /\ IsSeen(b) /\ b.depth = a.depth /\ b.unknown = a.unknown
        /\ a.terminal # <<>> => b.terminal # <<>>
        /\ b.terminal = <<>> /\ a.depth = DepthAt(i) /\ CountsParts(a, i - 1) /\ BodyAhead(a, i - 1) =>
             CountsParts(b, i) /\ BodyAhead(b, i)
    BY <2>1, LaterShape
  <2>3. Consistent(a, i - 1) => a.depth = DepthAt(i)
    BY DepthBefore
  <2>4. Consistent(a, i - 1) => ReadWord(1) /\ CountsParts(a, i - 1) /\ BodyAhead(a, i - 1)
    BY <2>1 DEF Consistent
  <2> QED
    BY <2>2, <2>3, <2>4
<1> QED
  BY <1>1, <1>2

LEMMA WordStep ==
  ASSUME Asked, NEW i \in 1 .. Len(Toks), NEW a, IsSeen(a), NEW b, b = Read(gate, call.engine, Toks, a, i),
         Toks[i].kind = "word", Names(Toks, i) \cap DOMAIN gate.forbidFunc[call.engine] = {}
  PROVE  Advances(a, b, i)
<1> DEFINE isSafe == IsCall(Toks, i) /\ safe(gate, call.engine, Toks, i)
           after == Shape(gate, call.engine, Toks, a, i)
           calls == UnknownCall(gate, call.engine, Toks, after, i)
<1>0. i \in DOMAIN Toks /\ i \in Nat \ {0}
  BY DEF Asked
<1>1. IsName(Toks, i) /\ i \in Words
  BY <1>0 DEF IsName, Words
<1>2. CASE ~isSafe /\ Phrases(gate, call.engine, Toks, i) # {}
  <2>1. b = deny(a, "forbidden-statement", matchPhrase(gate, call.engine, Toks, i))
    BY <1>1, <1>2 DEF Read
  <2> QED
    BY <2>1, DenyLemma DEF Advances
<1>3. CASE isSafe \/ Phrases(gate, call.engine, Toks, i) = {}
  <2>1. b = Word(gate, call.engine, Toks, a, i)
    BY <1>1, <1>3 DEF Read
  <2>2. b = IF calls THEN escalate(after, qualifiedName(Toks, i)) ELSE after
    BY <2>1 DEF Word
  <2>3. /\ IsSeen(after) /\ after.depth = a.depth /\ after.unknown = a.unknown
        /\ a.terminal # <<>> => after.terminal # <<>>
        /\ after.terminal = <<>> /\ Consistent(a, i - 1) =>
             ReadWord(1) /\ CountsParts(after, i) /\ BodyAhead(after, i)
    <3> HIDE DEF after
    <3>1. after = Shape(gate, call.engine, Toks, a, i)
      BY DEF after
    <3> QED
      BY <3>1, ShapeLemma
  <2> HIDE DEF after
  <2>4. /\ IsSeen(b) /\ b.depth = a.depth /\ b.terminal = after.terminal /\ b.withBody = after.withBody
        /\ b.prefix = after.prefix
        /\ b.unknown = a.unknown \cup (IF calls THEN {qualifiedName(Toks, i)} ELSE {})
    <3>1. CASE calls
      BY <2>2, <2>3, <3>1, EscalateLemma
    <3>2. CASE ~calls
      BY <2>2, <2>3, <3>2
    <3> QED
      BY <3>1, <3>2
  <2>5. SUFFICES ASSUME b.terminal = <<>>, Consistent(a, i - 1) PROVE Consistent(b, i)
    BY <2>3, <2>4 DEF Advances
  <2>6. ReadWord(1) /\ CountsParts(after, i) /\ BodyAhead(after, i)
    BY <2>3, <2>4, <2>5
  <2>7. CountsParts(b, i) /\ BodyAhead(b, i)
    BY <2>4, <2>6 DEF CountsParts, BodyAhead
  <2>8. \A p : ~IsPunct(Toks, i, p)
    BY DEF IsPunct, Token
  <2>9. a.depth = DepthAt(i) /\ b.depth = DepthAt(i + 1) /\ DepthAt(i + 1) >= 0
    <3>1. CASE i > 1
      BY <2>4, <2>5, <2>8, <3>1, DepthBefore
    <3>2. CASE i = 1
      <4>1. a.depth = DepthAt(i) /\ DepthAt(i + 1) = DepthAt(i)
        BY <2>5, <2>8, DepthBefore
      <4>2. DepthAt(1) = 0
        BY FirstDepth
      <4> QED
        BY <2>4, <3>2, <4>1, <4>2
    <3> QED
      BY <1>0, <3>1, <3>2
  <2>10. CleanAt(i)
    <3>1. ASSUME NEW r \in InForce(gate.source.forbidden), Begins(r, i) PROVE SafeCall(i)
      <4>1. isSafe
        BY <1>3, <3>1, ForbiddenPhraseLemma
      <4> QED
        BY <4>1, SafeLemma
    <3> QED
      BY <3>1, ForbiddenFunctionLemma DEF CleanAt
  <2>11. calls <=> i \in UnknownCalls
    <3>1. cteName(Toks, after, i) <=> Definition(i)
      BY <2>3, <2>6, <2>9, DefinitionLemma
    <3>2. gate.nonFunc = gate.source.nonFunc
      BY DEF Asked, compile
    <3>3. IsCall(Toks, i) => (safe(gate, call.engine, Toks, i) <=> SafeCall(i))
      BY SafeLemma
    <3> QED
      BY <1>0, <1>1, <3>1, <3>2, <3>3, ReadWordLemma DEF UnknownCall, UnknownCalls, Plain
  <2>12. b.unknown = a.unknown \cup UnknownAt(i)
    <3> HIDE DEF calls
    <3> QED BY <1>0, <2>4, <2>11, UnknownLemma
  <2> QED
    BY <2>5, <2>6, <2>7, <2>8, <2>9, <2>10, <2>12, ConsistentLemma
<1> QED
  BY <1>2, <1>3

LEMMA TokenStep ==
  ASSUME Asked, NEW i \in 1 .. Len(Toks), NEW a, IsSeen(a)
  PROVE  Advances(a, Read(gate, call.engine, Toks, a, i), i)
<1> DEFINE forbidden == Names(Toks, i) \cap DOMAIN gate.forbidFunc[call.engine]
<1>0. i \in DOMAIN Toks
  BY DEF Asked
<1>1. CASE Toks[i].kind = "punct"
  BY <1>1, PunctStep
<1>2. CASE Toks[i].kind # "punct" /\ ~IsName(Toks, i)
  BY <1>2, OtherStep
<1>3. CASE IsName(Toks, i) /\ forbidden # {}
  BY <1>3, ForbiddenStep
<1>4. CASE Toks[i].kind = "quoted" /\ forbidden = {}
  BY <1>4, QuotedStep
<1>5. CASE Toks[i].kind = "word" /\ forbidden = {}
  BY <1>5, WordStep
<1> QED
  BY <1>0, <1>1, <1>2, <1>3, <1>4, <1>5, Zenon DEF IsName

-----------------------------------------------------------------------------
(* What analyse has established of a statement that it does not deny.           *)
LEMMA WalkIsConsistent ==
  ASSUME Asked, NEW a, a = Seen(gate, call.engine, Toks), a.terminal = <<>>
  PROVE  IsSeen(a) /\ Consistent(a, Len(Toks))
<1>1. Len(Toks) \in Nat
  BY DEF Asked
<1>2. PICK walk : IsWalk(walk, gate, call.engine, Toks) /\ a = walk[Len(Toks)]
  BY <1>1, WalkLemma
<1> DEFINE S == {i \in Nat : i <= Len(Toks) =>
                   IsSeen(walk[i]) /\ (walk[i].terminal = <<>> => Consistent(walk[i], i))}
<1>3. 0 \in S
  <2>1. walk[0] = NothingSeen
    BY <1>2 DEF IsWalk
  <2>2. IsSeen(NothingSeen)
    BY DEF IsSeen, NothingSeen
  <2>3. Consistent(NothingSeen, 0)
    <3>1. UnknownUpTo(0) = {}
      BY DEF UnknownUpTo, UpTo
    <3> QED
      BY <3>1, FirstDepth DEF Consistent, Depths, NothingSeen
  <2> QED
    BY <2>1, <2>2, <2>3
<1>4. ASSUME NEW i \in Nat, i \in S PROVE i + 1 \in S
  <2>1. SUFFICES ASSUME i + 1 <= Len(Toks)
                 PROVE  IsSeen(walk[i + 1]) /\ (walk[i + 1].terminal = <<>> => Consistent(walk[i + 1], i + 1))
    OBVIOUS
  <2>2. i + 1 \in 1 .. Len(Toks) /\ (i + 1) - 1 = i
    BY <1>1, <2>1
  <2>3. walk[i + 1] = Read(gate, call.engine, Toks, walk[i], i + 1)
    BY <1>2, <2>2 DEF IsWalk
  <2>4. IsSeen(walk[i]) /\ (walk[i].terminal = <<>> => Consistent(walk[i], i))
    BY <1>1, <1>4, <2>1
  <2>5. Advances(walk[i], walk[i + 1], i + 1)
    BY <2>2, <2>3, <2>4, TokenStep
  <2> QED
    BY <2>2, <2>4, <2>5 DEF Advances
<1>5. Len(Toks) \in S
  <2> HIDE DEF S
  <2> QED BY <1>1, <1>3, <1>4, SetInduction
<1> QED
  BY <1>2, <1>5

-----------------------------------------------------------------------------
(* From the last token to the verdict.                                          *)
LEMMA PartsOfLemma == Cardinality(PartsOf(1)) = Flag(Bare(Toks, 1) = <<"with">>) + Flag(Introduces)
<1> DEFINE isWith == Bare(Toks, 1) = <<"with">>
<1>1. PartsOf(1) = {x \in {"body"} : isWith} \cup {x \in {"introduced"} : Introduces}
  BY DEF PartsOf, Introduces
<1>2. /\ Cardinality({}) = 0 /\ Cardinality({"body"}) = 1 /\ Cardinality({"introduced"}) = 1
      /\ IsFiniteSet({"body"})
  BY FS_EmptySet, FS_Singleton
<1>3. Cardinality({"body"} \cup {"introduced"}) = 2
  <2>1. "introduced" \notin {"body"}
    OBVIOUS
  <2>2. Cardinality({"body"} \cup {"introduced"}) = Cardinality({"body"}) + 1
    BY <1>2, <2>1, FS_AddElement
  <2> QED
    BY <1>2, <2>2
<1>4. CASE isWith /\ Introduces
  <2>1. PartsOf(1) = {"body"} \cup {"introduced"}
    BY <1>1, <1>4
  <2> QED
    BY <1>3, <1>4, <2>1 DEF Flag
<1>5. CASE isWith /\ ~Introduces
  <2>1. PartsOf(1) = {"body"}
    BY <1>1, <1>5
  <2> QED
    BY <1>2, <1>5, <2>1 DEF Flag
<1>6. CASE ~isWith /\ Introduces
  <2>1. PartsOf(1) = {"introduced"}
    BY <1>1, <1>6
  <2> QED
    BY <1>2, <1>6, <2>1 DEF Flag
<1>7. CASE ~isWith /\ ~Introduces
  <2>1. PartsOf(1) = {}
    BY <1>1, <1>7
  <2> QED
    BY <1>2, <1>7, <2>1 DEF Flag
<1> QED
  BY <1>4, <1>5, <1>6, <1>7

\* A statement without a terminal obstacle and without an open parenthesis is one
\* read, holds nothing forbidden, and what analyse noted is what it calls.
LEMMA EarnedLemma ==
  ASSUME Asked, NEW a, a = Seen(gate, call.engine, Toks), a.terminal = <<>>, a.depth = 0
  PROVE  OneRead /\ NothingForbidden /\ a.unknown = Unknown
<1> DEFINE n == Len(Toks)
<1>0. /\ n \in Nat \ {0} /\ DOMAIN Toks = 1 .. n /\ Words \subseteq 1 .. n
      /\ Parts \subseteq 1 .. n /\ UnknownCalls \subseteq 1 .. n
  BY DEF Asked, Words, Parts, UnknownCalls
<1>1. IsSeen(a) /\ Consistent(a, n)
  BY WalkIsConsistent
<1>2. Depths(a, n) /\ ReadWord(1) /\ CountsParts(a, n) /\ \A k \in 1 .. n : CleanAt(k)
  <2>1. n > 0
    BY <1>0
  <2> QED
    BY <1>1, <2>1, Zenon DEF Consistent
<1>3. Balanced
  <2>1. DepthAt(n + 1) = 0
    BY <1>2 DEF Depths
  <2>2. ASSUME NEW i \in 1 .. n PROVE DepthAt(i) >= 0
    <3>1. CASE i = 1
      BY <3>1, FirstDepth
    <3>2. CASE i # 1
      <4>1. i - 1 \in 1 .. n /\ (i - 1) + 1 = i
        BY <1>0, <3>2
      <4> QED
        BY <1>2, <4>1 DEF Depths
    <3> QED
      BY <3>1, <3>2
  <2> QED
    BY <2>1, <2>2 DEF Balanced
<1>4. \A i \in 1 .. n - 1 : ~IsPunct(Toks, i, ";")
  <2>1. \A k \in 1 .. n : k # n => ~IsPunct(Toks, k, ";")
    BY <1>1, Zenon DEF Consistent
  <2>2. \A i \in 1 .. n - 1 : i \in 1 .. n /\ i # n
    <3>1. n \in Nat
      BY <1>0, Zenon
    <3> HIDE DEF n
    <3> QED BY <3>1
  <2> QED
    BY <2>1, <2>2, Zenon
<1>5. Cardinality(Parts) <= Cardinality(PartsOf(1))
  <2>1. Parts = UpTo(n, Parts)
    BY <1>0 DEF UpTo
  <2>2. Flag(a.withBody) \in {0, 1} /\ Flag(a.prefix) \in {0, 1} /\ Flag(Introduces) \in {0, 1}
        /\ Flag(Bare(Toks, 1) = <<"with">>) \in {0, 1}
    BY DEF Flag
  <2>3. Cardinality(Parts) \in Nat
    BY <1>0, <2>1, CountLemma
  <2>4. IsWith <=> Bare(Toks, 1) = <<"with">>
    BY <1>0, BareLemma DEF IsWith, Asked
  <2>5. Flag(IsWith) = Flag(Bare(Toks, 1) = <<"with">>)
    BY <2>4 DEF Flag
  <2>6. Cardinality(Parts) + Flag(a.withBody) + Flag(a.prefix)
          <= Flag(Bare(Toks, 1) = <<"with">>) + Flag(Introduces)
    BY <1>2, <2>1, <2>5 DEF CountsParts
  <2> QED
    BY <2>2, <2>3, <2>6, PartsOfLemma
<1>6. 1 \in Words
  BY <1>0 DEF Words, Asked
<1>7. NothingForbidden
  BY <1>0, <1>2 DEF NothingForbidden, CleanAt
<1>8. a.unknown = Unknown
  <2>1. UpTo(n, UnknownCalls) = UnknownCalls
    BY <1>0 DEF UpTo
  <2>2. a.unknown = UnknownUpTo(n)
    BY <1>1 DEF Consistent
  <2> QED
    BY <2>1, <2>2 DEF UnknownUpTo, Unknown, UnknownCalls
<1> QED
  BY <1>2, <1>3, <1>4, <1>5, <1>6, <1>7, <1>8 DEF OneRead

\* What a statement that is not denied is decided under any grants.
DecidedFor(by, grants) ==
  IF Unknown \ grants = {} THEN Decision("allow", "read-statement", by, {}, Unknown \cap grants)
  ELSE Decision("needs-approval", "unknown-function", "", Unknown \ grants, {})

LEMMA DecidedForLemma ==
  ASSUME NEW by, NEW grants, NEW d, d = DecidedFor(by, grants)
  PROVE  /\ d.verdict = "allow" => Unknown \subseteq grants /\ d.used = Unknown
         /\ d.verdict = "needs-approval" => d.pending = Unknown \ grants
<1>1. CASE Unknown \ grants = {}
  <2>1. d.verdict = "allow" /\ d.used = Unknown \cap grants
    BY <1>1 DEF DecidedFor, Decision
  <2>2. Unknown \subseteq grants /\ Unknown \cap grants = Unknown
    BY <1>1
  <2> QED
    BY <2>1, <2>2
<1>2. CASE Unknown \ grants # {}
  <2>1. d.verdict = "needs-approval" /\ d.pending = Unknown \ grants
    BY <1>2 DEF DecidedFor, Decision
  <2> QED
    BY <2>1
<1> QED
  BY <1>1, <1>2

LEMMA ValidateLemma ==
  ASSUME call.engine \in Engines, call.statement \in Statements,
         IsRuleset(gate.source), gate = compile(gate.source),
         NEW grants, Validate(gate, call.engine, call.statement, grants).verdict # "deny"
  PROVE  /\ OneRead /\ NothingForbidden
         /\ \E by : \A g : Validate(gate, call.engine, call.statement, g) = DecidedFor(by, g)
<1> DEFINE a == Seen(gate, call.engine, Toks)
<1>1. \A reason, rule : Denied(reason, rule).verdict = "deny"
  BY DEF Denied, Decision
<1>2. Toks \in Seq(TokenType)
  BY StatementsAssumption DEF Toks
<1>3. /\ ~(call.statement.bytes > gate.source.maxBytes)
      /\ Toks # Unreadable /\ Toks # <<>>
      /\ analyse(gate, call.engine, Toks, grants).verdict # "deny"
  BY <1>1 DEF Validate, Toks
<1>4. \A g : Validate(gate, call.engine, call.statement, g) = analyse(gate, call.engine, Toks, g)
  BY <1>3 DEF Validate, Toks
<1>5. Toks[1].kind = "word"
  BY <1>1, <1>3 DEF analyse
<1>6. Asked
  BY <1>2, <1>3, <1>5 DEF Asked
<1>7. \A g : Validate(gate, call.engine, call.statement, g) = Decided(a, g)
  <2>1. \A g : analyse(gate, call.engine, Toks, g) = The({Decided(b, g) : b \in {a}})
    BY <1>5 DEF analyse
  <2>2. \A g : {Decided(b, g) : b \in {a}} = {Decided(a, g)}
    OBVIOUS
  <2> QED
    <3> HIDE DEF a
    <3> QED BY <1>4, <2>1, <2>2, TheLemma
<1> HIDE DEF a
<1>8. Decided(a, grants).verdict # "deny"
  BY <1>7
<1>9. a.terminal = <<>> /\ a.depth = 0
  BY <1>1, <1>8 DEF Decided
<1>10. a = Seen(gate, call.engine, Toks)
  BY DEF a
<1>11. OneRead /\ NothingForbidden /\ a.unknown = Unknown
  BY <1>6, <1>9, <1>10, EarnedLemma
<1>12. \A g : Decided(a, g) = DecidedFor(a.by, g)
  BY <1>9, <1>11 DEF Decided, DecidedFor
<1> QED
  BY <1>7, <1>11, <1>12

-----------------------------------------------------------------------------
(* The gate holds a compiled ruleset, and a decision that no reload has passed   *)
(* is that of the gate.                                                         *)
GateInv == gate = NoGate \/ (IsRuleset(gate.source) /\ gate = compile(gate.source))
CallInv ==
  call.stage = "decided" =>
    /\ gate # NoGate /\ call.engine \in Engines /\ call.statement \in Statements
    /\ call = [stage |-> "decided", engine |-> call.engine, statement |-> call.statement,
               grants |-> call.grants, stale |-> call.stale, decision |-> call.decision]
    /\ ~call.stale => call.decision = Validate(gate, call.engine, call.statement, call.grants)
IInv == GateInv /\ CallInv

LEMMA InvImpliesVerdict == IInv => VerdictIsEarned
<1> SUFFICES ASSUME IInv, call.stage = "decided", ~call.stale PROVE VerdictIsEarned
  BY DEF VerdictIsEarned
<1> DEFINE d == call.decision
           asked(g) == Validate(gate, call.engine, call.statement, g)
<1>1. /\ call.engine \in Engines /\ call.statement \in Statements
      /\ IsRuleset(gate.source) /\ gate = compile(gate.source) /\ d = asked(call.grants)
  BY DEF IInv, GateInv, CallInv
<1>2. CASE d.verdict = "deny"
  BY <1>2 DEF VerdictIsEarned
<1>3. CASE d.verdict # "deny"
  <2>1. OneRead /\ NothingForbidden /\ \E by : \A g : asked(g) = DecidedFor(by, g)
    BY <1>1, <1>3, ValidateLemma
  <2>2. PICK by : \A g : asked(g) = DecidedFor(by, g)
    <3> HIDE DEF asked
    <3> QED BY <2>1
  <2>3. d = DecidedFor(by, call.grants)
    BY <1>1, <2>2
  <2>4. d.verdict = "allow" => Unknown \subseteq call.grants /\ d.used = Unknown
    BY <2>3, DecidedForLemma
  <2>5. d.verdict = "needs-approval" => d.pending = Unknown \ call.grants
    BY <2>3, DecidedForLemma
  <2>6. ASSUME d.verdict = "needs-approval", NEW some \in SUBSET d.pending
        PROVE  Verdict(gate, call.grants \cup some) = "allow" <=> some = d.pending
    <3>1. Verdict(gate, call.grants \cup some) = DecidedFor(by, call.grants \cup some).verdict
      BY <2>2 DEF Verdict
    <3>2. DecidedFor(by, call.grants \cup some).verdict = "allow" <=> Unknown \ (call.grants \cup some) = {}
      BY DEF DecidedFor, Decision
    <3>3. Unknown \ (call.grants \cup some) = {} <=> some = Unknown \ call.grants
      BY <2>5, <2>6
    <3> QED
      BY <2>5, <2>6, <3>1, <3>2, <3>3
  <2> QED
    <3> HIDE DEF asked
    <3> QED BY <2>1, <2>4, <2>5, <2>6 DEF VerdictIsEarned
<1> QED
  BY <1>2, <1>3

LEMMA CompiledIsAGate == \A rs : compile(rs) # NoGate /\ compile(rs).source = rs
<1> SUFFICES ASSUME NEW rs PROVE compile(rs) # NoGate /\ compile(rs).source = rs
  OBVIOUS
<1>1. "read" \in DOMAIN compile(rs) /\ "read" \notin DOMAIN NoGate
  BY DEF compile, NoGate
<1> QED
  BY <1>1 DEF compile

LEMMA InitHolds == Init => IInv
BY DEF Init, IInv, GateInv, CallInv, Idle

\* What a load installs is a compiled ruleset.
LEMMA InstallLemma ==
  ASSUME NEW ov \in Overlays \cup {NoOverlay}, loads(ov), Install(ov)
  PROVE  GateInv' /\ gate' # NoGate
<1>1. gate' = loadRules(ov)
  BY DEF Install
<1>2. PICK rs : IsRuleset(rs) /\ loadRules(ov) = compile(rs)
  BY RulesetLemma
<1>3. gate' = compile(rs) /\ gate' # NoGate /\ gate'.source = rs
  BY <1>1, <1>2, CompiledIsAGate
<1> QED
  BY <1>2, <1>3 DEF GateInv

LEMMA NewHolds ==
  ASSUME IInv, NEW ov \in Overlays \cup {NoOverlay}, New(ov)
  PROVE  IInv'
<1>1. GateInv'
  <2>1. CASE loads(ov)
    BY <2>1, InstallLemma DEF New
  <2>2. CASE ~loads(ov)
    BY <2>2 DEF New, IInv, GateInv
  <2> QED
    BY <2>1, <2>2
<1>2. CallInv'
  BY DEF New, IInv, CallInv
<1> QED
  BY <1>1, <1>2 DEF IInv

LEMMA ReloadHolds ==
  ASSUME IInv, NEW ov \in Overlays \cup {NoOverlay}, reloadGate(ov)
  PROVE  IInv'
<1>1. GateInv' /\ gate' # NoGate
  <2>1. CASE loads(ov)
    BY <2>1, InstallLemma DEF reloadGate
  <2>2. CASE ~loads(ov)
    BY <2>2 DEF reloadGate, IInv, GateInv
  <2> QED
    BY <2>1, <2>2
<1>2. CallInv'
  <2>1. CASE call = Idle /\ call' = call
    BY <2>1 DEF CallInv, Idle
  <2>2. CASE call.stage = "decided" /\ call' = [call EXCEPT !.stale = TRUE]
    <3>1. /\ call = [stage |-> "decided", engine |-> call.engine, statement |-> call.statement,
                     grants |-> call.grants, stale |-> call.stale, decision |-> call.decision]
          /\ call.engine \in Engines /\ call.statement \in Statements
      BY <2>2 DEF IInv, CallInv
    <3>2. call' = [stage |-> "decided", engine |-> call.engine, statement |-> call.statement,
                   grants |-> call.grants, stale |-> TRUE, decision |-> call.decision]
      BY <2>2, <3>1
    <3> QED
      BY <1>1, <3>1, <3>2 DEF CallInv
  <2> QED
    BY <2>1, <2>2 DEF reloadGate
<1> QED
  BY <1>1, <1>2 DEF IInv

LEMMA DecidesHolds ==
  ASSUME IInv, gate # NoGate, UNCHANGED gate, NEW e \in Engines, NEW st \in Statements, NEW grants,
         Decides(e, st, grants)
  PROVE  IInv'
<1>1. call' = [stage |-> "decided", engine |-> e, statement |-> st, grants |-> grants, stale |-> FALSE,
               decision |-> Validate(gate, e, st, grants)]
  BY DEF Decides
<1>2. CallInv'
  BY <1>1 DEF CallInv
<1> QED
  BY <1>2 DEF IInv, GateInv

\* A call that is answered or gone has no decision.
LEMMA OtherCallHolds ==
  ASSUME IInv, UNCHANGED gate, call'.stage # "decided"
  PROVE  IInv'
BY DEF IInv, GateInv, CallInv

LEMMA NextHolds == IInv /\ [Next]_vars => IInv'
<1> SUFFICES ASSUME IInv, [Next]_vars PROVE IInv'
  OBVIOUS
<1>1. ASSUME NEW ov \in Overlays \cup {NoOverlay}, New(ov) \/ reloadGate(ov) PROVE IInv'
  BY <1>1, NewHolds, ReloadHolds
<1>2. ASSUME NEW e \in Engines, NEW st \in Statements, NEW grants, Ask(e, st, grants) PROVE IInv'
  BY <1>2, DecidesHolds DEF Ask
<1>3. CASE Approve
  <2>1. gate # NoGate /\ call.engine \in Engines /\ call.statement \in Statements
    BY <1>3 DEF Approve, IInv, CallInv
  <2> QED
    BY <1>3, <2>1, DecidesHolds DEF Approve
<1>4. ASSUME NEW result, executeQuery(result) PROVE IInv'
  BY <1>4, OtherCallHolds DEF executeQuery
<1>5. ASSUME NEW e, NEW read, SearchSchema(e, read) PROVE IInv'
  BY <1>5, OtherCallHolds DEF SearchSchema
<1>6. ASSUME NEW e, NEW d, DescribeTable(e, d) PROVE IInv'
  BY <1>6, OtherCallHolds DEF DescribeTable
<1>7. CASE Done
  BY <1>7, OtherCallHolds DEF Done, Idle
<1>8. CASE UNCHANGED vars
  BY <1>8 DEF vars, IInv, GateInv, CallInv
<1> QED
  BY <1>1, <1>2, <1>3, <1>4, <1>5, <1>6, <1>7, <1>8 DEF Next

\* Whatever rules the overlay brings and whatever tokens a statement has, its
\* verdict is earned: an allowed statement is one balanced read that is led by a
\* read keyword in force, holds no forbidden keyword or function, and calls
\* nothing that is neither safe nor granted; one that waits for approval is the
\* same but for exactly the calls it names (analyse of gate.go).
THEOREM VerdictsAreEarned == Spec => []VerdictIsEarned
<1>1. Init => IInv
  BY InitHolds
<1>2. IInv /\ [Next]_vars => IInv'
  BY NextHolds
<1>3. IInv => VerdictIsEarned
  BY InvImpliesVerdict
<1> QED
  BY <1>1, <1>2, <1>3, PTL DEF Spec

-----------------------------------------------------------------------------
(* What the diff against the baseline says of the rules in force.               *)
Unique(rs) == \A i, j \in DOMAIN Rules(rs) : Rules(rs)[i].id = Rules(rs)[j].id => i = j

\* The group of position p of all the rules.
GroupAt(rs, p) == IF p <= Len(rs.read) THEN 1 ELSE IF p <= Len(rs.read) + Len(rs.forbidden) THEN 2 ELSE 3

LEMMA JoinLemma ==
  ASSUME NEW a \in Seq(RuleType), NEW b \in Seq(RuleType), NEW c \in Seq(RuleType)
  PROVE  /\ DOMAIN (a \o b \o c) = 1 .. Len(a) + Len(b) + Len(c)
         /\ \A i \in 1 .. Len(a) : (a \o b \o c)[i] = a[i]
         /\ \A i \in 1 .. Len(b) : (a \o b \o c)[Len(a) + i] = b[i]
         /\ \A i \in 1 .. Len(c) : (a \o b \o c)[Len(a) + Len(b) + i] = c[i]
         /\ Len(a) \in Nat /\ Len(b) \in Nat /\ Len(c) \in Nat
         /\ DOMAIN a = 1 .. Len(a) /\ DOMAIN b = 1 .. Len(b) /\ DOMAIN c = 1 .. Len(c)
<1> DEFINE ab == a \o b
<1>1. ab \in Seq(RuleType) /\ Len(ab) = Len(a) + Len(b)
  OBVIOUS
<1>2. /\ \A i \in 1 .. Len(a) : ab[i] = a[i]
      /\ \A i \in 1 .. Len(b) : ab[Len(a) + i] = b[i]
  OBVIOUS
<1> HIDE DEF ab
<1>3. DOMAIN (ab \o c) = 1 .. Len(ab) + Len(c)
  BY <1>1
<1>4. \A i \in 1 .. Len(ab) : (ab \o c)[i] = ab[i]
  BY <1>1
<1>5. \A i \in 1 .. Len(c) : (ab \o c)[Len(ab) + i] = c[i]
  BY <1>1
<1>6. ab \o c = a \o b \o c
  BY DEF ab
<1> QED
  BY <1>1, <1>2, <1>3, <1>4, <1>5, <1>6

\* The place of every rule among all of them.
Placed(rs, n, m, l) ==
  /\ DOMAIN Rules(rs) = 1 .. n + m + l
  /\ \A j \in 1 .. n : Rules(rs)[j] = rs.read[j]
  /\ \A j \in 1 .. m : Rules(rs)[n + j] = rs.forbidden[j]
  /\ \A j \in 1 .. l : Rules(rs)[n + m + j] = rs.forbidFunc[j]
  /\ n \in Nat /\ m \in Nat /\ l \in Nat
  /\ DOMAIN rs.read = 1 .. n /\ DOMAIN rs.forbidden = 1 .. m /\ DOMAIN rs.forbidFunc = 1 .. l

LEMMA PlacedLemma ==
  ASSUME NEW rs, IsRuleset(rs)
  PROVE  Placed(rs, Len(rs.read), Len(rs.forbidden), Len(rs.forbidFunc))
<1> DEFINE a == rs.read
           b == rs.forbidden
           c == rs.forbidFunc
<1>1. a \in Seq(RuleType) /\ b \in Seq(RuleType) /\ c \in Seq(RuleType)
  BY DEF IsRuleset
<1>2. Rules(rs) = a \o b \o c
  BY DEF Rules
<1> HIDE DEF a, b, c
<1>3. /\ DOMAIN (a \o b \o c) = 1 .. Len(a) + Len(b) + Len(c)
      /\ \A i \in 1 .. Len(a) : (a \o b \o c)[i] = a[i]
      /\ \A i \in 1 .. Len(b) : (a \o b \o c)[Len(a) + i] = b[i]
      /\ \A i \in 1 .. Len(c) : (a \o b \o c)[Len(a) + Len(b) + i] = c[i]
      /\ Len(a) \in Nat /\ Len(b) \in Nat /\ Len(c) \in Nat
      /\ DOMAIN a = 1 .. Len(a) /\ DOMAIN b = 1 .. Len(b) /\ DOMAIN c = 1 .. Len(c)
  BY <1>1, JoinLemma
<1>4. rs.read = a /\ rs.forbidden = b /\ rs.forbidFunc = c
  BY DEF a, b, c
<1> QED
  BY <1>2, <1>3, <1>4, Zenon DEF Placed

LEMMA PlaceLemma ==
  ASSUME NEW rs, IsRuleset(rs), NEW k \in 1 .. 3, NEW r \in ToSet(Groups(rs)[k])
  PROVE  \E p \in DOMAIN Rules(rs) : Rules(rs)[p] = r /\ GroupAt(rs, p) = k
<1>1. rs.read \in Seq(RuleType) /\ rs.forbidden \in Seq(RuleType) /\ rs.forbidFunc \in Seq(RuleType)
  BY DEF IsRuleset
<1>2. PICK i \in DOMAIN Groups(rs)[k] : Groups(rs)[k][i] = r
  BY DEF ToSet
<1> DEFINE n == Len(rs.read)
           m == Len(rs.forbidden)
           l == Len(rs.forbidFunc)
<1>6. Placed(rs, n, m, l)
  BY PlacedLemma
<1>7. \A p : GroupAt(rs, p) = IF p <= n THEN 1 ELSE IF p <= n + m THEN 2 ELSE 3
  BY DEF GroupAt
<1> HIDE DEF n, m, l
<1>3. CASE k = 1
  <2>1. i \in DOMAIN rs.read /\ rs.read[i] = r
    BY <1>2, <1>3 DEF Groups
  <2>2. i \in DOMAIN Rules(rs) /\ Rules(rs)[i] = r /\ GroupAt(rs, i) = 1
    BY <1>6, <1>7, <2>1 DEF Placed
  <2> QED
    BY <2>2, <1>3
<1>4. CASE k = 2
  <2>1. i \in DOMAIN rs.forbidden /\ rs.forbidden[i] = r
    BY <1>2, <1>4 DEF Groups
  <2> DEFINE p == n + i
  <2>2. p \in DOMAIN Rules(rs) /\ Rules(rs)[p] = r /\ GroupAt(rs, p) = 2
    BY <1>6, <1>7, <2>1 DEF Placed
  <2> QED
    BY <2>2, <1>4
<1>5. CASE k = 3
  <2>1. i \in DOMAIN rs.forbidFunc /\ rs.forbidFunc[i] = r
    BY <1>2, <1>5 DEF Groups
  <2> DEFINE p == n + m + i
  <2>2. p \in DOMAIN Rules(rs) /\ Rules(rs)[p] = r /\ GroupAt(rs, p) = 3
    BY <1>6, <1>7, <2>1 DEF Placed
  <2> QED
    BY <2>2, <1>5
<1> QED
  BY <1>3, <1>4, <1>5

LEMMA OneOfAKind ==
  ASSUME NEW rs, IsRuleset(rs), Unique(rs), NEW k \in 1 .. 3, NEW r \in ToSet(Groups(rs)[k]),
         NEW l \in 1 .. 3, NEW s \in ToSet(Groups(rs)[l]), r.id = s.id
  PROVE  k = l /\ r = s
<1>1. PICK p \in DOMAIN Rules(rs) : Rules(rs)[p] = r /\ GroupAt(rs, p) = k
  BY PlaceLemma
<1>2. PICK q \in DOMAIN Rules(rs) : Rules(rs)[q] = s /\ GroupAt(rs, q) = l
  BY PlaceLemma
<1>3. p = q
  BY <1>1, <1>2 DEF Unique
<1> QED
  BY <1>1, <1>2, <1>3

LEMMA IdsLemma ==
  ASSUME NEW rs, IsRuleset(rs), NEW id
  PROVE  id \in Ids(rs) <=> \E k \in 1 .. 3 : \E r \in ToSet(Groups(rs)[k]) : r.id = id
<1>1. rs.read \in Seq(RuleType) /\ rs.forbidden \in Seq(RuleType) /\ rs.forbidFunc \in Seq(RuleType)
  BY DEF IsRuleset
<1>2. ASSUME id \in Ids(rs) PROVE \E k \in 1 .. 3 : \E r \in ToSet(Groups(rs)[k]) : r.id = id
  <2>1. PICK p \in DOMAIN Rules(rs) : Rules(rs)[p].id = id
    BY <1>2 DEF Ids, ToSet
  <2> DEFINE n == Len(rs.read)
             m == Len(rs.forbidden)
             l == Len(rs.forbidFunc)
  <2>4. Placed(rs, n, m, l)
    BY PlacedLemma
  <2> HIDE DEF n, m, l
  <2>2. \/ p \in DOMAIN rs.read /\ rs.read[p] = Rules(rs)[p]
        \/ p - n \in DOMAIN rs.forbidden /\ rs.forbidden[p - n] = Rules(rs)[p]
        \/ p - n - m \in DOMAIN rs.forbidFunc /\ rs.forbidFunc[p - n - m] = Rules(rs)[p]
    <3>1. p \in 1 .. n \/ p - n \in 1 .. m \/ p - n - m \in 1 .. l
      BY <2>1, <2>4 DEF Placed
    <3>2. p = n + (p - n) /\ p = n + m + (p - n - m)
      BY <2>1, <2>4 DEF Placed
    <3> QED
      BY <2>4, <3>1, <3>2 DEF Placed
  <2>3. \E k \in 1 .. 3 : Rules(rs)[p] \in ToSet(Groups(rs)[k])
    BY <2>2 DEF ToSet, Groups
  <2> QED
    BY <2>1, <2>3
<1>3. ASSUME NEW k \in 1 .. 3, NEW r \in ToSet(Groups(rs)[k]), r.id = id PROVE id \in Ids(rs)
  <2>1. PICK p \in DOMAIN Rules(rs) : Rules(rs)[p] = r
    BY PlaceLemma
  <2> QED
    BY <1>3, <2>1 DEF Ids, ToSet
<1> QED
  BY <1>2, <1>3

LEMMA KindedLemma ==
  ASSUME NEW rs, IsRuleset(rs), Unique(rs), NEW k \in 1 .. 3, NEW r \in ToSet(Groups(rs)[k])
  PROVE  DOMAIN kinded(rs) = Ids(rs) /\ r.id \in Ids(rs) /\ kinded(rs)[r.id] = [kind |-> k, rule |-> r]
<1> DEFINE Of(id, l) == {s \in ToSet(Groups(rs)[l]) : s.id = id}
           Kinds(id) == UNION {{[kind |-> l, rule |-> s] : s \in Of(id, l)} : l \in 1 .. 3}
           one == [kind |-> k, rule |-> r]
<1>1. kinded(rs) = [id \in Ids(rs) |-> CHOOSE kr \in Kinds(id) : TRUE]
  BY DEF kinded
<1>2. r.id \in Ids(rs)
  BY IdsLemma
<1>3. one \in Kinds(r.id)
  <2>1. r \in Of(r.id, k)
    OBVIOUS
  <2> HIDE DEF Of
  <2>2. one \in {[kind |-> k, rule |-> s] : s \in Of(r.id, k)}
    BY <2>1
  <2> QED
    BY <2>2, Zenon
<1>4. ASSUME NEW kr \in Kinds(r.id) PROVE kr = one
  <2>1. PICK l \in 1 .. 3 : kr \in {[kind |-> l, rule |-> s] : s \in Of(r.id, l)}
    OBVIOUS
  <2>2. PICK s \in Of(r.id, l) : kr = [kind |-> l, rule |-> s]
    BY <2>1
  <2>3. k = l /\ r = s
    BY <2>2, OneOfAKind
  <2> QED
    BY <2>2, <2>3
<1>5. (CHOOSE kr \in Kinds(r.id) : TRUE) = one
  <2> HIDE DEF Kinds, one
  <2> QED BY <1>3, <1>4
<1> QED
  <2> HIDE DEF Kinds
  <2> QED BY <1>1, <1>2, <1>5

\* A rule that has the same place and the same content in two rulesets.
LEMMA UnchangedLemma ==
  ASSUME NEW a, IsRuleset(a), Unique(a), NEW b, IsRuleset(b), Unique(b),
         NEW k \in 1 .. 3, NEW r \in ToSet(Groups(a)[k]), r.id \in Ids(b), kinded(a)[r.id] = kinded(b)[r.id]
  PROVE  r \in ToSet(Groups(b)[k])
<1>1. kinded(a)[r.id] = [kind |-> k, rule |-> r]
  BY KindedLemma
<1>2. PICK l \in 1 .. 3 : \E s \in ToSet(Groups(b)[l]) : s.id = r.id
  BY IdsLemma
<1>3. PICK s \in ToSet(Groups(b)[l]) : s.id = r.id
  BY <1>2
<1>4. kinded(b)[s.id] = [kind |-> l, rule |-> s]
  BY KindedLemma
<1>5. [kind |-> k, rule |-> r] = [kind |-> l, rule |-> s]
  BY <1>1, <1>3, <1>4
<1>6. k = l /\ r = s
  BY <1>5
<1> QED
  BY <1>6

\* A call that is decided by a ruleset which was loaded over the baseline.
Compared ==
  /\ Asked /\ Unique(gate.source)
  /\ IsRuleset(Baseline) /\ Unique(Baseline)
Diff == DiffAgainstBaseline(Baseline, gate.source)
Base == compile(Baseline)

LEMMA DiffLemma ==
  /\ Diff.added = DOMAIN kinded(gate.source) \ DOMAIN kinded(Baseline)
  /\ Diff.removed = DOMAIN kinded(Baseline) \ DOMAIN kinded(gate.source)
  /\ Diff.replaced = {id \in DOMAIN kinded(Baseline) \cap DOMAIN kinded(gate.source) :
                        kinded(Baseline)[id] # kinded(gate.source)[id]}
  /\ Diff.keywordsAdded = gate.source.nonFunc \ Baseline.nonFunc
  /\ Diff.bytes = IF gate.source.maxBytes = Baseline.maxBytes THEN "same" ELSE "changed"
BY DEF Diff, DiffAgainstBaseline

LEMMA DomainLemma == \A rs : DOMAIN kinded(rs) = Ids(rs)
BY DEF kinded

LEMMA NotRemoved ==
  ASSUME Compared, NEW k \in 1 .. 3, NEW r \in ToSet(Groups(Baseline)[k]),
         r.id \notin Diff.removed, r.id \notin Diff.replaced
  PROVE  r \in ToSet(Groups(gate.source)[k])
<1>1. r.id \in Ids(Baseline)
  BY IdsLemma DEF Compared
<1>2. r.id \in Ids(gate.source) /\ kinded(Baseline)[r.id] = kinded(gate.source)[r.id]
  BY <1>1, DiffLemma, DomainLemma
<1> QED
  BY <1>2, UnchangedLemma DEF Compared, Asked

LEMMA NotAdded ==
  ASSUME Compared, NEW k \in 1 .. 3, NEW r \in ToSet(Groups(gate.source)[k]),
         r.id \notin Diff.added, r.id \notin Diff.replaced
  PROVE  r \in ToSet(Groups(Baseline)[k])
<1>1. r.id \in Ids(gate.source)
  BY IdsLemma DEF Compared, Asked
<1>2. r.id \in Ids(Baseline) /\ kinded(Baseline)[r.id] = kinded(gate.source)[r.id]
  BY <1>1, DiffLemma, DomainLemma
<1> QED
  BY <1>2, UnchangedLemma DEF Compared, Asked

LEMMA SafeAdded ==
  ASSUME Compared, NEW name \in gate.safeFunc[call.engine], name \notin Base.safeFunc[call.engine]
  PROVE  name \in Diff.safeAdded[call.engine]
<1>1. \A rs : compile(rs).safeFunc[call.engine] = {n \in SafeNames(rs) : call.engine \in AllowedOn(rs, n)}
  BY DEF Compared, Asked, compile
<1>2. Diff.safeAdded[call.engine] =
        {n \in SafeNames(gate.source) : call.engine \in AllowedOn(gate.source, n)}
          \ {n \in SafeNames(Baseline) : call.engine \in AllowedOn(Baseline, n)}
  BY DEF Compared, Asked, Diff, DiffAgainstBaseline
<1>3. gate = compile(gate.source)
  BY DEF Compared, Asked
<1>4. name \in compile(gate.source).safeFunc[call.engine] /\ name \notin compile(Baseline).safeFunc[call.engine]
  BY <1>3 DEF Base
<1> QED
  BY <1>1, <1>2, <1>4

-----------------------------------------------------------------------------
\* The rules of one group that count for the engine of the call.
LEMMA CompiledLemma ==
  ASSUME NEW rs, IsRuleset(rs), call.engine \in Engines
  PROVE  /\ \A name : name \in DOMAIN compile(rs).read[call.engine] <=>
                        \E r \in ToSet(rs.read) : ruleApplies(r, call.engine) /\ Name(r) = name
         /\ \A name \in DOMAIN compile(rs).read[call.engine] :
              \E r \in ToSet(rs.read) : /\ ruleApplies(r, call.engine) /\ Name(r) = name
                                        /\ compile(rs).read[call.engine][name] = r
         /\ \A name : name \in DOMAIN compile(rs).forbidFunc[call.engine] <=>
                        \E r \in ToSet(rs.forbidFunc) : ruleApplies(r, call.engine) /\ Name(r) = name
         /\ \A name \in DOMAIN compile(rs).forbidFunc[call.engine] :
              \E r \in ToSet(rs.forbidFunc) : /\ ruleApplies(r, call.engine) /\ Name(r) = name
                                              /\ compile(rs).forbidFunc[call.engine][name] = r
         /\ compile(rs).forbidden = rs.forbidden /\ compile(rs).nonFunc = rs.nonFunc
<1>1. /\ compile(rs).read[call.engine] = LastOf(rs.read, call.engine)
      /\ compile(rs).forbidFunc[call.engine] = LastOf(rs.forbidFunc, call.engine)
      /\ compile(rs).forbidden = rs.forbidden /\ compile(rs).nonFunc = rs.nonFunc
  BY DEF compile
<1>2. rs.read \in Seq(RuleType) /\ rs.forbidFunc \in Seq(RuleType)
  BY DEF IsRuleset
<1> QED
  BY <1>1, <1>2, LastOfLemma

\* The rule that is reported for a word is a forbidden one whose words begin there.
LEMMA MatchLemma ==
  ASSUME NEW rs, IsRuleset(rs), Toks \in Seq(TokenType), NEW i \in 1 .. Len(Toks),
         Phrases(compile(rs), call.engine, Toks, i) # {}
  PROVE  \E k \in Phrases(compile(rs), call.engine, Toks, i) :
           matchPhrase(compile(rs), call.engine, Toks, i) = compile(rs).forbidden[k].id
<1> DEFINE c == compile(rs)
           T == Phrases(c, call.engine, Toks, i)
           length(k) == Len(c.forbidden[k].match)
           n == Len(c.forbidden)
           m == Len(Toks)
           Lengths == {l \in 1 .. m + 1 : \E k \in T : l = length(k) + 1}
<1>1. c.forbidden \in Seq(RuleType) /\ n \in Nat /\ m \in Nat /\ DOMAIN c.forbidden = 1 .. n
  <2>1. c.forbidden = rs.forbidden /\ rs.forbidden \in Seq(RuleType)
    BY DEF compile, IsRuleset
  <2> QED
    BY <2>1
<1>2. T \subseteq 1 .. n
  <2>1. T \subseteq DOMAIN c.forbidden
    BY DEF Phrases
  <2> HIDE DEF c, T
  <2> QED BY <1>1, <2>1
<1>3. ASSUME NEW k \in T PROVE length(k) \in Nat /\ length(k) <= m
  <2>0. c.forbidden[k] \in RuleType
    <3> HIDE DEF c, T, n
    <3> QED BY <1>1, <1>2
  <2>1. c.forbidden[k].match \in Seq(Seq(STRING))
    <3> HIDE DEF c, T
    <3> QED BY <2>0 DEF RuleType
  <2>2. length(k) \in Nat /\ DOMAIN c.forbidden[k].match = 1 .. length(k)
    BY <2>1
  <2>3. \A j \in DOMAIN c.forbidden[k].match : i + j - 1 \in DOMAIN Toks
    BY <1>3 DEF Phrases
  <2>4. CASE length(k) = 0
    BY <1>1, <2>2, <2>4
  <2>5. CASE length(k) # 0
    <3>1. length(k) \in DOMAIN c.forbidden[k].match
      BY <2>2, <2>5
    <3>2. i + length(k) - 1 \in DOMAIN Toks
      BY <2>3, <3>1
    <3>3. i + length(k) - 1 \in 1 .. m /\ i \in 1 .. m
      BY <3>2
    <3> HIDE DEF length, m, c, T
    <3> QED BY <1>1, <2>2, <3>3
  <2> QED
    BY <2>4, <2>5
<1> HIDE DEF c, T, n, m, length
<1>4. Lengths \in SUBSET (1 .. m + 1) /\ Lengths # {}
  <2>1. PICK k \in T : TRUE
    BY DEF T, c
  <2>2. length(k) + 1 \in Lengths
    BY <1>1, <1>3, <2>1
  <2> QED
    BY <2>2
<1>5. PICK top \in Lengths : \A l \in Lengths : l <= top
  <2> HIDE DEF Lengths
  <2>1. m + 1 \in Nat
    BY <1>1
  <2> QED
    BY <1>4, <2>1, GreatestLemma
<1> DEFINE Backs == {b \in 1 .. n : \E k \in T : length(k) + 1 = top /\ b = n + 1 - k}
<1>6. Backs \in SUBSET (1 .. n) /\ Backs # {}
  <2>1. PICK k \in T : length(k) + 1 = top
    BY <1>5
  <2>2. n + 1 - k \in Backs
    BY <1>1, <1>2, <2>1
  <2> QED
    BY <2>2
<1>7. PICK back \in Backs : \A b \in Backs : b <= back
  <2> HIDE DEF Backs
  <2> QED BY <1>1, <1>6, GreatestLemma
<1>8. PICK k \in T : length(k) + 1 = top /\ back = n + 1 - k
  BY <1>7
<1>9. ASSUME NEW l \in T PROVE length(k) > length(l) \/ (length(k) = length(l) /\ k <= l)
  <2>1. length(l) + 1 \in Lengths /\ length(l) \in Nat /\ length(k) \in Nat /\ k \in Nat /\ l \in Nat
    BY <1>1, <1>2, <1>3
  <2>2. length(l) + 1 <= length(k) + 1
    BY <1>5, <1>8, <2>1
  <2>3. CASE length(l) = length(k)
    <3>1. n + 1 - l \in Backs
      BY <1>1, <1>2, <1>8, <2>3
    <3>2. n + 1 - l <= n + 1 - k
      BY <1>7, <1>8, <3>1
    <3> QED
      BY <1>1, <2>1, <2>3, <3>2
  <2>4. CASE length(l) # length(k)
    BY <2>1, <2>2, <2>4
  <2> QED
    BY <2>3, <2>4
<1> DEFINE first == CHOOSE f \in T : \A l \in T : length(f) > length(l) \/ (length(f) = length(l) /\ f <= l)
<1>10. first \in T
  BY <1>9
<1>11. matchPhrase(c, call.engine, Toks, i) = c.forbidden[first].id
  BY DEF matchPhrase, T, length
<1> QED
  <2> HIDE DEF first
  <2>1. \E f \in T : matchPhrase(c, call.engine, Toks, i) = c.forbidden[f].id
    BY <1>10, <1>11
  <2> QED
    BY <2>1 DEF T, c

-----------------------------------------------------------------------------
(* The two walks, of the baseline and of the rules in force.                    *)
SameRules == Diff.added \cup Diff.removed \cup Diff.replaced = {}
NoneSafer == Diff.safeAdded[call.engine] = {} /\ Diff.keywordsAdded = {}

\* With nothing in the diff, a keyword leads a read of both or of neither, and
\* introduces a statement in both or in neither.
LEMMA SameRead ==
  ASSUME Compared, SameRules, NEW name
  PROVE  /\ name \in DOMAIN Base.read[call.engine] <=> name \in DOMAIN gate.read[call.engine]
         /\ name \in DOMAIN Base.read[call.engine] =>
              Base.read[call.engine][name].prefix = gate.read[call.engine][name].prefix
<1>0. gate = compile(gate.source) /\ IsRuleset(gate.source) /\ IsRuleset(Baseline) /\ call.engine \in Engines
  BY DEF Compared, Asked
<1> DEFINE was == compile(Baseline).read[call.engine]
           now == compile(gate.source).read[call.engine]
<1>1. \A r : r \in ToSet(Baseline.read) <=> r \in ToSet(gate.source.read)
  <2>1. \A rs : Groups(rs)[1] = rs.read
    BY DEF Groups
  <2>2. \A r \in ToSet(Groups(Baseline)[1]) : r \in ToSet(Groups(gate.source)[1])
    BY NotRemoved DEF SameRules
  <2>3. \A r \in ToSet(Groups(gate.source)[1]) : r \in ToSet(Groups(Baseline)[1])
    BY NotAdded DEF SameRules
  <2> QED
    BY <2>1, <2>2, <2>3
<1>2. /\ name \in DOMAIN was <=> \E r \in ToSet(Baseline.read) : ruleApplies(r, call.engine) /\ Name(r) = name
      /\ name \in DOMAIN now <=> \E r \in ToSet(gate.source.read) : ruleApplies(r, call.engine) /\ Name(r) = name
  BY <1>0, CompiledLemma
<1>3. name \in DOMAIN was <=> name \in DOMAIN now
  BY <1>1, <1>2
<1>4. ASSUME name \in DOMAIN was PROVE was[name].prefix = now[name].prefix
  <2>1. PICK r \in ToSet(Baseline.read) : ruleApplies(r, call.engine) /\ Name(r) = name /\ was[name] = r
    BY <1>0, <1>4, CompiledLemma
  <2>2. PICK s \in ToSet(gate.source.read) : ruleApplies(s, call.engine) /\ Name(s) = name /\ now[name] = s
    BY <1>0, <1>3, <1>4, CompiledLemma
  <2>3. s \in ToSet(Baseline.read)
    BY <1>1
  <2>4. enginesOverlap(r.engines, s.engines)
    BY <2>1, <2>2 DEF ruleApplies, enginesOverlap
  <2> QED
    BY <2>1, <2>2, <2>3, <2>4, BaselineAssumption
<1>5. Base.read[call.engine] = was /\ gate.read[call.engine] = now
  BY <1>0 DEF Base
<1> QED
  BY <1>3, <1>4, <1>5

\* A safe call of the rules in force is safe by the baseline unless the diff has
\* its name.
LEMMA SameSafe ==
  ASSUME Compared, NEW i, Diff.safeAdded[call.engine] \cap Names(Toks, i) = {}, safe(gate, call.engine, Toks, i)
  PROVE  safe(Base, call.engine, Toks, i)
<1>1. PICK name \in Names(Toks, i) : name \in gate.safeFunc[call.engine]
  BY DEF safe
<1>2. name \in Base.safeFunc[call.engine]
  BY <1>1, SafeAdded
<1> QED
  BY <1>1, <1>2 DEF safe

Untyped(a) ==
  a \in [depth : {a.depth}, terminal : {a.terminal}, unknown : {a.unknown}, withBody : {a.withBody},
         prefix : {a.prefix}, by : {a.by}]

\* What holds of the two walks after the same tokens, as long as the rules in force
\* find no terminal obstacle.
Traced(p, q) ==
  /\ Untyped(p) /\ Untyped(q)
  /\ p.depth = q.depth
  /\ p.terminal # <<>> => Accounted(p.terminal[1].reason, p.terminal[1].rule, Diff)
  /\ p.terminal = <<>> /\ SameRules =>
       /\ p.withBody = q.withBody /\ p.prefix = q.prefix
       /\ NoneSafer => p.unknown \subseteq q.unknown

LEMMA DenyUntyped ==
  ASSUME NEW a, Untyped(a), NEW reason, NEW rule, NEW b, b = deny(a, reason, rule)
  PROVE  /\ Untyped(b) /\ b.depth = a.depth /\ b.unknown = a.unknown /\ b.withBody = a.withBody
         /\ b.prefix = a.prefix /\ b.terminal # <<>>
         /\ a.terminal # <<>> => b.terminal = a.terminal
         /\ a.terminal = <<>> => b.terminal[1].reason = reason /\ b.terminal[1].rule = rule
<1>1. CASE a.terminal = <<>>
  <2>1. b = [a EXCEPT !.terminal = <<[reason |-> reason, rule |-> rule]>>]
    BY <1>1 DEF deny
  <2>2. b.terminal = <<[reason |-> reason, rule |-> rule]>>
    BY <2>1 DEF Untyped
  <2>3. Untyped(b) /\ b.depth = a.depth /\ b.unknown = a.unknown /\ b.withBody = a.withBody /\ b.prefix = a.prefix
    BY <2>1 DEF Untyped
  <2> QED
    BY <1>1, <2>2, <2>3
<1>2. CASE a.terminal # <<>>
  BY <1>2 DEF deny
<1> QED
  BY <1>1, <1>2

LEMMA DeniedIsTerminal == \A a, reason, rule : Untyped(a) => deny(a, reason, rule).terminal # <<>>
<1> SUFFICES ASSUME NEW a, NEW reason, NEW rule, Untyped(a) PROVE deny(a, reason, rule).terminal # <<>>
  OBVIOUS
<1> QED
  BY DenyUntyped

LEMMA DeniedLemma ==
  \A a, reason, rule : Untyped(a) =>
    /\ deny(a, reason, rule).terminal # <<>> /\ Untyped(deny(a, reason, rule))
    /\ deny(a, reason, rule).depth = a.depth /\ deny(a, reason, rule).unknown = a.unknown
<1> SUFFICES ASSUME NEW a, NEW reason, NEW rule, Untyped(a)
             PROVE  /\ deny(a, reason, rule).terminal # <<>> /\ Untyped(deny(a, reason, rule))
                    /\ deny(a, reason, rule).depth = a.depth /\ deny(a, reason, rule).unknown = a.unknown
  OBVIOUS
<1> QED
  BY DenyUntyped

\* The baseline denies at this token, for a reason that the diff accounts for.
LEMMA DeniesLemma ==
  ASSUME NEW p, NEW q, Traced(p, q), NEW reason, NEW rule, NEW p2, p2 = deny(p, reason, rule),
         NEW q2, Untyped(q2), q2.depth = q.depth,
         p.terminal = <<>> => Accounted(reason, rule, Diff)
  PROVE  Traced(p2, q2)
<1>1. /\ Untyped(p2) /\ p2.depth = p.depth /\ p2.terminal # <<>>
      /\ p.terminal # <<>> => p2.terminal = p.terminal
      /\ p.terminal = <<>> => p2.terminal[1].reason = reason /\ p2.terminal[1].rule = rule
  BY DenyUntyped DEF Traced
<1> QED
  BY <1>1 DEF Traced

\* Punctuation is the same to both.
LEMMA PunctTraced ==
  ASSUME NEW i, NEW p, NEW q, Traced(p, q), NEW p2, NEW q2,
         p2 = Punct(Toks, p, i), q2 = Punct(Toks, q, i), q2.terminal = <<>>
  PROVE  Traced(p2, q2)
<1> DEFINE closedP == [p EXCEPT !.depth = @ - 1]
           closedQ == [q EXCEPT !.depth = @ - 1]
<1>1. Untyped(p) /\ Untyped(q) /\ p.depth = q.depth
  BY DEF Traced
<1>2. CASE IsPunct(Toks, i, "(")
  <2>1. p2 = [p EXCEPT !.depth = @ + 1] /\ q2 = [q EXCEPT !.depth = @ + 1]
    BY <1>2 DEF Punct
  <2>2. /\ Untyped(p2) /\ p2.depth = p.depth + 1 /\ p2.terminal = p.terminal
        /\ p2.withBody = p.withBody /\ p2.prefix = p.prefix /\ p2.unknown = p.unknown
    BY <1>1, <2>1 DEF Untyped
  <2>3. /\ Untyped(q2) /\ q2.depth = q.depth + 1
        /\ q2.withBody = q.withBody /\ q2.prefix = q.prefix /\ q2.unknown = q.unknown
    BY <1>1, <2>1 DEF Untyped
  <2> QED
    BY <2>2, <2>3 DEF Traced
<1>3. CASE ~IsPunct(Toks, i, "(") /\ IsPunct(Toks, i, ")")
  <2>1. /\ Untyped(closedP) /\ closedP.depth = p.depth - 1 /\ closedP.terminal = p.terminal
        /\ closedP.withBody = p.withBody /\ closedP.prefix = p.prefix /\ closedP.unknown = p.unknown
    BY <1>1 DEF Untyped
  <2>2. /\ Untyped(closedQ) /\ closedQ.depth = q.depth - 1
        /\ closedQ.withBody = q.withBody /\ closedQ.prefix = q.prefix /\ closedQ.unknown = q.unknown
    BY <1>1 DEF Untyped
  <2>3. /\ p2 = IF closedP.depth < 0 THEN deny(closedP, "unbalanced-parens", "") ELSE closedP
        /\ q2 = IF closedQ.depth < 0 THEN deny(closedQ, "unbalanced-parens", "") ELSE closedQ
    BY <1>3 DEF Punct
  <2> HIDE DEF closedP, closedQ
  <2>4. ~(closedQ.depth < 0)
    <3> SUFFICES ASSUME closedQ.depth < 0 PROVE FALSE
      OBVIOUS
    <3>1. q2 = deny(closedQ, "unbalanced-parens", "")
      BY <2>3
    <3>2. q2.terminal # <<>>
      BY <2>2, <3>1, DeniedIsTerminal
    <3> QED
      BY <3>2
  <2>5. p2 = closedP /\ q2 = closedQ
    BY <1>1, <2>1, <2>2, <2>3, <2>4
  <2> QED
    BY <1>1, <2>1, <2>2, <2>5 DEF Traced
<1>4. CASE ~IsPunct(Toks, i, "(") /\ ~IsPunct(Toks, i, ")")
  <2>1. ~(IsPunct(Toks, i, ";") /\ i # Len(Toks))
    <3> SUFFICES ASSUME IsPunct(Toks, i, ";") /\ i # Len(Toks) PROVE FALSE
      OBVIOUS
    <3>1. q2 = deny(q, "multiple-statements", "")
      BY <1>4 DEF Punct
    <3>2. q2.terminal # <<>>
      BY <1>1, <3>1, DeniedIsTerminal
    <3> QED
      BY <3>2
  <2>2. p2 = p /\ q2 = q
    BY <1>4, <2>1 DEF Punct
  <2> QED
    BY <2>2
<1> QED
  BY <1>2, <1>3, <1>4

-----------------------------------------------------------------------------
\* A forbidden function of the baseline.
LEMMA ForbiddenTraced ==
  ASSUME Compared, NEW i \in 1 .. Len(Toks), NEW p, NEW q, Traced(p, q), NEW p2, NEW q2,
         Names(Toks, i) \cap DOMAIN Base.forbidFunc[call.engine] # {},
         Names(Toks, i) \cap DOMAIN gate.forbidFunc[call.engine] = {},
         p2 = deny(p, "forbidden-construct", forbiddenFunction(Base, call.engine, Toks, i)),
         Untyped(q2), q2.depth = q.depth
  PROVE  Traced(p2, q2)
<1> DEFINE was == compile(Baseline).forbidFunc[call.engine]
           now == compile(gate.source).forbidFunc[call.engine]
           id == forbiddenFunction(Base, call.engine, Toks, i)
<1>0. /\ gate = compile(gate.source) /\ IsRuleset(gate.source) /\ IsRuleset(Baseline)
      /\ call.engine \in Engines
  BY DEF Compared, Asked
<1>1. Base.forbidFunc[call.engine] = was /\ gate.forbidFunc[call.engine] = now
  BY <1>0 DEF Base
<1>2. PICK name \in Names(Toks, i) : name \in DOMAIN was /\ id = was[name].id
  <2>1. Names(Toks, i) = {Bare(Toks, i), qualifiedName(Toks, i)}
    BY DEF Names
  <2>2. CASE Bare(Toks, i) \in DOMAIN was
    <3>1. id = was[Bare(Toks, i)].id
      BY <1>1, <2>2 DEF forbiddenFunction
    <3> QED
      BY <2>1, <2>2, <3>1
  <2>3. CASE Bare(Toks, i) \notin DOMAIN was
    <3>1. qualifiedName(Toks, i) \in DOMAIN was
      BY <1>1, <2>1, <2>3
    <3>2. id = was[qualifiedName(Toks, i)].id
      BY <1>1, <2>3 DEF forbiddenFunction
    <3> QED
      BY <2>1, <3>1, <3>2
  <2> QED
    BY <2>2, <2>3
<1>3. PICK r \in ToSet(Baseline.forbidFunc) : ruleApplies(r, call.engine) /\ Name(r) = name /\ was[name] = r
  BY <1>0, <1>2, CompiledLemma
<1>4. r \notin ToSet(gate.source.forbidFunc)
  <2>1. name \notin DOMAIN now
    BY <1>1, <1>2
  <2> QED
    BY <1>0, <1>3, <2>1, CompiledLemma
<1>5. r.id \in Diff.removed \/ r.id \in Diff.replaced
  <2>1. \A rs : Groups(rs)[3] = rs.forbidFunc
    BY DEF Groups
  <2>2. r \in ToSet(Groups(Baseline)[3]) /\ r \notin ToSet(Groups(gate.source)[3])
    BY <1>4, <2>1
  <2> QED
    BY <2>2, NotRemoved
<1>6. Accounted("forbidden-construct", id, Diff)
  BY <1>2, <1>3, <1>5 DEF Accounted
<1> QED
  <2> HIDE DEF id
  <2>1. p2 = deny(p, "forbidden-construct", id)
    BY DEF id
  <2> QED
    BY <1>6, <2>1, DeniesLemma

\* A forbidden keyword of the baseline, where the rules in force have a safe call or
\* no keyword.
LEMMA PhraseTraced ==
  ASSUME Compared, NEW i \in 1 .. Len(Toks), Toks[i].kind = "word",
         NEW p, NEW q, Traced(p, q), NEW p2, NEW q2,
         Phrases(Base, call.engine, Toks, i) # {},
         ~(IsCall(Toks, i) /\ safe(Base, call.engine, Toks, i)),
         Phrases(gate, call.engine, Toks, i) = {} \/ (IsCall(Toks, i) /\ safe(gate, call.engine, Toks, i)),
         p2 = deny(p, "forbidden-statement", matchPhrase(Base, call.engine, Toks, i)),
         Untyped(q2), q2.depth = q.depth
  PROVE  Traced(p2, q2)
<1> DEFINE id == matchPhrase(Base, call.engine, Toks, i)
<1>0. /\ gate = compile(gate.source) /\ IsRuleset(gate.source) /\ IsRuleset(Baseline)
      /\ call.engine \in Engines /\ Toks \in Seq(TokenType)
  BY DEF Compared, Asked
<1>1. PICK k \in Phrases(Base, call.engine, Toks, i) : id = Base.forbidden[k].id
  BY <1>0, MatchLemma DEF Base
<1>2. Base.forbidden = Baseline.forbidden /\ gate.forbidden = gate.source.forbidden
  BY <1>0, CompiledLemma DEF Base
<1> DEFINE r == Baseline.forbidden[k]
<1>3. k \in DOMAIN Baseline.forbidden /\ r \in ToSet(Baseline.forbidden)
  BY <1>2 DEF Phrases, ToSet
<1>4. /\ ruleApplies(r, call.engine)
      /\ \A j \in DOMAIN r.match : /\ i + j - 1 \in DOMAIN Toks /\ Toks[i + j - 1].kind = "word"
                                   /\ Toks[i + j - 1].lower = r.match[j]
  BY <1>2 DEF Phrases
<1>5. CASE Phrases(gate, call.engine, Toks, i) = {}
  <2>1. r \notin ToSet(gate.source.forbidden)
    <3> SUFFICES ASSUME r \in ToSet(gate.source.forbidden) PROVE FALSE
      OBVIOUS
    <3>1. PICK l \in DOMAIN gate.forbidden : gate.forbidden[l] = r
      BY <1>2 DEF ToSet
    <3> HIDE DEF r
    <3>2. l \in Phrases(gate, call.engine, Toks, i)
      BY <1>4, <3>1, Zenon DEF Phrases
    <3> QED
      BY <1>5, <3>2
  <2>2. r.id \in Diff.removed \/ r.id \in Diff.replaced
    <3>1. \A rs : Groups(rs)[2] = rs.forbidden
      BY DEF Groups
    <3> HIDE DEF r
    <3>2. r \in ToSet(Groups(Baseline)[2]) /\ r \notin ToSet(Groups(gate.source)[2])
      BY <1>3, <2>1, <3>1
    <3> QED
      BY <3>2, NotRemoved
  <2>3. id \in Diff.removed \cup Diff.replaced
    BY <1>1, <1>2, <2>2
  <2>4. Accounted("forbidden-statement", id, Diff)
    <3> HIDE DEF id
    <3> QED BY <2>3 DEF Accounted
  <2> QED
    BY <2>4, DeniesLemma
<1>6. CASE IsCall(Toks, i) /\ safe(gate, call.engine, Toks, i)
  <2>1. ~safe(Base, call.engine, Toks, i)
    BY <1>6
  <2>2. Diff.safeAdded[call.engine] \cap Names(Toks, i) # {}
    BY <1>6, <2>1, SameSafe
  <2>3. i \in Words
    BY <1>0 DEF Words
  <2>4. Accounted("forbidden-statement", id, Diff)
    BY <1>6, <2>2, <2>3 DEF Accounted
  <2> QED
    BY <2>4, DeniesLemma
<1> QED
  BY <1>5, <1>6

-----------------------------------------------------------------------------
\* The first word: what leads a read by the rules in force and not by the baseline
\* is led by a rule that was added or replaced.
LEMMA FirstTraced ==
  ASSUME Compared, NEW p, NEW q, Traced(p, q), NEW p2, NEW q2,
         p2 = Shape(Base, call.engine, Toks, p, 1), q2 = Shape(gate, call.engine, Toks, q, 1), q2.terminal = <<>>
  PROVE  Traced(p2, q2)
<1> DEFINE was == Base.read[call.engine]
           now == gate.read[call.engine]
           name == Bare(Toks, 1)
<1>0. /\ gate = compile(gate.source) /\ IsRuleset(gate.source) /\ IsRuleset(Baseline)
      /\ call.engine \in Engines /\ Untyped(p) /\ Untyped(q)
  BY DEF Compared, Asked, Traced
<1>1. name \in DOMAIN now
  <2> SUFFICES ASSUME name \notin DOMAIN now PROVE FALSE
    OBVIOUS
  <2>1. q2 = deny(q, "unknown-statement", "")
    BY DEF Shape
  <2>2. q2.terminal # <<>>
    BY <1>0, <2>1, DeniedIsTerminal
  <2> QED
    BY <2>2
<1>2. q2 = [q EXCEPT !.by = now[name].id, !.withBody = (name = <<"with">>), !.prefix = now[name].prefix]
  BY <1>1 DEF Shape
<1>3. /\ Untyped(q2) /\ q2.depth = q.depth /\ q2.unknown = q.unknown
      /\ q2.withBody = (name = <<"with">>) /\ q2.prefix = now[name].prefix
  <2> HIDE DEF now, name
  <2> QED BY <1>0, <1>2 DEF Untyped
<1>4. CASE name \notin DOMAIN was
  <2>1. p2 = deny(p, "unknown-statement", "")
    BY <1>4 DEF Shape
  <2>2. PICK r \in ToSet(gate.source.read) : ruleApplies(r, call.engine) /\ Name(r) = name
    BY <1>0, <1>1, CompiledLemma
  <2>3. r \notin ToSet(Baseline.read)
    BY <1>0, <1>4, <2>2, CompiledLemma DEF Base
  <2>4. r.id \in Diff.added \/ r.id \in Diff.replaced
    <3>1. \A rs : Groups(rs)[1] = rs.read
      BY DEF Groups
    <3>2. r \in ToSet(Groups(gate.source)[1]) /\ r \notin ToSet(Groups(Baseline)[1])
      BY <2>2, <2>3, <3>1
    <3> QED
      BY <3>2, NotAdded
  <2>5. Accounted("unknown-statement", "", Diff)
    BY <2>4 DEF Accounted
  <2> QED
    BY <1>3, <2>1, <2>5, DeniesLemma
<1>5. CASE name \in DOMAIN was
  <2>1. p2 = [p EXCEPT !.by = was[name].id, !.withBody = (name = <<"with">>), !.prefix = was[name].prefix]
    BY <1>5 DEF Shape
  <2>2. /\ Untyped(p2) /\ p2.depth = p.depth /\ p2.unknown = p.unknown /\ p2.terminal = p.terminal
        /\ p2.withBody = (name = <<"with">>) /\ p2.prefix = was[name].prefix
    <3> HIDE DEF was, name
    <3> QED BY <1>0, <2>1 DEF Untyped
  <2>3. SameRules => was[name].prefix = now[name].prefix
    BY <1>5, SameRead
  <2> HIDE DEF was, now, name
  <2> QED
    BY <1>3, <2>2, <2>3 DEF Traced
<1> QED
  BY <1>4, <1>5

\* A later word: where the baseline sees a second statement and the rules in force
\* do not, some rule is not the same.
LEMMA LaterTraced ==
  ASSUME Compared, NEW i \in 2 .. Len(Toks), NEW p, NEW q, Traced(p, q), NEW p2, NEW q2,
         p2 = Shape(Base, call.engine, Toks, p, i), q2 = Shape(gate, call.engine, Toks, q, i), q2.terminal = <<>>
  PROVE  Traced(p2, q2)
<1> DEFINE name == Bare(Toks, i)
           free == ~(name = <<"with">> /\ IsCall(Toks, i))
           startsP == name \in DOMAIN Base.read[call.engine] /\ p.depth = 0 /\ free
           startsQ == name \in DOMAIN gate.read[call.engine] /\ q.depth = 0 /\ free
           follows == IsWord(Toks, i - 1, setOperators)
           closes == IsPunct(Toks, i - 1, ")")
<1>0. Untyped(p) /\ Untyped(q) /\ p.depth = q.depth
  BY DEF Traced
<1>1. /\ p2 = IF startsP THEN boundary(Toks, p, i) ELSE p
      /\ q2 = IF startsQ THEN boundary(Toks, q, i) ELSE q
  <2>1. i # 1
    OBVIOUS
  <2> QED
    BY <2>1, Zenon DEF Shape
<1>2. SameRules => (startsP <=> startsQ)
  BY <1>0, SameRead
<1> HIDE DEF startsP, startsQ, name, free
<1>3. \A a : boundary(Toks, a, i) =
        IF follows THEN a ELSE IF closes /\ a.withBody THEN [a EXCEPT !.withBody = FALSE]
        ELSE IF a.prefix THEN [a EXCEPT !.prefix = FALSE] ELSE deny(a, "multiple-statements", "")
  BY DEF boundary
<1> HIDE DEF follows, closes
<1> DEFINE Second(a) == ~follows /\ ~(closes /\ a.withBody) /\ ~a.prefix
<1>4. ASSUME NEW a, Untyped(a), NEW b, b = boundary(Toks, a, i)
      PROVE  /\ Untyped(b) /\ b.depth = a.depth /\ b.unknown = a.unknown
             /\ ~Second(a) => b.terminal = a.terminal
             /\ Second(a) => b = deny(a, "multiple-statements", "")
             /\ ~Second(a) => b.withBody = IF ~follows /\ closes /\ a.withBody THEN FALSE ELSE a.withBody
             /\ ~Second(a) => b.prefix = IF ~follows /\ ~(closes /\ a.withBody) THEN FALSE ELSE a.prefix
  <2>1. CASE follows
    BY <1>3, <1>4, <2>1
  <2>2. CASE ~follows /\ closes /\ a.withBody
    <3>1. b = [a EXCEPT !.withBody = FALSE]
      BY <1>3, <1>4, <2>2
    <3> QED
      BY <1>4, <2>2, <3>1 DEF Untyped
  <2>3. CASE ~follows /\ ~(closes /\ a.withBody) /\ a.prefix
    <3>1. b = [a EXCEPT !.prefix = FALSE]
      BY <1>3, <1>4, <2>3
    <3> QED
      BY <1>4, <2>3, <3>1 DEF Untyped
  <2>4. CASE Second(a)
    <3>1. b = deny(a, "multiple-statements", "")
      BY <1>3, <1>4, <2>4
    <3>2. Untyped(deny(a, "multiple-statements", ""))
      BY <1>4, DeniedLemma
    <3>3. /\ deny(a, "multiple-statements", "").depth = a.depth
          /\ deny(a, "multiple-statements", "").unknown = a.unknown
      BY <1>4, DeniedLemma
    <3>4. Untyped(b) /\ b.depth = a.depth /\ b.unknown = a.unknown
      BY <3>1, <3>2, <3>3
    <3> QED
      BY <2>4, <3>1, <3>4
  <2> QED
    BY <2>1, <2>2, <2>3, <2>4
<1>5. ~(startsQ /\ Second(q))
  <2> SUFFICES ASSUME startsQ, Second(q) PROVE FALSE
    OBVIOUS
  <2>1. q2 = deny(q, "multiple-statements", "")
    BY <1>0, <1>1, <1>4
  <2>2. q2.terminal # <<>>
    BY <1>0, <2>1, DeniedIsTerminal
  <2> QED
    BY <2>2
<1>6. Untyped(q2) /\ q2.depth = q.depth /\ q2.unknown = q.unknown
  BY <1>0, <1>1, <1>4
<1>7. CASE startsP /\ Second(p)
  <2>1. p2 = deny(p, "multiple-statements", "")
    BY <1>0, <1>1, <1>4, <1>7
  <2>2. ASSUME p.terminal = <<>>, SameRules PROVE FALSE
    <3>1. p.withBody = q.withBody /\ p.prefix = q.prefix
      BY <2>2 DEF Traced
    <3> QED
      BY <1>2, <1>5, <1>7, <2>2, <3>1
  <2>3. p.terminal = <<>> => Accounted("multiple-statements", "", Diff)
    BY <2>2 DEF Accounted, SameRules
  <2> QED
    BY <1>6, <2>1, <2>3, DeniesLemma
<1>8. CASE ~(startsP /\ Second(p))
  <2>1. Untyped(p2) /\ p2.depth = p.depth /\ p2.unknown = p.unknown /\ p2.terminal = p.terminal
    BY <1>0, <1>1, <1>4, <1>8
  <2>2. ASSUME p.terminal = <<>>, SameRules PROVE p2.withBody = q2.withBody /\ p2.prefix = q2.prefix
    <3>1. p.withBody = q.withBody /\ p.prefix = q.prefix
      BY <2>2 DEF Traced
    <3>2. CASE startsP
      <4>1. p2 = boundary(Toks, p, i) /\ q2 = boundary(Toks, q, i) /\ ~Second(p) /\ ~Second(q)
        BY <1>1, <1>2, <1>5, <1>8, <2>2, <3>2
      <4>2. /\ p2.withBody = (IF ~follows /\ closes /\ p.withBody THEN FALSE ELSE p.withBody)
            /\ p2.prefix = (IF ~follows /\ ~(closes /\ p.withBody) THEN FALSE ELSE p.prefix)
        BY <1>0, <1>4, <4>1
      <4>3. /\ q2.withBody = (IF ~follows /\ closes /\ q.withBody THEN FALSE ELSE q.withBody)
            /\ q2.prefix = (IF ~follows /\ ~(closes /\ q.withBody) THEN FALSE ELSE q.prefix)
        BY <1>0, <1>4, <4>1
      <4> QED
        BY <3>1, <4>2, <4>3
    <3>3. CASE ~startsP
      BY <1>1, <1>2, <2>2, <3>1, <3>3
    <3> QED
      BY <3>2, <3>3
  <2> QED
    BY <1>6, <2>1, <2>2 DEF Traced
<1> QED
  BY <1>7, <1>8

-----------------------------------------------------------------------------
\* A quoted name is called under both or under neither, but for the safe functions
\* that were added.
LEMMA QuotedTraced ==
  ASSUME Compared, NEW i, NEW p, NEW q, Traced(p, q), NEW p2, NEW q2,
         p2 = IF IsCall(Toks, i) /\ ~safe(Base, call.engine, Toks, i) THEN escalate(p, qualifiedName(Toks, i)) ELSE p,
         q2 = IF IsCall(Toks, i) /\ ~safe(gate, call.engine, Toks, i) THEN escalate(q, qualifiedName(Toks, i)) ELSE q
  PROVE  Traced(p2, q2)
<1> DEFINE name == qualifiedName(Toks, i)
<1>1. Untyped(p) /\ Untyped(q)
  BY DEF Traced
<1> HIDE DEF name
<1>2. ASSUME NEW a, Untyped(a), NEW b, b = escalate(a, name)
      PROVE  /\ Untyped(b) /\ b.depth = a.depth /\ b.terminal = a.terminal /\ b.withBody = a.withBody
             /\ b.prefix = a.prefix /\ b.unknown = a.unknown \cup {name}
  BY <1>2 DEF escalate, Untyped
<1>3. NoneSafer /\ safe(gate, call.engine, Toks, i) => safe(Base, call.engine, Toks, i)
  BY SameSafe DEF NoneSafer
<1>4. /\ p2 = IF IsCall(Toks, i) /\ ~safe(Base, call.engine, Toks, i) THEN escalate(p, name) ELSE p
      /\ q2 = IF IsCall(Toks, i) /\ ~safe(gate, call.engine, Toks, i) THEN escalate(q, name) ELSE q
  BY DEF name
<1>5. /\ Untyped(p2) /\ p2.depth = p.depth /\ p2.terminal = p.terminal /\ p2.withBody = p.withBody
      /\ p2.prefix = p.prefix
  BY <1>1, <1>2, <1>4
<1>6. /\ Untyped(q2) /\ q2.depth = q.depth /\ q2.withBody = q.withBody /\ q2.prefix = q.prefix
  BY <1>1, <1>2, <1>4
<1>7. NoneSafer /\ p.unknown \subseteq q.unknown => p2.unknown \subseteq q2.unknown
  BY <1>1, <1>2, <1>3, <1>4
<1> QED
  BY <1>5, <1>6, <1>7 DEF Traced

\* A word after its shape: without a change to the rules, a call that is known by
\* the rules in force is known by the baseline.
LEMMA WordTraced ==
  ASSUME Compared, NEW i \in 1 .. Len(Toks), NEW p, NEW q, Traced(p, q), NEW p2, NEW q2,
         p2 = Word(Base, call.engine, Toks, p, i), q2 = Word(gate, call.engine, Toks, q, i), q2.terminal = <<>>
  PROVE  Traced(p2, q2)
<1> DEFINE pa == Shape(Base, call.engine, Toks, p, i)
           qa == Shape(gate, call.engine, Toks, q, i)
           name == qualifiedName(Toks, i)
           callsP == UnknownCall(Base, call.engine, Toks, pa, i)
           callsQ == UnknownCall(gate, call.engine, Toks, qa, i)
<1>0. /\ gate = compile(gate.source) /\ IsRuleset(gate.source) /\ IsRuleset(Baseline) /\ call.engine \in Engines
      /\ Len(Toks) \in Nat
  BY DEF Compared, Asked
<1>1. /\ p2 = IF callsP THEN escalate(pa, name) ELSE pa
      /\ q2 = IF callsQ THEN escalate(qa, name) ELSE qa
  BY DEF Word
<1>2. qa.terminal = <<>> => Traced(pa, qa)
  <2>1. CASE i = 1
    <3> HIDE DEF pa, qa
    <3>1. pa = Shape(Base, call.engine, Toks, p, 1) /\ qa = Shape(gate, call.engine, Toks, q, 1)
      BY <2>1 DEF pa, qa
    <3> QED
      BY <3>1, FirstTraced
  <2>2. CASE i # 1
    <3> HIDE DEF pa, qa
    <3>1. i \in 2 .. Len(Toks)
      BY <1>0, <2>2
    <3>2. pa = Shape(Base, call.engine, Toks, p, i) /\ qa = Shape(gate, call.engine, Toks, q, i)
      BY DEF pa, qa
    <3> QED
      BY <3>1, <3>2, LaterTraced
  <2> QED
    BY <2>1, <2>2
<1>3. ASSUME pa.withBody = qa.withBody, pa.depth = qa.depth, SameRules, NoneSafer, callsP PROVE callsQ
  <2>1. cteName(Toks, pa, i) <=> cteName(Toks, qa, i)
    BY <1>3 DEF cteName
  <2>2. Bare(Toks, i) \in DOMAIN Base.read[call.engine] <=> Bare(Toks, i) \in DOMAIN gate.read[call.engine]
    BY <1>3, SameRead
  <2>3. safe(gate, call.engine, Toks, i) => safe(Base, call.engine, Toks, i)
    BY <1>3, SameSafe DEF NoneSafer
  <2>4. IsWord(Toks, i, gate.nonFunc) => IsWord(Toks, i, Base.nonFunc)
    <3>1. gate.nonFunc = gate.source.nonFunc /\ Base.nonFunc = Baseline.nonFunc
      BY <1>0, CompiledLemma DEF Base
    <3>2. gate.source.nonFunc \ Baseline.nonFunc = {}
      BY <1>3, DiffLemma DEF NoneSafer
    <3> QED
      BY <3>1, <3>2 DEF IsWord
  <2> QED
    <3> HIDE DEF pa, qa
    <3> QED BY <1>3, <2>1, <2>2, <2>3, <2>4 DEF UnknownCall
<1> HIDE DEF pa, qa, callsP, callsQ, name
<1>4. ASSUME NEW a, NEW b, b = escalate(a, name)
      PROVE  /\ Untyped(a) => /\ Untyped(b) /\ b.depth = a.depth /\ b.terminal = a.terminal
                              /\ b.withBody = a.withBody /\ b.prefix = a.prefix /\ b.unknown = a.unknown \cup {name}
  BY <1>4 DEF escalate, Untyped
<1>5. Untyped(qa)
  <2> SUFFICES ASSUME TRUE PROVE Untyped(Shape(gate, call.engine, Toks, q, i))
    BY DEF qa
  <2>1. Untyped(q)
    BY DEF Traced
  <2> QED
    BY <2>1, DeniedLemma DEF Shape, boundary, Untyped
<1>6. qa.terminal = <<>>
  BY <1>1, <1>4, <1>5
<1>7. Traced(pa, qa)
  BY <1>2, <1>6
<1>8. /\ Untyped(p2) /\ p2.depth = pa.depth /\ p2.terminal = pa.terminal /\ p2.withBody = pa.withBody
      /\ p2.prefix = pa.prefix
  BY <1>1, <1>4, <1>7 DEF Traced
<1>9. Untyped(q2) /\ q2.depth = qa.depth /\ q2.withBody = qa.withBody /\ q2.prefix = qa.prefix
  BY <1>1, <1>4, <1>5
<1>10. ASSUME pa.withBody = qa.withBody, SameRules, NoneSafer, pa.unknown \subseteq qa.unknown
       PROVE  p2.unknown \subseteq q2.unknown
  <2>1. pa.depth = qa.depth /\ Untyped(pa) /\ Untyped(qa)
    BY <1>7 DEF Traced
  <2>2. callsP => callsQ
    BY <1>3, <1>10, <2>1
  <2> QED
    BY <1>1, <1>4, <1>10, <2>1, <2>2
<1> QED
  BY <1>7, <1>8, <1>9, <1>10 DEF Traced

\* One token.
LEMMA ReadTraced ==
  ASSUME Compared, NEW i \in 1 .. Len(Toks), NEW p, NEW q, Traced(p, q), NEW p2, NEW q2,
         p2 = Read(Base, call.engine, Toks, p, i), q2 = Read(gate, call.engine, Toks, q, i), q2.terminal = <<>>
  PROVE  Traced(p2, q2)
<1>0. Untyped(p) /\ Untyped(q)
  BY DEF Traced
<1>1. CASE Toks[i].kind = "punct"
  <2>1. p2 = Punct(Toks, p, i) /\ q2 = Punct(Toks, q, i)
    BY <1>1 DEF Read
  <2> QED
    BY <2>1, PunctTraced
<1>2. CASE Toks[i].kind # "punct" /\ ~IsName(Toks, i)
  BY <1>2 DEF Read
<1>3. CASE Toks[i].kind # "punct" /\ IsName(Toks, i)
  <2> DEFINE construct == Names(Toks, i) \cap DOMAIN Base.forbidFunc[call.engine] # {}
             isSafe(c) == IsCall(Toks, i) /\ safe(c, call.engine, Toks, i)
             phrase(c) == Phrases(c, call.engine, Toks, i) # {}
             quoted == Toks[i].kind = "quoted"
  <2>1. Names(Toks, i) \cap DOMAIN gate.forbidFunc[call.engine] = {}
    <3> SUFFICES ASSUME Names(Toks, i) \cap DOMAIN gate.forbidFunc[call.engine] # {} PROVE FALSE
      OBVIOUS
    <3>1. q2 = deny(q, "forbidden-construct", forbiddenFunction(gate, call.engine, Toks, i))
      BY <1>3 DEF Read
    <3>2. q2.terminal # <<>>
      BY <1>0, <3>1, DeniedLemma
    <3> QED
      BY <3>2
  <2>2. ~quoted => isSafe(gate) \/ ~phrase(gate)
    <3> SUFFICES ASSUME ~quoted, ~isSafe(gate), phrase(gate) PROVE FALSE
      OBVIOUS
    <3>1. q2 = deny(q, "forbidden-statement", matchPhrase(gate, call.engine, Toks, i))
      BY <1>3, <2>1 DEF Read
    <3>2. q2.terminal # <<>>
      BY <1>0, <3>1, DeniedLemma
    <3> QED
      BY <3>2
  <2>3. /\ quoted => q2 = IF IsCall(Toks, i) /\ ~safe(gate, call.engine, Toks, i)
                          THEN escalate(q, qualifiedName(Toks, i)) ELSE q
        /\ ~quoted => q2 = Word(gate, call.engine, Toks, q, i)
    BY <1>3, <2>1, <2>2 DEF Read
  <2>4. Untyped(q2) /\ q2.depth = q.depth
    <3>1. Untyped(Shape(gate, call.engine, Toks, q, i)) /\ Shape(gate, call.engine, Toks, q, i).depth = q.depth
      BY <1>0, DeniedLemma DEF Shape, boundary, Untyped
    <3>2. \A a, name : Untyped(a) => Untyped(escalate(a, name)) /\ escalate(a, name).depth = a.depth
      BY DEF escalate, Untyped
    <3> QED
      BY <1>0, <2>3, <3>1, <3>2 DEF Word
  <2>5. CASE construct
    <3>1. p2 = deny(p, "forbidden-construct", forbiddenFunction(Base, call.engine, Toks, i))
      BY <1>3, <2>5 DEF Read
    <3> QED
      BY <2>1, <2>4, <2>5, <3>1, ForbiddenTraced
  <2>6. CASE ~construct /\ quoted
    <3>1. p2 = IF IsCall(Toks, i) /\ ~safe(Base, call.engine, Toks, i) THEN escalate(p, qualifiedName(Toks, i)) ELSE p
      BY <1>3, <2>6 DEF Read
    <3> QED
      BY <2>3, <2>6, <3>1, QuotedTraced
  <2>7. CASE ~construct /\ ~quoted /\ ~isSafe(Base) /\ phrase(Base)
    <3>1. p2 = deny(p, "forbidden-statement", matchPhrase(Base, call.engine, Toks, i))
      BY <1>3, <2>7 DEF Read
    <3>2. Toks[i].kind = "word"
      BY <1>3, <2>7 DEF IsName
    <3> QED
      BY <2>2, <2>4, <2>7, <3>1, <3>2, PhraseTraced
  <2>8. CASE ~construct /\ ~quoted /\ (isSafe(Base) \/ ~phrase(Base))
    <3>1. p2 = Word(Base, call.engine, Toks, p, i)
      BY <1>3, <2>8 DEF Read
    <3> QED
      BY <2>3, <2>8, <3>1, WordTraced
  <2> QED
    BY <2>5, <2>6, <2>7, <2>8
<1> QED
  BY <1>1, <1>2, <1>3

-----------------------------------------------------------------------------
\* The walks of the baseline and of the rules in force over all the tokens.
LEMMA TracedWalks ==
  ASSUME Compared, NEW a, NEW b, a = Seen(Base, call.engine, Toks), b = Seen(gate, call.engine, Toks),
         b.terminal = <<>>
  PROVE  Traced(a, b)
<1>0. Asked /\ Len(Toks) \in Nat
  BY DEF Compared, Asked
<1>1. PICK v : IsWalk(v, Base, call.engine, Toks) /\ a = v[Len(Toks)]
  BY <1>0, WalkLemma
<1>2. PICK w : IsWalk(w, gate, call.engine, Toks) /\ b = w[Len(Toks)]
  BY <1>0, WalkLemma
<1> DEFINE S == {i \in Nat : i <= Len(Toks) => IsSeen(w[i]) /\ (w[i].terminal = <<>> => Traced(v[i], w[i]))}
<1>3. 0 \in S
  <2>1. v[0] = NothingSeen /\ w[0] = NothingSeen
    BY <1>1, <1>2 DEF IsWalk
  <2>2. IsSeen(NothingSeen) /\ Traced(NothingSeen, NothingSeen)
    BY DEF IsSeen, Traced, Untyped, NothingSeen
  <2> QED
    BY <2>1, <2>2
<1>4. ASSUME NEW i \in Nat, i \in S PROVE i + 1 \in S
  <2>1. SUFFICES ASSUME i + 1 <= Len(Toks)
                 PROVE  IsSeen(w[i + 1]) /\ (w[i + 1].terminal = <<>> => Traced(v[i + 1], w[i + 1]))
    OBVIOUS
  <2>2. i + 1 \in 1 .. Len(Toks) /\ (i + 1) - 1 = i
    BY <1>0, <2>1
  <2>3. /\ v[i + 1] = Read(Base, call.engine, Toks, v[i], i + 1)
        /\ w[i + 1] = Read(gate, call.engine, Toks, w[i], i + 1)
    BY <1>1, <1>2, <2>2 DEF IsWalk
  <2>4. IsSeen(w[i]) /\ (w[i].terminal = <<>> => Traced(v[i], w[i]))
    BY <1>0, <1>4, <2>1
  <2>5. IsSeen(w[i + 1]) /\ (w[i].terminal # <<>> => w[i + 1].terminal # <<>>)
    <3>1. Advances(w[i], w[i + 1], i + 1)
      BY <1>0, <2>2, <2>3, <2>4, TokenStep
    <3> QED
      BY <3>1 DEF Advances
  <2>6. ASSUME w[i + 1].terminal = <<>> PROVE Traced(v[i + 1], w[i + 1])
    <3>1. Traced(v[i], w[i])
      BY <2>4, <2>5, <2>6
    <3> QED
      BY <2>2, <2>3, <2>6, <3>1, ReadTraced
  <2> QED
    BY <2>5, <2>6
<1>5. Len(Toks) \in S
  <2> HIDE DEF S
  <2> QED BY <1>0, <1>3, <1>4, SetInduction
<1> QED
  BY <1>1, <1>2, <1>5

LEMMA AnalyseLemma ==
  ASSUME NEW c, NEW e, NEW toks, toks[1].kind = "word", NEW grants
  PROVE  analyse(c, e, toks, grants) = Decided(Seen(c, e, toks), grants)
<1> DEFINE a == Seen(c, e, toks)
<1>1. analyse(c, e, toks, grants) = The({Decided(b, grants) : b \in {a}})
  BY DEF analyse
<1> HIDE DEF a
<1>2. {Decided(b, grants) : b \in {a}} = {Decided(a, grants)}
  OBVIOUS
<1>3. analyse(c, e, toks, grants) = Decided(a, grants)
  BY <1>1, <1>2, TheLemma
<1> QED
  BY <1>3 DEF a

LEMMA DeniedFields == \A reason, rule : Denied(reason, rule).reason = reason /\ Denied(reason, rule).rule = rule
<1> SUFFICES ASSUME NEW reason, NEW rule PROVE Denied(reason, rule).reason = reason /\ Denied(reason, rule).rule = rule
  OBVIOUS
<1> QED
  BY DEF Denied, Decision

LEMMA UndeniedLemma ==
  ASSUME NEW a, a.terminal = <<>>, a.depth = 0, NEW grants
  PROVE  Decided(a, grants).verdict = IF a.unknown \ grants = {} THEN "allow" ELSE "needs-approval"
BY DEF Decided, Decision

\* What the rules in force do not deny and the baseline does is in the diff, and so
\* is what they allow and the baseline does not without an approval.
LEMMA LoosenedLemma ==
  ASSUME call.engine \in Engines, call.statement \in Statements,
         IsRuleset(gate.source), gate = compile(gate.source), Unique(gate.source),
         IsRuleset(Baseline), Unique(Baseline),
         NEW was, was = Validate(Base, call.engine, call.statement, call.grants),
         NEW now, now = Validate(gate, call.engine, call.statement, call.grants), now.verdict # "deny"
  PROVE  /\ was.verdict = "deny" => Accounted(was.reason, was.rule, Diff)
         /\ was.verdict = "needs-approval" /\ now.verdict = "allow" =>
              \/ Diff.keywordsAdded # {} \/ Diff.safeAdded[call.engine] # {}
              \/ Diff.added \cup Diff.removed \cup Diff.replaced # {}
<1> DEFINE a == Seen(Base, call.engine, Toks)
           b == Seen(gate, call.engine, Toks)
<1>1. \A reason, rule : Denied(reason, rule).verdict = "deny"
  BY DEF Denied, Decision
<1>2. Toks \in Seq(TokenType)
  BY StatementsAssumption DEF Toks
<1>3. /\ ~(call.statement.bytes > gate.source.maxBytes)
      /\ Toks # Unreadable /\ Toks # <<>>
      /\ now = analyse(gate, call.engine, Toks, call.grants)
  <2>1. Validate(gate, call.engine, call.statement, call.grants).verdict # "deny"
    OBVIOUS
  <2>2. ~(call.statement.bytes > gate.source.maxBytes) /\ Toks # Unreadable /\ Toks # <<>>
    BY <1>1, <2>1 DEF Validate, Toks
  <2> QED
    BY <2>2 DEF Validate, Toks
<1>4. Toks[1].kind = "word"
  BY <1>1, <1>3 DEF analyse
<1>5. Compared
  BY <1>2, <1>3, <1>4 DEF Asked, Compared
<1>6. Base.source = Baseline
  BY CompiledIsAGate DEF Base
<1>7. CASE call.statement.bytes > Baseline.maxBytes
  <2>1. was = Denied("statement-too-long", "")
    BY <1>6, <1>7 DEF Validate
  <2>2. gate.source.maxBytes # Baseline.maxBytes
    BY <1>3, <1>7
  <2>3. Diff.bytes = "changed"
    BY <2>2, DiffLemma
  <2>4. Accounted("statement-too-long", "", Diff)
    BY <2>3 DEF Accounted
  <2>5. was.reason = "statement-too-long" /\ was.rule = ""
    <3>1. /\ Denied("statement-too-long", "").reason = "statement-too-long"
          /\ Denied("statement-too-long", "").rule = ""
      BY DeniedFields, Zenon
    <3> QED
      BY <2>1, <3>1, Zenon
  <2>6. was.verdict = "deny"
    BY <1>1, <2>1
  <2> QED
    BY <2>4, <2>5, <2>6
<1>8. CASE ~(call.statement.bytes > Baseline.maxBytes)
  <2>1. was = analyse(Base, call.engine, Toks, call.grants)
    BY <1>3, <1>6, <1>8 DEF Validate, Toks
  <2>2. was = Decided(a, call.grants) /\ now = Decided(b, call.grants)
    BY <1>3, <1>4, <2>1, AnalyseLemma
  <2> HIDE DEF a, b
  <2>3. b.terminal = <<>> /\ b.depth = 0
    BY <1>1, <2>2 DEF Decided
  <2>4. Traced(a, b)
    <3>1. a = Seen(Base, call.engine, Toks) /\ b = Seen(gate, call.engine, Toks)
      BY DEF a, b
    <3> QED
      BY <1>5, <2>3, <3>1, TracedWalks
  <2>5. CASE a.terminal # <<>>
    <3>1. was = Denied(a.terminal[1].reason, a.terminal[1].rule)
      BY <2>2, <2>5 DEF Decided
    <3>2. was.verdict = "deny" /\ was.reason = a.terminal[1].reason /\ was.rule = a.terminal[1].rule
      BY <3>1 DEF Denied, Decision
    <3>3. Accounted(a.terminal[1].reason, a.terminal[1].rule, Diff)
      BY <2>4, <2>5 DEF Traced
    <3> QED
      BY <3>2, <3>3
  <2>6. CASE a.terminal = <<>>
    <3>1. a.depth = 0
      BY <2>3, <2>4 DEF Traced
    <3>2. was.verdict = IF a.unknown \ call.grants = {} THEN "allow" ELSE "needs-approval"
      BY <2>2, <2>6, <3>1, UndeniedLemma
    <3>3. now.verdict = IF b.unknown \ call.grants = {} THEN "allow" ELSE "needs-approval"
      BY <2>2, <2>3, UndeniedLemma
    <3>4. ASSUME was.verdict = "needs-approval", now.verdict = "allow", SameRules, NoneSafer PROVE FALSE
      <4>1. a.unknown \subseteq b.unknown
        BY <2>4, <2>6, <3>4 DEF Traced
      <4>2. a.unknown \ call.grants # {} /\ b.unknown \ call.grants = {}
        BY <3>2, <3>3, <3>4
      <4> QED
        BY <4>1, <4>2
    <3>5. was.verdict # "deny"
      BY <3>2
    <3> QED
      BY <3>4, <3>5 DEF SameRules, NoneSafer
  <2> QED
    BY <2>5, <2>6
<1> QED
  BY <1>7, <1>8

-----------------------------------------------------------------------------
(* What the log says is the diff of the rules in force against the baseline.    *)
LogInv ==
  gate # NoGate =>
    /\ loaded.diff = DiffAgainstBaseline(Baseline, gate.source)
    /\ validate(gate.source)

LEMMA InstallLogs ==
  ASSUME NEW ov \in Overlays \cup {NoOverlay}, loads(ov), Install(ov)
  PROVE  LogInv'
<1>1. gate' = loadRules(ov) /\ loaded' = logGateLoad(gate', ov)
  BY DEF Install
<1>2. loaded'.diff = DiffAgainstBaseline(Baseline, gate'.source)
  BY <1>1 DEF logGateLoad
<1>3. CASE ov = NoOverlay
  <2>1. gate' = compile(Baseline)
    BY <1>1, <1>3 DEF loadRules
  <2> QED
    BY <1>2, <2>1, CompiledIsAGate, BaselineAssumption DEF LogInv
<1>4. CASE ov # NoOverlay
  <2>1. gate' = compile(Merged(Baseline, ov)) /\ validate(Merged(Baseline, ov))
    BY <1>1, <1>4 DEF loadRules, loads, mergeable
  <2> QED
    BY <1>2, <2>1, CompiledIsAGate DEF LogInv
<1> QED
  BY <1>3, <1>4

LEMMA NextLogs == LogInv /\ [Next]_vars => LogInv'
<1> SUFFICES ASSUME LogInv, [Next]_vars PROVE LogInv'
  OBVIOUS
<1>1. ASSUME NEW ov \in Overlays \cup {NoOverlay}, New(ov) \/ reloadGate(ov) PROVE LogInv'
  <2>1. CASE loads(ov)
    BY <1>1, <2>1, InstallLogs DEF New, reloadGate
  <2>2. CASE ~loads(ov)
    BY <1>1, <2>2 DEF New, reloadGate, LogInv
  <2> QED
    BY <2>1, <2>2
<1>2. ASSUME UNCHANGED <<gate, loaded>> PROVE LogInv'
  BY <1>2 DEF LogInv
<1>3. ASSUME NEW e, NEW st, NEW grants, Ask(e, st, grants) PROVE LogInv'
  BY <1>2, <1>3 DEF Ask
<1>4. CASE Approve
  BY <1>2, <1>4 DEF Approve
<1>5. ASSUME NEW result, executeQuery(result) PROVE LogInv'
  BY <1>2, <1>5 DEF executeQuery
<1>6. ASSUME NEW e, NEW read, SearchSchema(e, read) PROVE LogInv'
  BY <1>2, <1>6 DEF SearchSchema
<1>7. ASSUME NEW e, NEW d, DescribeTable(e, d) PROVE LogInv'
  BY <1>2, <1>7 DEF DescribeTable
<1>8. CASE Done
  BY <1>2, <1>8 DEF Done
<1>9. CASE UNCHANGED vars
  BY <1>2, <1>9 DEF vars
<1> QED
  BY <1>1, <1>3, <1>4, <1>5, <1>6, <1>7, <1>8, <1>9 DEF Next

LEMMA InvImpliesLogged == IInv /\ LogInv => LooseningIsLogged
<1> SUFFICES ASSUME IInv, LogInv, call.stage = "decided", ~call.stale PROVE LooseningIsLogged
  BY DEF LooseningIsLogged
<1>1. /\ call.engine \in Engines /\ call.statement \in Statements /\ gate # NoGate
      /\ IsRuleset(gate.source) /\ gate = compile(gate.source)
      /\ call.decision = Validate(gate, call.engine, call.statement, call.grants)
  BY DEF IInv, GateInv, CallInv
<1>2. loaded.diff = Diff /\ validate(gate.source) /\ validate(Baseline)
  BY <1>1, BaselineAssumption DEF LogInv, Diff
<1>3. Unique(gate.source) /\ Unique(Baseline)
  BY <1>2 DEF validate, Unique
<1>4. IsRuleset(Baseline)
  <2>1. \A k \in 1 .. 3 : Groups(Baseline)[k] \in Seq(RuleType)
    BY RulesetsAssumption
  <2>2. Groups(Baseline)[1] = Baseline.read /\ Groups(Baseline)[2] = Baseline.forbidden
        /\ Groups(Baseline)[3] = Baseline.forbidFunc
    BY DEF Groups
  <2> QED
    BY <2>1, <2>2 DEF IsRuleset
<1> DEFINE was == Validate(Base, call.engine, call.statement, call.grants)
<1>5. call.decision.verdict # "deny" =>
        /\ was.verdict = "deny" => Accounted(was.reason, was.rule, loaded.diff)
        /\ was.verdict = "needs-approval" /\ call.decision.verdict = "allow" =>
             \/ loaded.diff.keywordsAdded # {} \/ loaded.diff.safeAdded[call.engine] # {}
             \/ loaded.diff.added \cup loaded.diff.removed \cup loaded.diff.replaced # {}
  <2> SUFFICES ASSUME call.decision.verdict # "deny"
               PROVE  /\ was.verdict = "deny" => Accounted(was.reason, was.rule, Diff)
                      /\ was.verdict = "needs-approval" /\ call.decision.verdict = "allow" =>
                           \/ Diff.keywordsAdded # {} \/ Diff.safeAdded[call.engine] # {}
                           \/ Diff.added \cup Diff.removed \cup Diff.replaced # {}
    BY <1>2
  <2> HIDE DEF was
  <2>1. was = Validate(Base, call.engine, call.statement, call.grants)
    BY DEF was
  <2> QED
    BY <1>1, <1>3, <1>4, <2>1, LoosenedLemma
<1>6. was = Validate(compile(Baseline), call.engine, call.statement, call.grants)
  BY DEF Base
<1> HIDE DEF was
<1> QED
  BY <1>5, <1>6 DEF LooseningIsLogged

\* Whatever an overlay changes, the log of its load shows it: every statement that
\* the baseline denies and the rules in force do not has its reason in the diff
\* that was logged when they were loaded, and so has every statement that no
\* longer waits for an approval (DiffAgainstBaseline and logGateLoad of
\* mcp/overlay.go, Validate of gate.go).
THEOREM LooseningsAreLogged == Spec => []LooseningIsLogged
<1>1. Init => IInv /\ LogInv
  BY InitHolds DEF Init, LogInv
<1>2. IInv /\ [Next]_vars => IInv'
  BY NextHolds
<1>3. LogInv /\ [Next]_vars => LogInv'
  BY NextLogs
<1>4. IInv /\ LogInv => LooseningIsLogged
  BY InvImpliesLogged
<1> QED
  BY <1>1, <1>2, <1>3, <1>4, PTL DEF Spec

-----------------------------------------------------------------------------
(* What recursion over a sequence yields: a function with the first value at 0  *)
(* and the step of the value before at every other number.                      *)

LEMMA OnceLemma == \A x : Once({x}) = x
  BY DEF Once

Follows(f, n, a, step) == f[0] = a /\ \A i \in 1 .. n : f[i] = step[i][f[i - 1]]
Solvable(S, n, a, step) == \E f \in [0 .. n -> S] : Follows(f, n, a, step)

\* There is such a function.
LEMMA RecursionLemma ==
  ASSUME NEW S, NEW a \in S, NEW n \in Nat, NEW step \in [1 .. n -> [S -> S]]
  PROVE  Solvable(S, n, a, step)
<1> DEFINE Lengths == {m \in Nat : m <= n => Solvable(S, m, a, step)}
<1>1. 0 \in Lengths
  <2> DEFINE f == [i \in 0 .. 0 |-> a]
  <2>1. f \in [0 .. 0 -> S] /\ Follows(f, 0, a, step)
    BY DEF Follows
  <2> HIDE DEF f
  <2> QED BY <2>1 DEF Solvable
<1>2. ASSUME NEW m \in Nat, m \in Lengths PROVE m + 1 \in Lengths
  <2>1. SUFFICES ASSUME m + 1 <= n PROVE Solvable(S, m + 1, a, step)
    OBVIOUS
  <2>2. PICK f \in [0 .. m -> S] : Follows(f, m, a, step)
    BY <1>2, <2>1 DEF Solvable
  <2> DEFINE g == [i \in 0 .. m + 1 |-> IF i = m + 1 THEN step[m + 1][f[m]] ELSE f[i]]
  <2>3. step[m + 1][f[m]] \in S
    BY <2>1
  <2>4. g \in [0 .. m + 1 -> S]
    BY <2>3
  <2>5. g[0] = a
    BY <2>2 DEF Follows
  <2>6. ASSUME NEW i \in 1 .. m + 1 PROVE g[i] = step[i][g[i - 1]]
    <3>1. CASE i = m + 1
      <4>1. g[i] = step[m + 1][f[m]] /\ g[m] = f[m] /\ i - 1 = m
        BY <3>1
      <4> HIDE DEF g
      <4> QED BY <3>1, <4>1
    <3>2. CASE i \in 1 .. m
      <4>1. g[i] = f[i] /\ g[i - 1] = f[i - 1]
        BY <3>2
      <4>2. f[i] = step[i][f[i - 1]]
        BY <3>2, <2>2 DEF Follows
      <4> QED BY <4>1, <4>2
    <3> QED
      BY <3>1, <3>2
  <2> HIDE DEF g
  <2> QED
    BY <2>4, <2>5, <2>6 DEF Solvable, Follows
<1>3. n \in Lengths
  <2> HIDE DEF Lengths
  <2> QED BY <1>1, <1>2, SetInduction
<1> QED
  BY <1>3

\* A function that solves such an equation has its values in S.
LEMMA SolutionLemma ==
  ASSUME NEW S, NEW a \in S, NEW n \in Nat, NEW f,
         f[0] = a, \A i \in 1 .. n : f[i - 1] \in S => f[i] \in S
  PROVE  \A i \in 0 .. n : f[i] \in S
<1> DEFINE Lengths == {m \in Nat : m <= n => f[m] \in S}
<1>1. 0 \in Lengths
  OBVIOUS
<1>2. ASSUME NEW m \in Nat, m \in Lengths PROVE m + 1 \in Lengths
  <2>1. SUFFICES ASSUME m + 1 <= n PROVE f[m + 1] \in S
    OBVIOUS
  <2>2. m + 1 \in 1 .. n /\ (m + 1) - 1 = m /\ f[m] \in S
    BY <1>2, <2>1
  <2> QED
    BY <2>2
<1>3. Nat \subseteq Lengths
  <2> HIDE DEF Lengths
  <2> QED BY <1>1, <1>2, SetInduction
<1> QED
  BY <1>3

-----------------------------------------------------------------------------
(* Sums of sizes.                                                               *)
LEMMA SumsLemma ==
  ASSUME NEW sizes \in Seq(Int)
  PROVE  /\ Sums(sizes)[0] = 0
         /\ \A n \in 1 .. Len(sizes) : Sums(sizes)[n] = Sums(sizes)[n - 1] + sizes[n]
         /\ \A n \in 0 .. Len(sizes) : Sums(sizes)[n] \in Int
<1> DEFINE n == Len(sizes)
           step == [i \in 1 .. n |-> [x \in Int |-> x + sizes[i]]]
           F(f) == [i \in 0 .. n |-> IF i = 0 THEN 0 ELSE f[i - 1] + sizes[i]]
<1>1. n \in Nat /\ step \in [1 .. n -> [Int -> Int]] /\ 0 \in Int
  OBVIOUS
<1>2. PICK f \in [0 .. n -> Int] : Follows(f, n, 0, step)
  <2> HIDE DEF step, n
  <2>1. Solvable(Int, n, 0, step)
    BY <1>1, RecursionLemma, Zenon
  <2> QED BY <2>1 DEF Solvable
<1>3. f = F(f)
  <2>1. ASSUME NEW i \in 0 .. n PROVE f[i] = IF i = 0 THEN 0 ELSE f[i - 1] + sizes[i]
    <3>1. CASE i \in 1 .. n
      <4>1. f[i - 1] \in Int /\ f[i] = step[i][f[i - 1]]
        <5> HIDE DEF step, F
        <5>1. i - 1 \in 0 .. n
          BY <3>1
        <5> QED BY <1>2, <3>1, <5>1 DEF Follows
      <4> QED BY <3>1, <4>1
    <3> QED BY <1>2, <3>1 DEF Follows
  <2>2. f = [i \in 0 .. n |-> f[i]]
    BY <1>2
  <2> QED
    BY <2>1, <2>2
<1> DEFINE sum == CHOOSE g : g = F(g)
<1>4. sum = F(sum)
  <2> HIDE DEF F
  <2> QED BY <1>3
<1>5. Sums(sizes) = sum
  BY DEF Sums
<1>6. sum[0] = 0 /\ \A i \in 1 .. n : sum[i] = sum[i - 1] + sizes[i]
  <2> HIDE DEF sum
  <2> QED BY <1>4, <1>1
<1> HIDE DEF sum
<1>7. \A i \in 0 .. n : sum[i] \in Int
  <2>1. \A i \in 1 .. n : sum[i - 1] \in Int => sum[i] \in Int
    BY <1>6
  <2>2. 0 \in Int
    OBVIOUS
  <2> HIDE DEF n
  <2> QED BY <1>1, <1>6, <2>1, <2>2, SolutionLemma
<1> QED
  BY <1>5, <1>6, <1>7

\* Sums of the same sizes are the same.
LEMMA SumsAgree ==
  ASSUME NEW s \in Seq(Int), NEW t \in Seq(Int), NEW m \in Nat, m <= Len(s), m <= Len(t),
         \A i \in 1 .. m : s[i] = t[i]
  PROVE  Sums(s)[m] = Sums(t)[m]
<1> DEFINE Lengths == {n \in Nat : n <= m => Sums(s)[n] = Sums(t)[n]}
<1>1. 0 \in Lengths
  BY SumsLemma
<1>2. ASSUME NEW n \in Nat, n \in Lengths PROVE n + 1 \in Lengths
  <2>1. SUFFICES ASSUME n + 1 <= m PROVE Sums(s)[n + 1] = Sums(t)[n + 1]
    OBVIOUS
  <2>2. n + 1 \in 1 .. Len(s) /\ n + 1 \in 1 .. Len(t) /\ n + 1 \in 1 .. m /\ (n + 1) - 1 = n
    BY <2>1
  <2>3. Sums(s)[n + 1] = Sums(s)[n] + s[n + 1]
    BY <2>2, SumsLemma
  <2>4. Sums(t)[n + 1] = Sums(t)[n] + t[n + 1]
    BY <2>2, SumsLemma
  <2> QED
    BY <1>2, <2>1, <2>2, <2>3, <2>4
<1> HIDE DEF Lengths
<1>3. m \in Lengths
  BY <1>1, <1>2, SetInduction
<1> QED
  BY <1>3 DEF Lengths

\* So the sum of a beginning is that of its sizes.
LEMMA TotalPrefix ==
  ASSUME NEW s \in Seq(Int), NEW m \in 0 .. Len(s)
  PROVE  Total(SubSeq(s, 1, m)) = Sums(s)[m]
<1> DEFINE t == SubSeq(s, 1, m)
<1>1. t \in Seq(Int) /\ Len(t) = m /\ \A i \in 1 .. m : t[i] = s[i]
  OBVIOUS
<1> HIDE DEF t
<1>2. Sums(t)[m] = Sums(s)[m]
  BY <1>1, SumsAgree
<1>3. Total(t) = Sums(t)[m]
  BY <1>1 DEF Total
<1> QED
  BY <1>2, <1>3 DEF t

LEMMA TotalAppend ==
  ASSUME NEW s \in Seq(Int), NEW x \in Int
  PROVE  Total(Append(s, x)) = Total(s) + x
<1> DEFINE t == Append(s, x)
           n == Len(s)
<1>1. t \in Seq(Int) /\ Len(t) = n + 1 /\ t[n + 1] = x /\ n \in Nat /\ \A i \in 1 .. n : t[i] = s[i]
  OBVIOUS
<1> HIDE DEF t
<1>2. Sums(t)[n + 1] = Sums(t)[n] + x
  <2>1. n + 1 \in 1 .. Len(t) /\ (n + 1) - 1 = n
    BY <1>1
  <2>2. Sums(t)[n + 1] = Sums(t)[(n + 1) - 1] + t[n + 1]
    BY <1>1, <2>1, SumsLemma
  <2> QED
    BY <2>1, <2>2, <1>1
<1>3. Sums(t)[n] = Sums(s)[n]
  <2>1. n <= Len(s) /\ n <= Len(t) /\ n \in Nat
    BY <1>1
  <2> HIDE DEF n
  <2> QED BY <1>1, <2>1, SumsAgree
<1> QED
  BY <1>1, <1>2, <1>3 DEF Total, t

\* One size that changes changes the sum by as much.
LEMMA TotalChange ==
  ASSUME NEW s \in Seq(Int), NEW t \in Seq(Int), NEW k \in 1 .. Len(s), Len(t) = Len(s),
         \A i \in 1 .. Len(s) : i # k => t[i] = s[i]
  PROVE  Total(t) = Total(s) - s[k] + t[k]
<1> DEFINE Lengths == {n \in Nat : n <= Len(s) => Sums(t)[n] = Sums(s)[n] + (IF n >= k THEN t[k] - s[k] ELSE 0)}
<1>1. 0 \in Lengths
  <2>1. Sums(s)[0] = 0 /\ Sums(t)[0] = 0 /\ ~(0 >= k)
    BY SumsLemma
  <2> QED BY <2>1
<1>2. ASSUME NEW n \in Nat, n \in Lengths PROVE n + 1 \in Lengths
  <2>1. SUFFICES ASSUME n + 1 <= Len(s)
                 PROVE  Sums(t)[n + 1] = Sums(s)[n + 1] + (IF n + 1 >= k THEN t[k] - s[k] ELSE 0)
    OBVIOUS
  <2>2. n + 1 \in 1 .. Len(s) /\ (n + 1) - 1 = n /\ n \in 0 .. Len(s)
    BY <2>1
  <2>3. Sums(s)[n + 1] = Sums(s)[n] + s[n + 1]
    BY <2>2, SumsLemma
  <2>4. Sums(t)[n + 1] = Sums(t)[n] + t[n + 1]
    BY <2>2, SumsLemma
  <2>5. Sums(s)[n] \in Int /\ Sums(t)[n] \in Int
    BY <2>2, SumsLemma
  <2>6. s[n + 1] \in Int /\ t[n + 1] \in Int /\ s[k] \in Int /\ t[k] \in Int
    BY <2>2
  <2>7. Sums(t)[n] = Sums(s)[n] + (IF n >= k THEN t[k] - s[k] ELSE 0)
    BY <1>2, <2>1
  <2>8. n + 1 # k => t[n + 1] = s[n + 1]
    BY <2>2
  <2> HIDE DEF Lengths
  <2>9. CASE n + 1 = k
    BY <2>3, <2>4, <2>5, <2>6, <2>7, <2>9
  <2>10. CASE n + 1 # k
    <3>1. t[n + 1] = s[n + 1]
      BY <2>8, <2>10
    <3>2. CASE n >= k
      <4>1. n + 1 >= k
        BY <3>2
      <4>2. Sums(t)[n] = Sums(s)[n] + (t[k] - s[k])
        BY <2>7, <3>2
      <4>3. Sums(t)[n + 1] = Sums(s)[n + 1] + (t[k] - s[k])
        BY <2>3, <2>4, <2>5, <2>6, <3>1, <4>2
      <4> QED BY <4>1, <4>3
    <3>3. CASE ~(n >= k)
      <4>1. ~(n + 1 >= k)
        BY <3>3, <2>10
      <4> QED BY <2>3, <2>4, <2>5, <2>6, <2>7, <3>1, <3>3, <4>1
    <3> QED BY <3>2, <3>3
  <2> QED
    BY <2>9, <2>10
<1> HIDE DEF Lengths
<1>3. Len(s) \in Lengths
  <2>1. Len(s) \in Nat
    OBVIOUS
  <2> QED BY <1>1, <1>2, <2>1, SetInduction
<1>4. Sums(t)[Len(s)] = Sums(s)[Len(s)] + (t[k] - s[k])
  BY <1>3 DEF Lengths
<1>5. Sums(s)[Len(s)] \in Int /\ s[k] \in Int /\ t[k] \in Int
  BY SumsLemma
<1> QED
  BY <1>4, <1>5 DEF Total

\* Sums of sizes that are not negative grow.
LEMMA SumsGrow ==
  ASSUME NEW s \in Seq(Nat)
  PROVE  /\ \A n \in 0 .. Len(s) : Sums(s)[n] \in Nat
         /\ \A m, n \in 0 .. Len(s) : m <= n => Sums(s)[m] <= Sums(s)[n]
<1> DEFINE Lengths == {n \in Nat : n <= Len(s) => Sums(s)[n] \in Nat /\ \A m \in 0 .. n : Sums(s)[m] <= Sums(s)[n]}
<1>0. s \in Seq(Int)
  OBVIOUS
<1>1. 0 \in Lengths
  BY <1>0, SumsLemma
<1>2. ASSUME NEW n \in Nat, n \in Lengths PROVE n + 1 \in Lengths
  <2>1. SUFFICES ASSUME n + 1 <= Len(s)
                 PROVE  Sums(s)[n + 1] \in Nat /\ \A m \in 0 .. n + 1 : Sums(s)[m] <= Sums(s)[n + 1]
    OBVIOUS
  <2>2. n + 1 \in 1 .. Len(s) /\ (n + 1) - 1 = n
    BY <2>1
  <2>3. Sums(s)[n + 1] = Sums(s)[n] + s[n + 1]
    BY <1>0, <2>2, SumsLemma
  <2>4. Sums(s)[n] \in Nat /\ s[n + 1] \in Nat /\ \A m \in 0 .. n : Sums(s)[m] <= Sums(s)[n]
    BY <1>2, <2>1, <2>2
  <2>5. ASSUME NEW m \in 0 .. n + 1 PROVE Sums(s)[m] <= Sums(s)[n + 1]
    <3>1. CASE m = n + 1
      BY <3>1, <2>3, <2>4
    <3>2. CASE m \in 0 .. n
      <4>1. Sums(s)[m] \in Int
        BY <1>0, <3>2, <2>1, SumsLemma
      <4> QED BY <3>2, <2>3, <2>4, <4>1
    <3> QED BY <3>1, <3>2
  <2> QED
    BY <2>3, <2>4, <2>5
<1>3. ASSUME NEW n \in 0 .. Len(s) PROVE n \in Lengths
  <2>1. n \in Nat
    OBVIOUS
  <2> HIDE DEF Lengths
  <2> QED BY <1>1, <1>2, <2>1, SetInduction
<1>4. ASSUME NEW n \in 0 .. Len(s) PROVE Sums(s)[n] \in Nat /\ \A m \in 0 .. n : Sums(s)[m] <= Sums(s)[n]
  BY <1>3
<1> HIDE DEF Lengths
<1> QED
  BY <1>4

-----------------------------------------------------------------------------
(* execute_query: the rows that are kept are the most that fit.                 *)
\* The bytes of the first i rows, with a comma before every one but the first.
Prefixed(rows, i) == Sums(rows)[i] + (IF i > 1 THEN i - 1 ELSE 0)

LEMMA PrefixedLemma ==
  ASSUME NEW rows \in Seq(Nat)
  PROVE  /\ Prefixed(rows, 0) = 0
         /\ \A i \in 1 .. Len(rows) : Prefixed(rows, i) = Prefixed(rows, i - 1) + RowBytes(rows, i)
         /\ \A i \in 1 .. Len(rows) : RowBytes(rows, i) \in Nat
         /\ \A i \in 0 .. Len(rows) : Prefixed(rows, i) \in Nat
<1>1. rows \in Seq(Int)
  OBVIOUS
<1>2. Prefixed(rows, 0) = 0
  BY <1>1, SumsLemma DEF Prefixed
<1>3. ASSUME NEW i \in 1 .. Len(rows) PROVE RowBytes(rows, i) \in Nat /\ Prefixed(rows, i) = Prefixed(rows, i - 1) + RowBytes(rows, i)
  <2>1. Sums(rows)[i] = Sums(rows)[i - 1] + rows[i]
    BY <1>1, SumsLemma
  <2>2. Sums(rows)[i - 1] \in Int /\ rows[i] \in Nat
    <3>1. i - 1 \in 0 .. Len(rows)
      OBVIOUS
    <3> QED BY <1>1, <3>1, SumsLemma
  <2>3. CASE i = 1
    BY <2>1, <2>2, <2>3 DEF Prefixed, RowBytes
  <2>4. CASE i > 1
    BY <2>1, <2>2, <2>4 DEF Prefixed, RowBytes
  <2> QED
    BY <2>3, <2>4
<1>4. ASSUME NEW i \in 0 .. Len(rows) PROVE Prefixed(rows, i) \in Nat
  <2>1. Sums(rows)[i] \in Nat
    BY SumsGrow
  <2> QED BY <2>1 DEF Prefixed
<1> QED
  BY <1>2, <1>3, <1>4

MeasureType == [whole : Nat, spent : Nat, kept : Nat]
\* What the measures are after i rows, of the headers before them.
Measuring(s, rows, uncut, cut, i) ==
  /\ s \in MeasureType /\ s.kept <= i
  /\ s.whole <= executeResultBudget => s.whole = uncut + Prefixed(rows, i)
  /\ s.whole > executeResultBudget => uncut + Prefixed(rows, i) > executeResultBudget
  /\ s.spent = cut + Prefixed(rows, s.kept)
  /\ s.kept > 0 => s.spent <= executeResultBudget
  /\ s.kept < i => cut + Prefixed(rows, s.kept + 1) > executeResultBudget

LEMMA MeasuredLemma ==
  ASSUME NEW rows \in Seq(Nat), NEW uncut \in Nat, NEW cut \in Nat, uncut <= cut,
         NEW i \in 1 .. Len(rows), NEW s, Measuring(s, rows, uncut, cut, i - 1)
  PROVE  Measuring(Measured(s, rows, i), rows, uncut, cut, i)
<1> DEFINE cost == RowBytes(rows, i)
           B == executeResultBudget
           P(k) == Prefixed(rows, k)
           t == Measured(s, rows, i)
<1>1. B \in Nat
  BY BudgetsAssumption
<1>2. cost \in Nat /\ P(i) = P(i - 1) + cost /\ P(i) \in Nat /\ P(i - 1) \in Nat
  <2>1. i - 1 \in 0 .. Len(rows) /\ i \in 0 .. Len(rows)
    OBVIOUS
  <2> QED BY <2>1, PrefixedLemma
<1>3. s.whole \in Nat /\ s.spent \in Nat /\ s.kept \in Nat /\ s.kept <= i - 1 /\ i \in Nat /\ i >= 1
  BY DEF Measuring, MeasureType
<1>4. P(s.kept) \in Nat
  BY <1>3, PrefixedLemma
<1> HIDE DEF B
<1>5. /\ s \in MeasureType
      /\ s.whole <= B => s.whole = uncut + P(i - 1)
      /\ s.whole > B => uncut + P(i - 1) > B
      /\ s.spent = cut + P(s.kept)
      /\ s.kept > 0 => s.spent <= B
      /\ s.kept < i - 1 => cut + P(s.kept + 1) > B
  BY DEF Measuring, B
<1> HIDE DEF P
<1>6. SUFFICES /\ t \in MeasureType /\ t.kept <= i
               /\ t.whole <= B => t.whole = uncut + P(i)
               /\ t.whole > B => uncut + P(i) > B
               /\ t.spent = cut + P(t.kept)
               /\ t.kept > 0 => t.spent <= B
               /\ t.kept < i => cut + P(t.kept + 1) > B
  <2> HIDE DEF t
  <2> SUFFICES Measuring(t, rows, uncut, cut, i)
    BY DEF t
  <2> QED BY DEF Measuring, B, P
<1>7. CASE s.whole > B
  <2>1. t = s
    BY <1>7 DEF Measured, B
  <2> HIDE DEF t
  <2>2. uncut + P(i - 1) > B /\ uncut + P(i) > B
    BY <1>5, <1>7, <1>1, <1>2
  <2>3. cut + P(s.kept + 1) > B
    <3>1. CASE s.kept < i - 1
      BY <3>1, <1>5
    <3>2. CASE s.kept = i - 1
      <4>1. s.kept + 1 = i
        BY <3>2
      <4> QED BY <4>1, <2>2, <1>1, <1>2
    <3> QED BY <3>1, <3>2, <1>3
  <2>4. s \in MeasureType /\ s.kept <= i
    BY <1>1, <1>3, <1>5
  <2>5. s.spent = cut + P(s.kept) /\ (s.kept > 0 => s.spent <= B)
    BY <1>5
  <2>6. ~(s.whole <= B)
    BY <1>1, <1>3, <1>7
  <2> QED
    BY <2>1, <2>2, <2>3, <2>4, <2>5, <2>6
<1>8. CASE ~(s.whole > B) /\ s.kept = i - 1 /\ s.spent + cost <= B
  <2>1. t = [whole |-> s.whole + cost, spent |-> s.spent + cost, kept |-> i]
    BY <1>8 DEF Measured, B
  <2> HIDE DEF t, cost
  <2>2. t.whole = s.whole + cost /\ t.spent = s.spent + cost /\ t.kept = i
    BY <2>1
  <2>3. t \in MeasureType
    <3>1. cost \in Nat
      BY <1>2
    <3>2. s.whole + cost \in Nat /\ s.spent + cost \in Nat /\ i \in Nat
      BY <3>1, <1>3
    <3> QED BY <2>1, <3>2 DEF MeasureType
  <2>4. t.whole = uncut + P(i) /\ t.spent = cut + P(i)
    <3>1. s.whole <= B
      BY <1>8, <1>1, <1>3
    <3>2. s.whole = uncut + P(i - 1) /\ s.spent = cut + P(i - 1)
      BY <3>1, <1>5, <1>8
    <3> QED BY <2>2, <3>2, <1>2
  <2> QED
    BY <2>2, <2>3, <2>4, <1>8
<1>9. CASE ~(s.whole > B) /\ ~(s.kept = i - 1 /\ s.spent + cost <= B)
  <2>1. t = [whole |-> s.whole + cost, spent |-> s.spent + 0, kept |-> s.kept]
    BY <1>9 DEF Measured, B
  <2> HIDE DEF t, cost
  <2>2. t.whole = s.whole + cost /\ t.spent = s.spent /\ t.kept = s.kept
    BY <2>1, <1>3
  <2>3. t \in MeasureType
    BY <2>1, <1>3, <1>2 DEF MeasureType
  <2>4. t.whole = uncut + P(i)
    <3>1. s.whole <= B
      BY <1>9, <1>1, <1>3
    <3>2. s.whole = uncut + P(i - 1)
      BY <3>1, <1>5
    <3> QED BY <2>2, <3>2, <1>2
  <2>5. cut + P(s.kept + 1) > B
    <3>1. CASE s.kept < i - 1
      BY <3>1, <1>5
    <3>2. CASE s.kept = i - 1
      <4>1. s.spent + cost > B /\ s.kept + 1 = i
        BY <3>2, <1>9, <1>1, <1>2, <1>3
      <4>2. s.spent + cost = cut + P(i)
        BY <1>5, <3>2, <1>2
      <4> QED BY <4>1, <4>2
    <3> QED BY <3>1, <3>2, <1>3
  <2> QED
    BY <2>2, <2>3, <2>4, <2>5, <1>3, <1>5
<1> QED
  BY <1>7, <1>8, <1>9

\* Of a result the larger header is the one of a cut answer.
LEMMA HeaderLemma ==
  ASSUME NEW columns \in Nat, NEW capped
  PROVE  /\ encodedSizeWithoutRows(columns, TruncationOf(capped, FALSE)) \in Nat
         /\ cutHeader(columns) \in Nat
         /\ encodedSizeWithoutRows(columns, TruncationOf(capped, FALSE)) <= cutHeader(columns)
<1>1. FixedBytes \in Nat
  BY BudgetsAssumption
<1>2. FlagBytes["none"] = 9 /\ FlagBytes["row_cap"] = 11 /\ FlagBytes["byte_budget"] = 15
  BY DEF FlagBytes
<1>3. CASE capped
  BY <1>1, <1>2, <1>3 DEF encodedSizeWithoutRows, cutHeader, TruncationOf
<1>4. CASE ~capped
  BY <1>1, <1>2, <1>4 DEF encodedSizeWithoutRows, cutHeader, TruncationOf
<1> QED
  BY <1>3, <1>4

\* The measures of a result, after every number of its rows.
LEMMA MeasuresLemma ==
  ASSUME NEW result, result.columns \in Nat, result.rows \in Seq(Nat)
  PROVE  Measuring(Measures(result)[Len(result.rows)], result.rows,
                   encodedSizeWithoutRows(result.columns, TruncationOf(result.capped, FALSE)),
                   cutHeader(result.columns), Len(result.rows))
<1> DEFINE rows == result.rows
           n == Len(rows)
           uncut == encodedSizeWithoutRows(result.columns, TruncationOf(result.capped, FALSE))
           cut == cutHeader(result.columns)
           a == [whole |-> uncut, spent |-> cut, kept |-> 0]
           S == MeasureType
           Step(s, i) == Measured(s, rows, i)
           step == [i \in 1 .. n |-> [s \in S |-> Step(s, i)]]
           Again(b, i) == Once({Step(s, i) : s \in {b}})
           F(f) == [i \in 0 .. n |-> IF i = 0 THEN a ELSE Again(f[i - 1], i)]
<1>1. uncut \in Nat /\ cut \in Nat /\ uncut <= cut
  BY HeaderLemma
<1>2. n \in Nat /\ a \in S
  <2> HIDE DEF uncut, cut
  <2> QED BY <1>1 DEF MeasureType
<1>3. \A s, i : Again(s, i) = Step(s, i)
  <2> TAKE s, i
  <2>1. {Step(b, i) : b \in {s}} = {Step(s, i)}
    OBVIOUS
  <2> QED BY <2>1, OnceLemma
<1>4. \A i \in 1 .. n : \A s \in S : Step(s, i) \in S
  <2> TAKE i \in 1 .. n
  <2> TAKE s \in S
  <2>1. RowBytes(rows, i) \in Nat
    BY PrefixedLemma
  <2>2. s.whole \in Nat /\ s.spent \in Nat /\ s.kept \in Nat /\ i \in Nat
    BY DEF MeasureType
  <2> DEFINE cost == RowBytes(rows, i)
  <2>3. s.whole + cost \in Nat /\ s.spent + cost \in Nat /\ s.spent + 0 \in Nat
    BY <2>1, <2>2
  <2> QED
    BY <2>1, <2>2, <2>3 DEF Measured, MeasureType
<1>5. PICK f \in [0 .. n -> S] : Follows(f, n, a, step)
  <2> HIDE DEF Again, Step, a, n, S
  <2>1. step \in [1 .. n -> [S -> S]]
    BY <1>4
  <2> HIDE DEF step
  <2>2. Solvable(S, n, a, step)
    BY <1>2, <2>1, RecursionLemma, Zenon
  <2> QED BY <2>2 DEF Solvable
<1>6. f = F(f)
  <2> HIDE DEF Again, Step, a, n, S
  <2>1. ASSUME NEW i \in 0 .. n PROVE f[i] = IF i = 0 THEN a ELSE Again(f[i - 1], i)
    <3>1. CASE i = 0
      BY <3>1, <1>5 DEF Follows
    <3>2. CASE i # 0
      <4>1. i \in 1 .. n /\ i - 1 \in 0 .. n
        BY <3>2, <1>2
      <4>2. f[i - 1] \in S
        BY <4>1, <1>5
      <4>3. f[i] = step[i][f[i - 1]]
        BY <4>1, <1>5 DEF Follows
      <4>4. f[i] = Step(f[i - 1], i)
        BY <4>1, <4>2, <4>3
      <4> QED BY <4>4, <3>2, <1>3
    <3> QED BY <3>1, <3>2
  <2>2. f = [i \in 0 .. n |-> f[i]]
    BY <1>5
  <2> QED
    BY <2>1, <2>2
<1> DEFINE upTo == CHOOSE g : g = F(g)
<1>7. upTo = F(upTo)
  <2> HIDE DEF F
  <2> QED BY <1>6
<1>8. Measures(result) = upTo
  BY DEF Measures
<1> HIDE DEF upTo
<1>9. upTo[0] = a /\ \A i \in 1 .. n : upTo[i] = Step(upTo[i - 1], i)
  <2> HIDE DEF Again, Step, a, n, S
  <2>1. upTo[0] = a
    BY <1>7, <1>2
  <2>2. ASSUME NEW i \in 1 .. n PROVE upTo[i] = Step(upTo[i - 1], i)
    BY <1>7, <1>2, <1>3
  <2> QED BY <2>1, <2>2
<1> DEFINE Lengths == {m \in Nat : m <= n => Measuring(upTo[m], rows, uncut, cut, m)}
<1>10. 0 \in Lengths
  <2>1. a \in MeasureType /\ a.kept = 0 /\ a.whole = uncut /\ a.spent = cut
    BY <1>2
  <2>2. Prefixed(rows, 0) = 0
    BY PrefixedLemma
  <2> HIDE DEF a
  <2>3. Measuring(a, rows, uncut, cut, 0)
    <3>1. a.whole = uncut + Prefixed(rows, 0) /\ a.spent = cut + Prefixed(rows, a.kept)
      BY <2>1, <2>2, <1>1
    <3>2. ~(a.kept > 0) /\ ~(a.kept < 0) /\ a.kept <= 0
      BY <2>1
    <3>3. a.whole > executeResultBudget => uncut + Prefixed(rows, 0) > executeResultBudget
      BY <3>1
    <3> QED BY <2>1, <3>1, <3>2, <3>3 DEF Measuring
  <2> QED
    BY <2>3, <1>9
<1>11. ASSUME NEW m \in Nat, m \in Lengths PROVE m + 1 \in Lengths
  <2> HIDE DEF n, rows, uncut, cut
  <2>1. SUFFICES ASSUME m + 1 <= n PROVE Measuring(upTo[m + 1], rows, uncut, cut, m + 1)
    OBVIOUS
  <2>2. m + 1 \in 1 .. n /\ (m + 1) - 1 = m /\ m <= n
    BY <2>1, <1>2
  <2>3. Measuring(upTo[m], rows, uncut, cut, m)
    BY <1>11, <2>2
  <2>4. upTo[m + 1] = Measured(upTo[m], rows, m + 1)
    BY <1>9, <2>2
  <2>5. rows \in Seq(Nat)
    BY DEF rows
  <2> QED
    BY <2>2, <2>3, <2>4, <2>5, <1>1, MeasuredLemma DEF n
<1>12. n \in Lengths
  <2> HIDE DEF Lengths, n
  <2> QED BY <1>2, <1>10, <1>11, SetInduction
<1> QED
  BY <1>12, <1>8

\* The size of an answer is its header and the bytes of its rows.
LEMMA EncodedLemma ==
  ASSUME NEW result, result.rows \in Seq(Nat), NEW truncation, NEW n \in 0 .. Len(result.rows),
         encodedSizeWithoutRows(result.columns, truncation) \in Nat
  PROVE  Encoded(result, n, truncation) =
           encodedSizeWithoutRows(result.columns, truncation) + Prefixed(result.rows, n)
<1> DEFINE e == encodedSizeWithoutRows(result.columns, truncation)
           p == Sums(result.rows)[n]
           c == IF n > 1 THEN n - 1 ELSE 0
<1>1. Total(SubSeq(result.rows, 1, n)) = p
  <2>1. result.rows \in Seq(Int)
    OBVIOUS
  <2> QED BY <2>1, TotalPrefix
<1>2. Encoded(result, n, truncation) = e + p + c /\ Prefixed(result.rows, n) = p + c
  BY <1>1 DEF Encoded, Prefixed
<1>3. e \in Nat /\ p \in Nat /\ c \in Nat
  BY SumsGrow
<1> HIDE DEF e, p, c
<1>4. e + p + c = e + (p + c)
  BY <1>3
<1> QED
  BY <1>2, <1>4 DEF e

\* withinByteBudget keeps the most rows that fit, and says when that is not all.
LEMMA QueryAnswerLemma ==
  ASSUME NEW result, result.columns \in Nat, result.rows \in Seq(Nat)
  PROVE  QueryAnswer(result, withinByteBudget(result))
<1> DEFINE rows == result.rows
           n == Len(rows)
           uncut == encodedSizeWithoutRows(result.columns, Uncut(result))
           cut == cutHeader(result.columns)
           s == Measures(result)[n]
           B == executeResultBudget
           P(k) == Prefixed(rows, k)
           out == withinByteBudget(result)
<1>1. uncut \in Nat /\ cut \in Nat /\ uncut <= cut /\ B \in Nat
  BY HeaderLemma, BudgetsAssumption DEF Uncut
<1>2. Measuring(s, rows, uncut, cut, n)
  BY MeasuresLemma DEF Uncut
<1>3. n \in Nat /\ rows \in Seq(Nat)
  OBVIOUS
<1>4. \A k \in 0 .. n : Encoded(result, k, Uncut(result)) = uncut + P(k)
  BY <1>1, EncodedLemma
<1>5. \A k \in 0 .. n : Encoded(result, k, "byte_budget") = cut + P(k)
  <2>1. cut = encodedSizeWithoutRows(result.columns, "byte_budget")
    BY DEF cutHeader
  <2> HIDE DEF cut
  <2> QED BY <1>1, <2>1, EncodedLemma
<1>6. \A k \in 0 .. n : P(k) \in Nat
  BY PrefixedLemma
<1>7. P(0) = 0
  BY PrefixedLemma
<1>8. out = IF s.whole <= B THEN [kept |-> n, truncation |-> Uncut(result)] ELSE [kept |-> s.kept, truncation |-> "byte_budget"]
  BY DEF withinByteBudget, Uncut
<1> HIDE DEF s, uncut, cut, out, n, P
<1>9. /\ s.whole \in Nat /\ s.kept \in 0 .. n
      /\ s.whole <= B => s.whole = uncut + P(n)
      /\ s.whole > B => uncut + P(n) > B
      /\ s.spent = cut + P(s.kept)
      /\ s.kept > 0 => s.spent <= B
      /\ s.kept < n => cut + P(s.kept + 1) > B
  BY <1>2, <1>3 DEF Measuring, MeasureType, P
<1> HIDE DEF B
<1>10. n \in 0 .. n /\ 0 \in 0 .. n
  BY <1>3
<1>11. P(n) \in Nat
  BY <1>6, <1>10
<1>12. CASE s.whole <= B
  <2>1. Encoded(result, n, Uncut(result)) <= B
    BY <1>4, <1>9, <1>10, <1>12
  <2>2. out = [kept |-> n, truncation |-> Uncut(result)]
    BY <1>8, <1>12
  <2> QED
    BY <2>1, <2>2 DEF QueryAnswer, out, B, n
<1>13. CASE ~(s.whole <= B)
  <2>1. s.whole > B
    BY <1>13, <1>9, <1>1
  <2>2. uncut + P(n) > B
    BY <2>1, <1>9
  <2>3. ~(Encoded(result, n, Uncut(result)) <= B)
    BY <2>2, <1>1, <1>4, <1>10, <1>11
  <2>4. out.truncation = "byte_budget" /\ out.kept = s.kept
    BY <1>8, <1>13
  <2>5. out.kept < n \/ Encoded(result, 0, Uncut(result)) > B
    <3>1. SUFFICES ASSUME s.kept = n PROVE Encoded(result, 0, Uncut(result)) > B
      BY <2>4, <1>9, <1>3
    <3>2. CASE n = 0
      BY <3>2, <1>4, <1>7, <1>10, <2>2
    <3>3. CASE n > 0
      <4>1. cut + P(n) <= B
        BY <3>1, <3>3, <1>9
      <4> QED BY <4>1, <2>2, <1>1, <1>11
    <3> QED BY <3>2, <3>3, <1>3
  <2>6. out.kept < n => Encoded(result, out.kept + 1, "byte_budget") > B
    <3>1. SUFFICES ASSUME s.kept < n PROVE Encoded(result, s.kept + 1, "byte_budget") > B
      BY <2>4
    <3>2. s.kept + 1 \in 0 .. n
      BY <3>1, <1>9, <1>3
    <3> QED BY <3>1, <3>2, <1>5, <1>9
  <2>7. out.kept > 0 => Encoded(result, out.kept, "byte_budget") <= B
    BY <2>4, <1>5, <1>9
  <2> QED
    BY <2>3, <2>4, <2>5, <2>6, <2>7 DEF QueryAnswer, out, B, n
<1> QED
  BY <1>12, <1>13

-----------------------------------------------------------------------------
(* The entries of a catalog answer: at most one per table.                      *)
IndexType == [name : NameType, unique : STRING, columns : Seq(NameType)]
EntryType == [table : NameType, columns : Seq(NameType), primaryKey : Seq(NameType), indexes : Seq(IndexType), cut : BOOLEAN]
Entries(es) == es \in Seq(EntryType) /\ \A j, k \in 1 .. Len(es) : es[j].table = es[k].table => j = k
Holds(es, table) == \E k \in 1 .. Len(es) : es[k].table = table

LEMMA EntryIsTyped == \A table \in NameType : Entry(table) \in EntryType
<1> TAKE table \in NameType
<1>1. <<>> \in Seq(NameType) /\ <<>> \in Seq(IndexType)
  OBVIOUS
<1> QED BY <1>1 DEF Entry, EntryType

LEMMA AtLemma ==
  ASSUME NEW es, Entries(es), NEW table
  PROVE  /\ ~Holds(es, table) <=> At(es, table) = {}
         /\ \A k \in 1 .. Len(es) : es[k].table = table => At(es, table) = {k}
<1>1. DOMAIN es = 1 .. Len(es)
  BY DEF Entries
<1> QED BY <1>1 DEF At, Holds, Entries

\* The entry that is found is the one there is, or a new one.
LEMMA FoundOld ==
  ASSUME NEW es, Entries(es), NEW k \in 1 .. Len(es)
  PROVE  Find(es, es[k].table) = es[k]
<1>1. At(es, es[k].table) = {k}
  BY AtLemma
<1>2. (CHOOSE j \in {k} : TRUE) = k
  OBVIOUS
<1> QED BY <1>1, <1>2 DEF Find

LEMMA FoundNew ==
  ASSUME NEW es, Entries(es), NEW table, ~Holds(es, table)
  PROVE  Find(es, table) = Entry(table)
  BY AtLemma DEF Find

LEMMA FoundTyped ==
  ASSUME NEW es, Entries(es), NEW table \in NameType
  PROVE  Find(es, table) \in EntryType /\ Find(es, table).table = table
<1>1. CASE Holds(es, table)
  <2>1. PICK k \in 1 .. Len(es) : es[k].table = table
    BY <1>1 DEF Holds
  <2>2. es[k] \in EntryType
    BY DEF Entries
  <2> QED BY <2>1, <2>2, FoundOld
<1>2. CASE ~Holds(es, table)
  <2>1. Entry(table).table = table
    BY DEF Entry
  <2> QED BY <1>2, <2>1, FoundNew, EntryIsTyped
<1> QED BY <1>1, <1>2

\* An entry that is put replaces the one of its table, or comes last.
LEMMA PutOld ==
  ASSUME NEW es, Entries(es), NEW e \in EntryType, NEW k \in 1 .. Len(es), es[k].table = e.table
  PROVE  /\ Entries(Put(es, e)) /\ Len(Put(es, e)) = Len(es)
         /\ Put(es, e)[k] = e
         /\ \A j \in 1 .. Len(es) : j # k => Put(es, e)[j] = es[j]
         /\ \A j \in 1 .. Len(es) : Put(es, e)[j].table = es[j].table
<1> DEFINE n == Len(es)
           new == [j \in 1 .. n |-> IF es[j].table = e.table THEN e ELSE es[j]]
<1>1. Put(es, e) = new
  <2>1. At(es, e.table) # {}
    BY AtLemma DEF Holds
  <2>2. DOMAIN es = 1 .. Len(es)
    BY DEF Entries
  <2> QED BY <2>1, <2>2 DEF Put
<1>2. \A j \in 1 .. n : es[j] \in EntryType
  BY DEF Entries
<1>3. n \in Nat
  BY DEF Entries
<1>4. new \in Seq(EntryType) /\ Len(new) = n
  <2> HIDE DEF n
  <2>1. \A j \in 1 .. n : (IF es[j].table = e.table THEN e ELSE es[j]) \in EntryType
    BY <1>2
  <2> QED BY <1>3, <2>1
<1>5. new[k] = e
  OBVIOUS
<1>6. \A j \in 1 .. n : j # k => new[j] = es[j]
  BY DEF Entries
<1>7. \A j \in 1 .. n : new[j].table = es[j].table
  BY <1>5, <1>6
<1> HIDE DEF new
<1> QED
  BY <1>1, <1>4, <1>5, <1>6, <1>7 DEF Entries

LEMMA PutNew ==
  ASSUME NEW es, Entries(es), NEW e \in EntryType, ~Holds(es, e.table)
  PROVE  /\ Entries(Put(es, e)) /\ Len(Put(es, e)) = Len(es) + 1
         /\ Put(es, e)[Len(es) + 1] = e
         /\ \A j \in 1 .. Len(es) : Put(es, e)[j] = es[j]
         /\ Put(es, e) = Append(es, e)
<1>1. Put(es, e) = Append(es, e)
  BY AtLemma DEF Put
<1>2. es \in Seq(EntryType)
  BY DEF Entries
<1> DEFINE new == Append(es, e)
<1>3. new \in Seq(EntryType) /\ Len(new) = Len(es) + 1 /\ new[Len(es) + 1] = e /\ \A j \in 1 .. Len(es) : new[j] = es[j]
  BY <1>2
<1> HIDE DEF new
<1>4. ASSUME NEW j \in 1 .. Len(new), NEW k \in 1 .. Len(new), new[j].table = new[k].table PROVE j = k
  <2>1. Len(es) \in Nat
    BY <1>2
  <2>2. CASE j \in 1 .. Len(es) /\ k \in 1 .. Len(es)
    BY <2>2, <1>3, <1>4 DEF Entries
  <2>3. CASE j \in 1 .. Len(es) /\ k = Len(es) + 1
    BY <2>3, <1>3, <1>4 DEF Holds
  <2>4. CASE k \in 1 .. Len(es) /\ j = Len(es) + 1
    BY <2>4, <1>3, <1>4 DEF Holds
  <2> QED
    BY <2>1, <2>2, <2>3, <2>4, <1>3
<1> QED
  BY <1>1, <1>3, <1>4 DEF Entries, new

-----------------------------------------------------------------------------
(* The columns that a read has for a table, and the columns of indexes.         *)
Has(rows, table, counted, n) == rows[n].table = table /\ rows[n] \in counted

LEMMA ColumnsLemma ==
  ASSUME NEW rows, Len(rows) \in Nat, \A n \in 1 .. Len(rows) : rows[n].column \in NameType,
         NEW table, NEW counted
  PROVE  /\ ColumnsUpTo(rows, table, counted)[0] = <<>>
         /\ \A n \in 1 .. Len(rows) :
              /\ Has(rows, table, counted, n) =>
                   ColumnsUpTo(rows, table, counted)[n] = Append(ColumnsUpTo(rows, table, counted)[n - 1], rows[n].column)
              /\ ~Has(rows, table, counted, n) =>
                   ColumnsUpTo(rows, table, counted)[n] = ColumnsUpTo(rows, table, counted)[n - 1]
         /\ \A n \in 0 .. Len(rows) : ColumnsUpTo(rows, table, counted)[n] \in Seq(NameType)
<1> DEFINE n == Len(rows)
           S == Seq(NameType)
           Own(i) == rows[i].table = table /\ rows[i] \in counted
           step == [i \in 1 .. n |-> [s \in S |-> IF Own(i) THEN Append(s, rows[i].column) ELSE s]]
           F(f) == [i \in 0 .. n |-> IF i = 0 THEN <<>> ELSE IF Own(i) THEN Append(f[i - 1], rows[i].column) ELSE f[i - 1]]
<1>1. n \in Nat /\ <<>> \in S
  OBVIOUS
<1>2. \A i \in 1 .. n : \A s \in S : (IF Own(i) THEN Append(s, rows[i].column) ELSE s) \in S
  OBVIOUS
<1> DEFINE empty == <<>>
<1>3. PICK f \in [0 .. n -> S] : Follows(f, n, empty, step)
  <2> HIDE DEF Own, n, S
  <2>1. step \in [1 .. n -> [S -> S]]
    BY <1>2
  <2>2. empty \in S
    BY <1>1
  <2> HIDE DEF step, empty
  <2>3. Solvable(S, n, empty, step)
    BY <1>1, <2>1, <2>2, RecursionLemma, Zenon
  <2> QED BY <2>3 DEF Solvable
<1>4. f = F(f)
  <2> HIDE DEF Own, n, S
  <2>1. ASSUME NEW i \in 0 .. n
        PROVE  f[i] = IF i = 0 THEN <<>> ELSE IF Own(i) THEN Append(f[i - 1], rows[i].column) ELSE f[i - 1]
    <3>1. CASE i = 0
      BY <3>1, <1>3 DEF Follows
    <3>2. CASE i # 0
      <4>1. i \in 1 .. n /\ i - 1 \in 0 .. n
        BY <3>2, <1>1
      <4>2. f[i - 1] \in S
        BY <4>1, <1>3
      <4>3. f[i] = step[i][f[i - 1]]
        BY <4>1, <1>3 DEF Follows
      <4> QED BY <4>1, <4>2, <4>3, <3>2
    <3> QED BY <3>1, <3>2
  <2>2. f = [i \in 0 .. n |-> f[i]]
    BY <1>3
  <2> QED
    BY <2>1, <2>2
<1> DEFINE own == CHOOSE g : g = F(g)
<1>5. own = F(own)
  <2> HIDE DEF F
  <2> QED BY <1>4
<1>6. ColumnsUpTo(rows, table, counted) = own
  BY DEF ColumnsUpTo
<1> HIDE DEF own
<1>7. own[0] = <<>> /\ \A i \in 1 .. n : own[i] = IF Own(i) THEN Append(own[i - 1], rows[i].column) ELSE own[i - 1]
  <2> HIDE DEF Own, n, S
  <2>1. own[0] = <<>>
    BY <1>5, <1>1
  <2>2. ASSUME NEW i \in 1 .. n PROVE own[i] = IF Own(i) THEN Append(own[i - 1], rows[i].column) ELSE own[i - 1]
    <3>1. i \in 0 .. n /\ i # 0
      BY <1>1
    <3> QED BY <1>5, <3>1, Zenon
  <2> QED BY <2>1, <2>2
<1>8. \A i \in 0 .. n : own[i] \in S
  <2>1. \A i \in 1 .. n : own[i - 1] \in S => own[i] \in S
    BY <1>7, <1>2
  <2> HIDE DEF n, S, Own
  <2>2. own[0] \in S
    BY <1>7, <1>1
  <2>3. own[0] = own[0]
    OBVIOUS
  <2> QED
    BY <1>1, <2>1, <2>2, <2>3, SolutionLemma
<1> HIDE DEF n, S
<1>9. ASSUME NEW i \in 1 .. n
      PROVE  /\ Has(rows, table, counted, i) => own[i] = Append(own[i - 1], rows[i].column)
             /\ ~Has(rows, table, counted, i) => own[i] = own[i - 1]
  BY <1>7 DEF Has
<1> QED
  BY <1>6, <1>7, <1>8, <1>9 DEF n, S

\* What nothing counts of has no columns.
LEMMA NoColumnsLemma ==
  ASSUME NEW rows, Len(rows) \in Nat, \A n \in 1 .. Len(rows) : rows[n].column \in NameType,
         NEW table, NEW counted, NEW i \in 0 .. Len(rows), NEW j \in i .. Len(rows),
         \A n \in i + 1 .. j : ~Has(rows, table, counted, n)
  PROVE  ColumnsUpTo(rows, table, counted)[j] = ColumnsUpTo(rows, table, counted)[i]
<1> DEFINE own == ColumnsUpTo(rows, table, counted)
           Lengths == {d \in Nat : i + d <= j => own[i + d] = own[i]}
<1>1. 0 \in Lengths
  OBVIOUS
<1>2. ASSUME NEW d \in Nat, d \in Lengths PROVE d + 1 \in Lengths
  <2> HIDE DEF own
  <2>1. SUFFICES ASSUME i + (d + 1) <= j PROVE own[i + (d + 1)] = own[i]
    OBVIOUS
  <2> DEFINE n == i + (d + 1)
  <2>2. n \in i + 1 .. j /\ n \in 1 .. Len(rows) /\ n - 1 = i + d /\ i + d <= j
    BY <2>1
  <2>3. own[n] = own[n - 1]
    <3> HIDE DEF n
    <3> QED BY <2>2, ColumnsLemma DEF own
  <2> QED BY <1>2, <2>2, <2>3
<1>3. j - i \in Lengths
  <2>1. j - i \in Nat
    OBVIOUS
  <2> HIDE DEF Lengths
  <2> QED BY <1>1, <1>2, <2>1, SetInduction
<1>4. i + (j - i) = j
  OBVIOUS
<1> HIDE DEF own
<1> QED BY <1>3, <1>4 DEF own

\* A beginning of a sequence, by its elements.
LEMMA BeginsLemma ==
  ASSUME NEW S, NEW s \in Seq(S), NEW t \in Seq(S)
  PROVE  IsPrefix(s, t) <=> Len(s) <= Len(t) /\ \A i \in 1 .. Len(s) : s[i] = t[i]
<1>1. SubSeq(s, 1, Len(s)) = s
  OBVIOUS
<1>2. ASSUME Len(s) <= Len(t), \A i \in 1 .. Len(s) : s[i] = t[i] PROVE s = SubSeq(t, 1, Len(s))
  <2> DEFINE u == SubSeq(t, 1, Len(s))
  <2>1. u \in Seq(S) /\ Len(u) = Len(s) /\ \A i \in 1 .. Len(s) : u[i] = t[i]
    BY <1>2
  <2> HIDE DEF u
  <2>2. \A i \in 1 .. Len(s) : u[i] = s[i]
    BY <1>2, <2>1
  <2>3. u = s
    BY <2>1, <2>2, SeqEqual
  <2> QED BY <2>3 DEF u
<1>3. ASSUME Len(s) <= Len(t), s = SubSeq(t, 1, Len(s)) PROVE \A i \in 1 .. Len(s) : s[i] = t[i]
  <2>1. \A i \in 1 .. Len(s) : SubSeq(t, 1, Len(s))[i] = t[i]
    BY <1>3
  <2> QED BY <2>1, <1>3
<1> QED BY <1>1, <1>2, <1>3 DEF IsPrefix

LEMMA BeginsAppended ==
  ASSUME NEW S, NEW s \in Seq(S), NEW t \in Seq(S), NEW x \in S, IsPrefix(s, t)
  PROVE  IsPrefix(s, Append(t, x))
<1> DEFINE u == Append(t, x)
<1>1. u \in Seq(S) /\ Len(u) = Len(t) + 1 /\ \A i \in 1 .. Len(t) : u[i] = t[i]
  OBVIOUS
<1> HIDE DEF u
<1>2. Len(s) <= Len(t) /\ \A i \in 1 .. Len(s) : s[i] = t[i]
  BY BeginsLemma
<1>3. Len(s) <= Len(u) /\ \A i \in 1 .. Len(s) : s[i] = u[i]
  BY <1>1, <1>2
<1>4. IsPrefix(s, u)
  BY <1>1, <1>3, BeginsLemma
<1> QED BY <1>4 DEF u

\* Columns that come later come after the ones before.
LEMMA ColumnsGrow ==
  ASSUME NEW rows, Len(rows) \in Nat, \A n \in 1 .. Len(rows) : rows[n].column \in NameType,
         NEW table, NEW counted, NEW i \in 0 .. Len(rows), NEW j \in i .. Len(rows)
  PROVE  IsPrefix(ColumnsUpTo(rows, table, counted)[i], ColumnsUpTo(rows, table, counted)[j])
<1> DEFINE own == ColumnsUpTo(rows, table, counted)
           Lengths == {d \in Nat : i + d <= j => IsPrefix(own[i], own[i + d])}
<1> HIDE DEF own
<1>0. \A n \in 0 .. Len(rows) : own[n] \in Seq(NameType)
  BY ColumnsLemma DEF own
<1>1. 0 \in Lengths
  <2>1. own[i] \in Seq(NameType) /\ i + 0 = i
    BY <1>0
  <2>2. IsPrefix(own[i], own[i])
    BY <2>1, BeginsLemma
  <2> QED BY <2>1, <2>2
<1>2. ASSUME NEW d \in Nat, d \in Lengths PROVE d + 1 \in Lengths
  <2>1. SUFFICES ASSUME i + (d + 1) <= j PROVE IsPrefix(own[i], own[i + (d + 1)])
    OBVIOUS
  <2> DEFINE n == i + (d + 1)
  <2>2. n \in 1 .. Len(rows) /\ n - 1 = i + d /\ i + d <= j /\ i + d \in 0 .. Len(rows) /\ i \in 0 .. Len(rows)
    BY <2>1
  <2>3. own[n] = own[n - 1] \/ own[n] = Append(own[n - 1], rows[n].column)
    <3> HIDE DEF n
    <3> QED BY <2>2, ColumnsLemma DEF own
  <2>4. IsPrefix(own[i], own[i + d])
    BY <1>2, <2>2
  <2>5. own[i + d] \in Seq(NameType) /\ own[i] \in Seq(NameType) /\ rows[n].column \in NameType
    BY <1>0, <2>2
  <2> HIDE DEF n
  <2>6. CASE own[n] = Append(own[i + d], rows[n].column)
    <3> DEFINE u == own[i]
               v == own[i + d]
               x == rows[n].column
    <3>1. u \in Seq(NameType) /\ v \in Seq(NameType) /\ x \in NameType /\ IsPrefix(u, v)
      BY <2>4, <2>5
    <3> HIDE DEF u, v, x
    <3>2. IsPrefix(u, Append(v, x))
      BY <3>1, BeginsAppended, Zenon
    <3> QED BY <3>2, <2>6 DEF u, v, x, n
  <2> QED BY <2>2, <2>3, <2>4, <2>6 DEF n
<1>3. j - i \in Lengths
  <2>1. j - i \in Nat
    OBVIOUS
  <2> HIDE DEF Lengths
  <2> QED BY <1>1, <1>2, <2>1, SetInduction
<1>4. i + (j - i) = j
  OBVIOUS
<1> QED BY <1>3, <1>4 DEF own

LEMMA JoinedLemma ==
  ASSUME NEW ix \in Seq(IndexType)
  PROVE  /\ JoinedUpTo(ix)[0] = <<>>
         /\ \A n \in 1 .. Len(ix) : JoinedUpTo(ix)[n] = JoinedUpTo(ix)[n - 1] \o ix[n].columns
         /\ \A n \in 0 .. Len(ix) : JoinedUpTo(ix)[n] \in Seq(NameType)
<1> DEFINE n == Len(ix)
           S == Seq(NameType)
           empty == <<>>
           step == [i \in 1 .. n |-> [s \in S |-> s \o ix[i].columns]]
           F(f) == [i \in 0 .. n |-> IF i = 0 THEN <<>> ELSE f[i - 1] \o ix[i].columns]
<1>1. n \in Nat /\ empty \in S
  OBVIOUS
<1>2. \A i \in 1 .. n : \A s \in S : s \o ix[i].columns \in S
  <2>1. \A i \in 1 .. n : ix[i] \in IndexType
    OBVIOUS
  <2>2. \A i \in 1 .. n : ix[i].columns \in Seq(NameType)
    BY <2>1 DEF IndexType
  <2> QED BY <2>2
<1>3. PICK f \in [0 .. n -> S] : Follows(f, n, empty, step)
  <2> HIDE DEF n, S
  <2>1. step \in [1 .. n -> [S -> S]]
    BY <1>2
  <2>2. empty \in S
    BY <1>1
  <2> HIDE DEF step, empty
  <2>3. Solvable(S, n, empty, step)
    BY <1>1, <2>1, <2>2, RecursionLemma, Zenon
  <2> QED BY <2>3 DEF Solvable
<1>4. f = F(f)
  <2> HIDE DEF n, S
  <2>1. ASSUME NEW i \in 0 .. n
        PROVE  f[i] = IF i = 0 THEN <<>> ELSE f[i - 1] \o ix[i].columns
    <3>1. CASE i = 0
      BY <3>1, <1>3 DEF Follows
    <3>2. CASE i # 0
      <4>1. i \in 1 .. n /\ i - 1 \in 0 .. n
        BY <3>2, <1>1
      <4>2. f[i - 1] \in S
        BY <4>1, <1>3
      <4>3. f[i] = step[i][f[i - 1]]
        BY <4>1, <1>3 DEF Follows
      <4> QED BY <4>1, <4>2, <4>3, <3>2
    <3> QED BY <3>1, <3>2
  <2>2. f = [i \in 0 .. n |-> f[i]]
    BY <1>3
  <2> QED
    BY <2>1, <2>2
<1> DEFINE joined == CHOOSE g : g = F(g)
<1>5. joined = F(joined)
  <2> HIDE DEF F
  <2> QED BY <1>4
<1>6. JoinedUpTo(ix) = joined
  BY DEF JoinedUpTo
<1> HIDE DEF joined
<1>7. joined[0] = <<>> /\ \A i \in 1 .. n : joined[i] = joined[i - 1] \o ix[i].columns
  <2> HIDE DEF n, S
  <2>1. joined[0] = <<>>
    BY <1>5, <1>1
  <2>2. ASSUME NEW i \in 1 .. n PROVE joined[i] = joined[i - 1] \o ix[i].columns
    <3>1. i \in 0 .. n /\ i # 0
      BY <1>1
    <3> QED BY <1>5, <3>1, Zenon
  <2> QED BY <2>1, <2>2
<1>8. \A i \in 0 .. n : joined[i] \in S
  <2>1. \A i \in 1 .. n : joined[i - 1] \in S => joined[i] \in S
    BY <1>7, <1>2
  <2> HIDE DEF n, S
  <2>2. joined[0] \in S
    BY <1>7, <1>1
  <2>3. joined[0] = joined[0]
    OBVIOUS
  <2> QED
    BY <1>1, <2>1, <2>2, <2>3, SolutionLemma
<1> HIDE DEF n, S
<1> QED
  BY <1>6, <1>7, <1>8 DEF n, S

LEMMA JoinedAgree ==
  ASSUME NEW s \in Seq(IndexType), NEW t \in Seq(IndexType), NEW m \in Nat, m <= Len(s), m <= Len(t),
         \A i \in 1 .. m : s[i] = t[i]
  PROVE  JoinedUpTo(s)[m] = JoinedUpTo(t)[m]
<1> DEFINE Lengths == {n \in Nat : n <= m => JoinedUpTo(s)[n] = JoinedUpTo(t)[n]}
<1>1. 0 \in Lengths
  BY JoinedLemma
<1>2. ASSUME NEW n \in Nat, n \in Lengths PROVE n + 1 \in Lengths
  <2>1. SUFFICES ASSUME n + 1 <= m PROVE JoinedUpTo(s)[n + 1] = JoinedUpTo(t)[n + 1]
    OBVIOUS
  <2>2. n + 1 \in 1 .. Len(s) /\ n + 1 \in 1 .. Len(t) /\ n + 1 \in 1 .. m /\ (n + 1) - 1 = n
    BY <2>1
  <2>3. JoinedUpTo(s)[n + 1] = JoinedUpTo(s)[n] \o s[n + 1].columns
    BY <2>2, JoinedLemma
  <2>4. JoinedUpTo(t)[n + 1] = JoinedUpTo(t)[n] \o t[n + 1].columns
    BY <2>2, JoinedLemma
  <2>5. JoinedUpTo(s)[n] = JoinedUpTo(t)[n] /\ s[n + 1] = t[n + 1]
    BY <1>2, <2>1, <2>2
  <2> QED
    BY <2>3, <2>4, <2>5
<1> HIDE DEF Lengths
<1>3. m \in Lengths
  BY <1>1, <1>2, SetInduction
<1> QED
  BY <1>3 DEF Lengths

\* An index more, and a column more of the last index.
LEMMA JoinedAppend ==
  ASSUME NEW ix \in Seq(IndexType), NEW x \in IndexType, NEW c \in NameType, x.columns = <<c>>
  PROVE  Joined(Append(ix, x)) = Append(Joined(ix), c)
<1> DEFINE t == Append(ix, x)
           n == Len(ix)
<1>1. t \in Seq(IndexType) /\ Len(t) = n + 1 /\ t[n + 1] = x /\ n \in Nat /\ \A i \in 1 .. n : t[i] = ix[i]
  OBVIOUS
<1> HIDE DEF t
<1>2. JoinedUpTo(t)[n + 1] = JoinedUpTo(t)[n] \o <<c>>
  <2>1. n + 1 \in 1 .. Len(t) /\ (n + 1) - 1 = n
    BY <1>1
  <2>2. JoinedUpTo(t)[n + 1] = JoinedUpTo(t)[(n + 1) - 1] \o t[n + 1].columns
    BY <1>1, <2>1, JoinedLemma
  <2> QED
    BY <2>1, <2>2, <1>1
<1>3. JoinedUpTo(t)[n] = JoinedUpTo(ix)[n]
  <2>1. n <= Len(ix) /\ n <= Len(t) /\ n \in Nat
    BY <1>1
  <2> HIDE DEF n
  <2> QED BY <1>1, <2>1, JoinedAgree
<1>4. JoinedUpTo(ix)[n] \in Seq(NameType)
  <2>1. n \in 0 .. Len(ix)
    BY <1>1
  <2> QED BY <2>1, JoinedLemma
<1> DEFINE j == JoinedUpTo(ix)[n]
<1>5. j \o <<c>> = Append(j, c)
  <2> HIDE DEF j
  <2> QED BY <1>4 DEF j
<1> QED
  BY <1>1, <1>2, <1>3, <1>5 DEF Joined, t

LEMMA JoinedLonger ==
  ASSUME NEW ix \in Seq(IndexType), NEW c \in NameType, ix # <<>>,
         NEW t \in Seq(IndexType), Len(t) = Len(ix), \A i \in 1 .. Len(ix) - 1 : t[i] = ix[i],
         t[Len(ix)].columns = Append(ix[Len(ix)].columns, c)
  PROVE  Joined(t) = Append(Joined(ix), c)
<1> DEFINE n == Len(ix)
           a == JoinedUpTo(ix)[n - 1]
           b == ix[n].columns
<1>1. n \in 1 .. n /\ n - 1 \in 0 .. n /\ n \in Nat /\ n - 1 \in Nat
  OBVIOUS
<1>2. JoinedUpTo(t)[n - 1] = a
  <2>1. n - 1 <= Len(ix) /\ n - 1 <= Len(t)
    BY <1>1
  <2> DEFINE m == n - 1
  <2>2. m \in Nat /\ m <= Len(ix) /\ m <= Len(t) /\ \A i \in 1 .. m : t[i] = ix[i]
    BY <1>1, <2>1
  <2> HIDE DEF m
  <2>3. JoinedUpTo(t)[m] = JoinedUpTo(ix)[m]
    BY <2>2, JoinedAgree
  <2> QED BY <2>3 DEF m
<1>3. Joined(ix) = a \o b
  BY <1>1, JoinedLemma DEF Joined
<1>4. Joined(t) = a \o Append(b, c)
  <2>1. JoinedUpTo(t)[n] = JoinedUpTo(t)[n - 1] \o t[n].columns
    BY <1>1, JoinedLemma
  <2> QED BY <2>1, <1>2 DEF Joined
<1>5. a \in Seq(NameType) /\ b \in Seq(NameType)
  <2>1. a \in Seq(NameType)
    BY <1>1, JoinedLemma
  <2>2. ix[n] \in IndexType
    BY <1>1
  <2> QED BY <2>1, <2>2 DEF IndexType
<1>6. a \o Append(b, c) = Append(a \o b, c)
  <2> HIDE DEF a, b
  <2> DEFINE u == a \o Append(b, c)
             v == Append(a \o b, c)
  <2>1. u \in Seq(NameType) /\ v \in Seq(NameType) /\ Len(u) = Len(v)
    BY <1>5
  <2>2. \A i \in 1 .. Len(u) : u[i] = v[i]
    BY <1>5
  <2> HIDE DEF u, v
  <2>3. u = v
    BY <2>1, <2>2, SeqEqual
  <2> QED BY <2>3 DEF u, v
<1> QED
  BY <1>3, <1>4, <1>6

-----------------------------------------------------------------------------
(* What entries show of the rows that were read: of every table the columns,    *)
(* the key columns and the index columns, given as functions of the table.      *)
Shows(es, C, K, X) ==
  /\ Entries(es)
  /\ \A k \in 1 .. Len(es) :
       /\ ~es[k].cut
       /\ es[k].columns = C[es[k].table]
       /\ es[k].primaryKey = K[es[k].table]
       /\ Joined(es[k].indexes) = X[es[k].table]
  /\ \A t \in NameType : ~Holds(es, t) => C[t] = <<>> /\ K[t] = <<>> /\ X[t] = <<>>

LEMMA FoundShows ==
  ASSUME NEW es, NEW C, NEW K, NEW X, Shows(es, C, K, X), NEW t \in NameType
  PROVE  /\ Find(es, t) \in EntryType /\ Find(es, t).table = t
         /\ ~Find(es, t).cut
         /\ Find(es, t).columns = C[t]
         /\ Find(es, t).primaryKey = K[t]
         /\ Joined(Find(es, t).indexes) = X[t]
<1>1. Entries(es)
  BY DEF Shows
<1>2. CASE Holds(es, t)
  <2>1. PICK k \in 1 .. Len(es) : es[k].table = t
    BY <1>2 DEF Holds
  <2>2. Find(es, t) = es[k]
    BY <1>1, <2>1, FoundOld
  <2> QED BY <1>1, <2>1, <2>2, FoundTyped DEF Shows
<1>3. CASE ~Holds(es, t)
  <2>1. Find(es, t) = Entry(t)
    BY <1>1, <1>3, FoundNew
  <2>2. Joined(<<>>) = <<>>
    <3> DEFINE none == <<>>
    <3>1. none \in Seq(IndexType) /\ Len(none) = 0
      OBVIOUS
    <3> HIDE DEF none
    <3>2. Joined(none) = <<>>
      BY <3>1, JoinedLemma DEF Joined
    <3> QED BY <3>2 DEF none
  <2>3. C[t] = <<>> /\ K[t] = <<>> /\ X[t] = <<>>
    BY <1>3 DEF Shows
  <2>4. /\ ~Entry(t).cut /\ Entry(t).columns = <<>> /\ Entry(t).primaryKey = <<>>
        /\ Entry(t).indexes = <<>>
    BY DEF Entry
  <2> QED BY <1>1, <2>1, <2>2, <2>3, <2>4, FoundTyped
<1> QED BY <1>2, <1>3

LEMMA PutHolds ==
  ASSUME NEW es, Entries(es), NEW e \in EntryType, NEW t
  PROVE  Entries(Put(es, e)) /\ (Holds(Put(es, e), t) <=> (Holds(es, t) \/ t = e.table))
<1>1. CASE Holds(es, e.table)
  <2>1. PICK k \in 1 .. Len(es) : es[k].table = e.table
    BY <1>1 DEF Holds
  <2> DEFINE new == Put(es, e)
  <2>2. Entries(new) /\ Len(new) = Len(es) /\ \A j \in 1 .. Len(es) : new[j].table = es[j].table
    BY <2>1, PutOld
  <2> HIDE DEF new
  <2>3. Holds(new, t) <=> (Holds(es, t) \/ t = e.table)
    BY <2>1, <2>2 DEF Holds
  <2> QED BY <2>2, <2>3 DEF new
<1>2. CASE ~Holds(es, e.table)
  <2> DEFINE new == Put(es, e)
  <2>1. Entries(new) /\ Len(new) = Len(es) + 1 /\ new[Len(es) + 1] = e /\ \A j \in 1 .. Len(es) : new[j] = es[j]
    BY <1>2, PutNew
  <2>2. Len(es) \in Nat
    BY DEF Entries
  <2> HIDE DEF new
  <2>3. ASSUME Holds(new, t) PROVE Holds(es, t) \/ t = e.table
    BY <2>1, <2>2, <2>3 DEF Holds
  <2>4. ASSUME Holds(es, t) PROVE Holds(new, t)
    <3>1. PICK k \in 1 .. Len(es) : es[k].table = t
      BY <2>4 DEF Holds
    <3>2. k \in 1 .. Len(new) /\ new[k].table = t
      BY <3>1, <2>1, <2>2
    <3> QED BY <3>2 DEF Holds
  <2>5. ASSUME t = e.table PROVE Holds(new, t)
    <3>1. Len(es) + 1 \in 1 .. Len(new) /\ new[Len(es) + 1].table = t
      BY <2>1, <2>2, <2>5
    <3> QED BY <3>1 DEF Holds
  <2> QED BY <2>1, <2>3, <2>4, <2>5 DEF new
<1> QED BY <1>1, <1>2

\* An entry that is put shows its table anew and leaves the others as they were.
LEMMA PutShows ==
  ASSUME NEW es, NEW C, NEW K, NEW X, Shows(es, C, K, X),
         NEW e \in EntryType, NEW D, NEW L, NEW Y,
         ~e.cut, e.columns = D[e.table], e.primaryKey = L[e.table], Joined(e.indexes) = Y[e.table],
         \A t \in NameType : t # e.table => D[t] = C[t] /\ L[t] = K[t] /\ Y[t] = X[t]
  PROVE  Shows(Put(es, e), D, L, Y)
<1> DEFINE new == Put(es, e)
<1>1. Entries(es)
  BY DEF Shows
<1>2. \A k \in 1 .. Len(es) : es[k].table \in NameType
  <2>1. \A k \in 1 .. Len(es) : es[k] \in EntryType
    BY <1>1 DEF Entries
  <2> QED BY <2>1 DEF EntryType
<1>3. \A t : Entries(new) /\ (Holds(new, t) <=> (Holds(es, t) \/ t = e.table))
  BY <1>1, PutHolds
<1>4. ASSUME NEW k \in 1 .. Len(new)
      PROVE  new[k] = e \/ (k \in 1 .. Len(es) /\ new[k] = es[k] /\ es[k].table # e.table)
  <2>1. CASE Holds(es, e.table)
    <3>1. PICK i \in 1 .. Len(es) : es[i].table = e.table
      BY <2>1 DEF Holds
    <3>2. /\ Len(new) = Len(es) /\ new[i] = e /\ \A j \in 1 .. Len(es) : j # i => new[j] = es[j]
      BY <1>1, <3>1, PutOld
    <3> HIDE DEF new
    <3> QED BY <1>1, <3>1, <3>2 DEF Entries
  <2>2. CASE ~Holds(es, e.table)
    <3>1. Len(new) = Len(es) + 1 /\ new[Len(es) + 1] = e /\ \A j \in 1 .. Len(es) : new[j] = es[j]
      BY <1>1, <2>2, PutNew
    <3>2. Len(es) \in Nat
      BY <1>1 DEF Entries
    <3> HIDE DEF new
    <3>3. CASE k = Len(es) + 1
      BY <3>1, <3>3
    <3>4. CASE k \in 1 .. Len(es)
      BY <3>1, <3>4, <2>2 DEF Holds
    <3> QED BY <3>1, <3>2, <3>3, <3>4
  <2> QED BY <2>1, <2>2
<1> HIDE DEF new
<1>5. ASSUME NEW k \in 1 .. Len(new)
      PROVE  /\ ~new[k].cut
             /\ new[k].columns = D[new[k].table]
             /\ new[k].primaryKey = L[new[k].table]
             /\ Joined(new[k].indexes) = Y[new[k].table]
  <2>1. CASE new[k] = e
    BY <2>1
  <2>2. CASE k \in 1 .. Len(es) /\ new[k] = es[k] /\ es[k].table # e.table
    <3>1. /\ ~es[k].cut /\ es[k].columns = C[es[k].table] /\ es[k].primaryKey = K[es[k].table]
          /\ Joined(es[k].indexes) = X[es[k].table]
      BY <2>2 DEF Shows
    <3>2. D[es[k].table] = C[es[k].table] /\ L[es[k].table] = K[es[k].table] /\ Y[es[k].table] = X[es[k].table]
      BY <1>2, <2>2
    <3> QED BY <2>2, <3>1, <3>2
  <2> QED BY <1>4, <2>1, <2>2
<1>6. ASSUME NEW t \in NameType, ~Holds(new, t) PROVE D[t] = <<>> /\ L[t] = <<>> /\ Y[t] = <<>>
  <2>1. ~Holds(es, t) /\ t # e.table
    BY <1>3, <1>6
  <2> QED BY <2>1 DEF Shows
<1> QED
  BY <1>3, <1>5, <1>6 DEF Shows, new

-----------------------------------------------------------------------------
(* The recursions of describeTables.                                            *)
\* Entries of which no table has two.
Catalog == {es \in Seq(EntryType) : Entries(es)}

LEMMA EmptyCatalog == <<>> \in Catalog
<1> DEFINE none == <<>>
<1>1. none \in Seq(EntryType) /\ Len(none) = 0
  OBVIOUS
<1> HIDE DEF none
<1>2. Entries(none)
  BY <1>1 DEF Entries
<1> QED BY <1>1, <1>2 DEF Catalog, none

LEMMA PutInCatalog ==
  ASSUME NEW es \in Catalog, NEW e \in EntryType
  PROVE  Put(es, e) \in Catalog
  BY PutHolds DEF Catalog, Entries

LEMMA ColumnAdded ==
  ASSUME NEW f \in EntryType, NEW c \in NameType
  PROVE  /\ [f EXCEPT !.columns = Append(@, c)] \in EntryType
         /\ [f EXCEPT !.primaryKey = Append(@, c)] \in EntryType
<1>1. f.columns \in Seq(NameType) /\ f.primaryKey \in Seq(NameType)
  BY DEF EntryType
<1>2. Append(f.columns, c) \in Seq(NameType) /\ Append(f.primaryKey, c) \in Seq(NameType)
  BY <1>1
<1> QED BY <1>2 DEF EntryType

LEMMA WithColumnTyped ==
  ASSUME NEW es \in Catalog, NEW row \in CellType
  PROVE  WithColumn(es, row) \in Catalog /\ WithKey(es, row) \in Catalog
<1>1. Entries(es) /\ row.table \in NameType /\ row.column \in NameType
  BY DEF Catalog, CellType
<1>2. Find(es, row.table) \in EntryType
  BY <1>1, FoundTyped
<1> QED BY <1>1, <1>2, ColumnAdded, PutInCatalog DEF WithColumn, WithKey

\* The columns are added row by row,
LEMMA ColumnedRecursion ==
  ASSUME NEW rows \in Seq(CellType)
  PROVE  /\ Columned(rows)[0] = <<>>
         /\ \A i \in 1 .. Len(rows) : Columned(rows)[i] = WithColumn(Columned(rows)[i - 1], rows[i])
         /\ \A i \in 0 .. Len(rows) : Columned(rows)[i] \in Catalog
<1> DEFINE n == Len(rows)
           a == <<>>
           S == Catalog
           Step(s, i) == WithColumn(s, rows[i])
           step == [i \in 1 .. n |-> [s \in S |-> Step(s, i)]]
           Again(b, i) == Once({Step(s, i) : s \in {b}})
           F(f) == [i \in 0 .. n |-> IF i = 0 THEN a ELSE Again(f[i - 1], i)]
<1>1. n \in Nat /\ a \in S
  BY EmptyCatalog
<1>2. \A i \in 1 .. n : \A s \in S : Step(s, i) \in S
  BY WithColumnTyped
<1>3. \A s, i : Again(s, i) = Step(s, i)
  <2> TAKE s, i
  <2>1. {Step(b, i) : b \in {s}} = {Step(s, i)}
    OBVIOUS
  <2> QED BY <2>1, OnceLemma
<1>4. PICK f \in [0 .. n -> S] : Follows(f, n, a, step)
  <2> HIDE DEF Again, Step, a, n, S
  <2>1. step \in [1 .. n -> [S -> S]]
    BY <1>2
  <2> HIDE DEF step
  <2>2. Solvable(S, n, a, step)
    BY <1>1, <2>1, RecursionLemma, Zenon
  <2> QED BY <2>2 DEF Solvable
<1>5. f = F(f)
  <2> HIDE DEF Again, Step, a, n, S
  <2>1. ASSUME NEW i \in 0 .. n PROVE f[i] = IF i = 0 THEN a ELSE Again(f[i - 1], i)
    <3>1. CASE i = 0
      BY <3>1, <1>4 DEF Follows
    <3>2. CASE i # 0
      <4>1. i \in 1 .. n /\ i - 1 \in 0 .. n
        BY <3>2, <1>1
      <4>2. f[i - 1] \in S
        BY <4>1, <1>4
      <4>3. f[i] = step[i][f[i - 1]]
        BY <4>1, <1>4 DEF Follows
      <4>4. f[i] = Step(f[i - 1], i)
        BY <4>1, <4>2, <4>3
      <4> QED BY <4>4, <3>2, <1>3
    <3> QED BY <3>1, <3>2
  <2>2. f = [i \in 0 .. n |-> f[i]]
    BY <1>4
  <2> QED
    BY <2>1, <2>2
<1> DEFINE upTo == CHOOSE g : g = F(g)
<1>6. upTo = F(upTo)
  <2> HIDE DEF F
  <2> QED BY <1>5
<1>7. Columned(rows) = upTo
  BY DEF Columned
<1> HIDE DEF upTo
<1>8. upTo[0] = a /\ \A i \in 1 .. n : upTo[i] = Step(upTo[i - 1], i)
  <2> HIDE DEF Again, Step, a, n, S
  <2>1. upTo[0] = a
    BY <1>6, <1>1
  <2>2. ASSUME NEW i \in 1 .. n PROVE upTo[i] = Step(upTo[i - 1], i)
    BY <1>6, <1>1, <1>3
  <2> QED BY <2>1, <2>2
<1>9. \A i \in 0 .. n : upTo[i] \in S
  <2>1. \A i \in 1 .. n : upTo[i - 1] \in S => upTo[i] \in S
    <3> HIDE DEF Step, n, S, a
    <3> QED BY <1>8, <1>2
  <2> HIDE DEF n, S, Step, a
  <2> QED
    BY <1>1, <1>8, <2>1, SolutionLemma
<1> HIDE DEF n, S
<1> QED
  BY <1>7, <1>8, <1>9 DEF n, S

\* then the key columns,
LEMMA KeyedRecursion ==
  ASSUME NEW entries \in Catalog, NEW rows \in Seq(CellType)
  PROVE  /\ Keyed(entries, rows)[0] = entries
         /\ \A i \in 1 .. Len(rows) : Keyed(entries, rows)[i] = WithKey(Keyed(entries, rows)[i - 1], rows[i])
         /\ \A i \in 0 .. Len(rows) : Keyed(entries, rows)[i] \in Catalog
<1> DEFINE n == Len(rows)
           a == entries
           S == Catalog
           Step(s, i) == WithKey(s, rows[i])
           step == [i \in 1 .. n |-> [s \in S |-> Step(s, i)]]
           Again(b, i) == Once({Step(s, i) : s \in {b}})
           F(f) == [i \in 0 .. n |-> IF i = 0 THEN a ELSE Again(f[i - 1], i)]
<1>1. n \in Nat /\ a \in S
  OBVIOUS
<1>2. \A i \in 1 .. n : \A s \in S : Step(s, i) \in S
  BY WithColumnTyped
<1>3. \A s, i : Again(s, i) = Step(s, i)
  <2> TAKE s, i
  <2>1. {Step(b, i) : b \in {s}} = {Step(s, i)}
    OBVIOUS
  <2> QED BY <2>1, OnceLemma
<1>4. PICK f \in [0 .. n -> S] : Follows(f, n, a, step)
  <2> HIDE DEF Again, Step, a, n, S
  <2>1. step \in [1 .. n -> [S -> S]]
    BY <1>2
  <2> HIDE DEF step
  <2>2. Solvable(S, n, a, step)
    BY <1>1, <2>1, RecursionLemma, Zenon
  <2> QED BY <2>2 DEF Solvable
<1>5. f = F(f)
  <2> HIDE DEF Again, Step, a, n, S
  <2>1. ASSUME NEW i \in 0 .. n PROVE f[i] = IF i = 0 THEN a ELSE Again(f[i - 1], i)
    <3>1. CASE i = 0
      BY <3>1, <1>4 DEF Follows
    <3>2. CASE i # 0
      <4>1. i \in 1 .. n /\ i - 1 \in 0 .. n
        BY <3>2, <1>1
      <4>2. f[i - 1] \in S
        BY <4>1, <1>4
      <4>3. f[i] = step[i][f[i - 1]]
        BY <4>1, <1>4 DEF Follows
      <4>4. f[i] = Step(f[i - 1], i)
        BY <4>1, <4>2, <4>3
      <4> QED BY <4>4, <3>2, <1>3
    <3> QED BY <3>1, <3>2
  <2>2. f = [i \in 0 .. n |-> f[i]]
    BY <1>4
  <2> QED
    BY <2>1, <2>2
<1> DEFINE upTo == CHOOSE g : g = F(g)
<1>6. upTo = F(upTo)
  <2> HIDE DEF F
  <2> QED BY <1>5
<1>7. Keyed(entries, rows) = upTo
  BY DEF Keyed
<1> HIDE DEF upTo
<1>8. upTo[0] = a /\ \A i \in 1 .. n : upTo[i] = Step(upTo[i - 1], i)
  <2> HIDE DEF Again, Step, a, n, S
  <2>1. upTo[0] = a
    BY <1>6, <1>1
  <2>2. ASSUME NEW i \in 1 .. n PROVE upTo[i] = Step(upTo[i - 1], i)
    BY <1>6, <1>1, <1>3
  <2> QED BY <2>1, <2>2
<1>9. \A i \in 0 .. n : upTo[i] \in S
  <2>1. \A i \in 1 .. n : upTo[i - 1] \in S => upTo[i] \in S
    <3> HIDE DEF Step, n, S, a
    <3> QED BY <1>8, <1>2
  <2> HIDE DEF n, S, Step, a
  <2> QED
    BY <1>1, <1>8, <2>1, SolutionLemma
<1> HIDE DEF n, S
<1> QED
  BY <1>7, <1>8, <1>9 DEF n, S

\* An index row adds its column to the index columns of its entry, and nothing else.
LEMMA IndexedLemma ==
  ASSUME NEW f \in EntryType, NEW row \in IndexRowType
  PROVE  /\ Indexed(f, row) \in EntryType
         /\ Indexed(f, row).table = f.table /\ Indexed(f, row).cut = f.cut
         /\ Indexed(f, row).columns = f.columns /\ Indexed(f, row).primaryKey = f.primaryKey
         /\ Joined(Indexed(f, row).indexes) = Append(Joined(f.indexes), row.column)
<1> DEFINE ix == f.indexes
           n == Len(ix)
           c == row.column
<1>1. ix \in Seq(IndexType) /\ n \in Nat
  BY DEF EntryType
<1>2. row.name \in NameType /\ row.unique \in STRING /\ c \in NameType
  BY DEF IndexRowType
<1>3. CASE Continues(f, row)
  <2>1. ix # <<>> /\ n \in 1 .. n
    BY <1>3, <1>1 DEF Continues
  <2> DEFINE last == [ix[n] EXCEPT !.columns = Append(@, c)]
             new == [ix EXCEPT ![n] = last]
  <2>2. ix[n] \in IndexType
    BY <1>1, <2>1
  <2>3. ix[n].columns \in Seq(NameType)
    BY <2>2 DEF IndexType
  <2>4. Append(ix[n].columns, c) \in Seq(NameType)
    BY <2>3, <1>2
  <2>5. last \in IndexType /\ last.columns = Append(ix[n].columns, c)
    BY <2>2, <2>4 DEF IndexType
  <2>6. Indexed(f, row) = [f EXCEPT !.indexes = new]
    BY <1>3 DEF Indexed
  <2> HIDE DEF last
  <2>7. new \in Seq(IndexType) /\ Len(new) = n /\ new[n] = last /\ \A i \in 1 .. n - 1 : new[i] = ix[i]
    BY <1>1, <2>1, <2>5
  <2> HIDE DEF new
  <2>8. Joined(new) = Append(Joined(ix), c)
    <3> HIDE DEF ix, c
    <3> QED BY <1>1, <1>2, <2>1, <2>5, <2>7, JoinedLonger DEF n
  <2> HIDE DEF ix
  <2>9. /\ Indexed(f, row) \in EntryType /\ Indexed(f, row).indexes = new
        /\ Indexed(f, row).table = f.table /\ Indexed(f, row).cut = f.cut
        /\ Indexed(f, row).columns = f.columns /\ Indexed(f, row).primaryKey = f.primaryKey
    BY <2>6, <2>7 DEF EntryType
  <2> QED BY <2>8, <2>9 DEF ix
<1>4. CASE ~Continues(f, row)
  <2> DEFINE x == Index(row)
             new == Append(ix, x)
  <2>1. x \in IndexType /\ x.columns = <<c>>
    BY <1>2 DEF Index, IndexType
  <2>2. Indexed(f, row) = [f EXCEPT !.indexes = new]
    BY <1>4 DEF Indexed
  <2> HIDE DEF x
  <2>3. new \in Seq(IndexType)
    BY <1>1, <2>1
  <2>4. Joined(new) = Append(Joined(ix), c)
    BY <1>1, <1>2, <2>1, JoinedAppend
  <2> HIDE DEF new, ix
  <2>5. /\ Indexed(f, row) \in EntryType /\ Indexed(f, row).indexes = new
        /\ Indexed(f, row).table = f.table /\ Indexed(f, row).cut = f.cut
        /\ Indexed(f, row).columns = f.columns /\ Indexed(f, row).primaryKey = f.primaryKey
    BY <2>2, <2>3 DEF EntryType
  <2> QED BY <2>4, <2>5 DEF ix
<1> QED BY <1>3, <1>4

IndexingType == [tables : Catalog, failed : BOOLEAN]

LEMMA WithIndexTyped ==
  ASSUME NEW s \in IndexingType, NEW row \in IndexRowType
  PROVE  WithIndex(s, row) \in IndexingType
<1>1. s.tables \in Catalog /\ Entries(s.tables) /\ row.table \in NameType
  BY DEF IndexingType, Catalog, IndexRowType
<1>2. Find(s.tables, row.table) \in EntryType
  BY <1>1, FoundTyped
<1>3. Indexed(Find(s.tables, row.table), row) \in EntryType
  BY <1>2, IndexedLemma
<1>4. Put(s.tables, Indexed(Find(s.tables, row.table), row)) \in Catalog
  BY <1>1, <1>3, PutInCatalog
<1> QED BY <1>1, <1>4 DEF WithIndex, IndexingType

\* then the indexes.
LEMMA CompletedRecursion ==
  ASSUME NEW entries \in Catalog, NEW rows \in Seq(IndexRowType)
  PROVE  /\ Completed(entries, rows)[0] = [tables |-> entries, failed |-> FALSE]
         /\ \A i \in 1 .. Len(rows) : Completed(entries, rows)[i] = WithIndex(Completed(entries, rows)[i - 1], rows[i])
         /\ \A i \in 0 .. Len(rows) : Completed(entries, rows)[i] \in IndexingType
<1> DEFINE n == Len(rows)
           a == [tables |-> entries, failed |-> FALSE]
           S == IndexingType
           Step(s, i) == WithIndex(s, rows[i])
           step == [i \in 1 .. n |-> [s \in S |-> Step(s, i)]]
           Again(b, i) == Once({Step(s, i) : s \in {b}})
           F(f) == [i \in 0 .. n |-> IF i = 0 THEN a ELSE Again(f[i - 1], i)]
<1>1. n \in Nat /\ a \in S
  BY DEF IndexingType
<1>2. \A i \in 1 .. n : \A s \in S : Step(s, i) \in S
  BY WithIndexTyped
<1>3. \A s, i : Again(s, i) = Step(s, i)
  <2> TAKE s, i
  <2>1. {Step(b, i) : b \in {s}} = {Step(s, i)}
    OBVIOUS
  <2> QED BY <2>1, OnceLemma
<1>4. PICK f \in [0 .. n -> S] : Follows(f, n, a, step)
  <2> HIDE DEF Again, Step, a, n, S
  <2>1. step \in [1 .. n -> [S -> S]]
    BY <1>2
  <2> HIDE DEF step
  <2>2. Solvable(S, n, a, step)
    BY <1>1, <2>1, RecursionLemma, Zenon
  <2> QED BY <2>2 DEF Solvable
<1>5. f = F(f)
  <2> HIDE DEF Again, Step, a, n, S
  <2>1. ASSUME NEW i \in 0 .. n PROVE f[i] = IF i = 0 THEN a ELSE Again(f[i - 1], i)
    <3>1. CASE i = 0
      BY <3>1, <1>4 DEF Follows
    <3>2. CASE i # 0
      <4>1. i \in 1 .. n /\ i - 1 \in 0 .. n
        BY <3>2, <1>1
      <4>2. f[i - 1] \in S
        BY <4>1, <1>4
      <4>3. f[i] = step[i][f[i - 1]]
        BY <4>1, <1>4 DEF Follows
      <4>4. f[i] = Step(f[i - 1], i)
        BY <4>1, <4>2, <4>3
      <4> QED BY <4>4, <3>2, <1>3
    <3> QED BY <3>1, <3>2
  <2>2. f = [i \in 0 .. n |-> f[i]]
    BY <1>4
  <2> QED
    BY <2>1, <2>2
<1> DEFINE upTo == CHOOSE g : g = F(g)
<1>6. upTo = F(upTo)
  <2> HIDE DEF F
  <2> QED BY <1>5
<1>7. Completed(entries, rows) = upTo
  BY DEF Completed
<1> HIDE DEF upTo
<1>8. upTo[0] = a /\ \A i \in 1 .. n : upTo[i] = Step(upTo[i - 1], i)
  <2> HIDE DEF Again, Step, a, n, S
  <2>1. upTo[0] = a
    BY <1>6, <1>1
  <2>2. ASSUME NEW i \in 1 .. n PROVE upTo[i] = Step(upTo[i - 1], i)
    BY <1>6, <1>1, <1>3
  <2> QED BY <2>1, <2>2
<1>9. \A i \in 0 .. n : upTo[i] \in S
  <2>1. \A i \in 1 .. n : upTo[i - 1] \in S => upTo[i] \in S
    <3> HIDE DEF Step, n, S, a
    <3> QED BY <1>8, <1>2
  <2> HIDE DEF n, S, Step, a
  <2> QED
    BY <1>1, <1>8, <2>1, SolutionLemma
<1> HIDE DEF n, S
<1> QED
  BY <1>7, <1>8, <1>9 DEF n, S

-----------------------------------------------------------------------------
(* What describeTables has read after each of its stages.                       *)
Reading(rows) ==
  /\ Len(rows) \in Nat /\ DOMAIN rows = 1 .. Len(rows)
  /\ \A n \in 1 .. Len(rows) : rows[n].table \in NameType /\ rows[n].column \in NameType

LEMMA RowsAreReadings ==
  ASSUME NEW rows, rows \in Seq(CellType) \/ rows \in Seq(IndexRowType) \/ rows \in Seq(SchemaRowType)
  PROVE  Reading(rows)
<1>1. CASE rows \in Seq(CellType)
  <2>1. \A n \in 1 .. Len(rows) : rows[n] \in CellType
    BY <1>1
  <2>2. \A n \in 1 .. Len(rows) : rows[n].table \in NameType /\ rows[n].column \in NameType
    BY <2>1 DEF CellType
  <2> QED BY <1>1, <2>2 DEF Reading
<1>2. CASE rows \in Seq(IndexRowType)
  <2>1. \A n \in 1 .. Len(rows) : rows[n] \in IndexRowType
    BY <1>2
  <2>2. \A n \in 1 .. Len(rows) : rows[n].table \in NameType /\ rows[n].column \in NameType
    BY <2>1 DEF IndexRowType
  <2> QED BY <1>2, <2>2 DEF Reading
<1>3. CASE rows \in Seq(SchemaRowType)
  <2>1. \A n \in 1 .. Len(rows) : rows[n] \in SchemaRowType
    BY <1>3
  <2>2. \A n \in 1 .. Len(rows) : rows[n].table \in NameType /\ rows[n].column \in NameType
    BY <2>1 DEF SchemaRowType
  <2> QED BY <1>3, <2>2 DEF Reading
<1> QED BY <1>1, <1>2, <1>3

\* The columns that i rows have, by table, and the tables they are of.
ColumnsAt(rows, counted, i) == [t \in NameType |-> ColumnsUpTo(rows, t, counted)[i]]
NoColumns == [t \in NameType |-> <<>>]
Mentions(rows, counted, i, t) == \E j \in 1 .. i : rows[j] \in counted /\ rows[j].table = t

LEMMA NothingRead ==
  ASSUME NEW rows, Reading(rows), NEW counted
  PROVE  ColumnsAt(rows, counted, 0) = NoColumns
<1>1. \A t \in NameType : ColumnsUpTo(rows, t, counted)[0] = <<>>
  BY ColumnsLemma DEF Reading
<1> QED BY <1>1 DEF ColumnsAt, NoColumns

LEMMA RowRead ==
  ASSUME NEW rows, Reading(rows), NEW counted, NEW i \in 1 .. Len(rows), rows[i] \in counted
  PROVE  /\ ColumnsAt(rows, counted, i)[rows[i].table] = Append(ColumnsAt(rows, counted, i - 1)[rows[i].table], rows[i].column)
         /\ \A t \in NameType : t # rows[i].table => ColumnsAt(rows, counted, i)[t] = ColumnsAt(rows, counted, i - 1)[t]
<1>1. Len(rows) \in Nat /\ \A n \in 1 .. Len(rows) : rows[n].column \in NameType
  BY DEF Reading
<1>2. rows[i].table \in NameType
  BY DEF Reading
<1>3. Has(rows, rows[i].table, counted, i)
  BY DEF Has
<1>4. ColumnsUpTo(rows, rows[i].table, counted)[i] = Append(ColumnsUpTo(rows, rows[i].table, counted)[i - 1], rows[i].column)
  <2> DEFINE table == rows[i].table
  <2> HIDE DEF table
  <2>1. Has(rows, table, counted, i) => ColumnsUpTo(rows, table, counted)[i] = Append(ColumnsUpTo(rows, table, counted)[i - 1], rows[i].column)
    BY <1>1, ColumnsLemma
  <2> QED BY <2>1, <1>3 DEF table
<1>5. ASSUME NEW t \in NameType, t # rows[i].table
      PROVE  ColumnsUpTo(rows, t, counted)[i] = ColumnsUpTo(rows, t, counted)[i - 1]
  <2>1. ~Has(rows, t, counted, i)
    BY <1>5 DEF Has
  <2> QED BY <1>1, <2>1, ColumnsLemma
<1> QED BY <1>2, <1>4, <1>5 DEF ColumnsAt

LEMMA RowSkipped ==
  ASSUME NEW rows, Reading(rows), NEW counted, NEW i \in 1 .. Len(rows), rows[i] \notin counted
  PROVE  ColumnsAt(rows, counted, i) = ColumnsAt(rows, counted, i - 1)
<1>1. Len(rows) \in Nat /\ \A n \in 1 .. Len(rows) : rows[n].column \in NameType
  BY DEF Reading
<1>2. ASSUME NEW t \in NameType PROVE ColumnsUpTo(rows, t, counted)[i] = ColumnsUpTo(rows, t, counted)[i - 1]
  <2>1. ~Has(rows, t, counted, i)
    BY DEF Has
  <2> QED BY <1>1, <2>1, ColumnsLemma
<1> QED BY <1>2 DEF ColumnsAt

LEMMA NamedNext ==
  ASSUME NEW rows, NEW counted, NEW i \in Nat, i # 0, NEW t
  PROVE  /\ Mentions(rows, counted, i, t) <=> (Mentions(rows, counted, i - 1, t) \/ (rows[i] \in counted /\ rows[i].table = t))
         /\ ~Mentions(rows, counted, 0, t)
<1>1. \A j : j \in 1 .. i <=> (j \in 1 .. i - 1 \/ j = i)
  OBVIOUS
<1> QED BY <1>1 DEF Mentions

LEMMA DecodedLemma ==
  ASSUME NEW rows, Reading(rows), NEW i \in 1 .. Len(rows)
  PROVE  rows[i] \in Decoded(rows) <=> rows[i].decodes
<1>1. rows[i] \in ToSet(rows)
  BY DEF ToSet, Reading
<1> QED BY <1>1 DEF Decoded

\* A row more of the columns of a description.
LEMMA ColumnStep ==
  ASSUME NEW rows \in Seq(CellType), NEW i \in 1 .. Len(rows), NEW es,
         Shows(es, ColumnsAt(rows, Decoded(rows), i - 1), NoColumns, NoColumns),
         \A t : Holds(es, t) <=> Mentions(rows, Decoded(rows), i - 1, t)
  PROVE  /\ Shows(WithColumn(es, rows[i]), ColumnsAt(rows, Decoded(rows), i), NoColumns, NoColumns)
         /\ \A t : Holds(WithColumn(es, rows[i]), t) <=> Mentions(rows, Decoded(rows), i, t)
<1> DEFINE row == rows[i]
           table == row.table
           counted == Decoded(rows)
           C == ColumnsAt(rows, counted, i - 1)
           D == ColumnsAt(rows, counted, i)
           N == NoColumns
<1>1. Reading(rows) /\ row \in CellType /\ i \in Nat /\ i # 0
  BY RowsAreReadings
<1>2. row \in counted <=> row.decodes
  BY <1>1, DecodedLemma
<1> HIDE DEF counted
<1>3. \A t : Mentions(rows, counted, i, t) <=> (Mentions(rows, counted, i - 1, t) \/ (row \in counted /\ table = t))
  BY <1>1, NamedNext
<1>4. CASE row.decodes
  <2> DEFINE f == Find(es, table)
             e == [f EXCEPT !.columns = Append(@, row.column)]
  <2>1. table \in NameType /\ row.column \in NameType
    BY <1>1 DEF CellType
  <2>2. /\ f \in EntryType /\ f.table = table /\ ~f.cut /\ f.columns = C[table]
        /\ f.primaryKey = N[table] /\ Joined(f.indexes) = N[table]
    <3>1. Shows(es, C, N, N)
      BY DEF counted
    <3> HIDE DEF C, N, table
    <3>2. f \in EntryType /\ f.table = table /\ ~f.cut
      BY <2>1, <3>1, FoundShows
    <3>3. f.columns = C[table]
      BY <2>1, <3>1, FoundShows
    <3>4. f.primaryKey = N[table] /\ Joined(f.indexes) = N[table]
      BY <2>1, <3>1, FoundShows
    <3> QED BY <3>2, <3>3, <3>4
  <2> HIDE DEF f
  <2>3. /\ e \in EntryType /\ e.table = table /\ ~e.cut /\ e.columns = Append(f.columns, row.column)
        /\ e.primaryKey = f.primaryKey /\ e.indexes = f.indexes
    <3>1. e \in EntryType
      BY <2>1, <2>2, ColumnAdded
    <3> QED BY <2>2, <3>1 DEF EntryType
  <2> HIDE DEF e
  <2>4. D[table] = Append(C[table], row.column) /\ \A t \in NameType : t # table => D[t] = C[t]
    BY <1>1, <1>2, <1>4, RowRead
  <2>5. Shows(Put(es, e), D, N, N)
    <3> HIDE DEF C, D, N, table
    <3>1. e.columns = D[e.table] /\ e.primaryKey = N[e.table] /\ Joined(e.indexes) = N[e.table]
      BY <2>2, <2>3, <2>4
    <3>2. \A t \in NameType : t # e.table => D[t] = C[t] /\ N[t] = N[t] /\ N[t] = N[t]
      BY <2>3, <2>4
    <3>3. Shows(es, C, N, N)
      BY DEF C, N, counted
    <3> QED BY <2>3, <3>1, <3>2, <3>3, PutShows
  <2>6. \A t : Holds(Put(es, e), t) <=> (Holds(es, t) \/ t = table)
    <3>1. Entries(es)
      BY DEF Shows
    <3> QED BY <2>3, <3>1, PutHolds
  <2>7. WithColumn(es, row) = Put(es, e)
    BY <1>4 DEF WithColumn, e, f
  <2> QED
    BY <2>5, <2>6, <2>7, <1>2, <1>3, <1>4 DEF counted
<1>5. CASE ~row.decodes
  <2>1. D = C
    BY <1>1, <1>2, <1>5, RowSkipped
  <2>2. WithColumn(es, row) = es
    BY <1>5 DEF WithColumn
  <2> HIDE DEF C, D
  <2> QED
    BY <2>1, <2>2, <1>2, <1>3, <1>5 DEF counted, C, D
<1> QED BY <1>4, <1>5

\* A row more of its keys, beside the columns C and tables T that there are.
LEMMA KeyStep ==
  ASSUME NEW rows \in Seq(CellType), NEW i \in 1 .. Len(rows), NEW es, NEW C, NEW T,
         Shows(es, C, ColumnsAt(rows, Decoded(rows), i - 1), NoColumns),
         \A t : Holds(es, t) <=> (t \in T \/ Mentions(rows, Decoded(rows), i - 1, t))
  PROVE  /\ Shows(WithKey(es, rows[i]), C, ColumnsAt(rows, Decoded(rows), i), NoColumns)
         /\ \A t : Holds(WithKey(es, rows[i]), t) <=> (t \in T \/ Mentions(rows, Decoded(rows), i, t))
<1> DEFINE row == rows[i]
           table == row.table
           counted == Decoded(rows)
           K == ColumnsAt(rows, counted, i - 1)
           L == ColumnsAt(rows, counted, i)
           N == NoColumns
<1>1. Reading(rows) /\ row \in CellType /\ i \in Nat /\ i # 0
  BY RowsAreReadings
<1>2. row \in counted <=> row.decodes
  BY <1>1, DecodedLemma
<1> HIDE DEF counted
<1>3. \A t : Mentions(rows, counted, i, t) <=> (Mentions(rows, counted, i - 1, t) \/ (row \in counted /\ table = t))
  BY <1>1, NamedNext
<1>4. CASE row.decodes
  <2> DEFINE f == Find(es, table)
             e == [f EXCEPT !.primaryKey = Append(@, row.column)]
  <2>1. table \in NameType /\ row.column \in NameType
    BY <1>1 DEF CellType
  <2>2. Shows(es, C, K, N)
    BY DEF counted
  <2>3. /\ f \in EntryType /\ f.table = table /\ ~f.cut /\ f.columns = C[table]
        /\ f.primaryKey = K[table] /\ Joined(f.indexes) = N[table]
    <3> HIDE DEF K, N, table
    <3>1. f \in EntryType /\ f.table = table /\ ~f.cut
      BY <2>1, <2>2, FoundShows
    <3>2. f.columns = C[table]
      BY <2>1, <2>2, FoundShows
    <3>3. f.primaryKey = K[table]
      BY <2>1, <2>2, FoundShows
    <3>4. Joined(f.indexes) = N[table]
      BY <2>1, <2>2, FoundShows
    <3> QED BY <3>1, <3>2, <3>3, <3>4
  <2> HIDE DEF f
  <2>4. /\ e \in EntryType /\ e.table = table /\ ~e.cut /\ e.columns = f.columns
        /\ e.primaryKey = Append(f.primaryKey, row.column) /\ e.indexes = f.indexes
    <3>1. e \in EntryType
      BY <2>1, <2>3, ColumnAdded
    <3> QED BY <2>3, <3>1 DEF EntryType
  <2> HIDE DEF e
  <2>5. L[table] = Append(K[table], row.column) /\ \A t \in NameType : t # table => L[t] = K[t]
    BY <1>1, <1>2, <1>4, RowRead
  <2>6. Shows(Put(es, e), C, L, N)
    <3> HIDE DEF K, L, N, table
    <3>1. e.columns = C[e.table] /\ e.primaryKey = L[e.table] /\ Joined(e.indexes) = N[e.table]
      BY <2>3, <2>4, <2>5
    <3>2. \A t \in NameType : t # e.table => C[t] = C[t] /\ L[t] = K[t] /\ N[t] = N[t]
      BY <2>4, <2>5
    <3> QED BY <2>2, <2>4, <3>1, <3>2, PutShows
  <2>7. \A t : Holds(Put(es, e), t) <=> (Holds(es, t) \/ t = table)
    <3>1. Entries(es)
      BY DEF Shows
    <3> QED BY <2>4, <3>1, PutHolds
  <2>8. WithKey(es, row) = Put(es, e)
    BY <1>4 DEF WithKey, e, f
  <2> QED
    BY <2>6, <2>7, <2>8, <1>2, <1>3, <1>4 DEF counted
<1>5. CASE ~row.decodes
  <2>1. L = K
    BY <1>1, <1>2, <1>5, RowSkipped
  <2>2. WithKey(es, row) = es
    BY <1>5 DEF WithKey
  <2> HIDE DEF K, L
  <2> QED
    BY <2>1, <2>2, <1>2, <1>3, <1>5 DEF counted, K, L
<1> QED BY <1>4, <1>5

\* A row more of its indexes, unless the description fails.
LEMMA IndexStep ==
  ASSUME NEW rows \in Seq(IndexRowType), NEW i \in 1 .. Len(rows), NEW s \in IndexingType, NEW C, NEW K, NEW T,
         ~s.failed =>
           /\ Shows(s.tables, C, K, ColumnsAt(rows, Decoded(rows), i - 1))
           /\ \A t : Holds(s.tables, t) <=> (t \in T \/ Mentions(rows, Decoded(rows), i - 1, t)),
         ~WithIndex(s, rows[i]).failed
  PROVE  /\ Shows(WithIndex(s, rows[i]).tables, C, K, ColumnsAt(rows, Decoded(rows), i))
         /\ \A t : Holds(WithIndex(s, rows[i]).tables, t) <=> (t \in T \/ Mentions(rows, Decoded(rows), i, t))
<1> DEFINE row == rows[i]
           table == row.table
           counted == Decoded(rows)
           X == ColumnsAt(rows, counted, i - 1)
           Y == ColumnsAt(rows, counted, i)
           es == s.tables
           new == WithIndex(s, row)
<1>1. Reading(rows) /\ row \in IndexRowType /\ i \in Nat /\ i # 0
  BY RowsAreReadings
<1>2. row \in counted <=> row.decodes
  BY <1>1, DecodedLemma
<1>3. ~s.failed
  BY DEF WithIndex
<1>4. Shows(es, C, K, X) /\ \A t : Holds(es, t) <=> (t \in T \/ Mentions(rows, counted, i - 1, t))
  BY <1>3
<1> HIDE DEF counted
<1>5. \A t : Mentions(rows, counted, i, t) <=> (Mentions(rows, counted, i - 1, t) \/ (row \in counted /\ table = t))
  BY <1>1, NamedNext
<1>6. CASE row.decodes
  <2> DEFINE f == Find(es, table)
             e == Indexed(f, row)
  <2>1. table \in NameType /\ row.column \in NameType
    BY <1>1 DEF IndexRowType
  <2>3. /\ f \in EntryType /\ f.table = table /\ ~f.cut /\ f.columns = C[table]
        /\ f.primaryKey = K[table] /\ Joined(f.indexes) = X[table]
    <3> HIDE DEF X, table, es
    <3>1. f \in EntryType /\ f.table = table /\ ~f.cut
      BY <2>1, <1>4, FoundShows
    <3>2. f.columns = C[table]
      BY <2>1, <1>4, FoundShows
    <3>3. f.primaryKey = K[table]
      BY <2>1, <1>4, FoundShows
    <3>4. Joined(f.indexes) = X[table]
      BY <2>1, <1>4, FoundShows
    <3> QED BY <3>1, <3>2, <3>3, <3>4
  <2>4. new = [tables |-> Put(es, e), failed |-> FALSE]
    BY <1>3, <1>6 DEF WithIndex
  <2> HIDE DEF f, new
  <2>5. /\ e \in EntryType /\ e.table = table /\ ~e.cut /\ e.columns = f.columns
        /\ e.primaryKey = f.primaryKey /\ Joined(e.indexes) = Append(Joined(f.indexes), row.column)
    BY <2>3, <1>1, IndexedLemma
  <2> HIDE DEF e
  <2>6. Y[table] = Append(X[table], row.column) /\ \A t \in NameType : t # table => Y[t] = X[t]
    BY <1>1, <1>2, <1>6, RowRead
  <2>7. Shows(Put(es, e), C, K, Y)
    <3> HIDE DEF X, Y, table, es
    <3>1. e.columns = C[e.table] /\ e.primaryKey = K[e.table] /\ Joined(e.indexes) = Y[e.table]
      BY <2>3, <2>5, <2>6
    <3>2. \A t \in NameType : t # e.table => C[t] = C[t] /\ K[t] = K[t] /\ Y[t] = X[t]
      BY <2>5, <2>6
    <3> QED BY <1>4, <2>5, <3>1, <3>2, PutShows
  <2>8. \A t : Holds(Put(es, e), t) <=> (Holds(es, t) \/ t = table)
    <3> HIDE DEF es
    <3>1. Entries(es)
      BY <1>4 DEF Shows
    <3> QED BY <2>5, <3>1, PutHolds
  <2>9. new.tables = Put(es, e)
    BY <2>4
  <2> HIDE DEF X, Y, es
  <2>10. \A t : Holds(Put(es, e), t) <=> (t \in T \/ Mentions(rows, counted, i, t))
    BY <2>8, <1>2, <1>4, <1>5, <1>6
  <2> QED
    BY <2>7, <2>9, <2>10 DEF counted, new, Y
<1>7. CASE ~row.decodes
  <2>1. Y = X
    BY <1>1, <1>2, <1>7, RowSkipped
  <2>2. new = s
    BY <1>7 DEF WithIndex
  <2> HIDE DEF X, Y, new
  <2> QED
    BY <2>1, <2>2, <1>2, <1>4, <1>5, <1>7 DEF counted, Y, new
<1> QED BY <1>6, <1>7

\* After i rows of the columns, and likewise of the keys and of the indexes.
LEMMA ColumnedShows ==
  ASSUME NEW rows \in Seq(CellType), NEW i \in 0 .. Len(rows)
  PROVE  /\ Shows(Columned(rows)[i], ColumnsAt(rows, Decoded(rows), i), NoColumns, NoColumns)
         /\ \A t : Holds(Columned(rows)[i], t) <=> Mentions(rows, Decoded(rows), i, t)
<1> DEFINE es == Columned(rows)
           counted == Decoded(rows)
           Good(n) == /\ Shows(es[n], ColumnsAt(rows, counted, n), NoColumns, NoColumns)
                      /\ \A t : Holds(es[n], t) <=> Mentions(rows, counted, n, t)
           Lengths == {n \in Nat : n <= Len(rows) => Good(n)}
<1>1. Good(0)
  <2> DEFINE none == <<>>
  <2>1. es[0] = none
    BY ColumnedRecursion
  <2>2. none \in Seq(EntryType) /\ Len(none) = 0
    OBVIOUS
  <2> HIDE DEF none
  <2>3. Entries(none) /\ \A t : ~Holds(none, t)
    BY <2>2 DEF Entries, Holds
  <2>4. ColumnsAt(rows, counted, 0) = NoColumns
    BY RowsAreReadings, NothingRead
  <2>5. \A t \in NameType : NoColumns[t] = <<>>
    BY DEF NoColumns
  <2>6. Shows(none, NoColumns, NoColumns, NoColumns)
    BY <2>2, <2>3, <2>5 DEF Shows
  <2>7. \A t : ~Mentions(rows, counted, 0, t)
    BY DEF Mentions
  <2> HIDE DEF counted, es
  <2> QED BY <2>1, <2>3, <2>4, <2>6, <2>7
<1>2. ASSUME NEW n \in Nat, n \in Lengths PROVE n + 1 \in Lengths
  <2> HIDE DEF Good
  <2>1. SUFFICES ASSUME n + 1 <= Len(rows) PROVE Good(n + 1)
    OBVIOUS
  <2>2. n + 1 \in 1 .. Len(rows) /\ (n + 1) - 1 = n /\ Good(n)
    BY <1>2, <2>1
  <2> DEFINE m == n + 1
  <2>3. es[m] = WithColumn(es[m - 1], rows[m])
    BY <2>2, ColumnedRecursion
  <2>4. Good(m - 1)
    BY <2>2
  <2> HIDE DEF m, es
  <2> QED BY <2>2, <2>3, <2>4, ColumnStep DEF Good, m
<1>3. Len(rows) \in Nat
  OBVIOUS
<1> HIDE DEF Good
<1>4. ASSUME NEW n \in Nat PROVE n \in Lengths
  <2> SUFFICES 0 \in Lengths /\ \A k \in Nat : k \in Lengths => k + 1 \in Lengths
    <3> HIDE DEF Lengths
    <3> QED BY SetInduction
  <2> QED BY <1>1, <1>2
<1> QED BY <1>3, <1>4 DEF Good

LEMMA KeyedShows ==
  ASSUME NEW rows \in Seq(CellType), NEW i \in 0 .. Len(rows), NEW entries \in Catalog, NEW C, NEW T,
         Shows(entries, C, NoColumns, NoColumns), \A t : Holds(entries, t) <=> t \in T
  PROVE  /\ Shows(Keyed(entries, rows)[i], C, ColumnsAt(rows, Decoded(rows), i), NoColumns)
         /\ \A t : Holds(Keyed(entries, rows)[i], t) <=> (t \in T \/ Mentions(rows, Decoded(rows), i, t))
<1> DEFINE es == Keyed(entries, rows)
           counted == Decoded(rows)
           Good(n) == /\ Shows(es[n], C, ColumnsAt(rows, counted, n), NoColumns)
                      /\ \A t : Holds(es[n], t) <=> (t \in T \/ Mentions(rows, counted, n, t))
           Lengths == {n \in Nat : n <= Len(rows) => Good(n)}
<1>1. Good(0)
  <2>1. es[0] = entries
    BY KeyedRecursion
  <2>2. ColumnsAt(rows, counted, 0) = NoColumns
    BY RowsAreReadings, NothingRead
  <2>3. \A t : ~Mentions(rows, counted, 0, t)
    BY DEF Mentions
  <2> HIDE DEF counted, es
  <2> QED BY <2>1, <2>2, <2>3
<1>2. ASSUME NEW n \in Nat, n \in Lengths PROVE n + 1 \in Lengths
  <2> HIDE DEF Good
  <2>1. SUFFICES ASSUME n + 1 <= Len(rows) PROVE Good(n + 1)
    OBVIOUS
  <2>2. n + 1 \in 1 .. Len(rows) /\ (n + 1) - 1 = n /\ Good(n)
    BY <1>2, <2>1
  <2> DEFINE m == n + 1
  <2>3. es[m] = WithKey(es[m - 1], rows[m])
    BY <2>2, KeyedRecursion
  <2>4. Good(m - 1)
    BY <2>2
  <2> HIDE DEF m, es
  <2> QED BY <2>2, <2>3, <2>4, KeyStep DEF Good, m
<1>3. Len(rows) \in Nat
  OBVIOUS
<1> HIDE DEF Good
<1>4. ASSUME NEW n \in Nat PROVE n \in Lengths
  <2> SUFFICES 0 \in Lengths /\ \A k \in Nat : k \in Lengths => k + 1 \in Lengths
    <3> HIDE DEF Lengths
    <3> QED BY SetInduction
  <2> QED BY <1>1, <1>2
<1> QED BY <1>3, <1>4 DEF Good

LEMMA CompletedShows ==
  ASSUME NEW rows \in Seq(IndexRowType), NEW i \in 0 .. Len(rows), NEW entries \in Catalog, NEW C, NEW K, NEW T,
         Shows(entries, C, K, NoColumns), \A t : Holds(entries, t) <=> t \in T,
         ~Completed(entries, rows)[i].failed
  PROVE  /\ Shows(Completed(entries, rows)[i].tables, C, K, ColumnsAt(rows, Decoded(rows), i))
         /\ \A t : Holds(Completed(entries, rows)[i].tables, t) <=> (t \in T \/ Mentions(rows, Decoded(rows), i, t))
<1> DEFINE s == Completed(entries, rows)
           counted == Decoded(rows)
           Good(n) == ~s[n].failed =>
                        /\ Shows(s[n].tables, C, K, ColumnsAt(rows, counted, n))
                        /\ \A t : Holds(s[n].tables, t) <=> (t \in T \/ Mentions(rows, counted, n, t))
           Lengths == {n \in Nat : n <= Len(rows) => Good(n)}
<1>1. Good(0)
  <2>1. s[0].tables = entries
    <3> DEFINE start == [tables |-> entries, failed |-> FALSE]
    <3>1. start.tables = entries
      OBVIOUS
    <3> HIDE DEF start
    <3>2. s[0] = start
      BY CompletedRecursion DEF start
    <3> QED BY <3>1, <3>2
  <2>2. ColumnsAt(rows, counted, 0) = NoColumns
    BY RowsAreReadings, NothingRead
  <2>3. \A t : ~Mentions(rows, counted, 0, t)
    BY DEF Mentions
  <2> HIDE DEF counted, s
  <2> QED BY <2>1, <2>2, <2>3
<1>2. ASSUME NEW n \in Nat, n \in Lengths PROVE n + 1 \in Lengths
  <2> HIDE DEF Good
  <2>1. SUFFICES ASSUME n + 1 <= Len(rows) PROVE Good(n + 1)
    OBVIOUS
  <2>2. n + 1 \in 1 .. Len(rows) /\ (n + 1) - 1 = n /\ n \in 0 .. Len(rows) /\ Good(n)
    BY <1>2, <2>1
  <2> DEFINE m == n + 1
  <2>3. s[m] = WithIndex(s[m - 1], rows[m])
    BY <2>2, CompletedRecursion
  <2>4. Good(m - 1)
    BY <2>2
  <2>5. s[m - 1] \in IndexingType
    BY <2>2, CompletedRecursion
  <2> HIDE DEF m, s
  <2>6. SUFFICES ASSUME ~s[m].failed
                 PROVE  /\ Shows(s[m].tables, C, K, ColumnsAt(rows, counted, m))
                        /\ \A t : Holds(s[m].tables, t) <=> (t \in T \/ Mentions(rows, counted, m, t))
    BY DEF Good, m
  <2> DEFINE old == s[m - 1]
  <2>7. old \in IndexingType /\ s[m] = WithIndex(old, rows[m]) /\ ~WithIndex(old, rows[m]).failed /\ m \in 1 .. Len(rows)
    BY <2>2, <2>3, <2>5, <2>6 DEF m
  <2>8. ~old.failed =>
           /\ Shows(old.tables, C, K, ColumnsAt(rows, counted, m - 1))
           /\ \A t : Holds(old.tables, t) <=> (t \in T \/ Mentions(rows, counted, m - 1, t))
    BY <2>4 DEF Good
  <2> HIDE DEF old
  <2> QED BY <2>7, <2>8, IndexStep
<1>3. Len(rows) \in Nat
  OBVIOUS
<1> HIDE DEF Good
<1>4. ASSUME NEW n \in Nat PROVE n \in Lengths
  <2> SUFFICES 0 \in Lengths /\ \A k \in Nat : k \in Lengths => k + 1 \in Lengths
    <3> HIDE DEF Lengths
    <3> QED BY SetInduction
  <2> QED BY <1>1, <1>2
<1> QED BY <1>3, <1>4 DEF Good

\* What a description has when it has not failed: every column, key and index that
\* was read, of every table that a row names.
Complete(d) == Completed(Keyed(Columned(d.columns)[Len(d.columns)], d.keys)[Len(d.keys)], d.indexes)[Len(d.indexes)]
Told(rows, t) == Mentions(rows, Decoded(rows), Len(rows), t)

LEMMA CompleteLemma ==
  ASSUME NEW d, d.columns \in Seq(CellType), d.keys \in Seq(CellType), d.indexes \in Seq(IndexRowType)
  PROVE  /\ Complete(d).tables \in Catalog
         /\ ~Complete(d).failed =>
              /\ Shows(Complete(d).tables, ColumnsAt(d.columns, Decoded(d.columns), Len(d.columns)),
                       ColumnsAt(d.keys, Decoded(d.keys), Len(d.keys)),
                       ColumnsAt(d.indexes, Decoded(d.indexes), Len(d.indexes)))
              /\ \A t : Holds(Complete(d).tables, t) <=> (Told(d.columns, t) \/ Told(d.keys, t) \/ Told(d.indexes, t))
<1> DEFINE columns == d.columns
           keys == d.keys
           indexes == d.indexes
           C == ColumnsAt(columns, Decoded(columns), Len(columns))
           K == ColumnsAt(keys, Decoded(keys), Len(keys))
           X == ColumnsAt(indexes, Decoded(indexes), Len(indexes))
           es == Columned(columns)[Len(columns)]
           fs == Keyed(es, keys)[Len(keys)]
           s == Completed(fs, indexes)[Len(indexes)]
           T == {t \in NameType : Told(columns, t)}
           U == {t \in NameType : Told(columns, t) \/ Told(keys, t)}
<1>1. Len(columns) \in 0 .. Len(columns) /\ Len(keys) \in 0 .. Len(keys) /\ Len(indexes) \in 0 .. Len(indexes)
  OBVIOUS
<1>2. columns \in Seq(CellType) /\ keys \in Seq(CellType) /\ indexes \in Seq(IndexRowType)
  OBVIOUS
<1>3. \A t : (Told(columns, t) \/ Told(keys, t)) => t \in NameType
  <2>1. Reading(columns) /\ Reading(keys)
    BY <1>2, RowsAreReadings
  <2> QED BY <2>1 DEF Told, Mentions, Reading
<1> HIDE DEF columns, keys, indexes
<1>4. es \in Catalog
  BY <1>1, <1>2, ColumnedRecursion
<1>5. Shows(es, C, NoColumns, NoColumns)
  BY <1>1, <1>2, ColumnedShows
<1>6. \A t : Holds(es, t) <=> t \in T
  <2>1. \A t : Holds(es, t) <=> Told(columns, t)
    BY <1>1, <1>2, ColumnedShows DEF Told
  <2> QED BY <2>1, <1>3
<1> HIDE DEF es, C, T
<1>7. fs \in Catalog
  BY <1>1, <1>2, <1>4, KeyedRecursion
<1>8. Shows(fs, C, K, NoColumns) /\ \A t : Holds(fs, t) <=> (t \in T \/ Told(keys, t))
  BY <1>1, <1>2, <1>4, <1>5, <1>6, KeyedShows DEF Told
<1>9. \A t : Holds(fs, t) <=> t \in U
  BY <1>8, <1>3 DEF T
<1> HIDE DEF fs, K, U
<1>10. s \in IndexingType
  BY <1>1, <1>2, <1>7, CompletedRecursion
<1>11. ASSUME ~s.failed
       PROVE  Shows(s.tables, C, K, X) /\ \A t : Holds(s.tables, t) <=> (t \in U \/ Told(indexes, t))
  BY <1>1, <1>2, <1>7, <1>8, <1>9, <1>11, CompletedShows DEF Told
<1>12. s = Complete(d)
  BY DEF Complete, fs, es, columns, keys, indexes
<1> HIDE DEF s
<1>13. s.tables \in Catalog
  BY <1>10 DEF IndexingType
<1>14. \A t : t \in U <=> (Told(columns, t) \/ Told(keys, t))
  BY <1>3 DEF U
<1> QED
  BY <1>11, <1>12, <1>13, <1>14 DEF columns, keys, indexes, C, K

-----------------------------------------------------------------------------
(* The bytes of entries, and the columns that are charged.                      *)
LEMMA TotalIsNat ==
  ASSUME NEW s \in Seq(Nat)
  PROVE  Total(s) \in Nat
<1>1. Len(s) \in 0 .. Len(s)
  OBVIOUS
<1> QED BY <1>1, SumsGrow DEF Total

LEMMA ConstantsAreNat ==
  /\ SchemaResultBudget \in Nat /\ schemaTableBytes \in Nat /\ schemaColumnBytes \in Nat /\ describeTableBytes \in Nat
  /\ describeColumnBytes \in Nat /\ describeKeyBytes \in Nat /\ describeIndexBytes \in Nat
  BY BudgetsAssumption

LEMMA ColumnSizes ==
  ASSUME NEW columns \in Seq(NameType), NEW c \in Nat
  PROVE  /\ [k \in DOMAIN columns |-> c + columns[k].size] \in Seq(Nat)
         /\ Len([k \in DOMAIN columns |-> c + columns[k].size]) = Len(columns)
<1>1. \A k \in 1 .. Len(columns) : columns[k] \in NameType
  OBVIOUS
<1>2. \A k \in 1 .. Len(columns) : c + columns[k].size \in Nat
  BY <1>1 DEF NameType
<1>3. DOMAIN columns = 1 .. Len(columns) /\ Len(columns) \in Nat
  OBVIOUS
<1> QED BY <1>2, <1>3

LEMMA KeyBytesLemma ==
  ASSUME NEW columns \in Seq(NameType)
  PROVE  KeyBytes(columns) \in Nat /\ ColumnBytes(columns) \in Nat
<1>1. [k \in DOMAIN columns |-> describeKeyBytes + columns[k].size] \in Seq(Nat)
  BY ConstantsAreNat, ColumnSizes
<1>2. [k \in DOMAIN columns |-> describeColumnBytes + columns[k].size] \in Seq(Nat)
  BY ConstantsAreNat, ColumnSizes
<1> QED BY <1>1, <1>2, TotalIsNat DEF KeyBytes, ColumnBytes

LEMMA EntryBytesLemma ==
  ASSUME NEW e \in EntryType
  PROVE  EntryBytes(e) \in Nat /\ DescribedBytes(e) \in Nat
<1> DEFINE ix == e.indexes
           sizes == [k \in DOMAIN ix |-> IndexBytes(ix[k])]
<1>1. ix \in Seq(IndexType) /\ e.primaryKey \in Seq(NameType) /\ e.columns \in Seq(NameType) /\ e.table \in NameType
  BY DEF EntryType
<1>2. e.table.size \in Nat
  BY <1>1 DEF NameType
<1>3. ASSUME NEW k \in 1 .. Len(ix) PROVE IndexBytes(ix[k]) \in Nat
  <2>1. ix[k] \in IndexType
    BY <1>1
  <2>2. ix[k].name \in NameType /\ ix[k].columns \in Seq(NameType)
    BY <2>1 DEF IndexType
  <2>3. ix[k].name.size \in Nat
    BY <2>2 DEF NameType
  <2> DEFINE keys == KeyBytes(ix[k].columns)
             name == ix[k].name.size
  <2>4. keys \in Nat
    BY <2>2, KeyBytesLemma
  <2>5. describeIndexBytes \in Nat
    BY ConstantsAreNat
  <2>6. IndexBytes(ix[k]) = describeIndexBytes + name + keys
    BY DEF IndexBytes
  <2> HIDE DEF keys
  <2> QED BY <2>3, <2>4, <2>5, <2>6
<1>4. sizes \in Seq(Nat)
  <2>1. DOMAIN ix = 1 .. Len(ix) /\ Len(ix) \in Nat
    BY <1>1
  <2> HIDE DEF ix
  <2> QED BY <1>3, <2>1
<1>5. Total(sizes) \in Nat
  <2> HIDE DEF sizes
  <2> QED BY <1>4, TotalIsNat
<1>6. KeyBytes(e.primaryKey) \in Nat /\ ColumnBytes(e.columns) \in Nat
  BY <1>1, KeyBytesLemma
<1>7. EntryBytes(e) = describeTableBytes + e.table.size + KeyBytes(e.primaryKey) + Total(sizes)
  BY DEF EntryBytes
<1> HIDE DEF sizes
<1>8. EntryBytes(e) \in Nat
  BY <1>2, <1>5, <1>6, <1>7, ConstantsAreNat
<1> QED BY <1>6, <1>8 DEF DescribedBytes

LEMMA NoColumnBytes == ColumnBytes(<<>>) = 0
<1> DEFINE none == <<>>
           sizes == [k \in DOMAIN none |-> describeColumnBytes + none[k].size]
<1>1. none \in Seq(NameType) /\ Len(none) = 0
  OBVIOUS
<1> HIDE DEF none
<1>2. sizes \in Seq(Nat) /\ Len(sizes) = 0
  BY <1>1, ConstantsAreNat, ColumnSizes
<1> HIDE DEF sizes
<1>3. sizes \in Seq(Int)
  BY <1>2
<1>4. Total(sizes) = 0
  BY <1>2, <1>3, SumsLemma DEF Total
<1> QED BY <1>4 DEF ColumnBytes, sizes, none

\* Charged, with the number of columns that it chooses by name.
Fits(s, e, n) == s.spent + ColumnBytes(SubSeq(e.columns, 1, n)) <= SchemaResultBudget
Chosen(s, e) == CHOOSE n \in 0 .. Len(e.columns) : Fits(s, e, n) /\ (n = Len(e.columns) \/ ~Fits(s, e, n + 1))
Charge(s, e) ==
  [tables |-> Append(s.tables, [e EXCEPT !.columns = SubSeq(e.columns, 1, Chosen(s, e)),
                                         !.cut = Chosen(s, e) < Len(e.columns)]),
   spent |-> s.spent + ColumnBytes(SubSeq(e.columns, 1, Chosen(s, e))),
   over |-> Chosen(s, e) < Len(e.columns)]

LEMMA ChargedIsCharge ==
  ASSUME NEW s, NEW e
  PROVE  Charged(s, e) = IF s.over THEN s ELSE Charge(s, e)
  BY DEF Charged, Charge, Chosen, Fits

LEMMA ChosenLemma ==
  ASSUME NEW s, s.spent \in Nat, s.spent <= SchemaResultBudget, NEW e \in EntryType
  PROVE  Chosen(s, e) \in 0 .. Len(e.columns) /\ Fits(s, e, Chosen(s, e))
<1> DEFINE columns == e.columns
           Lengths == {m \in Nat : m <= Len(columns) =>
                         \E n \in 0 .. m : Fits(s, e, n) /\ (n = m \/ ~Fits(s, e, n + 1))}
<1>1. columns \in Seq(NameType) /\ Len(columns) \in Nat
  BY DEF EntryType
<1>2. 0 \in Lengths
  <2>1. SubSeq(e.columns, 1, 0) = <<>>
    BY <1>1
  <2>2. ColumnBytes(SubSeq(e.columns, 1, 0)) = 0
    BY <2>1, NoColumnBytes
  <2>3. Fits(s, e, 0)
    BY <2>2, ConstantsAreNat DEF Fits
  <2> QED BY <2>3
<1>3. ASSUME NEW m \in Nat, m \in Lengths PROVE m + 1 \in Lengths
  <2>1. SUFFICES ASSUME m + 1 <= Len(columns)
                 PROVE  \E n \in 0 .. m + 1 : Fits(s, e, n) /\ (n = m + 1 \/ ~Fits(s, e, n + 1))
    OBVIOUS
  <2> HIDE DEF columns
  <2>2. PICK n \in 0 .. m : Fits(s, e, n) /\ (n = m \/ ~Fits(s, e, n + 1))
    BY <1>3, <2>1, <1>1
  <2>3. n \in 0 .. m + 1 /\ m + 1 \in 0 .. m + 1
    OBVIOUS
  <2>4. CASE Fits(s, e, m + 1)
    BY <2>3, <2>4
  <2>5. CASE ~Fits(s, e, m + 1)
    BY <2>2, <2>3, <2>5
  <2> QED BY <2>4, <2>5
<1>4. Len(columns) \in Lengths
  <2> HIDE DEF Lengths, columns
  <2> QED BY <1>1, <1>2, <1>3, SetInduction
<1>5. \E n \in 0 .. Len(columns) : Fits(s, e, n) /\ (n = Len(columns) \/ ~Fits(s, e, n + 1))
  BY <1>4
<1> QED BY <1>5 DEF Chosen

ChargingType == {s \in [tables : Seq(EntryType), spent : Nat, over : BOOLEAN] : s.spent <= SchemaResultBudget}

LEMMA ChargeLemma ==
  ASSUME NEW s \in ChargingType, NEW e \in EntryType
  PROVE  /\ Charge(s, e) \in ChargingType
         /\ \E x \in EntryType, n \in 0 .. Len(e.columns) :
              /\ Charge(s, e).tables = Append(s.tables, x)
              /\ Charge(s, e).spent = s.spent + ColumnBytes(x.columns)
              /\ Charge(s, e).over = x.cut
              /\ x.table = e.table /\ x.primaryKey = e.primaryKey /\ x.indexes = e.indexes
              /\ x.columns = SubSeq(e.columns, 1, n) /\ (x.cut <=> n < Len(e.columns))
<1> DEFINE n == Chosen(s, e)
           kept == SubSeq(e.columns, 1, n)
           x == [e EXCEPT !.columns = kept, !.cut = n < Len(e.columns)]
           t == Charge(s, e)
<1>1. s.tables \in Seq(EntryType) /\ s.spent \in Nat /\ s.spent <= SchemaResultBudget
  BY DEF ChargingType
<1>2. n \in 0 .. Len(e.columns) /\ Fits(s, e, n)
  BY <1>1, ChosenLemma
<1>3. e.columns \in Seq(NameType)
  BY DEF EntryType
<1> HIDE DEF n
<1>4. kept \in Seq(NameType)
  BY <1>2, <1>3
<1>5. ColumnBytes(kept) \in Nat /\ s.spent + ColumnBytes(kept) <= SchemaResultBudget
  BY <1>2, <1>4, KeyBytesLemma DEF Fits
<1> HIDE DEF kept
<1>6. (n < Len(e.columns)) \in BOOLEAN
  OBVIOUS
<1>7. x \in EntryType /\ x.columns = kept /\ x.cut = (n < Len(e.columns))
  BY <1>4, <1>6 DEF EntryType
<1>8. x.table = e.table /\ x.primaryKey = e.primaryKey /\ x.indexes = e.indexes
  BY DEF EntryType
<1>9. t = [tables |-> Append(s.tables, x), spent |-> s.spent + ColumnBytes(kept), over |-> n < Len(e.columns)]
  BY DEF Charge, n, kept
<1> HIDE DEF x, t
<1>10. t.tables = Append(s.tables, x) /\ t.spent = s.spent + ColumnBytes(kept) /\ t.over = (n < Len(e.columns))
  BY <1>9
<1>11. Append(s.tables, x) \in Seq(EntryType) /\ s.spent + ColumnBytes(kept) \in Nat
  BY <1>1, <1>5, <1>7
<1>12. t \in ChargingType
  BY <1>5, <1>6, <1>9, <1>10, <1>11 DEF ChargingType
<1>13. t.spent = s.spent + ColumnBytes(x.columns) /\ t.over = x.cut
  BY <1>7, <1>10
<1>14. x.columns = SubSeq(e.columns, 1, n) /\ (x.cut <=> n < Len(e.columns))
  BY <1>7 DEF kept
<1> QED BY <1>2, <1>7, <1>8, <1>10, <1>12, <1>13, <1>14 DEF t

\* Entry by entry.
LEMMA ChargesRecursion ==
  ASSUME NEW entries \in Seq(EntryType), Fixed(entries) \in Nat, Fixed(entries) <= SchemaResultBudget
  PROVE  /\ Charges(entries)[0] = [tables |-> <<>>, spent |-> Fixed(entries), over |-> FALSE]
         /\ \A i \in 1 .. Len(entries) : Charges(entries)[i] = Charged(Charges(entries)[i - 1], entries[i])
         /\ \A i \in 0 .. Len(entries) : Charges(entries)[i] \in ChargingType
<1> DEFINE n == Len(entries)
           a == [tables |-> <<>>, spent |-> Fixed(entries), over |-> FALSE]
           S == ChargingType
           Step(s, i) == Charged(s, entries[i])
           step == [i \in 1 .. n |-> [s \in S |-> Step(s, i)]]
           Again(b, i) == Once({Step(s, i) : s \in {b}})
           F(f) == [i \in 0 .. n |-> IF i = 0 THEN a ELSE Again(f[i - 1], i)]
<1>1. n \in Nat /\ a \in S
  <2>1. <<>> \in Seq(EntryType)
    OBVIOUS
  <2> QED BY <2>1 DEF ChargingType
<1>2. ASSUME NEW i \in 1 .. n, NEW s \in S PROVE Step(s, i) \in S
  <2>1. entries[i] \in EntryType
    OBVIOUS
  <2>2. Charge(s, entries[i]) \in S
    BY <2>1, ChargeLemma
  <2> QED BY <2>2, ChargedIsCharge, Zenon
<1>3. \A s, i : Again(s, i) = Step(s, i)
  <2> TAKE s, i
  <2>1. {Step(b, i) : b \in {s}} = {Step(s, i)}
    OBVIOUS
  <2> QED BY <2>1, OnceLemma
<1>4. PICK f \in [0 .. n -> S] : Follows(f, n, a, step)
  <2> HIDE DEF Again, Step, a, n, S
  <2>1. step \in [1 .. n -> [S -> S]]
    BY <1>2
  <2> HIDE DEF step
  <2>2. Solvable(S, n, a, step)
    BY <1>1, <2>1, RecursionLemma, Zenon
  <2> QED BY <2>2 DEF Solvable
<1>5. f = F(f)
  <2> HIDE DEF Again, Step, a, n, S
  <2>1. ASSUME NEW i \in 0 .. n PROVE f[i] = IF i = 0 THEN a ELSE Again(f[i - 1], i)
    <3>1. CASE i = 0
      BY <3>1, <1>4 DEF Follows
    <3>2. CASE i # 0
      <4>1. i \in 1 .. n /\ i - 1 \in 0 .. n
        BY <3>2, <1>1
      <4>2. f[i - 1] \in S
        BY <4>1, <1>4
      <4>3. f[i] = step[i][f[i - 1]]
        BY <4>1, <1>4 DEF Follows
      <4>4. f[i] = Step(f[i - 1], i)
        BY <4>1, <4>2, <4>3
      <4> QED BY <4>4, <3>2, <1>3
    <3> QED BY <3>1, <3>2
  <2>2. f = [i \in 0 .. n |-> f[i]]
    BY <1>4
  <2> QED
    BY <2>1, <2>2
<1> DEFINE upTo == CHOOSE g : g = F(g)
<1>6. upTo = F(upTo)
  <2> HIDE DEF F
  <2> QED BY <1>5
<1>7. Charges(entries) = upTo
  BY DEF Charges
<1> HIDE DEF upTo
<1>8. upTo[0] = a /\ \A i \in 1 .. n : upTo[i] = Step(upTo[i - 1], i)
  <2> HIDE DEF Again, Step, a, n, S
  <2>1. upTo[0] = a
    BY <1>6, <1>1
  <2>2. ASSUME NEW i \in 1 .. n PROVE upTo[i] = Step(upTo[i - 1], i)
    BY <1>6, <1>1, <1>3
  <2> QED BY <2>1, <2>2
<1>9. \A i \in 0 .. n : upTo[i] \in S
  <2>1. \A i \in 1 .. n : upTo[i - 1] \in S => upTo[i] \in S
    <3> HIDE DEF Step, n, S, a
    <3> QED BY <1>8, <1>2
  <2> HIDE DEF n, S, Step, a
  <2> QED
    BY <1>1, <1>8, <2>1, SolutionLemma
<1> HIDE DEF n, S
<1> QED
  BY <1>7, <1>8, <1>9 DEF n, S

-----------------------------------------------------------------------------
(* What the entries of a description take, and which of them are cut.           *)
EntrySizes(es) == [k \in DOMAIN es |-> EntryBytes(es[k])]
DescribedSizes(es) == [k \in DOMAIN es |-> DescribedBytes(es[k])]

LEMMA EntrySizesLemma ==
  ASSUME NEW es \in Seq(EntryType)
  PROVE  /\ EntrySizes(es) \in Seq(Nat) /\ Len(EntrySizes(es)) = Len(es)
         /\ DescribedSizes(es) \in Seq(Nat) /\ Len(DescribedSizes(es)) = Len(es)
         /\ \A k \in 1 .. Len(es) : EntrySizes(es)[k] = EntryBytes(es[k]) /\ DescribedSizes(es)[k] = DescribedBytes(es[k])
         /\ Fixed(es) = Sums(EntrySizes(es))[Len(es)] /\ Fixed(es) \in Nat
<1>1. \A k \in 1 .. Len(es) : EntryBytes(es[k]) \in Nat /\ DescribedBytes(es[k]) \in Nat
  <2> TAKE k \in 1 .. Len(es)
  <2>1. es[k] \in EntryType
    OBVIOUS
  <2> QED BY <2>1, EntryBytesLemma
<1>2. DOMAIN es = 1 .. Len(es) /\ Len(es) \in Nat
  OBVIOUS
<1>3. EntrySizes(es) \in Seq(Nat) /\ Len(EntrySizes(es)) = Len(es)
  BY <1>1, <1>2 DEF EntrySizes
<1>4. DescribedSizes(es) \in Seq(Nat) /\ Len(DescribedSizes(es)) = Len(es)
  BY <1>1, <1>2 DEF DescribedSizes
<1>5. \A k \in 1 .. Len(es) : EntrySizes(es)[k] = EntryBytes(es[k]) /\ DescribedSizes(es)[k] = DescribedBytes(es[k])
  BY <1>2 DEF EntrySizes, DescribedSizes
<1>6. Fixed(es) = Total(EntrySizes(es))
  BY DEF Fixed, EntrySizes
<1>7. Fixed(es) = Sums(EntrySizes(es))[Len(es)] /\ Fixed(es) \in Nat
  BY <1>3, <1>6, TotalIsNat DEF Total
<1> QED BY <1>3, <1>4, <1>5, <1>7

LEMMA DescribedAppend ==
  ASSUME NEW es \in Seq(EntryType), NEW x \in EntryType
  PROVE  Total(DescribedSizes(Append(es, x))) = Total(DescribedSizes(es)) + DescribedBytes(x)
<1> DEFINE s == DescribedSizes(es)
           y == DescribedBytes(x)
           new == Append(es, x)
           t == DescribedSizes(new)
<1>1. s \in Seq(Nat) /\ Len(s) = Len(es) /\ y \in Nat
  BY EntrySizesLemma, EntryBytesLemma
<1>2. new \in Seq(EntryType) /\ Len(new) = Len(es) + 1 /\ new[Len(es) + 1] = x /\ \A k \in 1 .. Len(es) : new[k] = es[k]
  OBVIOUS
<1>3. \A k \in 1 .. Len(es) : s[k] = DescribedBytes(es[k])
  BY EntrySizesLemma
<1> HIDE DEF new
<1>4. t \in Seq(Nat) /\ Len(t) = Len(new) /\ \A k \in 1 .. Len(new) : t[k] = DescribedBytes(new[k])
  BY <1>2, EntrySizesLemma
<1>5. Len(es) \in Nat
  OBVIOUS
<1>6. t[Len(es) + 1] = y /\ \A k \in 1 .. Len(es) : t[k] = s[k]
  BY <1>2, <1>3, <1>4, <1>5
<1> HIDE DEF s, t, y
<1> DEFINE u == Append(s, y)
<1>7. u \in Seq(Nat) /\ Len(u) = Len(es) + 1 /\ u[Len(es) + 1] = y /\ \A k \in 1 .. Len(es) : u[k] = s[k]
  BY <1>1, <1>5
<1> HIDE DEF u
<1>8. \A k \in 1 .. Len(t) : t[k] = u[k]
  <2> TAKE k \in 1 .. Len(t)
  <2>1. k \in 1 .. Len(es) \/ k = Len(es) + 1
    BY <1>2, <1>4, <1>5
  <2>2. CASE k \in 1 .. Len(es)
    BY <1>6, <1>7, <2>2
  <2>3. CASE k = Len(es) + 1
    BY <1>6, <1>7, <2>3
  <2> QED BY <2>1, <2>2, <2>3
<1>9. t = u
  BY <1>2, <1>4, <1>7, <1>8, SeqEqual
<1>10. Total(u) = Total(s) + y
  BY <1>1, TotalAppend DEF u
<1> QED BY <1>9, <1>10 DEF s, t, y, new

LEMMA DescribedNone == Total(DescribedSizes(<<>>)) = 0
<1> DEFINE none == <<>>
           sizes == DescribedSizes(none)
<1>1. none \in Seq(EntryType) /\ Len(none) = 0
  OBVIOUS
<1> HIDE DEF none
<1>2. sizes \in Seq(Nat) /\ Len(sizes) = 0
  BY <1>1, EntrySizesLemma
<1> HIDE DEF sizes
<1>3. sizes \in Seq(Int)
  BY <1>2
<1>4. Total(sizes) = 0
  BY <1>2, <1>3, SumsLemma DEF Total
<1> QED BY <1>4 DEF sizes, none

\* After n entries: the entries so far, the last of them shorter when it is over.
Shortened(e, x, over, last) ==
  /\ x.table = e.table /\ x.primaryKey = e.primaryKey /\ x.indexes = e.indexes
  /\ IsPrefix(x.columns, e.columns)
  /\ ~x.cut => x.columns = e.columns
  /\ x.cut => over /\ last
ChargedSoFar(entries, s, n) ==
  /\ Len(s.tables) <= n /\ (~s.over => Len(s.tables) = n)
  /\ \A k \in 1 .. Len(s.tables) : Shortened(entries[k], s.tables[k], s.over, k = Len(s.tables))
  /\ Total(DescribedSizes(s.tables)) + Fixed(entries) = Sums(EntrySizes(entries))[Len(s.tables)] + s.spent

LEMMA ChargeStep ==
  ASSUME NEW entries \in Seq(EntryType), NEW s \in ChargingType, NEW n \in 1 .. Len(entries),
         ChargedSoFar(entries, s, n - 1)
  PROVE  ChargedSoFar(entries, Charged(s, entries[n]), n)
<1> DEFINE old == s.tables
           e == entries[n]
           c == Charge(s, e)
<1>1. old \in Seq(EntryType) /\ s.spent \in Nat /\ s.over \in BOOLEAN
  BY DEF ChargingType
<1>2. Len(old) \in Nat /\ Len(entries) \in Nat /\ e \in EntryType
  BY <1>1
<1>3. CASE s.over
  <2>1. Charged(s, e) = s
    BY <1>3, ChargedIsCharge
  <2>2. Len(s.tables) <= n
    BY <1>2 DEF ChargedSoFar
  <2>3. ChargedSoFar(entries, s, n)
    BY <1>3, <2>2 DEF ChargedSoFar
  <2> QED BY <2>1, <2>3
<1>4. CASE ~s.over
  <2>1. Charged(s, e) = c
    BY <1>4, ChargedIsCharge
  <2>2. Len(old) = n - 1 /\ \A k \in 1 .. Len(old) : Shortened(entries[k], old[k], s.over, k = Len(old))
    BY <1>4 DEF ChargedSoFar
  <2>3. PICK x \in EntryType, m \in 0 .. Len(e.columns) :
              /\ c.tables = Append(old, x)
              /\ c.spent = s.spent + ColumnBytes(x.columns)
              /\ c.over = x.cut
              /\ x.table = e.table /\ x.primaryKey = e.primaryKey /\ x.indexes = e.indexes
              /\ x.columns = SubSeq(e.columns, 1, m) /\ (x.cut <=> m < Len(e.columns))
    BY <1>2, ChargeLemma
  <2>4. c \in ChargingType
    BY <1>2, ChargeLemma
  <2> HIDE DEF c
  <2>5. e.columns \in Seq(NameType)
    BY <1>2 DEF EntryType
  <2>6. IsPrefix(x.columns, e.columns) /\ (~x.cut => x.columns = e.columns)
    <3> DEFINE whole == e.columns
               part == SubSeq(whole, 1, m)
    <3>1. whole \in Seq(NameType) /\ m \in 0 .. Len(whole) /\ x.columns = part /\ (x.cut <=> m < Len(whole))
      BY <2>3, <2>5
    <3> HIDE DEF whole
    <3>2. part \in Seq(NameType) /\ Len(part) = m /\ \A i \in 1 .. m : part[i] = whole[i]
      BY <3>1
    <3>3. m = Len(whole) => part = whole
      BY <3>1, <3>2, SeqEqual
    <3> HIDE DEF part
    <3>4. IsPrefix(part, whole)
      BY <3>1, <3>2, BeginsLemma
    <3>5. ~x.cut => m = Len(whole)
      BY <3>1
    <3> QED BY <3>1, <3>3, <3>4, <3>5 DEF whole
  <2>7. Shortened(e, x, c.over, TRUE)
    BY <2>3, <2>6 DEF Shortened
  <2> DEFINE new == c.tables
  <2>8. Len(new) = n /\ new[n] = x /\ \A k \in 1 .. n - 1 : new[k] = old[k]
    BY <1>1, <1>2, <2>2, <2>3
  <2> HIDE DEF old, e
  <2>9. ASSUME NEW k \in 1 .. n PROVE Shortened(entries[k], new[k], c.over, k = n)
    <3>1. CASE k = n
      BY <2>7, <2>8, <3>1 DEF e
    <3>2. CASE k # n
      <4>1. k \in 1 .. n - 1 /\ k \in 1 .. Len(old) /\ new[k] = old[k]
        BY <2>2, <2>8, <3>2
      <4>2. Shortened(entries[k], old[k], s.over, k = Len(old))
        BY <4>1, <2>2
      <4>3. ~old[k].cut
        BY <4>2, <1>4 DEF Shortened
      <4> QED BY <4>1, <4>2, <4>3 DEF Shortened
    <3> QED BY <3>1, <3>2
  <2> DEFINE fixed == Fixed(entries)
             sums == Sums(EntrySizes(entries))
             was == Total(DescribedSizes(old))
             is == Total(DescribedSizes(new))
             columns == ColumnBytes(x.columns)
  <2>10. fixed \in Nat
    BY EntrySizesLemma
  <2>11. \A k \in 0 .. Len(entries) : sums[k] \in Int
    <3>1. EntrySizes(entries) \in Seq(Int) /\ Len(EntrySizes(entries)) = Len(entries)
      BY EntrySizesLemma
    <3> QED BY <3>1, SumsLemma
  <2>12. sums[n] = sums[n - 1] + EntryBytes(e)
    <3>1. EntrySizes(entries) \in Seq(Int) /\ Len(EntrySizes(entries)) = Len(entries)
      BY EntrySizesLemma
    <3>2. EntrySizes(entries)[n] = EntryBytes(e)
      BY EntrySizesLemma DEF e
    <3> QED BY <3>1, <3>2, SumsLemma
  <2>13. DescribedBytes(x) = EntryBytes(e) + columns
    BY <2>3 DEF DescribedBytes, EntryBytes
  <2>14. is = was + DescribedBytes(x)
    BY <1>1, <2>3, DescribedAppend DEF old
  <2>15. was + fixed = sums[n - 1] + s.spent
    BY <2>2 DEF ChargedSoFar, old
  <2>16. was \in Int /\ EntryBytes(e) \in Int /\ columns \in Int
    <3>1. DescribedSizes(old) \in Seq(Nat)
      BY <1>1, EntrySizesLemma DEF old
    <3>2. was \in Nat
      BY <3>1, TotalIsNat
    <3>3. x.columns \in Seq(NameType)
      BY DEF EntryType
    <3> QED BY <3>2, <3>3, <1>2, EntryBytesLemma, KeyBytesLemma
  <2>17. sums[n - 1] \in Int /\ c.spent = s.spent + columns
    BY <2>11, <2>3
  <2> HIDE DEF was, is, sums, fixed, columns
  <2>18. is + fixed = sums[n] + c.spent
    <3>2. s.spent \in Int /\ fixed \in Int
      BY <1>1, <2>10
    <3>3. is = was + (EntryBytes(e) + columns)
      BY <2>13, <2>14
    <3> DEFINE before == sums[n - 1]
               spent == s.spent
               bytes == EntryBytes(e)
    <3>4. before \in Int /\ spent \in Int /\ bytes \in Int /\ was + fixed = before + spent
      BY <2>15, <2>16, <2>17, <3>2
    <3>5. sums[n] = before + bytes /\ c.spent = spent + columns /\ is = was + (bytes + columns)
      BY <2>12, <2>17, <3>3
    <3> HIDE DEF before, spent, bytes
    <3>6. (was + (bytes + columns)) + fixed = (before + bytes) + (spent + columns)
      BY <3>2, <3>4, <2>16
    <3> QED BY <3>5, <3>6
  <2> QED
    BY <1>2, <2>1, <2>8, <2>9, <2>18 DEF ChargedSoFar, is, fixed, sums, e
<1> QED BY <1>1, <1>3, <1>4

LEMMA ChargesLemma ==
  ASSUME NEW entries \in Seq(EntryType), Fixed(entries) <= SchemaResultBudget
  PROVE  /\ Charges(entries)[Len(entries)] \in ChargingType
         /\ ChargedSoFar(entries, Charges(entries)[Len(entries)], Len(entries))
<1> DEFINE s == Charges(entries)
           start == [tables |-> <<>>, spent |-> Fixed(entries), over |-> FALSE]
           Good(n) == ChargedSoFar(entries, s[n], n)
           Lengths == {n \in Nat : n <= Len(entries) => Good(n)}
<1>1. Fixed(entries) \in Nat
  BY EntrySizesLemma
<1>2. s[0] = start
  BY <1>1, ChargesRecursion
<1>3. \A i \in 1 .. Len(entries) : s[i] = Charged(s[i - 1], entries[i])
  BY <1>1, ChargesRecursion
<1>4. \A i \in 0 .. Len(entries) : s[i] \in ChargingType
  BY <1>1, ChargesRecursion
<1>5. Len(entries) \in Nat
  OBVIOUS
<1> HIDE DEF s
<1>6. Good(0)
  <2> DEFINE none == <<>>
  <2>1. Len(none) = 0
    OBVIOUS
  <2>2. Total(DescribedSizes(none)) = 0
    BY DescribedNone
  <2>3. start.tables = none /\ start.spent = Fixed(entries) /\ ~start.over
    OBVIOUS
  <2>4. EntrySizes(entries) \in Seq(Int)
    BY EntrySizesLemma
  <2>5. Sums(EntrySizes(entries))[0] = 0
    BY <2>4, SumsLemma
  <2> HIDE DEF start, none
  <2>6. ChargedSoFar(entries, start, 0)
    BY <2>1, <2>2, <2>3, <2>5, <1>1 DEF ChargedSoFar
  <2> QED BY <1>2, <2>6
<1>7. ASSUME NEW n \in Nat, n \in Lengths PROVE n + 1 \in Lengths
  <2> SUFFICES ASSUME n + 1 <= Len(entries) PROVE Good(n + 1)
    OBVIOUS
  <2> DEFINE m == n + 1
  <2>1. m \in 1 .. Len(entries) /\ m - 1 = n /\ m - 1 \in 0 .. Len(entries) /\ Good(m - 1)
    BY <1>7, <1>5
  <2> HIDE DEF m
  <2>2. s[m - 1] \in ChargingType /\ s[m] = Charged(s[m - 1], entries[m])
    BY <2>1, <1>3, <1>4
  <2>3. ChargedSoFar(entries, Charged(s[m - 1], entries[m]), m)
    BY <2>1, <2>2, ChargeStep
  <2> QED BY <2>2, <2>3 DEF m
<1> HIDE DEF Good
<1>8. Len(entries) \in Lengths
  <2>1. 0 \in Lengths
    BY <1>6
  <2> HIDE DEF Lengths
  <2> QED BY <1>5, <1>7, <2>1, SetInduction
<1>9. Good(Len(entries))
  BY <1>5, <1>8
<1>10. s[Len(entries)] \in ChargingType
  BY <1>4, <1>5
<1> QED BY <1>9, <1>10 DEF Good, s

-----------------------------------------------------------------------------
(* The answer of describe_table.                                                *)
LEMMA TruncationLemma ==
  ASSUME NEW capped, NEW over
  PROVE  /\ TruncationOf(capped, over) = "byte_budget" <=> over
         /\ TruncationOf(capped, over) # "failed"
         /\ ~over => TruncationOf(capped, over) = TruncationOf(capped, FALSE)
  BY DEF TruncationOf

LEMMA ToldLemma ==
  ASSUME NEW rows, Reading(rows), NEW t
  PROVE  Told(rows, t) <=> \E r \in Decoded(rows) : r.table = t
<1>1. ASSUME NEW j \in 1 .. Len(rows), rows[j] \in Decoded(rows), rows[j].table = t
      PROVE  \E r \in Decoded(rows) : r.table = t
  BY <1>1
<1>2. ASSUME NEW r \in Decoded(rows), r.table = t
      PROVE  \E j \in 1 .. Len(rows) : rows[j] \in Decoded(rows) /\ rows[j].table = t
  <2>1. r \in ToSet(rows)
    BY DEF Decoded
  <2>2. PICK j \in 1 .. Len(rows) : rows[j] = r
    BY <2>1 DEF ToSet, Reading
  <2> QED BY <2>2, <1>2
<1> QED BY <1>1, <1>2 DEF Told, Mentions

\* The entries of an answer that is not a failure are those of the whole
\* description, the last of them cut.
LEMMA ShortLastLemma ==
  ASSUME NEW rows, Reading(rows), NEW counted, NEW shown,
         NEW entries \in Seq(EntryType), NEW s \in ChargingType,
         ChargedSoFar(entries, s, Len(entries)),
         \A k \in 1 .. Len(entries) : entries[k].columns = ColumnsIn(rows, entries[k].table, counted),
         \A t : Holds(entries, t) <=> \E r \in shown : r.table = t
  PROVE  ShortOnesSaySo(s.tables, s.over, rows, counted, shown)
<1> DEFINE new == s.tables
<1>1. new \in Seq(EntryType) /\ Len(new) \in Nat /\ Len(entries) \in Nat /\ DOMAIN new = 1 .. Len(new)
  BY DEF ChargingType
<1>2. /\ Len(new) <= Len(entries) /\ (~s.over => Len(new) = Len(entries))
      /\ \A k \in 1 .. Len(new) : Shortened(entries[k], new[k], s.over, k = Len(new))
  BY DEF ChargedSoFar
<1> DEFINE m == Len(new)
<1>0. m \in Nat /\ m <= Len(entries) /\ Len(entries) \in Nat
  BY <1>1, <1>2
<1> HIDE DEF new
<1>3. ASSUME NEW k \in 1 .. Len(new)
      PROVE  /\ new[k].cut => k = Len(new) /\ s.over
             /\ ~new[k].cut => new[k].columns = ColumnsIn(rows, new[k].table, counted)
             /\ IsPrefix(new[k].columns, ColumnsIn(rows, new[k].table, counted))
             /\ new[k].table = entries[k].table
  <2>1. k \in 1 .. Len(entries)
    <3>1. k \in 1 .. m
      OBVIOUS
    <3> HIDE DEF m
    <3> QED BY <3>1, <1>0
  <2>2. Shortened(entries[k], new[k], s.over, k = Len(new)) /\ entries[k].columns = ColumnsIn(rows, entries[k].table, counted)
    BY <1>2, <2>1
  <2> QED BY <2>2 DEF Shortened
<1>4. ASSUME ~s.over PROVE {new[k].table : k \in DOMAIN new} = {r.table : r \in shown}
  <2>1. Len(new) = Len(entries)
    BY <1>2, <1>4
  <2>2. ASSUME NEW t PROVE t \in {new[k].table : k \in DOMAIN new} <=> Holds(entries, t)
    <3>1. \A k \in 1 .. Len(entries) : new[k].table = entries[k].table
      BY <1>3, <2>1
    <3>2. t \in {new[k].table : k \in DOMAIN new} <=> \E k \in 1 .. Len(entries) : new[k].table = t
      BY <1>1, <2>1
    <3> QED BY <3>1, <3>2 DEF Holds
  <2> QED BY <2>2
<1> QED BY <1>1, <1>3, <1>4 DEF ShortOnesSaySo, new

LEMMA DescribeAnswerLemma ==
  ASSUME NEW d, d.columns \in Seq(CellType), d.keys \in Seq(CellType), d.indexes \in Seq(IndexRowType),
         NEW out, out = describeTables(d.columns, d.keys, d.indexes), ~out.failed
  PROVE  DescribeAnswer(d, [tables |-> out.tables, truncation |-> TruncationOf(d.capped, out.over)])
<1> DEFINE all == Complete(d)
           es == all.tables
           s == Charges(es)[Len(es)]
           counted == Decoded(d.columns)
           shown == Decoded(d.columns) \cup Decoded(d.keys) \cup Decoded(d.indexes)
<1>1. ~all.failed /\ ~(Fixed(es) > SchemaResultBudget) /\ out.tables = s.tables /\ out.over = s.over
  BY DEF describeTables, Complete
<1>2. es \in Catalog
  BY CompleteLemma
<1>3. es \in Seq(EntryType)
  BY <1>2 DEF Catalog
<1>4. Fixed(es) <= SchemaResultBudget
  <2>1. Fixed(es) \in Nat
    BY <1>3, EntrySizesLemma
  <2> QED BY <1>1, <2>1, ConstantsAreNat
<1>5. Shows(es, ColumnsAt(d.columns, Decoded(d.columns), Len(d.columns)),
               ColumnsAt(d.keys, Decoded(d.keys), Len(d.keys)),
               ColumnsAt(d.indexes, Decoded(d.indexes), Len(d.indexes)))
  BY <1>1, CompleteLemma
<1>6. \A t : Holds(es, t) <=> (Told(d.columns, t) \/ Told(d.keys, t) \/ Told(d.indexes, t))
  BY <1>1, CompleteLemma
<1>7. Reading(d.columns) /\ Reading(d.keys) /\ Reading(d.indexes)
  BY RowsAreReadings
<1> HIDE DEF all, es
<1>8. s \in ChargingType /\ ChargedSoFar(es, s, Len(es))
  BY <1>3, <1>4, ChargesLemma
<1>9. \A t : Holds(es, t) <=> \E r \in shown : r.table = t
  BY <1>6, <1>7, ToldLemma
<1>10. ASSUME NEW k \in 1 .. Len(es)
       PROVE  /\ es[k].columns = ColumnsIn(d.columns, es[k].table, counted)
              /\ es[k].primaryKey = ColumnsIn(d.keys, es[k].table, Decoded(d.keys))
              /\ Joined(es[k].indexes) = ColumnsIn(d.indexes, es[k].table, Decoded(d.indexes))
  <2>1. es[k] \in EntryType
    BY <1>3
  <2>2. es[k].table \in NameType
    BY <2>1 DEF EntryType
  <2> DEFINE C == ColumnsAt(d.columns, Decoded(d.columns), Len(d.columns))
             K == ColumnsAt(d.keys, Decoded(d.keys), Len(d.keys))
             X == ColumnsAt(d.indexes, Decoded(d.indexes), Len(d.indexes))
  <2>3. es[k].columns = C[es[k].table] /\ es[k].primaryKey = K[es[k].table] /\ Joined(es[k].indexes) = X[es[k].table]
    <3> HIDE DEF C, K, X
    <3>1. Shows(es, C, K, X)
      BY <1>5 DEF C, K, X
    <3> QED BY <3>1 DEF Shows
  <2>4. C[es[k].table] = ColumnsIn(d.columns, es[k].table, counted)
    BY <2>2 DEF ColumnsAt, ColumnsIn
  <2>5. K[es[k].table] = ColumnsIn(d.keys, es[k].table, Decoded(d.keys))
    BY <2>2 DEF ColumnsAt, ColumnsIn
  <2>6. X[es[k].table] = ColumnsIn(d.indexes, es[k].table, Decoded(d.indexes))
    BY <2>2 DEF ColumnsAt, ColumnsIn
  <2> QED BY <2>3, <2>4, <2>5, <2>6
<1> HIDE DEF s, shown, counted
<1>11. ShortOnesSaySo(s.tables, s.over, d.columns, counted, shown)
  BY <1>3, <1>7, <1>8, <1>9, <1>10, ShortLastLemma
<1>12. s.tables \in Seq(EntryType) /\ s.spent \in Nat /\ s.spent <= SchemaResultBudget
  BY <1>8 DEF ChargingType
<1>13. Len(s.tables) \in Nat /\ Len(s.tables) <= Len(es) /\ DOMAIN s.tables = 1 .. Len(s.tables)
  BY <1>8, <1>12 DEF ChargedSoFar
<1>14. ASSUME NEW k \in DOMAIN s.tables
       PROVE  /\ s.tables[k].primaryKey = ColumnsIn(d.keys, s.tables[k].table, Decoded(d.keys))
              /\ Joined(s.tables[k].indexes) = ColumnsIn(d.indexes, s.tables[k].table, Decoded(d.indexes))
  <2>1. k \in 1 .. Len(es) /\ k \in 1 .. Len(s.tables)
    BY <1>3, <1>13
  <2>2. Shortened(es[k], s.tables[k], s.over, k = Len(s.tables))
    BY <2>1, <1>8 DEF ChargedSoFar
  <2> QED BY <2>1, <2>2, <1>10 DEF Shortened
<1>15. Total(DescribedSizes(s.tables)) <= SchemaResultBudget
  <2> DEFINE t == Total(DescribedSizes(s.tables))
             fixed == Fixed(es)
             sums == Sums(EntrySizes(es))
             m == Len(s.tables)
  <2>1. t + fixed = sums[m] + s.spent
    BY <1>8 DEF ChargedSoFar
  <2>2. EntrySizes(es) \in Seq(Nat) /\ Len(EntrySizes(es)) = Len(es) /\ fixed = sums[Len(es)] /\ fixed \in Nat
    BY <1>3, EntrySizesLemma
  <2>3. m \in 0 .. Len(es) /\ Len(es) \in 0 .. Len(es) /\ m <= Len(es)
    BY <1>3, <1>13
  <2>4. sums[m] <= fixed /\ sums[m] \in Nat
    BY <2>2, <2>3, SumsGrow
  <2>5. t \in Nat
    <3>1. DescribedSizes(s.tables) \in Seq(Nat)
      BY <1>12, EntrySizesLemma
    <3> QED BY <3>1, TotalIsNat
  <2> HIDE DEF t, fixed, sums, m
  <2>6. t <= SchemaResultBudget
    BY <2>1, <2>2, <2>4, <2>5, <1>12, ConstantsAreNat
  <2> QED BY <2>6 DEF t
<1> DEFINE answer == [tables |-> out.tables, truncation |-> TruncationOf(d.capped, out.over)]
<1>16. answer.tables = s.tables /\ answer.truncation = TruncationOf(d.capped, s.over)
  BY <1>1 DEF s
<1> HIDE DEF answer
<1>17. answer.truncation # "failed" /\ (answer.truncation = "byte_budget") = s.over
  <2>1. s.over \in BOOLEAN
    BY <1>8 DEF ChargingType
  <2> QED BY <1>16, <2>1, TruncationLemma
<1>18. ShortOnesSaySo(answer.tables, answer.truncation = "byte_budget", d.columns, Decoded(d.columns), shown)
  BY <1>11, <1>16, <1>17 DEF counted
<1>19. Total([k \in DOMAIN answer.tables |-> DescribedBytes(answer.tables[k])]) <= SchemaResultBudget
  BY <1>15, <1>16 DEF DescribedSizes
<1>20. DescribeAnswer(d, answer)
  BY <1>14, <1>16, <1>17, <1>18, <1>19 DEF DescribeAnswer, shown
<1> QED BY <1>20 DEF answer

LEMMA FailedAnswerLemma ==
  ASSUME NEW d
  PROVE  DescribeAnswer(d, [tables |-> <<>>, truncation |-> "failed"])
  BY DEF DescribeAnswer

-----------------------------------------------------------------------------
(* The bytes of a search answer.                                                *)
FoundColumns(columns) == [j \in DOMAIN columns |-> schemaColumnBytes + columns[j].size]
FoundSizes(es) == [k \in DOMAIN es |-> FoundBytes(es[k])]

LEMMA FoundColumnsLemma ==
  ASSUME NEW columns \in Seq(NameType)
  PROVE  /\ FoundColumns(columns) \in Seq(Nat) /\ Len(FoundColumns(columns)) = Len(columns)
         /\ \A k \in 1 .. Len(columns) : FoundColumns(columns)[k] = schemaColumnBytes + columns[k].size
<1>1. FoundColumns(columns) \in Seq(Nat) /\ Len(FoundColumns(columns)) = Len(columns)
  BY ConstantsAreNat, ColumnSizes DEF FoundColumns
<1>2. DOMAIN columns = 1 .. Len(columns)
  OBVIOUS
<1>3. \A k \in 1 .. Len(columns) : FoundColumns(columns)[k] = schemaColumnBytes + columns[k].size
  BY <1>2 DEF FoundColumns
<1> QED BY <1>1, <1>3

LEMMA FoundColumnsAppend ==
  ASSUME NEW columns \in Seq(NameType), NEW c \in NameType
  PROVE  /\ Total(FoundColumns(columns)) \in Nat /\ c.size \in Nat
         /\ Total(FoundColumns(Append(columns, c))) = Total(FoundColumns(columns)) + (schemaColumnBytes + c.size)
<1> DEFINE s == FoundColumns(columns)
           y == schemaColumnBytes + c.size
           new == Append(columns, c)
           t == FoundColumns(new)
<1>1. new \in Seq(NameType) /\ Len(new) = Len(columns) + 1 /\ new[Len(columns) + 1] = c
      /\ \A k \in 1 .. Len(columns) : new[k] = columns[k]
  OBVIOUS
<1>2. c.size \in Nat /\ y \in Nat
  BY ConstantsAreNat DEF NameType
<1>3. s \in Seq(Nat) /\ Len(s) = Len(columns) /\ \A k \in 1 .. Len(columns) : s[k] = schemaColumnBytes + columns[k].size
  BY FoundColumnsLemma
<1> HIDE DEF new
<1>4. t \in Seq(Nat) /\ Len(t) = Len(new) /\ \A k \in 1 .. Len(new) : t[k] = schemaColumnBytes + new[k].size
  BY <1>1, FoundColumnsLemma
<1>5. Len(columns) \in Nat
  OBVIOUS
<1>6. t[Len(columns) + 1] = y
  BY <1>1, <1>4, <1>5
<1>7. ASSUME NEW k \in 1 .. Len(columns) PROVE t[k] = s[k]
  <2>1. k \in 1 .. Len(new)
    BY <1>1, <1>5
  <2> QED BY <2>1, <1>1, <1>3, <1>4
<1> HIDE DEF s, t, y
<1> DEFINE u == Append(s, y)
<1>8. u \in Seq(Nat) /\ Len(u) = Len(columns) + 1 /\ u[Len(columns) + 1] = y /\ \A k \in 1 .. Len(columns) : u[k] = s[k]
  BY <1>2, <1>3, <1>5
<1> HIDE DEF u
<1>9. ASSUME NEW k \in 1 .. Len(t) PROVE t[k] = u[k]
  <2>1. k \in 1 .. Len(columns) \/ k = Len(columns) + 1
    BY <1>1, <1>4, <1>5
  <2> QED BY <2>1, <1>6, <1>7, <1>8
<1>10. t = u
  BY <1>1, <1>4, <1>8, <1>9, SeqEqual
<1>11. Total(u) = Total(s) + y
  BY <1>2, <1>3, TotalAppend DEF u
<1>12. Total(s) \in Nat
  BY <1>3, TotalIsNat
<1> QED BY <1>2, <1>10, <1>11, <1>12 DEF s, t, y, new

LEMMA FoundNone == Total(FoundColumns(<<>>)) = 0 /\ Total(FoundSizes(<<>>)) = 0
<1> DEFINE none == <<>>
           sizes == FoundColumns(none)
<1>1. none \in Seq(NameType) /\ Len(none) = 0 /\ DOMAIN none = {}
  OBVIOUS
<1>2. FoundSizes(none) = FoundColumns(none)
  BY <1>1 DEF FoundSizes, FoundColumns
<1> HIDE DEF none
<1>3. sizes \in Seq(Nat) /\ Len(sizes) = 0
  BY <1>1, ConstantsAreNat, ColumnSizes DEF FoundColumns
<1> HIDE DEF sizes
<1>4. sizes \in Seq(Int)
  BY <1>3
<1>5. Total(sizes) = 0
  BY <1>3, <1>4, SumsLemma DEF Total
<1> QED BY <1>2, <1>5 DEF sizes, none

LEMMA FoundBytesLemma ==
  ASSUME NEW e \in EntryType
  PROVE  /\ FoundBytes(e) = schemaTableBytes + e.table.size + Total(FoundColumns(e.columns))
         /\ FoundBytes(e) \in Nat /\ e.table.size \in Nat
<1>1. e.table \in NameType /\ e.columns \in Seq(NameType)
  BY DEF EntryType
<1>2. e.table.size \in Nat
  BY <1>1 DEF NameType
<1>3. FoundColumns(e.columns) \in Seq(Nat)
  BY <1>1, ConstantsAreNat, ColumnSizes DEF FoundColumns
<1>4. Total(FoundColumns(e.columns)) \in Nat
  BY <1>3, TotalIsNat
<1>5. FoundBytes(e) = schemaTableBytes + e.table.size + Total(FoundColumns(e.columns))
  BY DEF FoundBytes, FoundColumns
<1> QED BY <1>2, <1>4, <1>5, ConstantsAreNat

LEMMA FoundSizesLemma ==
  ASSUME NEW es \in Seq(EntryType)
  PROVE  /\ FoundSizes(es) \in Seq(Nat) /\ Len(FoundSizes(es)) = Len(es)
         /\ \A k \in 1 .. Len(es) : FoundSizes(es)[k] = FoundBytes(es[k])
         /\ Total(FoundSizes(es)) \in Nat
<1>1. \A k \in 1 .. Len(es) : FoundBytes(es[k]) \in Nat
  <2> TAKE k \in 1 .. Len(es)
  <2>1. es[k] \in EntryType
    OBVIOUS
  <2> QED BY <2>1, FoundBytesLemma
<1>2. DOMAIN es = 1 .. Len(es) /\ Len(es) \in Nat
  OBVIOUS
<1>3. FoundSizes(es) \in Seq(Nat) /\ Len(FoundSizes(es)) = Len(es)
  BY <1>1, <1>2 DEF FoundSizes
<1>4. \A k \in 1 .. Len(es) : FoundSizes(es)[k] = FoundBytes(es[k])
  BY <1>2 DEF FoundSizes
<1> QED BY <1>3, <1>4, TotalIsNat

\* Putting an entry adds its bytes, and takes away those of the one it replaces.
LEMMA FoundPutNew ==
  ASSUME NEW es \in Catalog, NEW e \in EntryType, ~Holds(es, e.table)
  PROVE  Total(FoundSizes(Put(es, e))) = Total(FoundSizes(es)) + FoundBytes(e)
<1> DEFINE new == Put(es, e)
           n == Len(es)
           s == FoundSizes(es)
           t == FoundSizes(new)
           y == FoundBytes(e)
<1>1. es \in Seq(EntryType) /\ Entries(es) /\ new \in Catalog
  BY PutInCatalog DEF Catalog
<1>2. new \in Seq(EntryType)
  BY <1>1 DEF Catalog
<1>3. Len(new) = n + 1 /\ new[n + 1] = e /\ \A j \in 1 .. n : new[j] = es[j]
  BY <1>1, PutNew
<1>4. n \in Nat
  BY <1>1
<1> HIDE DEF new, n
<1>5. s \in Seq(Nat) /\ Len(s) = n /\ \A k \in 1 .. n : s[k] = FoundBytes(es[k])
  BY <1>1, FoundSizesLemma DEF n
<1>6. t \in Seq(Nat) /\ Len(t) = n + 1 /\ \A k \in 1 .. n + 1 : t[k] = FoundBytes(new[k])
  BY <1>2, <1>3, FoundSizesLemma
<1>7. y \in Nat
  BY FoundBytesLemma
<1> HIDE DEF s, t, y
<1> DEFINE u == Append(s, y)
<1>8. u \in Seq(Nat) /\ Len(u) = n + 1 /\ u[n + 1] = y /\ \A k \in 1 .. n : u[k] = s[k]
  BY <1>4, <1>5, <1>7
<1> HIDE DEF u
<1>9. ASSUME NEW k \in 1 .. n + 1 PROVE t[k] = u[k]
  <2>1. CASE k \in 1 .. n
    <3>1. t[k] = FoundBytes(new[k])
      BY <1>6
    <3>2. new[k] = es[k] /\ s[k] = FoundBytes(es[k]) /\ u[k] = s[k]
      BY <1>3, <1>5, <1>8, <2>1
    <3> QED BY <3>1, <3>2
  <2>2. CASE k = n + 1
    BY <1>3, <1>6, <1>8, <2>2 DEF y
  <2> QED BY <1>4, <2>1, <2>2
<1>10. t = u
  BY <1>6, <1>8, <1>9, SeqEqual
<1>11. Total(u) = Total(s) + y
  BY <1>5, <1>7, TotalAppend DEF u
<1> QED BY <1>10, <1>11 DEF s, t, y, new

LEMMA FoundPutOld ==
  ASSUME NEW es \in Catalog, NEW e \in EntryType, NEW k \in 1 .. Len(es), es[k].table = e.table
  PROVE  Total(FoundSizes(Put(es, e))) = Total(FoundSizes(es)) - FoundBytes(es[k]) + FoundBytes(e)
<1> DEFINE new == Put(es, e)
           n == Len(es)
           s == FoundSizes(es)
           t == FoundSizes(new)
<1>1. es \in Seq(EntryType) /\ Entries(es) /\ new \in Catalog
  BY PutInCatalog DEF Catalog
<1>2. new \in Seq(EntryType)
  BY <1>1 DEF Catalog
<1>3. Len(new) = n /\ new[k] = e /\ \A j \in 1 .. n : j # k => new[j] = es[j]
  BY <1>1, PutOld
<1> HIDE DEF new
<1>4. s \in Seq(Nat) /\ Len(s) = n /\ \A j \in 1 .. n : s[j] = FoundBytes(es[j])
  BY <1>1, FoundSizesLemma
<1>5. t \in Seq(Nat) /\ Len(t) = n /\ \A j \in 1 .. n : t[j] = FoundBytes(new[j])
  BY <1>2, <1>3, FoundSizesLemma
<1> HIDE DEF s, t
<1>6. \A j \in 1 .. Len(s) : j # k => t[j] = s[j]
  BY <1>3, <1>4, <1>5
<1>7. s[k] = FoundBytes(es[k]) /\ t[k] = FoundBytes(e) /\ k \in 1 .. Len(s)
  BY <1>3, <1>4, <1>5
<1>8. s \in Seq(Int) /\ t \in Seq(Int) /\ Len(t) = Len(s)
  BY <1>4, <1>5
<1>9. Total(t) = Total(s) - s[k] + t[k]
  BY <1>6, <1>7, <1>8, TotalChange
<1> QED BY <1>7, <1>9 DEF s, t, new

-----------------------------------------------------------------------------
(* The entries of a search answer, row by row.                                  *)
ColumnCost(row) == IF hasColumn(row) THEN schemaColumnBytes + row.column.size ELSE 0

LEMMA ExtendedLemma ==
  ASSUME NEW f \in EntryType, NEW row \in SchemaRowType
  PROVE  /\ Extended(f, row) \in EntryType
         /\ Extended(f, row).table = f.table /\ Extended(f, row).cut = f.cut
         /\ Extended(f, row).primaryKey = f.primaryKey /\ Extended(f, row).indexes = f.indexes
         /\ hasColumn(row) => Extended(f, row).columns = Append(f.columns, row.column)
         /\ ~hasColumn(row) => Extended(f, row).columns = f.columns
         /\ ColumnCost(row) \in Nat
         /\ FoundBytes(Extended(f, row)) = FoundBytes(f) + ColumnCost(row)
<1> DEFINE c == row.column
           e == [f EXCEPT !.columns = Append(@, c)]
<1>1. c \in NameType /\ f.columns \in Seq(NameType) /\ f.table \in NameType
  BY DEF SchemaRowType, EntryType
<1>2. c.size \in Nat
  BY <1>1 DEF NameType
<1>3. ColumnCost(row) \in Nat
  BY <1>2, ConstantsAreNat DEF ColumnCost
<1>4. CASE hasColumn(row)
  <2>1. Extended(f, row) = e
    BY <1>4 DEF Extended
  <2>2. e \in EntryType
    BY <1>1, ColumnAdded
  <2>3. e.table = f.table /\ e.cut = f.cut /\ e.primaryKey = f.primaryKey /\ e.indexes = f.indexes
        /\ e.columns = Append(f.columns, c)
    BY DEF EntryType
  <2> HIDE DEF e
  <2>4. ColumnCost(row) = schemaColumnBytes + c.size
    BY <1>4 DEF ColumnCost
  <2>5. FoundBytes(e) = schemaTableBytes + e.table.size + Total(FoundColumns(e.columns))
    BY <2>2, FoundBytesLemma
  <2>6. FoundBytes(f) = schemaTableBytes + f.table.size + Total(FoundColumns(f.columns)) /\ f.table.size \in Nat
    BY FoundBytesLemma
  <2>7. Total(FoundColumns(e.columns)) = Total(FoundColumns(f.columns)) + (schemaColumnBytes + c.size)
        /\ Total(FoundColumns(f.columns)) \in Nat
    BY <1>1, <2>3, FoundColumnsAppend
  <2> DEFINE before == Total(FoundColumns(f.columns))
             after == Total(FoundColumns(e.columns))
             name == f.table.size
  <2>8. FoundBytes(e) = schemaTableBytes + name + after /\ FoundBytes(f) = schemaTableBytes + name + before
        /\ after = before + (schemaColumnBytes + c.size) /\ name \in Nat /\ before \in Nat
    BY <2>3, <2>5, <2>6, <2>7
  <2> HIDE DEF before, after, name
  <2>9. FoundBytes(e) = FoundBytes(f) + ColumnCost(row)
    BY <1>2, <2>4, <2>8, ConstantsAreNat
  <2> QED BY <1>3, <1>4, <2>1, <2>2, <2>3, <2>9
<1>5. CASE ~hasColumn(row)
  <2>1. Extended(f, row) = f /\ ColumnCost(row) = 0
    BY <1>5 DEF Extended, ColumnCost
  <2>2. FoundBytes(f) \in Nat
    BY FoundBytesLemma
  <2> QED BY <1>3, <1>5, <2>1, <2>2
<1> QED BY <1>4, <1>5

LEMMA MarkedEntry ==
  ASSUME NEW f \in EntryType
  PROVE  /\ [f EXCEPT !.cut = TRUE] \in EntryType
         /\ [f EXCEPT !.cut = TRUE].table = f.table /\ [f EXCEPT !.cut = TRUE].columns = f.columns
         /\ [f EXCEPT !.cut = TRUE].cut
         /\ FoundBytes([f EXCEPT !.cut = TRUE]) = FoundBytes(f)
<1> DEFINE e == [f EXCEPT !.cut = TRUE]
<1>1. e \in EntryType /\ e.table = f.table /\ e.columns = f.columns /\ e.cut
  BY DEF EntryType
<1> HIDE DEF e
<1>2. FoundBytes(e) = FoundBytes(f)
  BY <1>1 DEF FoundBytes
<1> QED BY <1>1, <1>2 DEF e

GroupType ==
  {s \in [tables : Catalog, spent : Nat, over : BOOLEAN] :
     s.spent <= SchemaResultBudget /\ Total(FoundSizes(s.tables)) = s.spent}

\* What a row that speaks becomes: an entry extended, or the mark of the cut.
Opened(s, row) == Put(s.tables, Extended(Find(s.tables, row.table), row))

LEMMA OpenedLemma ==
  ASSUME NEW s \in GroupType, NEW row \in SchemaRowType
  PROVE  /\ Opened(s, row) \in Catalog
         /\ RowCost(s.tables, row) \in Nat
         /\ Total(FoundSizes(Opened(s, row))) = s.spent + RowCost(s.tables, row)
<1> DEFINE es == s.tables
           table == row.table
           f == Find(es, table)
           e == Extended(f, row)
           cost == RowCost(es, row)
<1>1. es \in Catalog /\ Entries(es) /\ s.spent \in Nat /\ Total(FoundSizes(es)) = s.spent
  BY DEF GroupType, Catalog
<1>2. table \in NameType
  BY DEF SchemaRowType
<1>3. f \in EntryType /\ f.table = table
  BY <1>1, <1>2, FoundTyped
<1>4. e \in EntryType /\ e.table = table /\ ColumnCost(row) \in Nat /\ FoundBytes(e) = FoundBytes(f) + ColumnCost(row)
  BY <1>3, ExtendedLemma
<1>5. cost = (IF At(es, table) = {} THEN schemaTableBytes + table.size ELSE 0) + ColumnCost(row)
  BY DEF RowCost, ColumnCost
<1>6. table.size \in Nat
  BY <1>2 DEF NameType
<1>7. cost \in Nat
  BY <1>4, <1>5, <1>6, ConstantsAreNat
<1>8. FoundBytes(f) \in Nat
  BY <1>3, FoundBytesLemma
<1> HIDE DEF es, table, e, cost
<1>9. Put(es, e) \in Catalog
  BY <1>1, <1>4, PutInCatalog
<1>10. CASE Holds(es, table)
  <2>1. PICK k \in 1 .. Len(es) : es[k].table = table
    BY <1>10 DEF Holds
  <2>2. f = es[k]
    BY <1>1, <2>1, FoundOld
  <2> HIDE DEF f
  <2>3. Total(FoundSizes(Put(es, e))) = Total(FoundSizes(es)) - FoundBytes(es[k]) + FoundBytes(e)
    BY <1>1, <1>4, <2>1, FoundPutOld
  <2>4. At(es, table) # {}
    BY <1>1, <1>10, AtLemma
  <2>5. cost = ColumnCost(row)
    BY <1>4, <1>5, <2>4
  <2>6. Total(FoundSizes(Put(es, e))) = s.spent + cost
    BY <1>1, <1>4, <1>8, <2>2, <2>3, <2>5
  <2> QED BY <1>7, <1>9, <2>6 DEF Opened, es, e, f, table, cost
<1>11. CASE ~Holds(es, table)
  <2>1. f = Entry(table)
    BY <1>1, <1>11, FoundNew
  <2>2. FoundBytes(f) = schemaTableBytes + table.size
    <3> HIDE DEF f
    <3>1. FoundBytes(f) = schemaTableBytes + f.table.size + Total(FoundColumns(f.columns))
      BY <1>3, FoundBytesLemma
    <3>2. f.columns = <<>>
      BY <2>1 DEF Entry
    <3>3. Total(FoundColumns(f.columns)) = 0
      BY <3>2, FoundNone
    <3> QED BY <3>1, <3>3, <1>3, <1>6, ConstantsAreNat
  <2> HIDE DEF f
  <2>3. Total(FoundSizes(Put(es, e))) = Total(FoundSizes(es)) + FoundBytes(e)
    BY <1>1, <1>4, <1>11, FoundPutNew
  <2>4. At(es, table) = {}
    BY <1>1, <1>11, AtLemma
  <2>5. cost = (schemaTableBytes + table.size) + ColumnCost(row)
    BY <1>5, <2>4
  <2>6. Total(FoundSizes(Put(es, e))) = s.spent + cost
    BY <1>1, <1>4, <1>6, <2>2, <2>3, <2>5, ConstantsAreNat
  <2> QED BY <1>7, <1>9, <2>6 DEF Opened, es, e, f, table, cost
<1> QED BY <1>10, <1>11

LEMMA MarkedLemma ==
  ASSUME NEW es \in Catalog, NEW table \in NameType
  PROVE  /\ Marked(es, table) \in Catalog /\ Len(Marked(es, table)) = Len(es)
         /\ \A k \in 1 .. Len(es) :
              /\ es[k].table # table => Marked(es, table)[k] = es[k]
              /\ Marked(es, table)[k].table = es[k].table /\ Marked(es, table)[k].columns = es[k].columns
              /\ es[k].table = table => Marked(es, table)[k].cut
         /\ Total(FoundSizes(Marked(es, table))) = Total(FoundSizes(es))
<1>1. Entries(es) /\ es \in Seq(EntryType)
  BY DEF Catalog
<1>2. CASE ~Holds(es, table)
  <2>1. At(es, table) = {}
    BY <1>1, <1>2, AtLemma
  <2>2. Marked(es, table) = es
    BY <2>1 DEF Marked
  <2>3. \A k \in 1 .. Len(es) : es[k].table # table
    BY <1>2 DEF Holds
  <2> QED BY <2>2, <2>3
<1>3. CASE Holds(es, table)
  <2>1. PICK k \in 1 .. Len(es) : es[k].table = table
    BY <1>3 DEF Holds
  <2> DEFINE f == Find(es, table)
             e == [f EXCEPT !.cut = TRUE]
             new == Put(es, e)
  <2>2. f = es[k] /\ f \in EntryType /\ f.table = table
    BY <1>1, <2>1, FoundOld
  <2>3. At(es, table) # {}
    BY <1>1, <1>3, AtLemma
  <2>4. Marked(es, table) = new
    BY <2>3 DEF Marked
  <2> HIDE DEF f
  <2>5. e \in EntryType /\ e.table = table /\ e.columns = f.columns /\ e.cut /\ FoundBytes(e) = FoundBytes(f)
    BY <2>2, MarkedEntry
  <2> HIDE DEF e
  <2>6. Len(new) = Len(es) /\ new[k] = e /\ \A j \in 1 .. Len(es) : j # k => new[j] = es[j]
    BY <1>1, <2>1, <2>5, PutOld
  <2>7. new \in Catalog
    BY <2>5, PutInCatalog
  <2>8. Total(FoundSizes(new)) = Total(FoundSizes(es)) - FoundBytes(es[k]) + FoundBytes(e)
    BY <2>1, <2>5, FoundPutOld
  <2>9. Total(FoundSizes(es)) \in Nat /\ FoundBytes(es[k]) \in Nat
    BY <1>1, <2>1, FoundSizesLemma, FoundBytesLemma
  <2>10. Total(FoundSizes(new)) = Total(FoundSizes(es))
    BY <2>2, <2>5, <2>8, <2>9
  <2>11. \A j \in 1 .. Len(es) : es[j].table = table => j = k
    BY <1>1, <2>1 DEF Entries
  <2> HIDE DEF new
  <2>12. ASSUME NEW j \in 1 .. Len(es)
         PROVE  /\ es[j].table # table => new[j] = es[j]
                /\ new[j].table = es[j].table /\ new[j].columns = es[j].columns
                /\ es[j].table = table => new[j].cut
    BY <2>1, <2>2, <2>5, <2>6, <2>11
  <2> QED BY <2>4, <2>6, <2>7, <2>10, <2>12
<1> QED BY <1>2, <1>3

LEMMA GroupedLemma ==
  ASSUME NEW s \in GroupType, NEW row \in SchemaRowType
  PROVE  /\ Grouped(s, row) \in GroupType
         /\ s.over \/ ~Speaks(row) => Grouped(s, row) = s
         /\ ~s.over /\ Speaks(row) =>
              \/ Grouped(s, row).over /\ Grouped(s, row).tables = Marked(s.tables, row.table)
              \/ ~Grouped(s, row).over /\ Grouped(s, row).tables = Opened(s, row)
<1> DEFINE cost == RowCost(s.tables, row)
<1>1. s.tables \in Catalog /\ s.spent \in Nat /\ s.over \in BOOLEAN /\ s.spent <= SchemaResultBudget
      /\ Total(FoundSizes(s.tables)) = s.spent
  BY DEF GroupType
<1>2. row.table \in NameType
  BY DEF SchemaRowType
<1>3. cost \in Nat /\ Opened(s, row) \in Catalog /\ Total(FoundSizes(Opened(s, row))) = s.spent + cost
  BY OpenedLemma
<1> HIDE DEF cost
<1>4. CASE s.over \/ ~Speaks(row)
  <2>1. Grouped(s, row) = s
    BY <1>4 DEF Grouped
  <2> QED BY <1>4, <2>1
<1>5. CASE ~(s.over \/ ~Speaks(row)) /\ s.spent + cost > SchemaResultBudget
  <2> DEFINE t == [tables |-> Marked(s.tables, row.table), spent |-> s.spent, over |-> TRUE]
  <2>1. Grouped(s, row) = t
    BY <1>5 DEF Grouped, cost
  <2>2. t.tables = Marked(s.tables, row.table) /\ t.spent = s.spent /\ t.over
    OBVIOUS
  <2>3. Marked(s.tables, row.table) \in Catalog /\ Total(FoundSizes(Marked(s.tables, row.table))) = s.spent
    BY <1>1, <1>2, MarkedLemma
  <2>4. t \in [tables : Catalog, spent : Nat, over : BOOLEAN]
    BY <1>1, <2>3
  <2> HIDE DEF t
  <2>5. t \in GroupType
    BY <1>1, <2>2, <2>3, <2>4 DEF GroupType
  <2> QED BY <1>5, <2>1, <2>2, <2>5
<1>6. CASE ~(s.over \/ ~Speaks(row)) /\ ~(s.spent + cost > SchemaResultBudget)
  <2> DEFINE t == [tables |-> Opened(s, row), spent |-> s.spent + cost, over |-> FALSE]
  <2>1. Grouped(s, row) = t
    BY <1>6 DEF Grouped, cost, Opened
  <2>2. t.tables = Opened(s, row) /\ t.spent = s.spent + cost /\ ~t.over
    OBVIOUS
  <2>3. s.spent + cost \in Nat /\ s.spent + cost <= SchemaResultBudget
    BY <1>1, <1>3, <1>6, ConstantsAreNat
  <2>4. t \in [tables : Catalog, spent : Nat, over : BOOLEAN]
    BY <1>3, <2>3
  <2> HIDE DEF t
  <2>5. t \in GroupType
    BY <1>3, <2>2, <2>3, <2>4 DEF GroupType
  <2> QED BY <1>6, <2>1, <2>2, <2>5
<1> QED BY <1>4, <1>5, <1>6

LEMMA GroupingStart == [tables |-> <<>>, spent |-> 0, over |-> FALSE] \in GroupType
<1> DEFINE none == <<>>
           t == [tables |-> none, spent |-> 0, over |-> FALSE]
<1>1. none \in Catalog
  BY EmptyCatalog
<1>2. Total(FoundSizes(none)) = 0
  BY FoundNone
<1> HIDE DEF none
<1>3. t.tables = none /\ t.spent = 0 /\ t \in [tables : Catalog, spent : Nat, over : BOOLEAN]
  BY <1>1
<1> HIDE DEF t
<1>4. t \in GroupType
  BY <1>2, <1>3, ConstantsAreNat DEF GroupType
<1> QED BY <1>4 DEF t, none

\* Row by row.
LEMMA GroupingsRecursion ==
  ASSUME NEW rows \in Seq(SchemaRowType)
  PROVE  /\ Groupings(rows)[0] = [tables |-> <<>>, spent |-> 0, over |-> FALSE]
         /\ \A i \in 1 .. Len(rows) : Groupings(rows)[i] = Grouped(Groupings(rows)[i - 1], rows[i])
         /\ \A i \in 0 .. Len(rows) : Groupings(rows)[i] \in GroupType
<1> DEFINE n == Len(rows)
           a == [tables |-> <<>>, spent |-> 0, over |-> FALSE]
           S == GroupType
           Step(s, i) == Grouped(s, rows[i])
           step == [i \in 1 .. n |-> [s \in S |-> Step(s, i)]]
           Again(b, i) == Once({Step(s, i) : s \in {b}})
           F(f) == [i \in 0 .. n |-> IF i = 0 THEN a ELSE Again(f[i - 1], i)]
<1>1. n \in Nat /\ a \in S
  BY GroupingStart
<1>2. \A i \in 1 .. n : \A s \in S : Step(s, i) \in S
  <2> TAKE i \in 1 .. n
  <2> TAKE s \in S
  <2>1. rows[i] \in SchemaRowType
    OBVIOUS
  <2> QED BY <2>1, GroupedLemma
<1>3. \A s, i : Again(s, i) = Step(s, i)
  <2> TAKE s, i
  <2>1. {Step(b, i) : b \in {s}} = {Step(s, i)}
    OBVIOUS
  <2> QED BY <2>1, OnceLemma
<1>4. PICK f \in [0 .. n -> S] : Follows(f, n, a, step)
  <2> HIDE DEF Again, Step, a, n, S
  <2>1. step \in [1 .. n -> [S -> S]]
    BY <1>2
  <2> HIDE DEF step
  <2>2. Solvable(S, n, a, step)
    BY <1>1, <2>1, RecursionLemma, Zenon
  <2> QED BY <2>2 DEF Solvable
<1>5. f = F(f)
  <2> HIDE DEF Again, Step, a, n, S
  <2>1. ASSUME NEW i \in 0 .. n PROVE f[i] = IF i = 0 THEN a ELSE Again(f[i - 1], i)
    <3>1. CASE i = 0
      BY <3>1, <1>4 DEF Follows
    <3>2. CASE i # 0
      <4>1. i \in 1 .. n /\ i - 1 \in 0 .. n
        BY <3>2, <1>1
      <4>2. f[i - 1] \in S
        BY <4>1, <1>4
      <4>3. f[i] = step[i][f[i - 1]]
        BY <4>1, <1>4 DEF Follows
      <4>4. f[i] = Step(f[i - 1], i)
        BY <4>1, <4>2, <4>3
      <4> QED BY <4>4, <3>2, <1>3
    <3> QED BY <3>1, <3>2
  <2>2. f = [i \in 0 .. n |-> f[i]]
    BY <1>4
  <2> QED
    BY <2>1, <2>2
<1> DEFINE upTo == CHOOSE g : g = F(g)
<1>6. upTo = F(upTo)
  <2> HIDE DEF F
  <2> QED BY <1>5
<1>7. Groupings(rows) = upTo
  BY DEF Groupings
<1> HIDE DEF upTo
<1>8. upTo[0] = a /\ \A i \in 1 .. n : upTo[i] = Step(upTo[i - 1], i)
  <2> HIDE DEF Again, Step, a, n, S
  <2>1. upTo[0] = a
    BY <1>6, <1>1
  <2>2. ASSUME NEW i \in 1 .. n PROVE upTo[i] = Step(upTo[i - 1], i)
    BY <1>6, <1>1, <1>3
  <2> QED BY <2>1, <2>2
<1>9. \A i \in 0 .. n : upTo[i] \in S
  <2>1. \A i \in 1 .. n : upTo[i - 1] \in S => upTo[i] \in S
    <3> HIDE DEF Step, n, S, a
    <3> QED BY <1>8, <1>2
  <2> HIDE DEF n, S, Step, a
  <2> QED
    BY <1>1, <1>8, <2>1, SolutionLemma
<1> HIDE DEF n, S
<1> QED
  BY <1>7, <1>8, <1>9 DEF n, S

-----------------------------------------------------------------------------
(* What a search shows of the rows that speak.                                  *)
LEMMA SpeakingLemma ==
  ASSUME NEW rows, Reading(rows), NEW i \in 1 .. Len(rows)
  PROVE  /\ rows[i] \in Speaking(rows) <=> Speaks(rows[i])
         /\ rows[i] \in Matching(rows) <=> Speaks(rows[i]) /\ hasColumn(rows[i])
         /\ rows[i] \in Speaking(rows) => rows[i].decodes
<1>1. rows[i] \in ToSet(rows)
  BY DEF ToSet, Reading
<1>2. rows[i] \in Speaking(rows) <=> Speaks(rows[i])
  BY <1>1 DEF Speaking
<1>3. rows[i] \in Matching(rows) <=> Speaks(rows[i]) /\ hasColumn(rows[i])
  BY <1>2 DEF Matching
<1> QED BY <1>2, <1>3 DEF Speaks

\* The entries stand in the order in which their tables appear,
InOrder(es, rows, i) ==
  \A j, k \in 1 .. Len(es) : j < k =>
    \E l, m \in 1 .. i : /\ l < m /\ rows[l] \in Speaking(rows) /\ rows[m] \in Speaking(rows)
                         /\ rows[l].table = es[j].table /\ rows[m].table = es[k].table
\* until the cut; from then on they are what they will be.
Settled(es, rows) ==
  \A k \in 1 .. Len(es) :
    /\ es[k].cut => k = Len(es)
    /\ ~es[k].cut => es[k].columns = ColumnsIn(rows, es[k].table, Matching(rows))
    /\ IsPrefix(es[k].columns, ColumnsIn(rows, es[k].table, Matching(rows)))
Growing(es, rows, i) ==
  /\ Shows(es, ColumnsAt(rows, Matching(rows), i), NoColumns, NoColumns)
  /\ \A t : Holds(es, t) <=> Mentions(rows, Speaking(rows), i, t)
  /\ InOrder(es, rows, i)
GroupedSoFar(s, rows, i) == IF s.over THEN Settled(s.tables, rows) ELSE Growing(s.tables, rows, i)

\* A row that does not speak changes nothing.
LEMMA SilentStep ==
  ASSUME NEW rows \in Seq(SchemaRowType), NEW i \in 1 .. Len(rows), NEW es,
         Growing(es, rows, i - 1), ~Speaks(rows[i])
  PROVE  Growing(es, rows, i)
<1>1. Reading(rows) /\ i \in Nat /\ i # 0
  BY RowsAreReadings
<1>2. rows[i] \notin Speaking(rows) /\ rows[i] \notin Matching(rows)
  BY <1>1, SpeakingLemma
<1>3. ColumnsAt(rows, Matching(rows), i) = ColumnsAt(rows, Matching(rows), i - 1)
  BY <1>1, <1>2, RowSkipped
<1>4. \A t : Mentions(rows, Speaking(rows), i, t) <=> Mentions(rows, Speaking(rows), i - 1, t)
  BY <1>1, <1>2, NamedNext
<1>5. InOrder(es, rows, i)
  <2> SUFFICES ASSUME NEW j \in 1 .. Len(es), NEW k \in 1 .. Len(es), j < k
               PROVE  \E l, m \in 1 .. i : /\ l < m /\ rows[l] \in Speaking(rows) /\ rows[m] \in Speaking(rows)
                                           /\ rows[l].table = es[j].table /\ rows[m].table = es[k].table
    BY DEF InOrder
  <2>1. PICK l \in 1 .. i - 1, m \in 1 .. i - 1 :
          /\ l < m /\ rows[l] \in Speaking(rows) /\ rows[m] \in Speaking(rows)
          /\ rows[l].table = es[j].table /\ rows[m].table = es[k].table
    BY DEF Growing, InOrder
  <2>2. l \in 1 .. i /\ m \in 1 .. i
    BY <1>1, <2>1
  <2> QED BY <2>1, <2>2
<1> QED BY <1>3, <1>4, <1>5 DEF Growing

\* A row that speaks and fits extends the entry of its table or begins it.
LEMMA OpenedStep ==
  ASSUME NEW rows \in Seq(SchemaRowType), NEW i \in 1 .. Len(rows), NEW s \in GroupType,
         Growing(s.tables, rows, i - 1), Speaks(rows[i])
  PROVE  Growing(Opened(s, rows[i]), rows, i)
<1> DEFINE es == s.tables
           row == rows[i]
           table == row.table
           speaking == Speaking(rows)
           C == ColumnsAt(rows, Matching(rows), i - 1)
           D == ColumnsAt(rows, Matching(rows), i)
           N == NoColumns
           f == Find(es, table)
           e == Extended(f, row)
           new == Put(es, e)
<1>1. Reading(rows) /\ row \in SchemaRowType /\ i \in Nat /\ i # 0 /\ i \in 1 .. i
  BY RowsAreReadings
<1>2. row \in speaking /\ (row \in Matching(rows) <=> hasColumn(row))
  BY <1>1, SpeakingLemma
<1>3. \A t : Mentions(rows, speaking, i, t) <=> (Mentions(rows, speaking, i - 1, t) \/ table = t)
  BY <1>1, <1>2, NamedNext
<1>4. table \in NameType /\ row.column \in NameType
  BY <1>1 DEF SchemaRowType
<1>5. Shows(es, C, N, N) /\ (\A t : Holds(es, t) <=> Mentions(rows, speaking, i - 1, t)) /\ InOrder(es, rows, i - 1)
  BY DEF Growing
<1>6. Entries(es) /\ es \in Seq(EntryType) /\ Len(es) \in Nat
  BY <1>5 DEF Shows, Entries
<1>7. /\ f \in EntryType /\ f.table = table /\ ~f.cut /\ f.columns = C[table]
      /\ f.primaryKey = N[table] /\ Joined(f.indexes) = N[table]
  <2> HIDE DEF C, N, table, es
  <2>1. f \in EntryType /\ f.table = table /\ ~f.cut
    BY <1>4, <1>5, FoundShows
  <2>2. f.columns = C[table]
    BY <1>4, <1>5, FoundShows
  <2>3. f.primaryKey = N[table] /\ Joined(f.indexes) = N[table]
    BY <1>4, <1>5, FoundShows
  <2> QED BY <2>1, <2>2, <2>3
<1> HIDE DEF f
<1>8. /\ e \in EntryType /\ e.table = table /\ ~e.cut /\ e.primaryKey = f.primaryKey /\ e.indexes = f.indexes
      /\ hasColumn(row) => e.columns = Append(f.columns, row.column)
      /\ ~hasColumn(row) => e.columns = f.columns
  BY <1>1, <1>7, ExtendedLemma
<1> HIDE DEF e
<1>9. e.columns = D[table] /\ \A t \in NameType : t # table => D[t] = C[t]
  <2>1. CASE hasColumn(row)
    <3>1. D[table] = Append(C[table], row.column) /\ \A t \in NameType : t # table => D[t] = C[t]
      BY <1>1, <1>2, <2>1, RowRead
    <3> QED BY <3>1, <2>1, <1>7, <1>8
  <2>2. CASE ~hasColumn(row)
    <3>1. D = C
      BY <1>1, <1>2, <2>2, RowSkipped
    <3> HIDE DEF D, C
    <3> QED BY <3>1, <2>2, <1>7, <1>8
  <2> QED BY <2>1, <2>2
<1>10. Shows(new, D, N, N)
  <2> HIDE DEF C, D, N, table, es
  <2>1. e.columns = D[e.table] /\ e.primaryKey = N[e.table] /\ Joined(e.indexes) = N[e.table]
    BY <1>7, <1>8, <1>9
  <2>2. \A t \in NameType : t # e.table => D[t] = C[t] /\ N[t] = N[t] /\ N[t] = N[t]
    BY <1>8, <1>9
  <2> QED BY <1>5, <1>8, <2>1, <2>2, PutShows
<1>11. \A t : Holds(new, t) <=> (Holds(es, t) \/ t = table)
  BY <1>6, <1>8, PutHolds
<1>12. InOrder(new, rows, i)
  <2>0. ASSUME NEW j \in 1 .. Len(es), NEW k \in 1 .. Len(es), j < k
        PROVE  \E l, m \in 1 .. i : /\ l < m /\ rows[l] \in speaking /\ rows[m] \in speaking
                                    /\ rows[l].table = es[j].table /\ rows[m].table = es[k].table
    <3>1. PICK l \in 1 .. i - 1, m \in 1 .. i - 1 :
            /\ l < m /\ rows[l] \in speaking /\ rows[m] \in speaking
            /\ rows[l].table = es[j].table /\ rows[m].table = es[k].table
      BY <1>5, <2>0 DEF InOrder
    <3>2. l \in 1 .. i /\ m \in 1 .. i
      BY <1>1, <3>1
    <3> QED BY <3>1, <3>2
  <2>1. \A l \in 1 .. i - 1 : l \in 1 .. i /\ l < i
    BY <1>1
  <2>2. CASE Holds(es, table)
    <3>1. PICK k \in 1 .. Len(es) : es[k].table = table
      BY <2>2 DEF Holds
    <3>2. Len(new) = Len(es) /\ \A j \in 1 .. Len(es) : new[j].table = es[j].table
      <4> HIDE DEF es, table
      <4>1. es[k].table = e.table
        BY <1>8, <3>1
      <4> QED BY <1>6, <1>8, <4>1, PutOld
    <3> HIDE DEF new
    <3>3. SUFFICES ASSUME NEW j \in 1 .. Len(es), NEW m \in 1 .. Len(es), j < m
                   PROVE  \E l, o \in 1 .. i : /\ l < o /\ rows[l] \in speaking /\ rows[o] \in speaking
                                               /\ rows[l].table = new[j].table /\ rows[o].table = new[m].table
      BY <3>2 DEF InOrder
    <3>4. new[j].table = es[j].table /\ new[m].table = es[m].table
      BY <3>2
    <3> QED BY <2>0, <3>3, <3>4
  <2>3. CASE ~Holds(es, table)
    <3>1. Len(new) = Len(es) + 1 /\ new[Len(es) + 1] = e /\ \A j \in 1 .. Len(es) : new[j] = es[j]
      BY <1>6, <1>8, <2>3, PutNew
    <3> DEFINE n == Len(es)
    <3> HIDE DEF new
    <3>2. SUFFICES ASSUME NEW j \in 1 .. n + 1, NEW k \in 1 .. n + 1, j < k
                   PROVE  \E l, m \in 1 .. i : /\ l < m /\ rows[l] \in speaking /\ rows[m] \in speaking
                                               /\ rows[l].table = new[j].table /\ rows[m].table = new[k].table
      BY <3>1 DEF InOrder
    <3>3. n \in Nat
      BY <1>6
    <3>4. j \in 1 .. n
      <4> HIDE DEF n
      <4> QED BY <3>2, <3>3
    <3>5. CASE k \in 1 .. n
      <4>1. new[j] = es[j] /\ new[k] = es[k]
        BY <3>1, <3>4, <3>5
      <4> QED BY <2>0, <3>2, <3>4, <3>5, <4>1
    <3>6. CASE k = n + 1
      <4>1. Holds(es, es[j].table)
        BY <3>4 DEF Holds
      <4>2. PICK l \in 1 .. i - 1 : rows[l] \in speaking /\ rows[l].table = es[j].table
        BY <4>1, <1>5 DEF Mentions
      <4>3. l \in 1 .. i /\ l < i
        BY <2>1, <4>2
      <4>4. new[j].table = es[j].table /\ new[k].table = table
        BY <3>1, <3>4, <3>6, <1>8
      <4> QED BY <1>1, <1>2, <4>2, <4>3, <4>4
    <3>7. k \in 1 .. n \/ k = n + 1
      <4> HIDE DEF n
      <4> QED BY <3>2, <3>3
    <3> QED BY <3>5, <3>6, <3>7
  <2> QED BY <2>2, <2>3
<1>13. \A t : Holds(new, t) <=> Mentions(rows, speaking, i, t)
  BY <1>3, <1>5, <1>11
<1>14. new = Opened(s, row)
  BY DEF Opened, new, e, f
<1> HIDE DEF new
<1> QED BY <1>10, <1>12, <1>13, <1>14 DEF Growing

\* A row that speaks and does not fit marks the entry of its table.
LEMMA MarkedStep ==
  ASSUME NEW rows \in Seq(SchemaRowType), OrderedByTable(rows), NEW i \in 1 .. Len(rows), NEW s \in GroupType,
         Growing(s.tables, rows, i - 1), Speaks(rows[i])
  PROVE  Settled(Marked(s.tables, rows[i].table), rows)
<1> DEFINE es == s.tables
           table == rows[i].table
           speaking == Speaking(rows)
           counted == Matching(rows)
           new == Marked(es, table)
           n == Len(rows)
<1>1. Reading(rows) /\ rows[i] \in SchemaRowType /\ n \in Nat /\ i \in Nat /\ i # 0 /\ DOMAIN rows = 1 .. n
      /\ i - 1 \in 0 .. n /\ n \in i - 1 .. n
  BY RowsAreReadings
<1>2. rows[i].decodes
  BY DEF Speaks
<1>3. table \in NameType
  BY <1>1 DEF SchemaRowType
<1>4. es \in Catalog
  BY DEF GroupType
<1>5. Entries(es) /\ es \in Seq(EntryType) /\ Len(es) \in Nat
  BY <1>4 DEF Catalog
<1>6. /\ Len(new) = Len(es)
      /\ \A k \in 1 .. Len(es) :
           /\ es[k].table # table => new[k] = es[k]
           /\ new[k].table = es[k].table /\ new[k].columns = es[k].columns
           /\ es[k].table = table => new[k].cut
  BY <1>3, <1>4, MarkedLemma
<1> HIDE DEF new
<1>7. ASSUME NEW k \in 1 .. Len(es)
      PROVE  /\ es[k].table \in NameType /\ ~es[k].cut
             /\ es[k].columns = ColumnsUpTo(rows, es[k].table, counted)[i - 1]
  <2>1. es[k] \in EntryType
    BY <1>5
  <2>2. es[k].table \in NameType
    BY <2>1 DEF EntryType
  <2>3. ~es[k].cut /\ es[k].columns = ColumnsAt(rows, counted, i - 1)[es[k].table]
    BY DEF Growing, Shows
  <2> QED BY <2>2, <2>3 DEF ColumnsAt
<1>8. \A j \in 1 .. n : rows[j].column \in NameType
  BY <1>1 DEF Reading
<1>9. \A j \in 1 .. n : rows[j] \in counted => rows[j] \in speaking
  BY DEF Matching
<1>10. \A j \in 1 .. n : rows[j] \in speaking => rows[j].decodes
  BY <1>1, SpeakingLemma
<1>11. ASSUME NEW k \in 1 .. Len(es), es[k].table # table
       PROVE  ColumnsIn(rows, es[k].table, counted) = es[k].columns
  <2> DEFINE u == es[k].table
  <2>1. Holds(es, u)
    BY DEF Holds
  <2>2. Mentions(rows, speaking, i - 1, u)
    BY <2>1 DEF Growing
  <2>3. PICK l \in 1 .. i - 1 : rows[l] \in speaking /\ rows[l].table = u
    BY <2>2 DEF Mentions
  <2>4. l \in 1 .. n /\ l < i
    BY <1>1, <2>3
  <2>5. \A j \in i - 1 + 1 .. n : ~Has(rows, u, counted, j)
    <3> SUFFICES ASSUME NEW j \in i - 1 + 1 .. n, Has(rows, u, counted, j) PROVE FALSE
      OBVIOUS
    <3>1. j \in 1 .. n /\ (j = i \/ i < j)
      BY <1>1
    <3>2. rows[j].table = u /\ rows[j].decodes
      BY <3>1, <1>9, <1>10 DEF Has
    <3>3. CASE j = i
      BY <3>2, <3>3, <1>11
    <3>4. CASE i < j
      <4>1. rows[l].decodes
        BY <2>3, <2>4, <1>10
      <4>2. rows[i].table = rows[l].table
        BY <4>1, <3>1, <3>2, <3>4, <2>3, <2>4, <1>1, <1>2 DEF OrderedByTable
      <4> QED BY <4>2, <2>3, <1>11
    <3> QED BY <3>1, <3>3, <3>4
  <2> HIDE DEF u, counted
  <2>6. ColumnsUpTo(rows, u, counted)[n] = ColumnsUpTo(rows, u, counted)[i - 1]
    BY <1>1, <1>8, <2>5, NoColumnsLemma
  <2> QED BY <2>6, <1>7 DEF ColumnsIn, u
<1>12. ASSUME NEW k \in 1 .. Len(es), es[k].table = table
       PROVE  k = Len(es)
  <2> SUFFICES ASSUME k # Len(es) PROVE FALSE
    OBVIOUS
  <2> DEFINE j == Len(es)
  <2>1. j \in 1 .. Len(es) /\ k < j
    BY <1>5
  <2> HIDE DEF j
  <2>2. PICK l \in 1 .. i - 1, m \in 1 .. i - 1 :
          /\ l < m /\ rows[l] \in speaking /\ rows[m] \in speaking
          /\ rows[l].table = es[k].table /\ rows[m].table = es[j].table
    BY <2>1 DEF Growing, InOrder
  <2>3. l \in 1 .. n /\ m \in 1 .. n /\ m < i
    BY <1>1, <2>2
  <2>4. rows[l].decodes /\ rows[m].decodes
    BY <1>10, <2>2, <2>3
  <2>5. rows[m].table = rows[l].table
    BY <1>1, <1>2, <1>12, <2>2, <2>3, <2>4 DEF OrderedByTable
  <2>6. j = k
    BY <1>5, <2>1, <2>2, <2>5 DEF Entries
  <2> QED BY <2>1, <2>6, <1>5
<1>13. ASSUME NEW k \in 1 .. Len(es)
       PROVE  IsPrefix(es[k].columns, ColumnsIn(rows, es[k].table, counted))
  <2> DEFINE u == es[k].table
  <2> HIDE DEF u, counted
  <2>1. IsPrefix(ColumnsUpTo(rows, u, counted)[i - 1], ColumnsUpTo(rows, u, counted)[n])
    BY <1>1, <1>8, ColumnsGrow
  <2> QED BY <2>1, <1>7 DEF ColumnsIn, u
<1> HIDE DEF es, table, counted
<1>14. ASSUME NEW k \in 1 .. Len(new)
       PROVE  /\ new[k].cut => k = Len(new)
              /\ ~new[k].cut => new[k].columns = ColumnsIn(rows, new[k].table, counted)
              /\ IsPrefix(new[k].columns, ColumnsIn(rows, new[k].table, counted))
  <2>1. k \in 1 .. Len(es) /\ new[k].table = es[k].table /\ new[k].columns = es[k].columns
    BY <1>6
  <2>2. CASE es[k].table = table
    BY <1>6, <1>12, <1>13, <2>1, <2>2
  <2>3. CASE es[k].table # table
    BY <1>6, <1>7, <1>11, <1>13, <2>1, <2>3
  <2> QED BY <2>2, <2>3
<1> QED BY <1>14 DEF Settled, new, es, table, counted

-----------------------------------------------------------------------------
(* The answer of search_schema.                                                 *)
LEMMA NothingGrown ==
  ASSUME NEW rows \in Seq(SchemaRowType)
  PROVE  Growing(<<>>, rows, 0)
<1> DEFINE none == <<>>
<1>1. none \in Seq(EntryType) /\ Len(none) = 0
  OBVIOUS
<1> HIDE DEF none
<1>2. Entries(none) /\ (\A t : ~Holds(none, t)) /\ InOrder(none, rows, 0)
  BY <1>1 DEF Entries, Holds, InOrder
<1>3. ColumnsAt(rows, Matching(rows), 0) = NoColumns
  BY RowsAreReadings, NothingRead
<1>4. \A t \in NameType : NoColumns[t] = <<>>
  BY DEF NoColumns
<1>5. Shows(none, NoColumns, NoColumns, NoColumns)
  BY <1>1, <1>2, <1>4 DEF Shows
<1>6. \A t : ~Mentions(rows, Speaking(rows), 0, t)
  BY DEF Mentions
<1>7. Growing(none, rows, 0)
  BY <1>2, <1>3, <1>5, <1>6 DEF Growing
<1> QED BY <1>7 DEF none

LEMMA GroupedStep ==
  ASSUME NEW rows \in Seq(SchemaRowType), OrderedByTable(rows), NEW i \in 1 .. Len(rows), NEW s \in GroupType,
         GroupedSoFar(s, rows, i - 1)
  PROVE  GroupedSoFar(Grouped(s, rows[i]), rows, i)
<1> DEFINE row == rows[i]
           t == Grouped(s, row)
<1>1. row \in SchemaRowType
  OBVIOUS
<1>2. /\ s.over \/ ~Speaks(row) => t = s
      /\ ~s.over /\ Speaks(row) =>
           \/ t.over /\ t.tables = Marked(s.tables, row.table)
           \/ ~t.over /\ t.tables = Opened(s, row)
  BY <1>1, GroupedLemma
<1> HIDE DEF t
<1>3. ASSUME s.over PROVE GroupedSoFar(t, rows, i)
  BY <1>2, <1>3 DEF GroupedSoFar
<1>4. ASSUME ~s.over, ~Speaks(row) PROVE GroupedSoFar(t, rows, i)
  <2>1. Growing(s.tables, rows, i - 1)
    BY <1>4 DEF GroupedSoFar
  <2>2. Growing(s.tables, rows, i)
    BY <1>4, <2>1, SilentStep
  <2> QED BY <1>2, <1>4, <2>2 DEF GroupedSoFar
<1>5. ASSUME ~s.over, Speaks(row) PROVE GroupedSoFar(t, rows, i)
  <2>1. Growing(s.tables, rows, i - 1)
    BY <1>5 DEF GroupedSoFar
  <2>2. Settled(Marked(s.tables, row.table), rows)
    BY <1>5, <2>1, MarkedStep
  <2>3. Growing(Opened(s, row), rows, i)
    BY <1>5, <2>1, OpenedStep
  <2> QED BY <1>2, <1>5, <2>2, <2>3 DEF GroupedSoFar
<1>6. GroupedSoFar(t, rows, i)
  BY <1>3, <1>4, <1>5
<1> QED BY <1>6 DEF t

LEMMA GroupingsLemma ==
  ASSUME NEW rows \in Seq(SchemaRowType), OrderedByTable(rows)
  PROVE  schemaTables(rows) \in GroupType /\ GroupedSoFar(schemaTables(rows), rows, Len(rows))
<1> DEFINE s == Groupings(rows)
           start == [tables |-> <<>>, spent |-> 0, over |-> FALSE]
           Good(n) == GroupedSoFar(s[n], rows, n)
           Lengths == {n \in Nat : n <= Len(rows) => Good(n)}
<1>1. s[0] = start
  BY GroupingsRecursion
<1>2. \A i \in 1 .. Len(rows) : s[i] = Grouped(s[i - 1], rows[i])
  BY GroupingsRecursion
<1>3. \A i \in 0 .. Len(rows) : s[i] \in GroupType
  BY GroupingsRecursion
<1>4. Len(rows) \in Nat
  OBVIOUS
<1>5. schemaTables(rows) = s[Len(rows)]
  BY DEF schemaTables
<1> HIDE DEF s
<1>6. Good(0)
  <2>1. start.tables = <<>> /\ ~start.over
    OBVIOUS
  <2> HIDE DEF start
  <2>2. Growing(start.tables, rows, 0)
    BY <2>1, NothingGrown
  <2> QED BY <1>1, <2>1, <2>2 DEF GroupedSoFar
<1>7. ASSUME NEW n \in Nat, n \in Lengths PROVE n + 1 \in Lengths
  <2> SUFFICES ASSUME n + 1 <= Len(rows) PROVE Good(n + 1)
    OBVIOUS
  <2> DEFINE m == n + 1
  <2>1. m \in 1 .. Len(rows) /\ m - 1 = n /\ m - 1 \in 0 .. Len(rows) /\ Good(m - 1)
    BY <1>7, <1>4
  <2> HIDE DEF m
  <2>2. s[m - 1] \in GroupType /\ s[m] = Grouped(s[m - 1], rows[m])
    BY <2>1, <1>2, <1>3
  <2>3. GroupedSoFar(Grouped(s[m - 1], rows[m]), rows, m)
    BY <2>1, <2>2, GroupedStep
  <2> QED BY <2>2, <2>3 DEF m
<1> HIDE DEF Good
<1>8. Len(rows) \in Lengths
  <2>1. 0 \in Lengths
    BY <1>6
  <2> HIDE DEF Lengths
  <2> QED BY <1>4, <1>7, <2>1, SetInduction
<1>9. Good(Len(rows))
  BY <1>4, <1>8
<1>10. s[Len(rows)] \in GroupType
  BY <1>3, <1>4
<1> QED BY <1>5, <1>9, <1>10 DEF Good

\* What has grown to the last row is whole.
LEMMA GrownLemma ==
  ASSUME NEW rows \in Seq(SchemaRowType), NEW es \in Catalog, Growing(es, rows, Len(rows))
  PROVE  /\ \A k \in 1 .. Len(es) :
              /\ ~es[k].cut /\ es[k].columns = ColumnsIn(rows, es[k].table, Matching(rows))
              /\ IsPrefix(es[k].columns, ColumnsIn(rows, es[k].table, Matching(rows)))
         /\ {es[k].table : k \in DOMAIN es} = {r.table : r \in Speaking(rows)}
<1>1. Reading(rows)
  BY RowsAreReadings
<1>2. es \in Seq(EntryType)
  BY DEF Catalog
<1>3. ASSUME NEW k \in 1 .. Len(es)
      PROVE  /\ ~es[k].cut /\ es[k].columns = ColumnsIn(rows, es[k].table, Matching(rows))
             /\ IsPrefix(es[k].columns, ColumnsIn(rows, es[k].table, Matching(rows)))
  <2>1. es[k] \in EntryType
    BY <1>2
  <2>2. es[k].table \in NameType /\ es[k].columns \in Seq(NameType)
    BY <2>1 DEF EntryType
  <2>3. ~es[k].cut /\ es[k].columns = ColumnsAt(rows, Matching(rows), Len(rows))[es[k].table]
    BY DEF Growing, Shows
  <2>4. es[k].columns = ColumnsIn(rows, es[k].table, Matching(rows))
    BY <2>2, <2>3 DEF ColumnsAt, ColumnsIn
  <2> DEFINE c == es[k].columns
  <2>5. IsPrefix(c, c)
    <3> HIDE DEF c
    <3>1. c \in Seq(NameType)
      BY <2>2 DEF c
    <3> QED BY <3>1, BeginsLemma
  <2> QED BY <2>3, <2>4, <2>5
<1>4. ASSUME NEW t PROVE t \in {es[k].table : k \in DOMAIN es} <=> t \in {r.table : r \in Speaking(rows)}
  <2>1. DOMAIN es = 1 .. Len(es)
    BY <1>2
  <2>2. t \in {es[k].table : k \in DOMAIN es} <=> Holds(es, t)
    BY <2>1 DEF Holds
  <2>3. Holds(es, t) <=> Mentions(rows, Speaking(rows), Len(rows), t)
    BY DEF Growing
  <2>4. ASSUME NEW j \in 1 .. Len(rows), rows[j] \in Speaking(rows), rows[j].table = t
        PROVE  \E r \in Speaking(rows) : r.table = t
    BY <2>4
  <2>5. ASSUME NEW r \in Speaking(rows), r.table = t
        PROVE  \E j \in 1 .. Len(rows) : rows[j] \in Speaking(rows) /\ rows[j].table = t
    <3>1. r \in ToSet(rows)
      BY DEF Speaking
    <3>2. PICK j \in 1 .. Len(rows) : rows[j] = r
      BY <1>1, <3>1 DEF ToSet, Reading
    <3> QED BY <3>2, <2>5
  <2>6. Mentions(rows, Speaking(rows), Len(rows), t) <=> \E r \in Speaking(rows) : r.table = t
    BY <2>4, <2>5 DEF Mentions
  <2> QED BY <2>2, <2>3, <2>6
<1> QED BY <1>3, <1>4

LEMMA SearchAnswerLemma ==
  ASSUME NEW read, read.rows \in Seq(SchemaRowType), OrderedByTable(read.rows),
         NEW out, out = schemaTables(read.rows)
  PROVE  SearchAnswer(read, [tables |-> out.tables, truncation |-> TruncationOf(read.capped, out.over)])
<1> DEFINE rows == read.rows
           es == out.tables
           answer == [tables |-> es, truncation |-> TruncationOf(read.capped, out.over)]
<1>1. out \in GroupType /\ GroupedSoFar(out, rows, Len(rows))
  BY GroupingsLemma
<1>2. es \in Catalog /\ out.over \in BOOLEAN /\ out.spent <= SchemaResultBudget /\ Total(FoundSizes(es)) = out.spent
  BY <1>1 DEF GroupType
<1>3. es \in Seq(EntryType) /\ DOMAIN es = 1 .. Len(es)
  BY <1>2 DEF Catalog
<1> HIDE DEF es
<1>4. ShortOnesSaySo(es, out.over, rows, Matching(rows), Speaking(rows))
  <2>1. CASE out.over
    <3>1. Settled(es, rows)
      BY <1>1, <2>1 DEF GroupedSoFar, es
    <3> QED BY <1>3, <2>1, <3>1 DEF Settled, ShortOnesSaySo
  <2>2. CASE ~out.over
    <3>1. Growing(es, rows, Len(rows))
      BY <1>1, <2>2 DEF GroupedSoFar, es
    <3>2. \A k \in 1 .. Len(es) :
              /\ ~es[k].cut /\ es[k].columns = ColumnsIn(rows, es[k].table, Matching(rows))
              /\ IsPrefix(es[k].columns, ColumnsIn(rows, es[k].table, Matching(rows)))
      BY <1>2, <3>1, GrownLemma
    <3>3. {es[k].table : k \in DOMAIN es} = {r.table : r \in Speaking(rows)}
      BY <1>2, <3>1, GrownLemma
    <3> QED BY <1>3, <3>2, <3>3 DEF ShortOnesSaySo
  <2> QED BY <1>2, <2>1, <2>2
<1>5. answer.tables = es /\ answer.truncation = TruncationOf(read.capped, out.over)
  OBVIOUS
<1> HIDE DEF answer
<1>6. (answer.truncation = "byte_budget") = out.over
  BY <1>2, <1>5, TruncationLemma
<1>7. answer.truncation # "byte_budget" => answer.truncation = TruncationOf(read.capped, FALSE)
  BY <1>5, TruncationLemma
<1>8. Total([k \in DOMAIN answer.tables |-> FoundBytes(answer.tables[k])]) <= SchemaResultBudget
  BY <1>2, <1>5 DEF FoundSizes
<1>9. SearchAnswer(read, answer)
  BY <1>4, <1>5, <1>6, <1>7, <1>8 DEF SearchAnswer
<1> QED BY <1>9 DEF answer, es

-----------------------------------------------------------------------------
(* The answers of the tools.                                                    *)
LEMMA QueryAnswered ==
  ASSUME IInv, NEW result, call.stage = "decided", result \in Results[call.statement.id], executeQuery(result)
  PROVE  AnswersSayWhatTheyLack'
<1>1. call.statement \in Statements
  BY DEF IInv, CallInv
<1>2. result.columns \in Nat /\ result.rows \in Seq(Nat)
  BY <1>1, ResultsAssumption
<1>3. QueryAnswer(result, withinByteBudget(result))
  BY <1>2, QueryAnswerLemma
<1>4. call'.tool = "execute_query" /\ call'.result = result /\ call'.answer = withinByteBudget(result)
  BY DEF executeQuery
<1> QED BY <1>3, <1>4 DEF AnswersSayWhatTheyLack

LEMMA SearchAnswered ==
  ASSUME NEW e, NEW read \in CatalogRows, SearchSchema(e, read)
  PROVE  AnswersSayWhatTheyLack'
<1>1. read.rows \in Seq(SchemaRowType) /\ OrderedByTable(read.rows)
  BY CatalogAssumption
<1> DEFINE out == schemaTables(read.rows)
           answer == [tables |-> out.tables, truncation |-> TruncationOf(read.capped, out.over)]
<1>2. SearchAnswer(read, answer)
  BY <1>1, SearchAnswerLemma
<1>3. call'.tool = "search_schema" /\ call'.result = read /\ call'.answer = answer
  BY DEF SearchSchema
<1> HIDE DEF answer
<1> QED BY <1>2, <1>3 DEF AnswersSayWhatTheyLack

LEMMA DescribeAnswered ==
  ASSUME NEW e, NEW d \in Descriptions, DescribeTable(e, d)
  PROVE  AnswersSayWhatTheyLack'
<1> DEFINE out == describeTables(d.columns, d.keys, d.indexes)
           failed == [tables |-> <<>>, truncation |-> "failed"]
           whole == [tables |-> out.tables, truncation |-> TruncationOf(d.capped, out.over)]
<1>1. d.columns \in Seq(CellType) /\ d.keys \in Seq(CellType) /\ d.indexes \in Seq(IndexRowType)
  BY CatalogAssumption
<1>2. DescribeAnswer(d, failed)
  BY FailedAnswerLemma
<1>3. ~out.failed => DescribeAnswer(d, whole)
  BY <1>1, DescribeAnswerLemma
<1>4. call'.tool = "describe_table" /\ call'.result = d
      /\ call'.answer = IF d.detailCapped \/ out.failed THEN failed ELSE whole
  BY DEF DescribeTable
<1> HIDE DEF out, failed, whole
<1>5. DescribeAnswer(d, call'.answer)
  BY <1>2, <1>3, <1>4
<1> QED BY <1>4, <1>5 DEF AnswersSayWhatTheyLack

LEMMA NextAnswers == IInv /\ AnswersSayWhatTheyLack /\ [Next]_vars => AnswersSayWhatTheyLack'
<1> SUFFICES ASSUME IInv, AnswersSayWhatTheyLack, [Next]_vars PROVE AnswersSayWhatTheyLack'
  OBVIOUS
<1>1. ASSUME NEW ov, New(ov) PROVE AnswersSayWhatTheyLack'
  BY <1>1 DEF New, AnswersSayWhatTheyLack
<1>2. ASSUME NEW ov, reloadGate(ov) PROVE AnswersSayWhatTheyLack'
  <2>1. CASE call = Idle /\ call' = call
    BY <2>1 DEF AnswersSayWhatTheyLack
  <2>2. CASE call.stage = "decided" /\ call' = [call EXCEPT !.stale = TRUE]
    <3>1. call = [stage |-> "decided", engine |-> call.engine, statement |-> call.statement,
                  grants |-> call.grants, stale |-> call.stale, decision |-> call.decision]
      BY <2>2 DEF IInv, CallInv
    <3>2. call'.stage = "decided"
      BY <2>2, <3>1
    <3> QED BY <3>2 DEF AnswersSayWhatTheyLack
  <2> QED BY <1>2, <2>1, <2>2 DEF reloadGate
<1>3. ASSUME NEW e, NEW st, NEW grants, Decides(e, st, grants) PROVE AnswersSayWhatTheyLack'
  <2>1. call'.stage = "decided"
    BY <1>3 DEF Decides
  <2> QED BY <2>1 DEF AnswersSayWhatTheyLack
<1>4. ASSUME NEW e, NEW st, NEW grants, Ask(e, st, grants) PROVE AnswersSayWhatTheyLack'
  BY <1>3, <1>4 DEF Ask
<1>5. CASE Approve
  BY <1>3, <1>5 DEF Approve
<1>6. ASSUME call.stage = "decided", NEW result \in Results[call.statement.id], executeQuery(result)
      PROVE  AnswersSayWhatTheyLack'
  BY <1>6, QueryAnswered
<1>7. ASSUME NEW e, NEW read \in CatalogRows, SearchSchema(e, read) PROVE AnswersSayWhatTheyLack'
  BY <1>7, SearchAnswered
<1>8. ASSUME NEW e, NEW d \in Descriptions, DescribeTable(e, d) PROVE AnswersSayWhatTheyLack'
  BY <1>8, DescribeAnswered
<1>9. CASE Done
  BY <1>9 DEF Done, Idle, AnswersSayWhatTheyLack
<1>10. CASE UNCHANGED vars
  BY <1>10 DEF vars, AnswersSayWhatTheyLack
<1> QED
  BY <1>1, <1>2, <1>4, <1>5, <1>6, <1>7, <1>8, <1>9, <1>10 DEF Next

\* Whatever the database answers and whatever the budgets are, the rows of a query
\* are the most that fit, and a search or a description is cut at its last entry
\* at most, which says so: every other entry has all the columns, keys and indexes
\* that were read for its table, and an answer that is not cut has every table
\* (withinByteBudget of mcp/rows.go, schemaTables and describeTables of db).
THEOREM AnswersAreHonest == Spec => []AnswersSayWhatTheyLack
<1>1. Init => IInv /\ AnswersSayWhatTheyLack
  BY InitHolds DEF Init, Idle, AnswersSayWhatTheyLack
<1>2. IInv /\ [Next]_vars => IInv'
  BY NextHolds
<1>3. IInv /\ AnswersSayWhatTheyLack /\ [Next]_vars => AnswersSayWhatTheyLack'
  BY NextAnswers
<1> QED
  BY <1>1, <1>2, <1>3, PTL DEF Spec
=============================================================================
