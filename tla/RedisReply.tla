----------------------------- MODULE RedisReply -----------------------------
(* internal/redisdb/reply.go, which cuts a reply to the element cap and the     *)
(* byte budget, and internal/redismcp/encode.go, which renders what is kept.    *)
(*                                                                              *)
(* A value has a type. A string has n bytes and a word, its content: a name, or *)
(* "wide" (runes of two bytes, so that a cut at an odd byte leaves half a rune)  *)
(* or "binary"; a name cut short is "prefix". An array has items. The client    *)
(* speaks RESP2 (Protocol: 2), so there is no other type.                       *)
EXTENDS Integers, Sequences, SequencesExt

\* As in RedisGate: binds a result that is used more than once.
The(S) == CHOOSE x \in S : TRUE

CONSTANTS
  ElementCap, \* Settings.MaxElements, also a limit of the gate
  ByteBudget, \* Settings.ReplyByteBudget
  Words       \* what the strings of replies say

Unnamed == "" \* the word of a value that is not a string
Value(type, n, word, items) == [type |-> type, n |-> n, word |-> word, items |-> items]
Nil == Value("nil", 0, Unnamed, <<>>)
Number(n) == Value("integer", n, Unnamed, <<>>)
String(n, word) == Value("string", n, word, <<>>)
Array(items) == Value("array", 0, Unnamed, items)

\* Replies: what a reply may be. No command of the allowlist nests deeper.
Leaf == [type : {"string"}, n : Nat, word : Words, items : {<<>>}]
        \cup [type : {"integer", "nil"}, n : Int, word : {Unnamed}, items : {<<>>}]
Over(Leafs, Values) == Leafs \cup [type : {"array"}, n : {0}, word : {Unnamed}, items : Seq(Values)]
Nested(Leafs) == Over(Leafs, Over(Leafs, Over(Leafs, Over(Leafs, {}))))
Replies == Nested(Leaf)
\* Redis holds no half rune: only a cut makes one.
WholeLeaf == {v \in Leaf : v.word = "wide" => v.n % 2 = 0}

\* replyBounds
Bounds == [remaining : 0 .. ByteBudget, truncation : {"none", "element_cap", "byte_budget"}, exhausted : BOOLEAN]
NoBounds == [remaining |-> ByteBudget, truncation |-> "none", exhausted |-> FALSE]
cut(b, reason) == IF b.truncation = "none" THEN [b EXCEPT !.truncation = reason] ELSE b

\* Mutant: a string that uses up the budget counts as cut.
textBelow(v, b) ==
  IF v.n < b.remaining
  THEN [value |-> v, b |-> [b EXCEPT !.remaining = @ - v.n]]
  ELSE [value |-> [v EXCEPT !.n = b.remaining], b |-> cut([b EXCEPT !.remaining = 0, !.exhausted = TRUE], "byte_budget")]
text(v, b) ==
  IF v.n <= b.remaining
  THEN [value |-> v, b |-> [b EXCEPT !.remaining = @ - v.n]]
  ELSE [value |-> [v EXCEPT !.n = b.remaining,
                            !.word = IF @ \in {"wide", "binary"} THEN @ ELSE "prefix"],
        b |-> cut([b EXCEPT !.remaining = 0, !.exhausted = TRUE], "byte_budget")]

leaf(v, b) == IF v.type = "string" THEN text(v, b) ELSE [value |-> v, b |-> b]

\* The items of an array one after another, until one of them exhausts the
\* budget. What becomes of item i under bounds b is kept[i][b].
items(kept, b) ==
  LET upTo[i \in 0 .. Len(kept)] ==
        IF i = 0 THEN [out |-> <<>>, b |-> b]
        ELSE IF upTo[i - 1].b.exhausted THEN upTo[i - 1]
        ELSE The({[out |-> Append(upTo[i - 1].out, item.value), b |-> item.b] :
                    item \in {kept[i][upTo[i - 1].b]}})
  IN upTo[Len(kept)]

\* replyBounds.array: as many items as the cap allows.
Fitting(s) == IF Len(s) < ElementCap THEN Len(s) ELSE ElementCap
bounded(v, all) ==
  [value |-> [v EXCEPT !.items = all.out],
   b |-> IF ~all.b.exhausted /\ Len(v.items) > ElementCap THEN cut(all.b, "element_cap") ELSE all.b]
array[v \in Replies] ==
  LET kept == [i \in 1 .. Fitting(v.items) |->
                 IF v.items[i].type = "array" THEN array[v.items[i]] ELSE [b \in Bounds |-> leaf(v.items[i], b)]]
  IN [b \in Bounds |-> The({bounded(v, all) : all \in {items(kept, b)}})]
value(v, b) == IF v.type = "array" THEN array[v][b] ELSE leaf(v, b)

boundReply(raw) ==
  The({[reply |-> kept.value, truncation |-> kept.b.truncation] : kept \in {value(raw, NoBounds)}})

\* The leaves of a value in the order they are rendered; in the reference, of the
\* value whose arrays are all capped.
Leaves(capped) ==
  LET of[v \in Replies] ==
        IF v.type # "array" THEN <<v>>
        ELSE FlattenSeq([i \in 1 .. (IF capped THEN Fitting(v.items) ELSE Len(v.items)) |-> of[v.items[i]]])
  IN of
leaves == Leaves(FALSE)
CappedLeaves == Leaves(TRUE)

\* text of encode.go: how a string reaches the agent. Half a rune at the end of
\* the leaf that the budget cut is dropped; anywhere else the string is binary.
Utf8(v) == v.n = 0 \/ (v.word # "binary" /\ (v.word = "wide" => v.n % 2 = 0))
rendered(v, last) ==
  IF v.type # "string" THEN v.type
  ELSE IF Utf8(v) \/ (last /\ v.word = "wide") THEN "text" ELSE "base64"

\* Mutant: the outer items are counted, not the leaves.
encodeReplyItems(v, truncation) ==
  LET all == leaves[v]
  IN [i \in DOMAIN all |-> rendered(all[i], truncation = "byte_budget" /\ i = Len(v.items))]
\* encodeReply: only the last leaf may have been cut by the byte budget.
encodeReply(v, truncation) ==
  LET all == leaves[v]
  IN [i \in DOMAIN all |-> rendered(all[i], truncation = "byte_budget" /\ i = Len(all))]

-----------------------------------------------------------------------------
\* Reference: the bytes of the first i leaves.
Size(v) == IF v.type = "string" THEN v.n ELSE 0
BytesUpTo(all, i) ==
  LET upTo[k \in 0 .. Len(all)] == IF k = 0 THEN 0 ELSE upTo[k - 1] + Size(all[k])
  IN upTo[i]
=============================================================================
