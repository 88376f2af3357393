----------------------------- MODULE RedisServer -----------------------------
(* Redis as the code in src/ relies on it: which argvs it answers with how many *)
(* elements, and how SCAN walks the keyspace. Nothing here is in the repository. *)
EXTENDS RedisGate, SequencesExt

CONSTANTS
  ByteBudget,   \* Settings.ReplyByteBudget
  Keys,         \* the keys of the database
  Contents,     \* [Keys -> set of contents]: what each key may hold
  LastBucket,   \* the slots of the keyspace are 0 .. LastBucket
  Bucket,       \* [Keys -> 0 .. LastBucket]: the slot that SCAN finds a key in
  NameSize,     \* [Keys -> Nat]: bytes of a key's name
  Compact,      \* values of at most this size are kept compact, and may be walked whole
  Chain,        \* the most elements that one step of an HSCAN or ZSCAN finds
  Groups,       \* how many consumer groups and consumers a stream may have
  Elements      \* what elements of values may be: bytes and word

AnyType == {"string", "hash", "list", "set", "zset", "stream", "module"}
Words == {"wide", "binary", "prefix", "none"} \cup AnyType \cup DOMAIN Numeral \cup Keys \cup {e.word : e \in Elements}
R == INSTANCE RedisReply WITH ElementCap <- MaxElements

Content(type, len, ttl) == [type |-> type, len |-> len, ttl |-> ttl]
Absent == Content("none", 0, "gone")

Token(n) == CHOOSE s \in DOMAIN Numeral : Numeral[s] = n

\* The answer of SCAN fits its two parts, a type and a cursor are one byte, and
\* every cursor is a numeral that has a name. Redis holds whole runes.
RedisAssumption ==
  /\ MaxElements >= 2
  /\ ByteBudget \in Nat \ {0} /\ Compact \in Nat /\ LastBucket \in Nat
  /\ Chain \in Nat \ {0} /\ Groups \subseteq Nat /\ Groups # {}
  /\ \A b \in 0 .. LastBucket : \E s \in DOMAIN Numeral : Numeral[s] = b
  /\ IsFiniteSet(Keys) /\ Bucket \in [Keys -> 0 .. LastBucket] /\ NameSize \in [Keys -> Nat]
  /\ \A k \in Keys :
       /\ Absent \in Contents[k]
       /\ \A c \in Contents[k] \ {Absent} :
            c \in [type : AnyType, len : Nat, ttl : {"none", "some"}]
  /\ "wide" \notin Keys
  /\ \A e \in Elements : e \in [n : Nat, word : {e.word}] /\ (e.word = "wide" => e.n % 2 = 0)
ASSUME RedisAssumption

\* The types a command reads; the others take a key of any type.
TypesOf(name) ==
  IF name \in {"hget", "hmget", "hlen", "hscan", "hrandfield"} THEN {"hash"}
  ELSE IF name \in {"llen", "lindex", "lrange", "lpos"} THEN {"list"}
  ELSE IF name \in {"scard", "srandmember"} THEN {"set"}
  ELSE IF name \in {"zcard", "zcount", "zscan", "zrank", "zrange", "zrangebyscore", "zrangebylex", "zrevrange",
                    "geopos", "geodist", "geosearch"} THEN {"zset"}
  ELSE IF name \in {"xlen", "xrange", "xpending", "stream", "groups"} THEN {"stream"}
  ELSE IF name \in {"get", "strlen", "getrange", "getbit", "bitcount", "bitpos"} THEN {"string"}
  ELSE AnyType

Command(argv) == IF argv[1] \in DOMAIN Containers THEN argv[2] ELSE argv[1]
Args(argv) == Rest(argv, IF argv[1] \in DOMAIN Containers THEN 2 ELSE 1)
NamesKey(argv) == Args(argv) # <<>> /\ Args(argv)[1] \in Keys

Larger(a, b) == IF a > b THEN a ELSE b
Least(a, b) == CHOOSE m \in {a, b} : m <= a /\ m <= b
Absolute(n) == IF n < 0 THEN -n ELSE n
Value(args, options, first, slot) == \* the last value given for a slot, "" if none
  The({IF at = 0 THEN "" ELSE args[at + 1] : at \in {Options(options, args, first).at[slot]}})
Numbered(token, default) ==
  The({IF s = "" THEN default ELSE IF Int64(s) <= 0 THEN default ELSE Int64(s) : s \in {token}})

\* The elements of a range of indices, of n.
Span(n, start, stop) ==
  LET from == IF start < 0 THEN n + start ELSE start
      to == IF stop < 0 THEN n + stop ELSE Least(stop, n - 1)
  IN IF to < from THEN 0 ELSE to - (IF from < 0 THEN 0 ELSE from) + 1
Limited(n, args, options) ==
  The({IF at = 0 THEN n
       ELSE Least(n, Int64(args[at + 1]) + (IF Int64(args[at + 2]) < 0 THEN n ELSE Int64(args[at + 2]))) :
       at \in {Options(options, args, 4).at["limit"]}})
DefaultSamples == 5 \* of MEMORY USAGE
\* A page ends with the step that reaches its count.
Page(n, args, options, first) ==
  IF n <= Compact THEN n ELSE Least(n, Numbered(Value(args, options, first, "count"), n) + Chain - 1)
\* The most elements Redis replies with, of a value of n, those that LIMIT skips
\* included. Where no element is replied with, one stands for the number that is.
Replied(argv, n) ==
  LET a == Args(argv)
      num(i) == Int64(a[i])
  IN CASE Command(argv) = "mget" -> Len(a)
       [] Command(argv) \in {"hmget", "geopos"} -> Len(a) - 1
       [] Command(argv) = "hscan" -> Page(n, a, ScanTable["novalues"], 3)
       [] Command(argv) = "zscan" -> Page(n, a, ScanTable["none"], 3)
       [] Command(argv) \in {"hrandfield", "srandmember"} ->
            IF Len(a) = 1 THEN Least(n, 1)
            ELSE IF num(2) < 0 THEN (IF n = 0 THEN 0 ELSE Absolute(num(2))) ELSE Least(n, num(2))
       [] Command(argv) = "lpos" -> Least(n, Numbered(Value(a, PosOptions, 3, "maxlen"), n))
       [] Command(argv) = "lrange" -> IF num(3) < 0 THEN n ELSE Least(n, num(3) + 1)
       [] Command(argv) = "zrange" ->
            IF \E at \in {Options(ZRangeOptions, a, 4).at} : at["byscore"] # 0 \/ at["bylex"] # 0
            THEN Limited(n, a, ZRangeOptions) ELSE Span(n, num(2), num(3))
       [] Command(argv) = "zrangebyscore" -> Limited(n, a, LimitOrScores)
       [] Command(argv) = "zrangebylex" -> Limited(n, a, LimitOnly)
       [] Command(argv) = "zrevrange" -> Span(n, num(2), num(3))
       [] Command(argv) = "xrange" -> Least(n, Numbered(Value(a, CountOnly, 4, "count"), n))
       [] Command(argv) = "stream" -> IF Len(a) = 1 THEN 1 ELSE Least(n, Numbered(a[4], n))
       [] Command(argv) = "xpending" -> IF Len(a) = 2 THEN 1 ELSE Least(n, Numbered(a[5], n))
       [] Command(argv) = "geosearch" -> Least(n, Numbered(Value(a, GeoOptions, 2, "count"), n))
       [] OTHER -> 1
\* The most it walks for them. A random sample that is not small beside the value
\* begins with a copy of the whole value, and a search by area collects what is
\* in the area, whatever it is to return of it.
Walked(argv, n) ==
  LET a == Args(argv)
      num(i) == Int64(a[i])
  IN IF n <= Compact THEN Larger(n, Replied(argv, n))
     ELSE CASE Command(argv) = "usage" -> Least(n, IF Len(a) = 1 THEN DefaultSamples ELSE IF num(3) = 0 THEN n ELSE num(3))
            [] Command(argv) = "lindex" -> Least(n, IF num(2) < 0 THEN Absolute(num(2)) ELSE num(2) + 1)
            [] Command(argv) \in {"hrandfield", "srandmember"} ->
                 IF Len(a) = 2 /\ num(2) > 0 THEN Least(n, 3 * num(2)) ELSE Replied(argv, n)
            [] Command(argv) = "geosearch" -> n
            [] OTHER -> Replied(argv, n)
\* What a stream of g groups and consumers adds: a line for each, and with FULL
\* for each as many pending entries as entries are asked for.
Attached(argv, g) ==
  LET a == Args(argv)
  IN CASE Command(argv) \in {"groups", "usage"} -> g
       [] Command(argv) = "stream" /\ Len(a) > 1 -> g * (1 + Int64(a[4]))
       [] Command(argv) = "xpending" /\ Len(a) = 2 -> g
       [] OTHER -> 0

\* Each entry of an aggregate reply contributes these items, of e bytes of word w.
Entry(argv, e, w) ==
  LET s == R!String(e, w)
      has(word) == \E i \in DOMAIN argv : argv[i] = word
  IN IF \/ has("withscores") \/ has("withvalues") \/ Command(argv) = "zscan"
        \/ Command(argv) = "hscan" /\ ~has("novalues") THEN <<s, s>>
     ELSE IF Command(argv) = "xrange" THEN <<R!Array(<<s, R!Array(<<s, s, s, s>>)>>)>> \* two fields
     ELSE IF Command(argv) = "geosearch" /\ has("withcoord") THEN <<R!Array(<<s, R!Array(<<s, s>>)>>)>>
     ELSE IF Command(argv) = "geopos" THEN <<R!Nil, R!Array(<<s, s>>)>>
     ELSE IF Command(argv) = "xpending" THEN <<R!Array(<<s, R!Number(1)>>)>>
     ELSE <<s>>
Entries(argv, n, e, w) == R!FlattenSeq([i \in 1 .. n |-> Entry(argv, e, w)])

\* SCAN replies with whole buckets from its cursor on, and with none beyond the
\* one where it has found COUNT keys.
Seen(ks, from, to) == {k \in Keys : ks[k] # Absent /\ Bucket[k] \in from .. to}
Stops(ks, from, count) ==
  {last \in from .. LastBucket : from < last => Cardinality(Seen(ks, from, last - 1)) < count}
Cursor(argv) == LET s == Args(argv)[1]
                IN IF parseInt(s) /\ Int64(s) <= LastBucket THEN Int64(s) ELSE LastBucket
CursorAfter(last) == IF last = LastBucket THEN "zero" ELSE Token(last + 1)
ScanReply(ks, from, last) ==
  LET names == SetToSeq(Seen(ks, from, last))
  IN R!Array(<<R!String(1, CursorAfter(last)),
               R!Array([i \in DOMAIN names |-> R!String(NameSize[names[i]], names[i])])>>)

\* What Redis replies to any other admitted argv: c is the content of the key it
\* names, v the elements of it and g those attached to it that it replies with, e
\* and w the size and word of them.
ReplyOf(argv, c, v, g, e, w) ==
  LET name == Command(argv)
  IN IF name = "type" THEN R!String(1, c.type)
     ELSE IF name = "pttl" THEN R!Number(IF c.ttl = "gone" THEN -2 ELSE IF c.ttl = "none" THEN -1 ELSE 1)
     ELSE IF name = "encoding" THEN (IF c = Absent THEN R!Nil ELSE R!String(1, c.type))
     ELSE IF name = "usage" THEN (IF c = Absent THEN R!Nil ELSE R!Number(c.len))
     ELSE IF name \in {"strlen", "hlen", "llen", "scard", "zcard", "xlen", "zcount", "dbsize", "getbit", "bitcount",
                       "bitpos"} THEN R!Number(c.len)
     ELSE IF name \in {"hscan", "zscan"} THEN R!Array(<<R!String(1, "zero"), R!Array(Entries(argv, v, e, w))>>)
     ELSE IF name = "lpos" /\ (\A i \in DOMAIN argv : argv[i] # "count") THEN (IF v = 0 THEN R!Nil ELSE R!Number(0))
     ELSE IF \/ name \in {"get", "getrange", "hget", "lindex", "zrank", "geodist"}
             \/ name \in {"hrandfield", "srandmember"} /\ Len(Args(argv)) = 1
          THEN (IF c = Absent THEN R!Nil ELSE R!String(e, w))
     ELSE IF name = "groups" THEN R!Array(Entries(argv, g, e, w))
     ELSE IF name \in {"stream", "xpending"} THEN R!Array(Entries(argv, v + g, e, w))
     ELSE R!Array(Entries(argv, v, e, w))

ContentOf(argv, ks) == IF NamesKey(argv) THEN ks[Args(argv)[1]] ELSE Absent
Reply(argv, ks, groups, e, w) ==
  The({ReplyOf(argv, ContentOf(argv, ks), v, Attached(argv, groups), e, w) : v \in {Replied(argv, ContentOf(argv, ks).len)}})

\* The replies Redis may give on the keyspace ks.
RepliesTo(argv, ks) ==
  IF Command(argv) = "scan"
  THEN {ScanReply(ks, Cursor(argv), last) :
          last \in Stops(ks, Cursor(argv), Numbered(Value(Args(argv), ScanTable["type"], 2, "count"), 1))}
  ELSE {Reply(argv, ks, groups, e.n, e.word) : groups \in Groups, e \in Elements}

\* The error WRONGTYPE.
WrongType(argv, ks) ==
  /\ NamesKey(argv)
  /\ ks[Args(argv)[1]] # Absent
  /\ ks[Args(argv)[1]].type \notin TypesOf(Command(argv))
===============================================================================
