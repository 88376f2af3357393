----------------------------- MODULE RedisGate -----------------------------
(* internal/redisgate: the decision on one argv, before anything is sent to     *)
(* Redis. A token of an argv is a word: a keyword is itself in lower case (the  *)
(* code folds ASCII case first), a numeral is named, any other word is opaque.  *)
(* A check returns "ok" or the Reason of its refusal.                           *)
EXTENDS Integers, Sequences, FiniteSets

CONSTANTS
  MaxElements, MaxCount, MaxArgs, MaxBytes, \* Limits
  Word                                      \* width of int64, scaled down

LimitsPositive ==
  /\ {MaxElements, MaxCount, MaxArgs, MaxBytes} \subseteq Nat \ {0}
  /\ Word \in Nat \ {0, 1}
ASSUME LimitsPositive

MinInt == -(2^(Word - 1))
MaxInt == 2^(Word - 1) - 1

\* What strconv.ParseInt reads: the named numerals. "padded" (007) and "huge"
\* (beyond int64, within uint64) are digits that parseInt does not take.
Numeral == [min |-> MinInt, minus2 |-> -2, minus1 |-> -1, zero |-> 0, one |-> 1,
            two |-> 2, three |-> 3, max |-> MaxInt]
parseInt(s) == s \in DOMAIN Numeral
Int64(s) == Numeral[s]
validCursor(s) == s \in {"padded", "huge"} \/ (parseInt(s) /\ Int64(s) >= 0)

\* Bytes of a token; "blob" stands for a long one.
Size(s) == IF s = "blob" THEN 4 ELSE 1

(* The option loops of scanOptions, checkLPos, checkZRange, checkZRangeBy,      *)
(* checkXRange and checkGeoSearch read keywords from left to right; each takes  *)
(* some values, fills a slot that may be filled once, and has a kind of value.  *)
Option(slot, values, kind) == [slot |-> slot, values |-> values, kind |-> kind]
Slot(slot) == Option(slot, 0, "any")

\* The member of a singleton: a result that is used more than once is bound as
\* the element of a set, so that it is evaluated once.
The(S) == CHOOSE x \in S : TRUE

\* A check that refuses when cond holds; the first refusal of two checks.
Refuse(cond, reason) == IF cond THEN reason ELSE "ok"
first ?? second == The({IF f # "ok" THEN f ELSE second : f \in {first}})

intArg(s) == Refuse(~parseInt(s), "invalid_argument")

countOption(s) ==
  intArg(s)
  ?? Refuse(Int64(s) < 1, "invalid_argument")
  ?? Refuse(Int64(s) > MaxCount, "count_too_large")

limitOption(offset, count) ==
  intArg(offset)
  ?? Refuse(Int64(offset) < 0, "invalid_argument")
  ?? intArg(count)
  ?? Refuse(Int64(count) < 0 \/ Int64(count) > MaxElements, "too_many_elements")
  ?? Refuse(Int64(offset) > MaxElements - Int64(count), "traversal_too_deep")

\* MAXLEN of LPOS and SAMPLES of MEMORY USAGE, where 0 means the whole value.
Sampled(s) ==
  intArg(s)
  ?? Refuse(Int64(s) < 0, "invalid_argument")
  ?? Refuse(Int64(s) = 0 \/ Int64(s) > MaxElements, "too_many_elements")

PosCount(s) ==
  intArg(s)
  ?? Refuse(Int64(s) < 0, "invalid_argument")
  ?? Refuse(Int64(s) > MaxCount, "count_too_large")

PosRank(s) == intArg(s) ?? Refuse(Int64(s) \in {0, MinInt}, "invalid_argument")

geoUnit(s) == Refuse(s \notin {"m", "km", "ft", "mi"}, "unknown_argument")

ValueRefusal(kind, args, i) ==
  CASE kind = "any" -> "ok"
    [] kind \in {"count", "countany"} -> countOption(args[i + 1])
    [] kind = "limit" -> limitOption(args[i + 1], args[i + 2])
    [] kind = "maxlen" -> Sampled(args[i + 1])
    [] kind = "poscount" -> PosCount(args[i + 1])
    [] kind = "rank" -> PosRank(args[i + 1])
    [] kind = "radius" -> geoUnit(args[i + 2])
    [] kind = "box" -> geoUnit(args[i + 3])

\* A slot filled twice: the two ways to give a centre or a shape are exclusive.
Repeated(slot) == IF slot \in {"from", "by"} THEN "invalid_argument" ELSE "duplicate_argument"

\* The token after a COUNT of GEOSEARCH may be ANY.
Taken(option, args, i) ==
  option.values + (IF /\ option.kind = "countany"
                      /\ i + 2 <= Len(args)
                      /\ args[i + 2] = "any" THEN 1 ELSE 0)

Slots(options) == {options[k].slot : k \in DOMAIN options}

\* The refusal of an option list, and where each slot was filled (0: nowhere).
Options(options, args, first) ==
  LET from[i \in Nat] == [at \in [Slots(options) -> Nat] |->
        IF i > Len(args) THEN [refusal |-> "ok", at |-> at]
        ELSE IF args[i] \notin DOMAIN options
          THEN [refusal |-> "unknown_argument", at |-> at]
        ELSE
          LET o == options[args[i]]
          IN The({IF refusal # "ok" THEN [refusal |-> refusal, at |-> at]
                  ELSE from[i + 1 + Taken(o, args, i)][[at EXCEPT ![o.slot] = i]] :
                  refusal \in {Refuse(at[o.slot] # 0, Repeated(o.slot))
                               ?? Refuse(i + o.values > Len(args), "wrong_arity")
                               ?? ValueRefusal(o.kind, args, i)}})]
  IN from[first][[s \in Slots(options) |-> 0]]

\* The same, where one of the slots must be filled.
Required(options, args, first, slot, reason) ==
  The({o.refusal ?? Refuse(o.at[slot] = 0, reason) : o \in {Options(options, args, first)}})

(* The checks, one per family of commands. args excludes the command's name.    *)
arityRange(args, lo, hi) == Refuse(Len(args) \notin lo .. hi, "wrong_arity")
AtLeast(args, n) == Refuse(Len(args) < n, "wrong_arity")
fixed(args, n) == arityRange(args, n, n)

variadic(args, prefix, least) ==
  AtLeast(args, prefix + least) ?? Refuse(Len(args) - prefix > MaxElements, "too_many_elements")

window(start, stop) ==
  intArg(start)
  ?? intArg(stop)
  ?? Refuse(Int64(start) < 0 \/ Int64(stop) < 0, "unbounded_window")
  ?? Refuse(Int64(stop) >= Int64(start) /\ Int64(stop) - Int64(start) >= MaxElements, "window_too_large")

Match == Option("match", 1, "any")
Count == Option("count", 1, "count")
Limit == Option("limit", 2, "limit")
ScanTable ==
  [none |-> [match |-> Match, count |-> Count],
   type |-> [match |-> Match, count |-> Count, type |-> Option("type", 1, "any")],
   novalues |-> [match |-> Match, count |-> Count, novalues |-> Slot("novalues")]]

scanOptions(args, offset, extra) ==
  Required(ScanTable[extra], args, offset + 1, "count", "missing_count")

checkScan(args) ==
  AtLeast(args, 1) ?? Refuse(~validCursor(args[1]), "invalid_argument") ?? scanOptions(args, 1, "type")

checkKeyScan(args, extra) ==
  AtLeast(args, 2) ?? Refuse(~validCursor(args[2]), "invalid_argument") ?? scanOptions(args, 2, extra)

checkMemoryUsage(args) ==
  arityRange(args, 1, 3)
  ?? IF Len(args) = 1 THEN "ok"
     ELSE Refuse(args[2] # "samples", "unknown_argument") ?? AtLeast(args, 3) ?? Sampled(args[3])

checkGetRange(args) == fixed(args, 3) ?? intArg(args[2]) ?? intArg(args[3])

checkGetBit(args) == fixed(args, 2) ?? intArg(args[2]) ?? Refuse(Int64(args[2]) < 0, "invalid_argument")

\* The optional i-th argument.
May(args, i, check) == IF Len(args) >= i THEN check ELSE "ok"
bitUnit(s) == Refuse(s \notin {"byte", "bit"}, "unknown_argument")

checkBitCount(args) ==
  Refuse(Len(args) \notin {1, 3, 4}, "wrong_arity")
  ?? May(args, 3, intArg(args[2]) ?? intArg(args[3]))
  ?? May(args, 4, bitUnit(args[4]))

checkBitPos(args) ==
  arityRange(args, 2, 5)
  ?? Refuse(args[2] \notin {"zero", "one"}, "invalid_argument")
  ?? May(args, 3, intArg(args[3]))
  ?? May(args, 4, intArg(args[4]))
  ?? May(args, 5, bitUnit(args[5]))

checkRandom(args, flag) ==
  arityRange(args, 1, IF flag = "" THEN 2 ELSE 3)
  ?? May(args, 2, intArg(args[2])
                  ?? Refuse(Int64(args[2]) > MaxElements \/ Int64(args[2]) < -MaxElements, "too_many_elements"))
  ?? May(args, 3, Refuse(args[3] # flag, "unknown_argument"))

checkLIndex(args) ==
  fixed(args, 2)
  ?? intArg(args[2])
  ?? Refuse(Int64(args[2]) >= MaxElements \/ Int64(args[2]) < -MaxElements, "traversal_too_deep")

\* Mutant: a window far down the list is walked to.
checkLRangeWindowOnly(args) == fixed(args, 3) ?? window(args[2], args[3])
checkLRange(args) ==
  fixed(args, 3)
  ?? window(args[2], args[3])
  ?? Refuse(Int64(args[3]) >= MaxElements, "traversal_too_deep")

PosOptions ==
  [rank |-> Option("rank", 1, "rank"), count |-> Option("count", 1, "poscount"),
   maxlen |-> Option("maxlen", 1, "maxlen")]

checkLPos(args) ==
  AtLeast(args, 2) ?? Required(PosOptions, args, 3, "maxlen", "missing_maxlen")

checkZRank(args) == arityRange(args, 2, 3) ?? May(args, 3, Refuse(args[3] # "withscore", "unknown_argument"))

ZRangeOptions ==
  [byscore |-> Slot("byscore"), bylex |-> Slot("bylex"), rev |-> Slot("rev"),
   withscores |-> Slot("withscores"), limit |-> Limit]

ZRangeMode(given, args) ==
  Refuse("bylex" \in given /\ {"byscore", "withscores"} \cap given # {}, "invalid_argument")
  ?? IF {"byscore", "bylex"} \cap given # {}
     THEN Refuse("limit" \notin given, "missing_limit")
     ELSE Refuse("limit" \in given, "invalid_argument") ?? window(args[2], args[3])

checkZRange(args) ==
  AtLeast(args, 3)
  ?? The({o.refusal ?? ZRangeMode({slot \in DOMAIN o.at : o.at[slot] # 0}, args) : o \in {Options(ZRangeOptions, args, 4)}})

LimitOnly == [limit |-> Limit]
LimitOrScores == [limit |-> Limit, withscores |-> Slot("withscores")]

checkZRangeBy(args, scores) ==
  AtLeast(args, 3)
  ?? Required(IF scores THEN LimitOrScores ELSE LimitOnly, args, 4, "limit", "missing_limit")

checkZRevRange(args) ==
  arityRange(args, 3, 4)
  ?? May(args, 4, Refuse(args[4] # "withscores", "unknown_argument"))
  ?? window(args[2], args[3])

CountOnly == [count |-> Count]

checkXRange(args) ==
  AtLeast(args, 3) ?? Required(CountOnly, args, 4, "count", "missing_count")

checkXInfoStream(args) ==
  AtLeast(args, 1)
  ?? May(args, 2, Refuse(args[2] # "full", "unknown_argument")
                  ?? Refuse(Len(args) = 2, "missing_count")
                  ?? Refuse(args[3] # "count", "unknown_argument")
                  ?? AtLeast(args, 4)
                  ?? countOption(args[4])
                  ?? Refuse(Len(args) > 4, "unknown_argument"))

checkXPending(args) ==
  AtLeast(args, 2)
  ?? May(args, 3, Refuse(args[3] = "idle", "traversal_too_deep")
                  ?? Refuse(Len(args) = 3, "wrong_arity")
                  ?? Refuse(Len(args) = 4, "missing_count")
                  ?? Refuse(Len(args) > 6, "unknown_argument")
                  ?? countOption(args[5]))

checkGeoDist(args) == arityRange(args, 3, 4) ?? May(args, 4, geoUnit(args[4]))

GeoOptions ==
  [frommember |-> Option("from", 1, "any"), fromlonlat |-> Option("from", 2, "any"),
   byradius |-> Option("by", 2, "radius"), bybox |-> Option("by", 3, "box"),
   asc |-> Slot("order"), desc |-> Slot("order"), count |-> Option("count", 1, "countany"),
   withcoord |-> Slot("coord"), withdist |-> Slot("dist"), withhash |-> Slot("hash")]

checkGeoSearch(args) ==
  AtLeast(args, 1)
  ?? The({o.refusal
          ?? Refuse(o.at["from"] = 0 \/ o.at["by"] = 0, "invalid_argument")
          ?? Refuse(o.at["count"] = 0, "missing_count") : o \in {Options(GeoOptions, args, 2)}})

(* The allowlist: one command of each kind of check stands for all that share   *)
(* it (get for type, ttl, hlen, llen, scard, xlen, ...).                        *)
Containers == [object |-> {"encoding"}, memory |-> {"usage"}, xinfo |-> {"stream", "groups"}]
Commands ==
  {"get", "type", "pttl", "strlen", "hlen", "llen", "scard", "zcard", "xlen", "dbsize", "hget", "zcount", "mget", "hmget", "geopos",
   "scan", "hscan", "zscan", "getrange", "getbit", "bitcount", "bitpos", "hrandfield", "srandmember", "lindex", "lrange",
   "lpos", "zrank", "zrange", "zrangebyscore", "zrangebylex", "zrevrange", "xrange", "xpending", "geodist", "geosearch"}
UnboundedCommands == {"hgetall", "smembers"}
ForbiddenCommands == {"set", "keys", "eval", "blpop", "config"}

Check(name, args) ==
  CASE name \in {"get", "type", "pttl", "strlen", "hlen", "llen", "scard", "zcard", "xlen", "encoding", "groups"} -> fixed(args, 1)
    [] name = "dbsize" -> fixed(args, 0)
    [] name = "hget" -> fixed(args, 2)
    [] name = "zcount" -> fixed(args, 3)
    [] name = "mget" -> variadic(args, 0, 1)
    [] name = "hmget" -> variadic(args, 1, 1)
    [] name = "geopos" -> variadic(args, 1, 0)
    [] name = "usage" -> checkMemoryUsage(args)
    [] name = "scan" -> checkScan(args)
    [] name = "hscan" -> checkKeyScan(args, "novalues")
    [] name = "zscan" -> checkKeyScan(args, "none")
    [] name = "getrange" -> checkGetRange(args)
    [] name = "getbit" -> checkGetBit(args)
    [] name = "bitcount" -> checkBitCount(args)
    [] name = "bitpos" -> checkBitPos(args)
    [] name = "hrandfield" -> checkRandom(args, "withvalues")
    [] name = "srandmember" -> checkRandom(args, "")
    [] name = "lindex" -> checkLIndex(args)
    [] name = "lrange" -> checkLRange(args)
    [] name = "lpos" -> checkLPos(args)
    [] name = "zrank" -> checkZRank(args)
    [] name = "zrange" -> checkZRange(args)
    [] name = "zrangebyscore" -> checkZRangeBy(args, TRUE)
    [] name = "zrangebylex" -> checkZRangeBy(args, FALSE)
    [] name = "zrevrange" -> checkZRevRange(args)
    [] name = "xrange" -> checkXRange(args)
    [] name = "stream" -> checkXInfoStream(args)
    [] name = "xpending" -> checkXPending(args)
    [] name = "geodist" -> checkGeoDist(args)
    [] name = "geosearch" -> checkGeoSearch(args)

TotalSize(argv) ==
  LET total[i \in 0 .. Len(argv)] == IF i = 0 THEN 0 ELSE total[i - 1] + Size(argv[i])
  IN total[Len(argv)]

Rest(argv, offset) == SubSeq(argv, offset + 1, Len(argv))

\* Gate.Validate: the Reason of the Decision; "bounded_read" is its only Allow.
Decide(argv) ==
  Refuse(argv = <<>>, "empty_command")
  ?? Refuse(Len(argv) > MaxArgs, "too_many_arguments")
  ?? Refuse(TotalSize(argv) > MaxBytes, "command_too_large")
  ?? (CASE argv[1] \in DOMAIN Containers ->
             Refuse(Len(argv) < 2, "missing_subcommand")
             ?? Refuse(argv[2] \notin Containers[argv[1]], "unknown_subcommand")
             ?? Check(argv[2], Rest(argv, 2))
        [] argv[1] \in Commands -> Check(argv[1], Rest(argv, 1))
        [] argv[1] \in UnboundedCommands -> "unbounded_command"
        [] argv[1] \in ForbiddenCommands -> "forbidden_command"
        [] OTHER -> "unknown_command")
  ?? "bounded_read"

Allows(argv) == Decide(argv) = "bounded_read"
=============================================================================
