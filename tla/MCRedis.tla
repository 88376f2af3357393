------------------------------ MODULE MCRedis ------------------------------
(* RedisCalls over three keys in two buckets. A page of two names starting at   *)
(* bucket 0 runs into bucket 1 and holds three, one more than an array keeps.   *)
EXTENDS RedisCalls

AllKeys == {"k1", "k2", "k3"}
Text == Content("string", 1, "none")
Values == [k1 |-> {Absent, Content("string", 1, "some"), Content("list", 4, "none"), Content("zset", 4, "none"),
                   Content("zset", 1, "none"), Content("stream", 3, "none"), Content("module", 1, "none")},
           k2 |-> {Absent, Text}, k3 |-> {Absent, Text}]
\* Every content of the first key beside two others.
Keyspaces == {[k1 |-> c, k2 |-> Text, k3 |-> Text] : c \in Values["k1"]}
Buckets == [k1 |-> 1, k2 |-> 1, k3 |-> 0]
Sizes == [k1 |-> 2, k2 |-> 3, k3 |-> 4]

\* With a budget of seven bytes: strings that fit, use it up and are cut; runes of
\* two bytes, cut in a first string and after an array that the cap has cut.
Strings == {[n |-> 1, word |-> "ascii"], [n |-> 7, word |-> "ascii"], [n |-> 2, word |-> "wide"], [n |-> 8, word |-> "wide"],
            [n |-> 1, word |-> "binary"]}

Nums == {"min", "minus1", "zero", "one", "two", "three", "max", "word"}
Few == {"minus1", "zero", "two", "three"}

Plain ==
  {<<>>, <<"nosuch">>, <<"set", "k1">>, <<"hgetall", "k1">>, <<"object">>, <<"object", "nosuch">>, <<"get">>,
   <<"get", "k1">>, <<"get", "k1", "k2">>, <<"get", "blob">>, <<"mget", "blob", "blob", "blob">>,
   <<"mget", "k1">>, <<"mget", "k1", "k2">>, <<"mget", "k1", "k2", "k3">>, <<"hmget", "k1">>, <<"geopos", "k1", "m">>,
   <<"scan">>, <<"scan", "minus1">>, <<"scan", "huge", "count", "one">>, <<"scan", "padded">>, <<"xinfo", "stream", "k1">>,
   <<"xinfo", "groups", "k1">>}
\* Commands of one numeric argument, and of two.
One == {<<c, "k1", a>> : c \in {"getbit", "bitpos", "lindex", "srandmember", "hrandfield"}, a \in Nums}
Two == {<<c, "k1", a, b>> : c \in {"lrange", "zrange", "zrevrange", "bitcount"}, a \in Nums, b \in Nums}

\* Option lists: one option, or two; the first may be cut short.
Tails(words, nums) ==
  LET one == {<<w>> : w \in words} \cup {<<w, a>> : w \in words, a \in nums}
  IN {<<>>} \cup one \cup {s \o t : s \in one, t \in one}
Scans == {<<"scan", "zero">> \o t : t \in Tails({"count", "match", "type"}, {"count", "two", "three"})}
         \cup {<<"zscan", "k1", "zero">> \o t : t \in Tails({"count"}, Few)}
Positions == {<<"lpos", "k1", "v">> \o t : t \in Tails({"rank", "count", "maxlen"}, {"min", "zero", "two", "three"})}
Streams == {<<"xrange", "k1", "a", "b">> \o t : t \in Tails({"count"}, Few)}
           \cup {<<"xinfo", "stream", "k1", "full", "count", a>> : a \in Few}
           \cup {<<"xpending", "k1", "g">> \o t : t \in {<<>>, <<"idle", "one">>, <<"a", "b">>, <<"a", "b", "two">>, <<"a", "b", "three", "c">>}}
           \cup {<<"memory", "usage", "k1", "samples", a>> : a \in Nums}
Flags == {<<>>, <<"byscore">>, <<"bylex">>, <<"rev">>, <<"withscores">>, <<"byscore", "withscores">>, <<"bylex", "withscores">>,
          <<"byscore", "bylex">>, <<"rev", "rev">>}
Limits == {<<>>, <<"limit", "zero">>} \cup {<<"limit", a, b>> : a \in Few, b \in Few}
Ranges == {<<"zrange", "k1", "zero", "one">> \o f \o l : f \in Flags, l \in Limits}
          \cup {<<"zrangebyscore", "k1", "a", "b">> \o f \o l : f \in {<<>>, <<"withscores">>}, l \in Limits}
          \cup {<<"zrangebylex", "k1", "a", "b">> \o l : l \in Limits}
          \cup {<<"zrevrange", "k1", "zero", "one", w>> : w \in {"withscores", "rev"}}
From == {<<>>, <<"frommember", "m">>, <<"fromlonlat", "one", "one">>, <<"frommember">>}
By == {<<>>, <<"byradius", "one", "km">>, <<"bybox", "one", "one", "m">>, <<"byradius", "one", "one">>}
Counts == {<<>>, <<"count", "two">>, <<"count", "three">>, <<"count", "one", "any">>, <<"asc", "desc">>}
Searches == {<<"geosearch", "k1">> \o f \o b \o c \o w : f \in From, b \in By, c \in Counts, w \in {<<>>, <<"withcoord">>}}

AllArgvs == Plain \cup One \cup Two \cup Scans \cup Positions \cup Streams \cup Ranges \cup Searches

\* The limits let inspect_key through.
ASSUME InspectionAdmitted
=============================================================================
