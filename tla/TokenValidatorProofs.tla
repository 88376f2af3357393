------------------------ MODULE TokenValidatorProofs ------------------------
(***************************************************************************)
(* The validator's safety for every set of calls and tokens and every      *)
(* value of the bounds of TokenValidator.                                  *)
(***************************************************************************)
EXTENDS TokenValidator, FiniteSetTheorems, SequenceTheorems, TLAPS

\* list.Remove takes one element out and keeps the order of the others.
LEMMA RemoveLemma ==
  ASSUME NEW S, NEW list \in Seq(S), NEW i \in 1 .. Len(list)
  PROVE  /\ Remove(list, i) \in Seq(S)
         /\ Len(Remove(list, i)) = Len(list) - 1
         /\ \A j \in 1 .. Len(list) - 1 :
              Remove(list, i)[j] = IF j < i THEN list[j] ELSE list[j + 1]
<1>1. Len(list) \in Nat /\ Len(list) - 1 \in Nat
  OBVIOUS
<1>2. \A j \in 1 .. Len(list) - 1 : (IF j < i THEN list[j] ELSE list[j + 1]) \in S
  BY <1>1
<1>3. Remove(list, i) \in [1 .. Len(list) - 1 -> S]
  BY <1>2 DEF Remove
<1>4. Remove(list, i) \in Seq(S)
  BY <1>1, <1>3, SeqDef
<1>5. Len(Remove(list, i)) = Len(list) - 1
  BY <1>1, <1>3, <1>4, LenProperties
<1> QED
  BY <1>4, <1>5 DEF Remove

\* new is the list with e pushed to the front.
IsPushed(S, new, list, e) ==
  /\ new \in Seq(S)
  /\ Len(new) = Len(list) + 1
  /\ \A j \in 1 .. Len(list) + 1 : new[j] = IF j = 1 THEN e ELSE list[j - 1]

\* list.PushFront puts its element before all the others.
LEMMA PushFrontLemma ==
  ASSUME NEW S, NEW list \in Seq(S), NEW e \in S
  PROVE  IsPushed(S, PushFront(list, e), list, e)
<1>1. Len(list) \in Nat /\ Len(list) + 1 \in Nat
  OBVIOUS
<1>2. \A j \in 1 .. Len(list) + 1 : (IF j = 1 THEN e ELSE list[j - 1]) \in S
  BY <1>1
<1>3. PushFront(list, e) \in [1 .. Len(list) + 1 -> S]
  BY <1>2 DEF PushFront
<1>4. PushFront(list, e) \in Seq(S)
  BY <1>1, <1>3, SeqDef
<1>5. Len(PushFront(list, e)) = Len(list) + 1
  BY <1>1, <1>3, <1>4, LenProperties
<1> QED
  BY <1>4, <1>5 DEF PushFront, IsPushed

\* new is the list with e at the front in the place of its element i.
IsMoved(S, new, list, i, e) ==
  /\ new \in Seq(S)
  /\ Len(new) = Len(list)
  /\ \A j \in 1 .. Len(list) :
       new[j] = IF j = 1 THEN e ELSE IF j <= i THEN list[j - 1] ELSE list[j]

\* list.MoveToFront keeps the length and the order of the others.
LEMMA MoveToFrontLemma ==
  ASSUME NEW S, NEW list \in Seq(S), NEW i \in 1 .. Len(list), NEW e \in S
  PROVE  IsMoved(S, MoveToFront(list, i, e), list, i, e)
<1> DEFINE rest == Remove(list, i)
           new == PushFront(rest, e)
<1>1. /\ rest \in Seq(S) /\ Len(rest) = Len(list) - 1
      /\ \A j \in 1 .. Len(list) - 1 :
           rest[j] = IF j < i THEN list[j] ELSE list[j + 1]
  BY RemoveLemma
<1>2. Len(list) \in Nat
  OBVIOUS
<1>3. MoveToFront(list, i, e) = new
  BY DEF MoveToFront
<1> HIDE DEF rest
<1>4. IsPushed(S, new, rest, e)
  BY <1>1, PushFrontLemma
<1> HIDE DEF new
<1>5. new \in Seq(S) /\ Len(new) = Len(list)
  BY <1>1, <1>2, <1>4 DEF IsPushed
<1>6. ASSUME NEW j \in 1 .. Len(list)
      PROVE  new[j] = IF j = 1 THEN e ELSE IF j <= i THEN list[j - 1] ELSE list[j]
  BY <1>1, <1>2, <1>4 DEF IsPushed
<1> QED
  BY <1>3, <1>5, <1>6 DEF IsMoved

-----------------------------------------------------------------------------
(* What the list operations keep of the index *)

\* The index leads to the element with that key.
LEMMA ElementOfLemma ==
  ASSUME NEW list \in Seq(Entries), NEW keys, Indexes(keys, list), NEW k \in keys
  PROVE  /\ ElementOf(list, k) \in 1 .. Len(list)
         /\ list[ElementOf(list, k)].key = k
         /\ list[ElementOf(list, k)] \in Entries
<1>1. \E i \in 1 .. Len(list) : list[i].key = k
  BY DEF Indexes
<1>2. /\ ElementOf(list, k) \in 1 .. Len(list)
      /\ list[ElementOf(list, k)].key = k
  BY <1>1 DEF ElementOf
<1> QED
  BY <1>2, ElementOfSeq

\* Every element of new is an element of old.
OnlyOld(new, old) ==
  \A i \in 1 .. Len(new) : \E j \in 1 .. Len(old) : new[i] = old[j]

\* Every element of new is e or an element of old.
OnlyOldOr(e, new, old) ==
  \A i \in 1 .. Len(new) : new[i] = e \/ \E j \in 1 .. Len(old) : new[i] = old[j]

\* Bringing the element at i to the front, with its key, keeps the index exact.
LEMMA MovedInIndex ==
  ASSUME NEW list \in Seq(Entries), NEW keys, Indexes(keys, list),
         NEW i \in 1 .. Len(list), NEW e \in Entries, e.key = list[i].key
  PROVE  /\ MoveToFront(list, i, e) \in Seq(Entries)
         /\ Len(MoveToFront(list, i, e)) = Len(list)
         /\ Indexes(keys, MoveToFront(list, i, e))
         /\ OnlyOldOr(e, MoveToFront(list, i, e), list)
<1> DEFINE new == MoveToFront(list, i, e)
           from(x) == IF x = 1 THEN i ELSE IF x <= i THEN x - 1 ELSE x
           to(x) == IF x < i THEN x + 1 ELSE IF x = i THEN 1 ELSE x
<1>1. /\ new \in Seq(Entries) /\ Len(new) = Len(list)
      /\ \A j \in 1 .. Len(list) : new[j] =
           IF j = 1 THEN e ELSE IF j <= i THEN list[j - 1] ELSE list[j]
  <2>1. IsMoved(Entries, new, list, i, e)
    BY MoveToFrontLemma
  <2> HIDE DEF new
  <2> QED
    BY <2>1 DEF IsMoved
<1>2. Len(list) \in Nat
  OBVIOUS
<1> HIDE DEF new
<1>3. \A j \in 1 .. Len(list) :
        /\ from(j) \in 1 .. Len(list) /\ new[j].key = list[from(j)].key
        /\ new[j] = e \/ new[j] = list[from(j)]
  BY <1>1, <1>2
<1>4. \A j \in 1 .. Len(list) :
        to(j) \in 1 .. Len(list) /\ new[to(j)].key = list[j].key
  BY <1>1, <1>2
<1>5. \A j, m \in 1 .. Len(list) : from(j) = from(m) => j = m
  BY <1>2
<1> HIDE DEF from, to
<1>6. Indexes(keys, new)
  <2>1. \A k \in keys : \E j \in 1 .. Len(new) : new[j].key = k
    <3> TAKE k \in keys
    <3>1. PICK j \in 1 .. Len(list) : list[j].key = k
      BY DEF Indexes
    <3> QED BY <1>1, <1>4, <3>1
  <2>2. \A j \in 1 .. Len(new) : new[j].key \in keys
    <3> TAKE j \in 1 .. Len(new)
    <3>1. from(j) \in 1 .. Len(list) /\ new[j].key = list[from(j)].key
      BY <1>1, <1>3
    <3> QED BY <3>1 DEF Indexes
  <2>3. \A j, m \in 1 .. Len(new) : new[j].key = new[m].key => j = m
    <3> TAKE j, m \in 1 .. Len(new)
    <3> HAVE new[j].key = new[m].key
    <3>1. /\ from(j) \in 1 .. Len(list) /\ new[j].key = list[from(j)].key
          /\ from(m) \in 1 .. Len(list) /\ new[m].key = list[from(m)].key
      BY <1>1, <1>3
    <3>2. from(j) = from(m)
      BY <3>1 DEF Indexes
    <3> QED BY <1>1, <1>5, <3>2
  <2> QED BY <2>1, <2>2, <2>3 DEF Indexes
<1>7. OnlyOldOr(e, new, list)
  BY <1>1, <1>3 DEF OnlyOldOr
<1> QED
  BY <1>1, <1>6, <1>7 DEF new

\* Taking an element and its key out keeps the index exact.
LEMMA RemovedFromIndex ==
  ASSUME NEW list \in Seq(Entries), NEW keys, Indexes(keys, list),
         NEW i \in 1 .. Len(list)
  PROVE  /\ Remove(list, i) \in Seq(Entries)
         /\ Len(Remove(list, i)) = Len(list) - 1
         /\ Indexes(keys \ {list[i].key}, Remove(list, i))
         /\ OnlyOld(Remove(list, i), list)
<1> DEFINE new == Remove(list, i)
           from(x) == IF x < i THEN x ELSE x + 1
           to(x) == IF x < i THEN x ELSE x - 1
<1>1. /\ new \in Seq(Entries) /\ Len(new) = Len(list) - 1
      /\ \A j \in 1 .. Len(list) - 1 :
           new[j] = IF j < i THEN list[j] ELSE list[j + 1]
  BY RemoveLemma
<1>2. Len(list) \in Nat
  OBVIOUS
<1> HIDE DEF new
<1>3. \A j \in 1 .. Len(new) :
        from(j) \in 1 .. Len(list) /\ from(j) # i /\ new[j] = list[from(j)]
  BY <1>1, <1>2
<1>4. \A j \in 1 .. Len(list) : j # i =>
        to(j) \in 1 .. Len(new) /\ new[to(j)] = list[j]
  BY <1>1, <1>2
<1>5. \A j, m \in 1 .. Len(new) : from(j) = from(m) => j = m
  BY <1>1, <1>2
<1> HIDE DEF from, to
<1>6. Indexes(keys \ {list[i].key}, new)
  <2>1. \A k \in keys \ {list[i].key} : \E j \in 1 .. Len(new) : new[j].key = k
    <3> TAKE k \in keys \ {list[i].key}
    <3>1. PICK j \in 1 .. Len(list) : list[j].key = k
      BY DEF Indexes
    <3> QED BY <1>4, <3>1
  <2>2. \A j \in 1 .. Len(new) : new[j].key \in keys \ {list[i].key}
    BY <1>3 DEF Indexes
  <2>3. \A j, m \in 1 .. Len(new) : new[j].key = new[m].key => j = m
    <3> TAKE j, m \in 1 .. Len(new)
    <3> HAVE new[j].key = new[m].key
    <3>1. from(j) = from(m)
      BY <1>3 DEF Indexes
    <3> QED BY <1>5, <3>1
  <2> QED BY <2>1, <2>2, <2>3 DEF Indexes
<1>7. OnlyOld(new, list)
  BY <1>3 DEF OnlyOld
<1> QED
  BY <1>1, <1>6, <1>7 DEF new

\* Pushing an element with a new key, and indexing it, keeps the index exact.
LEMMA PushedInIndex ==
  ASSUME NEW list \in Seq(Entries), NEW keys, Indexes(keys, list),
         NEW e \in Entries, e.key \notin keys
  PROVE  /\ PushFront(list, e) \in Seq(Entries)
         /\ Len(PushFront(list, e)) = Len(list) + 1
         /\ Indexes(keys \cup {e.key}, PushFront(list, e))
         /\ OnlyOldOr(e, PushFront(list, e), list)
<1> DEFINE new == PushFront(list, e)
<1>1. /\ new \in Seq(Entries) /\ Len(new) = Len(list) + 1
      /\ \A j \in 1 .. Len(list) + 1 : new[j] = IF j = 1 THEN e ELSE list[j - 1]
  <2>1. IsPushed(Entries, new, list, e)
    BY PushFrontLemma
  <2> HIDE DEF new
  <2> QED
    BY <2>1 DEF IsPushed
<1>2. Len(list) \in Nat
  OBVIOUS
<1> HIDE DEF new
<1>3. 1 \in 1 .. Len(new) /\ new[1] = e
  BY <1>1, <1>2
<1>4. \A j \in 1 .. Len(new) : j # 1 =>
        j - 1 \in 1 .. Len(list) /\ new[j] = list[j - 1]
  BY <1>1, <1>2
<1>5. \A j \in 1 .. Len(list) : j + 1 \in 1 .. Len(new) /\ new[j + 1] = list[j]
  BY <1>1, <1>2
<1>6. Indexes(keys \cup {e.key}, new)
  <2>1. \A k \in keys \cup {e.key} : \E j \in 1 .. Len(new) : new[j].key = k
    BY <1>3, <1>5 DEF Indexes
  <2>2. \A j \in 1 .. Len(new) : new[j].key \in keys \cup {e.key}
    BY <1>3, <1>4 DEF Indexes
  <2>3. ASSUME NEW j \in 1 .. Len(new), NEW m \in 1 .. Len(new),
               new[j].key = new[m].key
        PROVE  j = m
    <3>1. CASE j = 1 \/ m = 1
      BY <1>3, <1>4, <2>3, <3>1 DEF Indexes
    <3>2. CASE j # 1 /\ m # 1
      <4>1. j - 1 = m - 1
        BY <1>4, <2>3, <3>2 DEF Indexes
      <4> QED BY <4>1
    <3> QED BY <3>1, <3>2
  <2> QED BY <2>1, <2>2, <2>3 DEF Indexes
<1>7. OnlyOldOr(e, new, list)
  BY <1>3, <1>4 DEF OnlyOldOr
<1> QED
  BY <1>1, <1>6, <1>7 DEF new


-----------------------------------------------------------------------------
(* What the cache operations keep *)

CacheOK == cache \in Seq(Entries) /\ entries \in SUBSET Tokens /\ IndexMatchesList

\* A hit only reorders the list, and the entry it found has not aged out.
LEMMA CacheHitLemma ==
  ASSUME CacheOK, NEW k \in Tokens, CacheHit(k)
  PROVE  /\ CacheOK' /\ OnlyOld(cache', cache)
         /\ \E i \in 1 .. Len(cache) : cache[i].key = k /\ now < cache[i].expiresAt
<1> DEFINE i == ElementOf(cache, k)
<1>1. i \in 1 .. Len(cache) /\ cache[i].key = k /\ cache[i] \in Entries
  BY ElementOfLemma DEF CacheOK, CacheHit, IndexMatchesList
<1>2. cache' = MoveToFront(cache, i, cache[i]) /\ entries' = entries
      /\ now < cache[i].expiresAt
  BY DEF CacheHit
<1> HIDE DEF i
<1>3. cache \in Seq(Entries) /\ Indexes(entries, cache)
  BY DEF CacheOK, IndexMatchesList
<1>4. /\ MoveToFront(cache, i, cache[i]) \in Seq(Entries)
      /\ Len(MoveToFront(cache, i, cache[i])) = Len(cache)
      /\ Indexes(entries, MoveToFront(cache, i, cache[i]))
      /\ OnlyOldOr(cache[i], MoveToFront(cache, i, cache[i]), cache)
  BY <1>1, <1>3, MovedInIndex
<1>5. CacheOK'
  BY <1>2, <1>4 DEF CacheOK, IndexMatchesList, Indexes
<1>6. OnlyOld(cache', cache)
  BY <1>1, <1>2, <1>4 DEF OnlyOld, OnlyOldOr
<1> QED
  BY <1>1, <1>2, <1>5, <1>6

\* An eviction or a miss leaves the other entries as they were.
LEMMA CacheAbsentLemma ==
  ASSUME CacheOK, NEW k \in Tokens, CacheAgedOut(k) \/ CacheMiss(k)
  PROVE  CacheOK' /\ OnlyOld(cache', cache)
<1>1. CASE CacheMiss(k)
  BY <1>1 DEF CacheMiss, CacheUnchanged, CacheOK, IndexMatchesList, Indexes, OnlyOld
<1>2. CASE CacheAgedOut(k)
  <2> DEFINE i == ElementOf(cache, k)
  <2>1. i \in 1 .. Len(cache) /\ cache[i].key = k
    BY <1>2, ElementOfLemma DEF CacheOK, CacheAgedOut, IndexMatchesList
  <2>2. cache' = Remove(cache, i) /\ entries' = entries \ {cache[i].key}
    BY <1>2, <2>1 DEF CacheAgedOut
  <2> HIDE DEF i
  <2>3. cache \in Seq(Entries) /\ Indexes(entries, cache)
    BY DEF CacheOK, IndexMatchesList
  <2>4. /\ Remove(cache, i) \in Seq(Entries)
        /\ Len(Remove(cache, i)) = Len(cache) - 1
        /\ Indexes(entries \ {cache[i].key}, Remove(cache, i))
        /\ OnlyOld(Remove(cache, i), cache)
    BY <2>1, <2>3, RemovedFromIndex
  <2>5. Len(cache') <= cacheCapacity
    BY <2>2, <2>3, <2>4, BoundsAssumption DEF CacheOK, IndexMatchesList
  <2>6. Indexes(entries', cache')
    BY <2>2, <2>4
  <2>7. Indexes(entries, cache)'
    BY <2>6 DEF Indexes
  <2> QED
    BY <2>2, <2>4, <2>5, <2>7 DEF CacheOK, IndexMatchesList, OnlyOld
<1> QED
  BY <1>1, <1>2

\* A store keeps the index exact and the cache within its capacity, and adds at
\* most the entry it was asked to remember.
LEMMA CacheStoreLemma ==
  ASSUME CacheOK, NEW k \in Tokens, NEW u \in Nat, CacheStore(k, u)
  PROVE  CacheOK' /\ OnlyOldOr([key |-> k, expiresAt |-> u], cache', cache)
<1> DEFINE e == [key |-> k, expiresAt |-> u]
           pushed == PushFront(cache, e)
<1>1. e \in Entries
  BY DEF Entries
<1>2. cache \in Seq(Entries) /\ Indexes(entries, cache) /\ Len(cache) \in Nat
      /\ Len(cache) <= cacheCapacity /\ entries \in SUBSET Tokens
  BY DEF CacheOK, IndexMatchesList
<1>3. SUFFICES /\ cache' \in Seq(Entries) /\ entries' \in SUBSET Tokens
               /\ Indexes(entries', cache') /\ Len(cache') <= cacheCapacity
               /\ OnlyOldOr(e, cache', cache)
  BY DEF CacheOK, IndexMatchesList, Indexes
<1>4. CASE k \in entries
  <2> DEFINE i == ElementOf(cache, k)
  <2>1. i \in 1 .. Len(cache) /\ e.key = cache[i].key
    BY <1>2, <1>4, ElementOfLemma
  <2>2. cache' = MoveToFront(cache, i, e) /\ entries' = entries
    BY <1>4 DEF CacheStore
  <2> HIDE DEF i, e
  <2>3. /\ MoveToFront(cache, i, e) \in Seq(Entries)
        /\ Len(MoveToFront(cache, i, e)) = Len(cache)
        /\ Indexes(entries, MoveToFront(cache, i, e))
        /\ OnlyOldOr(e, MoveToFront(cache, i, e), cache)
    BY <1>1, <1>2, <2>1, MovedInIndex
  <2> QED
    BY <1>2, <2>2, <2>3
<1>5. CASE k \notin entries
  <2>1. /\ pushed \in Seq(Entries) /\ Len(pushed) = Len(cache) + 1
        /\ Indexes(entries \cup {k}, pushed)
        /\ OnlyOldOr(e, pushed, cache)
    <3>1. e.key = k
      OBVIOUS
    <3> HIDE DEF e
    <3> QED BY <1>1, <1>2, <1>5, <3>1, PushedInIndex
  <2>2. CASE Len(pushed) > cacheCapacity
    <3> DEFINE last == Len(pushed)
    <3>1. /\ entries' = (entries \cup {k}) \ {pushed[last].key}
          /\ cache' = Remove(pushed, last)
      BY <1>5, <2>2 DEF CacheStore
    <3> HIDE DEF pushed
    <3>2. last \in 1 .. Len(pushed)
      BY <1>2, <2>1
    <3>3. /\ Remove(pushed, last) \in Seq(Entries)
          /\ Len(Remove(pushed, last)) = Len(pushed) - 1
          /\ Indexes((entries \cup {k}) \ {pushed[last].key}, Remove(pushed, last))
          /\ OnlyOld(Remove(pushed, last), pushed)
      BY <2>1, <3>2, RemovedFromIndex
    <3>4. OnlyOldOr(e, cache', cache)
      BY <2>1, <3>1, <3>3 DEF OnlyOldOr, OnlyOld
    <3> QED
      BY <1>2, <2>1, <3>1, <3>3, <3>4
  <2>3. CASE ~(Len(pushed) > cacheCapacity)
    <3>1. entries' = entries \cup {k} /\ cache' = pushed
      BY <1>5, <2>3 DEF CacheStore
    <3> HIDE DEF pushed
    <3> QED
      BY <1>2, <2>1, <2>3, <3>1, BoundsAssumption
  <2> QED
    BY <2>2, <2>3
<1> QED
  BY <1>4, <1>5


-----------------------------------------------------------------------------
(* The slots *)

HoldingPCs == {"recheck", "asked", "answered", "storing"}

LEMMA NoCallType == NoCall \in CallStates /\ NoCall.pc = "idle"
<1>1. (CHOOSE t \in Tokens : TRUE) \in Tokens
  BY CallsAssumption
<1> QED
  BY <1>1 DEF NoCall, CallStates, NoAnswer, Answers, Statuses, PCs, Results

LEMMA DecidedType ==
  ASSUME NEW t \in Tokens, NEW result \in Results
  PROVE  /\ Decided(t, result) \in CallStates
         /\ Decided(t, result).pc = "idle"
         /\ Decided(t, result).token = t
         /\ Decided(t, result).result = result
BY NoCallType DEF Decided, CallStates

\* A step of one call changes the number of slot holders by that call alone.
LEMMA HoldersLemma ==
  ASSUME call \in [Calls -> CallStates], NEW c \in Calls, NEW r \in CallStates,
         call' = [call EXCEPT ![c] = r]
  PROVE  /\ Cardinality(Holders) \in Nat
         /\ call[c].pc \in HoldingPCs => Cardinality(Holders) > 0
         /\ Cardinality(Holders') =
              Cardinality(Holders)
                + (IF r.pc \in HoldingPCs THEN 1 ELSE 0)
                - (IF call[c].pc \in HoldingPCs THEN 1 ELSE 0)
<1>1. IsFiniteSet(Holders)
  BY CallsAssumption, FS_Subset DEF Holders
<1>2. Cardinality(Holders) \in Nat
  BY <1>1, FS_CardinalityType
<1>3. c \in Holders <=> call[c].pc \in HoldingPCs
  BY DEF Holders, HoldingPCs
<1>4. c \in Holders => Cardinality(Holders) > 0
  BY <1>1, <1>2, FS_EmptySet
<1>5. Holders' = IF r.pc \in HoldingPCs THEN Holders \cup {c} ELSE Holders \ {c}
  BY DEF Holders, HoldingPCs
<1>6. /\ Cardinality(Holders \cup {c}) =
           IF c \in Holders THEN Cardinality(Holders) ELSE Cardinality(Holders) + 1
      /\ Cardinality(Holders \ {c}) =
           IF c \in Holders THEN Cardinality(Holders) - 1 ELSE Cardinality(Holders)
  BY <1>1, FS_AddElement, FS_RemoveElement
<1> QED
  BY <1>2, <1>3, <1>4, <1>5, <1>6

\* What a step of call c does to the slots and to the other calls.
CallStep(c, r) ==
  /\ r \in CallStates
  /\ call' = [call EXCEPT ![c] = r]
  /\ slots' = slots + (IF r.pc \in HoldingPCs THEN 1 ELSE 0)
                    - (IF call[c].pc \in HoldingPCs THEN 1 ELSE 0)
  /\ slots' <= slots \/ slots' <= maxConcurrentValidations

\* Such a step keeps the books of the slots.
LEMMA SlotsLemma ==
  ASSUME TypeOK, SlotsAccounted, NEW c \in Calls, NEW r, CallStep(c, r)
  PROVE  /\ slots' \in Nat
         /\ call' \in [Calls -> CallStates]
         /\ SlotsAccounted'
<1>1. r \in CallStates /\ call' = [call EXCEPT ![c] = r]
      /\ call \in [Calls -> CallStates]
  BY DEF CallStep, TypeOK
<1>2. /\ Cardinality(Holders) \in Nat
      /\ call[c].pc \in HoldingPCs => Cardinality(Holders) > 0
      /\ Cardinality(Holders') =
           Cardinality(Holders)
             + (IF r.pc \in HoldingPCs THEN 1 ELSE 0)
             - (IF call[c].pc \in HoldingPCs THEN 1 ELSE 0)
  BY <1>1, HoldersLemma
<1>3. slots' = Cardinality(Holders')
  BY <1>2 DEF CallStep, SlotsAccounted
<1>4. slots' \in Nat
  BY <1>2, <1>3
<1>5. slots' <= maxConcurrentValidations
  BY <1>2, <1>4, BoundsAssumption DEF CallStep, SlotsAccounted
<1> QED
  BY <1>1, <1>3, <1>4, <1>5 DEF SlotsAccounted

\* Every action of a call and every answer of Google is such a step.
LEMMA ActionsAreCallSteps ==
  ASSUME TypeOK, NEW c \in Calls
  PROVE  /\ \A t \in Tokens : Present(c, t) => \E r : CallStep(c, r)
         /\ Validate(c) => \E r : CallStep(c, r)
         /\ GoogleAnswers(c) => \E r : CallStep(c, r)
<1> USE NoCallType, BoundsAssumption, ClockAssumption, ExpReadingsDisjoint
<1>1. /\ call[c] \in CallStates /\ slots \in Nat /\ now \in Nat
      /\ call \in [Calls -> CallStates] /\ validUntil \in [Tokens -> Nat]
  <2>1. Expiries \subseteq Nat /\ Start .. MaxTime \subseteq Nat
    BY ClockAssumption
  <2> QED BY <2>1 DEF TypeOK
<1>2. ASSUME NEW t \in Tokens, Present(c, t)
      PROVE  \E r : CallStep(c, r)
  <2> DEFINE r == [NoCall EXCEPT !.pc = "lookup", !.token = t]
  <2>1. r \in CallStates /\ r.pc = "lookup"
    BY DEF CallStates, PCs
  <2>2. call' = [call EXCEPT ![c] = r] /\ slots' = slots /\ call[c].pc = "idle"
    BY <1>2 DEF Present
  <2> HIDE DEF r
  <2>3. CallStep(c, r)
    BY <1>1, <2>1, <2>2 DEF CallStep, HoldingPCs
  <2> QED BY <2>3
<1>3. ASSUME NEW result \in Results, NEW holdsSlot \in BOOLEAN,
             Return(c, result, holdsSlot),
             holdsSlot <=> call[c].pc \in HoldingPCs
      PROVE  \E r : CallStep(c, r)
  <2>1. call[c].token \in Tokens
    BY <1>1 DEF CallStates
  <2>2. /\ Decided(call[c].token, result) \in CallStates
        /\ Decided(call[c].token, result).pc = "idle"
    BY <2>1, DecidedType
  <2>3. CallStep(c, Decided(call[c].token, result))
    BY <1>1, <1>3, <2>2 DEF Return, CallStep, HoldingPCs
  <2> QED BY <2>3
<1>4. ASSUME FirstLookup(c)
      PROVE  \E r : CallStep(c, r)
  <2>1. CASE Return(c, "claims", FALSE)
    BY <1>3, <1>4, <2>1 DEF FirstLookup, HoldingPCs, Results
  <2>2. CASE Goto(c, "admission") /\ UNCHANGED slots
    <3>1. CallStep(c, [call[c] EXCEPT !.pc = "admission"])
      BY <1>1, <1>4, <2>2 DEF FirstLookup, Goto, CallStep, CallStates, PCs, HoldingPCs
    <3> QED BY <3>1
  <2> QED BY <1>4, <2>1, <2>2 DEF FirstLookup
<1>5. ASSUME TakeSlot(c)
      PROVE  \E r : CallStep(c, r)
  <2>1. CASE slots < maxConcurrentValidations
    <3>1. CallStep(c, [call[c] EXCEPT !.pc = "recheck"])
      BY <1>1, <1>5, <2>1 DEF TakeSlot, Goto, CallStep, CallStates, PCs, HoldingPCs
    <3> QED BY <3>1
  <2>2. CASE ~(slots < maxConcurrentValidations)
    BY <1>3, <1>5, <2>2 DEF TakeSlot, HoldingPCs, Results
  <2> QED BY <2>1, <2>2
<1>6. ASSUME SecondLookup(c)
      PROVE  \E r : CallStep(c, r)
  <2>1. CASE Return(c, "claims", TRUE)
    BY <1>3, <1>6, <2>1 DEF SecondLookup, HoldingPCs, Results
  <2>2. CASE /\ call' = [call EXCEPT ![c] =
                 [@ EXCEPT !.pc = "asked", !.by = now + validationTimeout]]
             /\ UNCHANGED slots
    <3> DEFINE r == [call[c] EXCEPT !.pc = "asked", !.by = now + validationTimeout]
    <3>1. r \in CallStates /\ r.pc = "asked"
      <4>1. now + validationTimeout \in Nat
        BY <1>1
      <4> QED BY <1>1, <4>1, Zenon DEF CallStates, PCs
    <3>2. /\ call' = [call EXCEPT ![c] = r] /\ slots' = slots
          /\ call[c].pc \in HoldingPCs
      <4>1. call' = [call EXCEPT ![c] = r] /\ slots' = slots
        BY <2>2
      <4>2. call[c].pc \in HoldingPCs
        BY <1>6 DEF SecondLookup, HoldingPCs
      <4> QED BY <4>1, <4>2
    <3> HIDE DEF r
    <3>3. CallStep(c, r)
      BY <1>1, <3>1, <3>2 DEF CallStep, HoldingPCs
    <3> QED BY <3>3
  <2> QED BY <1>6, <2>1, <2>2 DEF SecondLookup
<1>7. ASSUME RequestFails(c)
      PROVE  \E r : CallStep(c, r)
  BY <1>3, <1>7 DEF RequestFails, HoldingPCs, Results
<1>8. ASSUME Receive(c)
      PROVE  \E r : CallStep(c, r)
  <2> DEFINE left == remainingLifetime(call[c].answer.exp, now)
  <2>1. CASE Return(c, "errValidationUnavailable", TRUE)
    BY <1>3, <1>8, <2>1 DEF Receive, HoldingPCs, Results
  <2>2. CASE Return(c, "errTokenRejected", TRUE)
    BY <1>3, <1>8, <2>2 DEF Receive, HoldingPCs, Results
  <2>3. CASE /\ call' = [call EXCEPT ![c] =
                 [@ EXCEPT !.pc = "storing", !.left = left, !.by = now + Pause]]
             /\ UNCHANGED slots
    <3>1. left \in Nat
      BY <1>1 DEF remainingLifetime, CallStates, Answers
    <3> HIDE DEF left
    <3> DEFINE r == [call[c] EXCEPT !.pc = "storing", !.left = left, !.by = now + Pause]
    <3>2. r \in CallStates /\ r.pc = "storing"
      <4>1. now + Pause \in Nat
        BY <1>1
      <4> QED BY <1>1, <3>1, <4>1, Zenon DEF CallStates, PCs
    <3>3. /\ call' = [call EXCEPT ![c] = r] /\ slots' = slots
          /\ call[c].pc \in HoldingPCs
      <4>1. call' = [call EXCEPT ![c] = r] /\ slots' = slots
        BY <2>3
      <4>2. call[c].pc \in HoldingPCs
        BY <1>8 DEF Receive, HoldingPCs
      <4> QED BY <4>1, <4>2
    <3> HIDE DEF r
    <3>4. CallStep(c, r)
      BY <1>1, <3>2, <3>3 DEF CallStep, HoldingPCs
    <3> QED BY <3>4
  <2> QED BY <1>8, <2>1, <2>2, <2>3 DEF Receive
<1>9. ASSUME Store(c)
      PROVE  \E r : CallStep(c, r)
  BY <1>3, <1>9 DEF Store, HoldingPCs, Results
<1>10. ASSUME GoogleAnswers(c)
       PROVE  \E r : CallStep(c, r)
  <2>1. PICK s \in Statuses, exp \in ExpForms(call[c].token) :
          call' = [call EXCEPT ![c] =
                    [@ EXCEPT !.pc = "answered",
                              !.answer = [status |-> s, exp |-> exp]]]
    BY <1>10 DEF GoogleAnswers
  <2>2. exp \in Nat
    BY <1>1 DEF ExpForms, CallStates
  <2> DEFINE r == [call[c] EXCEPT !.pc = "answered",
                                 !.answer = [status |-> s, exp |-> exp]]
  <2>3. r \in CallStates /\ r.pc = "answered"
    BY <1>1, <2>2 DEF CallStates, PCs, Answers
  <2>4. /\ call' = [call EXCEPT ![c] = r] /\ slots' = slots
        /\ call[c].pc \in HoldingPCs
    BY <1>10, <2>1 DEF GoogleAnswers, HoldingPCs
  <2> HIDE DEF r
  <2>5. CallStep(c, r)
    BY <1>1, <2>3, <2>4 DEF CallStep, HoldingPCs
  <2> QED BY <2>5
<1> QED
  BY <1>2, <1>4, <1>5, <1>6, <1>7, <1>8, <1>9, <1>10 DEF Validate


-----------------------------------------------------------------------------
(* Types, slots and the cache's index *)

Bookkeeping == TypeOK /\ SlotsAccounted /\ IndexMatchesList

LEMMA InitBookkeeping == Init => Bookkeeping
<1> SUFFICES ASSUME Init PROVE Bookkeeping
  OBVIOUS
<1> USE DEF Init
<1>1. TypeOK
  <2>1. now \in Start .. MaxTime /\ Never \in Start .. Never
    BY ClockAssumption DEF Never
  <2>2. call \in [Calls -> CallStates]
    BY NoCallType
  <2> QED BY <2>1, <2>2 DEF TypeOK
<1>2. SlotsAccounted
  <2>1. Holders = {}
    BY NoCallType DEF Holders
  <2> QED BY <2>1, FS_EmptySet, BoundsAssumption DEF SlotsAccounted
<1>3. IndexMatchesList
  BY BoundsAssumption DEF IndexMatchesList, Indexes
<1> QED
  BY <1>1, <1>2, <1>3 DEF Bookkeeping

\* No action of a call or of Google's answers touches the world outside.
LEMMA CallsLeaveTheWorld ==
  ASSUME NEW c \in Calls,
         Validate(c) \/ GoogleAnswers(c) \/ \E t \in Tokens : Present(c, t)
  PROVE  now' = now /\ validUntil' = validUntil /\ revokedAt' = revokedAt
BY DEF Validate, FirstLookup, TakeSlot, SecondLookup, RequestFails, Receive, Store,
       GoogleAnswers, Present, WorldUnchanged

\* The clock never passes the end of time, so it can be compared with Never.
LEMMA ClockLemma ==
  ASSUME TypeOK
  PROVE  now \in Nat /\ now < Never /\ Never \in Nat
BY ClockAssumption DEF TypeOK, Never

\* What the cache looks like after a lookup or a store of a call.
LEMMA CallsKeepTheCache ==
  ASSUME Bookkeeping, NEW c \in Calls,
         Validate(c) \/ GoogleAnswers(c) \/ \E t \in Tokens : Present(c, t)
  PROVE  CacheOK'
<1>1. CacheOK /\ call[c].token \in Tokens /\ call[c].left \in Nat
  BY DEF Bookkeeping, TypeOK, CacheOK, CallStates
<1>2. CASE UNCHANGED <<cache, entries>>
  BY <1>1, <1>2 DEF CacheOK, IndexMatchesList, Indexes
<1>3. CASE FirstLookup(c) \/ SecondLookup(c)
  BY <1>1, <1>3, CacheHitLemma, CacheAbsentLemma DEF FirstLookup, SecondLookup
<1>4. CASE Store(c)
  <2>1. ExpiresAt(call[c].left) \in Nat
    BY <1>1, ClockLemma, BoundsAssumption DEF ExpiresAt, Min2, Bookkeeping
  <2> QED
    BY <1>1, <1>4, <2>1, CacheStoreLemma DEF Store
<1> QED
  BY <1>2, <1>3, <1>4 DEF Validate, TakeSlot, RequestFails, Receive, GoogleAnswers,
       Present, CacheUnchanged

LEMMA NextBookkeeping == Bookkeeping /\ [Next]_vars => Bookkeeping'
<1> SUFFICES ASSUME Bookkeeping, [Next]_vars PROVE Bookkeeping'
  OBVIOUS
<1>1. ASSUME NEW c \in Calls,
             Validate(c) \/ GoogleAnswers(c) \/ \E t \in Tokens : Present(c, t)
      PROVE  Bookkeeping'
  <2>1. PICK r : CallStep(c, r)
    BY <1>1, ActionsAreCallSteps DEF Bookkeeping
  <2>2. slots' \in Nat /\ call' \in [Calls -> CallStates] /\ SlotsAccounted'
    BY <2>1, SlotsLemma DEF Bookkeeping
  <2>3. CacheOK'
    BY <1>1, CallsKeepTheCache
  <2>4. now' = now /\ validUntil' = validUntil /\ revokedAt' = revokedAt
    BY <1>1, CallsLeaveTheWorld
  <2> QED
    BY <2>2, <2>3, <2>4 DEF Bookkeeping, TypeOK, CacheOK
<1>2. ASSUME NEW t \in Tokens, Revoke(t)
      PROVE  Bookkeeping'
  <2>1. revokedAt' \in [Tokens -> Start .. Never]
    BY <1>2, ClockAssumption DEF Revoke, Bookkeeping, TypeOK, Never
  <2> QED
    BY <1>2, <2>1 DEF Revoke, Bookkeeping, TypeOK, SlotsAccounted, Holders,
         IndexMatchesList, Indexes
<1>3. ASSUME Tick
      PROVE  Bookkeeping'
  <2>1. now' \in Start .. MaxTime
    BY <1>3, ClockAssumption DEF Tick, Bookkeeping, TypeOK
  <2> QED
    BY <1>3, <2>1 DEF Tick, Bookkeeping, TypeOK, SlotsAccounted, Holders,
         IndexMatchesList, Indexes
<1>4. CASE UNCHANGED vars
  BY <1>4 DEF vars, Bookkeeping, TypeOK, SlotsAccounted, Holders,
       IndexMatchesList, Indexes
<1> QED
  BY <1>1, <1>2, <1>3, <1>4 DEF Next

\* Every slot taken is the slot of one call waiting on Google, at most
\* maxConcurrentValidations of them, on every return path of validate.
THEOREM SlotsTheorem == Spec => []SlotsAccounted
<1>1. Bookkeeping => SlotsAccounted
  BY DEF Bookkeeping
<1> QED
  BY <1>1, InitBookkeeping, NextBookkeeping, PTL DEF Spec

\* Every variable of the validator keeps its type.
THEOREM TypeTheorem == Spec => []TypeOK
<1>1. Bookkeeping => TypeOK
  BY DEF Bookkeeping
<1> QED
  BY <1>1, InitBookkeeping, NextBookkeeping, PTL DEF Spec

\* The cache's list and its index agree and stay within the capacity.
THEOREM CacheTheorem == Spec => []IndexMatchesList
<1>1. Bookkeeping => IndexMatchesList
  BY DEF Bookkeeping
<1> QED
  BY <1>1, InitBookkeeping, NextBookkeeping, PTL DEF Spec


-----------------------------------------------------------------------------
(* Freshness *)

\* The facts about the types that the arithmetic below needs.
LEMMA FreshTypes ==
  ASSUME Bookkeeping
  PROVE  /\ now \in Nat /\ now < Never /\ Never \in Nat
         /\ \A t \in Tokens : validUntil[t] \in Nat /\ revokedAt[t] \in Nat
         /\ \A t \in Tokens : absoluteEpochFloor <= validUntil[t]
         /\ cache \in Seq(Entries)
         /\ call \in [Calls -> CallStates]
         /\ \A c \in Calls : /\ call[c].token \in Tokens /\ call[c].by \in Nat
                             /\ call[c].left \in Nat /\ call[c].answer.exp \in Nat
         /\ \A i \in 1 .. Len(cache) :
              cache[i].key \in Tokens /\ cache[i].expiresAt \in Nat
         /\ validationTimeout \in Nat /\ Pause \in Nat /\ cacheMaxTTL \in Nat
         /\ cacheMaxTTL > 0
<1>1. TypeOK
  BY DEF Bookkeeping
<1>2. \A t \in Tokens : /\ validUntil[t] \in Nat /\ revokedAt[t] \in Nat
                        /\ absoluteEpochFloor <= validUntil[t]
  <2>1. \A t \in Tokens : validUntil[t] \in Expiries /\ revokedAt[t] \in Start .. Never
    BY <1>1 DEF TypeOK
  <2>2. Start .. Never \subseteq Nat
    BY ClockAssumption DEF Never
  <2> QED BY <2>1, <2>2, ClockAssumption
<1>3. \A i \in 1 .. Len(cache) : cache[i].key \in Tokens /\ cache[i].expiresAt \in Nat
  <2>1. \A i \in 1 .. Len(cache) : cache[i] \in Entries
    BY <1>1, ElementOfSeq DEF TypeOK
  <2> QED BY <2>1 DEF Entries
<1>4. \A c \in Calls : /\ call[c].token \in Tokens /\ call[c].by \in Nat
                       /\ call[c].left \in Nat /\ call[c].answer.exp \in Nat
  BY <1>1 DEF TypeOK, CallStates, Answers
<1>5. validationTimeout \in Nat /\ Pause \in Nat /\ cacheMaxTTL \in Nat /\ cacheMaxTTL > 0
  BY BoundsAssumption
<1> QED
  BY <1>1, <1>2, <1>3, <1>4, <1>5, ClockLemma DEF TypeOK

\* In a step of call c the other calls stay as fresh as they were.
LEMMA OthersFresh ==
  ASSUME Bookkeeping, Freshness, NEW c \in Calls, NEW r,
         call' = [call EXCEPT ![c] = r],
         now' = now, validUntil' = validUntil, revokedAt' = revokedAt,
         CallFresh(c)',
         \A i \in 1 .. Len(cache') : EntryFresh(cache'[i])
  PROVE  Freshness'
<1>1. ASSUME NEW d \in Calls, d # c
      PROVE  CallFresh(d)'
  <2>1. CallFresh(d) /\ call'[d] = call[d]
    BY <1>1, FreshTypes DEF Freshness
  <2> QED BY <2>1 DEF CallFresh
<1>2. \A i \in 1 .. Len(cache') : EntryFresh(cache[i])'
  BY DEF EntryFresh
<1> QED
  BY <1>1, <1>2 DEF Freshness

\* A call at none of the timed places has nothing to be fresh about.
LEMMA QuietCallFresh ==
  ASSUME NEW c \in Calls, call'[c].pc \notin {"asked", "answered", "storing"}
  PROVE  CallFresh(c)'
BY DEF CallFresh

\* Entries that were in the cache before are as fresh as they were.
LEMMA OldEntriesFresh ==
  ASSUME Freshness, OnlyOld(cache', cache)
  PROVE  \A i \in 1 .. Len(cache') : EntryFresh(cache'[i])
BY DEF Freshness, OnlyOld

\* The two lookups.
LEMMA LookupFresh ==
  ASSUME Bookkeeping, Freshness, NEW c \in Calls, FirstLookup(c) \/ SecondLookup(c)
  PROVE  Freshness'
<1>1. /\ now \in Nat /\ validationTimeout \in Nat
      /\ call \in [Calls -> CallStates] /\ call[c].token \in Tokens
  BY FreshTypes
<1>2. CacheOK
  BY DEF Bookkeeping, TypeOK, CacheOK
<1>3. now' = now /\ validUntil' = validUntil /\ revokedAt' = revokedAt
  BY CallsLeaveTheWorld DEF Validate
<1>4. \A i \in 1 .. Len(cache') : EntryFresh(cache'[i])
  BY <1>1, <1>2, CacheHitLemma, CacheAbsentLemma, OldEntriesFresh
     DEF FirstLookup, SecondLookup
<1>5. ASSUME NEW r \in CallStates, call' = [call EXCEPT ![c] = r],
             r.pc \notin {"asked", "answered", "storing"}
      PROVE  Freshness'
  BY <1>1, <1>3, <1>4, <1>5, QuietCallFresh, OthersFresh
<1>6. CASE \E b \in BOOLEAN : Return(c, "claims", b)
  <2>1. /\ Decided(call[c].token, "claims") \in CallStates
        /\ Decided(call[c].token, "claims").pc = "idle"
    BY <1>1, DecidedType DEF Results
  <2> QED
    BY <1>5, <1>6, <2>1 DEF Return
<1>7. CASE Goto(c, "admission")
  <2> DEFINE r == [call[c] EXCEPT !.pc = "admission"]
  <2>1. r \in CallStates /\ r.pc = "admission"
    BY <1>1 DEF CallStates, PCs
  <2>2. call' = [call EXCEPT ![c] = r]
    BY <1>7 DEF Goto
  <2> HIDE DEF r
  <2> QED
    BY <1>5, <2>1, <2>2
<1>8. CASE call' = [call EXCEPT ![c] =
                [@ EXCEPT !.pc = "asked", !.by = now + validationTimeout]]
  <2> DEFINE r == [call[c] EXCEPT !.pc = "asked", !.by = now + validationTimeout]
  <2>1. call' = [call EXCEPT ![c] = r]
    BY <1>8
  <2>2. call'[c].pc = "asked" /\ call'[c].by = now + validationTimeout
    BY <1>1, <2>1 DEF CallStates
  <2>3. CallFresh(c)'
    BY <1>1, <1>3, <2>2 DEF CallFresh
  <2> QED
    BY <1>3, <1>4, <2>1, <2>3, OthersFresh
<1> QED
  BY <1>6, <1>7, <1>8 DEF FirstLookup, SecondLookup


\* The store: what is remembered ends where the call's bounds say.
LEMMA StoreFresh ==
  ASSUME Bookkeeping, Freshness, NEW c \in Calls, Store(c)
  PROVE  Freshness'
<1> DEFINE t == call[c].token
           u == ExpiresAt(call[c].left)
           e == [key |-> t, expiresAt |-> u]
<1>1. /\ now \in Nat /\ t \in Tokens /\ call[c].left \in Nat /\ call[c].by \in Nat
      /\ validUntil[t] \in Nat /\ revokedAt[t] \in Nat
      /\ validationTimeout \in Nat /\ Pause \in Nat /\ cacheMaxTTL \in Nat
      /\ call \in [Calls -> CallStates]
  BY FreshTypes
<1>2. u \in Nat /\ u <= now + cacheMaxTTL /\ u <= now + call[c].left
  BY <1>1 DEF ExpiresAt, Min2
<1>3. CacheOK
  BY DEF Bookkeeping, TypeOK, CacheOK
<1>4. CacheStore(t, u) /\ Return(c, "claims", TRUE) /\ call[c].pc = "storing"
  BY DEF Store
<1>5. now' = now /\ validUntil' = validUntil /\ revokedAt' = revokedAt
  BY DEF Store, WorldUnchanged
<1>6. EntryFresh(e)
  <2>1. /\ now <= call[c].by /\ t \notin Foreign
        /\ call[c].by <= revokedAt[t] + validationTimeout + Pause
        /\ call[c].by + call[c].left <= validUntil[t] + validationTimeout + Pause
    BY <1>4 DEF Freshness, CallFresh
  <2>2. /\ u <= revokedAt[t] + validationTimeout + Pause + cacheMaxTTL
        /\ u <= validUntil[t] + validationTimeout + Pause
    BY <1>1, <1>2, <2>1
  <2> HIDE DEF t, u
  <2> QED
    BY <1>2, <2>1, <2>2 DEF EntryFresh
<1>7. OnlyOldOr(e, cache', cache)
  BY <1>1, <1>2, <1>3, <1>4, CacheStoreLemma
<1>8. \A i \in 1 .. Len(cache') : EntryFresh(cache'[i])
  <2> HIDE DEF e
  <2> QED BY <1>6, <1>7 DEF OnlyOldOr, Freshness
<1>9. /\ Decided(t, "claims") \in CallStates /\ Decided(t, "claims").pc = "idle"
  BY <1>1, DecidedType DEF Results
<1>10. call' = [call EXCEPT ![c] = Decided(t, "claims")]
  BY <1>4 DEF Return
<1>11. CallFresh(c)'
  BY <1>1, <1>9, <1>10, QuietCallFresh
<1> QED
  BY <1>5, <1>8, <1>10, <1>11, OthersFresh

\* Google's answer: a 200 is given only while the token lives.
LEMMA AnswerFresh ==
  ASSUME Bookkeeping, Freshness, NEW c \in Calls, GoogleAnswers(c)
  PROVE  Freshness'
<1> DEFINE t == call[c].token
<1>1. /\ now \in Nat /\ t \in Tokens /\ call[c].by \in Nat
      /\ validUntil[t] \in Nat /\ revokedAt[t] \in Nat
      /\ validationTimeout \in Nat
      /\ call \in [Calls -> CallStates]
  BY FreshTypes
<1>2. PICK s \in Statuses, exp \in ExpForms(t) :
        /\ s = "ok" => Live(t)
        /\ call' = [call EXCEPT ![c] =
             [@ EXCEPT !.pc = "answered", !.answer = [status |-> s, exp |-> exp]]]
  BY DEF GoogleAnswers
<1>3. call[c].pc = "asked" /\ cache' = cache
      /\ now' = now /\ validUntil' = validUntil /\ revokedAt' = revokedAt
  BY DEF GoogleAnswers, CacheUnchanged, WorldUnchanged
<1> DEFINE r == [call[c] EXCEPT !.pc = "answered",
                                !.answer = [status |-> s, exp |-> exp]]
<1>4. call' = [call EXCEPT ![c] = r]
  BY <1>2
<1>5. /\ call'[c].pc = "answered" /\ call'[c].by = call[c].by /\ call'[c].token = t
      /\ call'[c].answer.status = s /\ call'[c].answer.exp = exp
  BY <1>1, <1>4 DEF CallStates
<1>6. now <= call[c].by /\ call[c].by <= now + validationTimeout
  BY <1>3 DEF Freshness, CallFresh
<1>7. ASSUME s = "ok"
      PROVE  /\ call[c].by <= revokedAt[t] + validationTimeout
             /\ \/ exp \in {0, remainingSecondsCeiling + 1, validUntil[t]}
                \/ call[c].by + exp <= validUntil[t] + validationTimeout
  <2>1. now < validUntil[t] /\ now < revokedAt[t]
    BY <1>2, <1>7 DEF Live
  <2>2. exp \in {0, remainingSecondsCeiling + 1, validUntil[t]} \/ exp = validUntil[t] - now
    BY <2>1 DEF ExpForms
  <2> HIDE DEF t
  <2> QED
    BY <1>1, <1>6, <2>1, <2>2
<1>8. CallFresh(c)'
  <2> HIDE DEF t
  <2> QED BY <1>3, <1>5, <1>6, <1>7 DEF CallFresh
<1>9. \A i \in 1 .. Len(cache') : EntryFresh(cache'[i])
  BY <1>3 DEF Freshness
<1> HIDE DEF r
<1> QED
  BY <1>3, <1>4, <1>8, <1>9, OthersFresh

\* Either reading of exp, taken at an instant within the request's timeout,
\* bounds the lifetime by the token's expiry and that timeout.
LEMMA LifetimeLemma ==
  ASSUME NEW exp \in Nat, NEW instant \in Nat, NEW by \in Nat, NEW u \in Nat,
         absoluteEpochFloor <= u, instant <= by,
         \/ exp \in {0, remainingSecondsCeiling + 1, u}
         \/ by + exp <= u + validationTimeout,
         remainingLifetime(exp, instant) # 0
  PROVE  /\ remainingLifetime(exp, instant) > 0
         /\ instant + remainingLifetime(exp, instant) <= u + validationTimeout
<1>1. /\ remainingSecondsCeiling \in Nat /\ absoluteEpochFloor \in Nat
      /\ remainingSecondsCeiling + 1 < absoluteEpochFloor /\ validationTimeout \in Nat
  BY ExpReadingsDisjoint, BoundsAssumption
<1>2. CASE exp = u
  BY <1>1, <1>2 DEF remainingLifetime
<1>3. CASE exp = 0 \/ exp = remainingSecondsCeiling + 1
  BY <1>1, <1>3 DEF remainingLifetime
<1>4. CASE by + exp <= u + validationTimeout
  <2>1. remainingLifetime(exp, instant) <= exp
    BY <1>1 DEF remainingLifetime
  <2>2. remainingLifetime(exp, instant) \in Nat
    BY <1>1 DEF remainingLifetime
  <2> QED
    BY <1>1, <1>4, <2>1, <2>2
<1> QED
  BY <1>2, <1>3, <1>4

\* The response is read.
LEMMA ReceiveFresh ==
  ASSUME Bookkeeping, Freshness, NEW c \in Calls, Receive(c)
  PROVE  Freshness'
<1> DEFINE t == call[c].token
           left == remainingLifetime(call[c].answer.exp, now)
<1>1. /\ now \in Nat /\ t \in Tokens /\ call[c].by \in Nat
      /\ validUntil[t] \in Nat /\ revokedAt[t] \in Nat
      /\ absoluteEpochFloor <= validUntil[t] /\ call[c].answer.exp \in Nat
      /\ validationTimeout \in Nat /\ Pause \in Nat
      /\ call \in [Calls -> CallStates] /\ call[c] \in CallStates
  BY FreshTypes
<1>2. call[c].pc = "answered" /\ cache' = cache
      /\ now' = now /\ validUntil' = validUntil /\ revokedAt' = revokedAt
  BY DEF Receive, CacheUnchanged, WorldUnchanged
<1>3. \A i \in 1 .. Len(cache') : EntryFresh(cache'[i])
  BY <1>2 DEF Freshness
<1>4. ASSUME NEW result \in Results, Return(c, result, TRUE)
      PROVE  Freshness'
  <2>1. Decided(t, result) \in CallStates /\ Decided(t, result).pc = "idle"
    BY <1>1, DecidedType
  <2>2. call' = [call EXCEPT ![c] = Decided(t, result)]
    BY <1>4 DEF Return
  <2>3. CallFresh(c)'
    BY <1>1, <2>1, <2>2, QuietCallFresh
  <2> QED
    BY <1>2, <1>3, <2>2, <2>3, OthersFresh
<1>5. CASE /\ call[c].answer.status \notin {"timeout_or_throttled", "other", "garbage"}
           /\ ~Rejects(call[c].answer, t, left)
  <2>1. call' = [call EXCEPT ![c] =
           [@ EXCEPT !.pc = "storing", !.left = left, !.by = now + Pause]]
    BY <1>5 DEF Receive
  <2> DEFINE r == [call[c] EXCEPT !.pc = "storing", !.left = left, !.by = now + Pause]
  <2>2. call' = [call EXCEPT ![c] = r]
    BY <2>1
  <2>3. call[c].answer.status = "ok" /\ t \notin Foreign /\ left # 0
    BY <1>1, <1>5 DEF Rejects, CallStates, Answers, Statuses
  <2>4. /\ call'[c].pc = "storing" /\ call'[c].left = left
        /\ call'[c].by = now + Pause /\ call'[c].token = t
    BY <1>1, <2>2 DEF CallStates
  <2>5. /\ now <= call[c].by
        /\ call[c].by <= revokedAt[t] + validationTimeout
        /\ \/ call[c].answer.exp \in {0, remainingSecondsCeiling + 1, validUntil[t]}
           \/ call[c].by + call[c].answer.exp <= validUntil[t] + validationTimeout
    BY <1>2, <2>3 DEF Freshness, CallFresh
  <2>6. left > 0 /\ now + left <= validUntil[t] + validationTimeout
    <3> HIDE DEF t
    <3> QED BY <1>1, <2>3, <2>5, LifetimeLemma
  <2>7. left \in Nat
    BY <1>1, ExpReadingsDisjoint DEF remainingLifetime
  <2>8. CallFresh(c)'
    <3> HIDE DEF t, left
    <3> QED BY <1>1, <1>2, <2>3, <2>4, <2>5, <2>6, <2>7 DEF CallFresh
  <2> HIDE DEF r
  <2> QED
    BY <1>2, <1>3, <2>2, <2>8, OthersFresh
<1> QED
  BY <1>4, <1>5 DEF Receive, Results


\* A step of a call that reads neither the clock nor the cache.
LEMMA QuietStepFresh ==
  ASSUME Bookkeeping, Freshness, NEW c \in Calls,
         TakeSlot(c) \/ RequestFails(c) \/ \E t \in Tokens : Present(c, t)
  PROVE  Freshness'
<1>1. /\ call \in [Calls -> CallStates] /\ call[c] \in CallStates
      /\ call[c].token \in Tokens
  BY FreshTypes
<1>2. now' = now /\ validUntil' = validUntil /\ revokedAt' = revokedAt /\ cache' = cache
  BY DEF TakeSlot, RequestFails, Present, CacheUnchanged, WorldUnchanged
<1>3. \A i \in 1 .. Len(cache') : EntryFresh(cache'[i])
  BY <1>2 DEF Freshness
<1>4. ASSUME NEW r \in CallStates, call' = [call EXCEPT ![c] = r],
             r.pc \notin {"asked", "answered", "storing"}
      PROVE  Freshness'
  BY <1>1, <1>2, <1>3, <1>4, QuietCallFresh, OthersFresh
<1>5. ASSUME NEW result \in Results, NEW b, Return(c, result, b)
      PROVE  Freshness'
  <2>1. /\ Decided(call[c].token, result) \in CallStates
        /\ Decided(call[c].token, result).pc = "idle"
    BY <1>1, DecidedType
  <2> QED
    BY <1>4, <1>5, <2>1 DEF Return
<1>6. ASSUME Goto(c, "recheck")
      PROVE  Freshness'
  <2> DEFINE r == [call[c] EXCEPT !.pc = "recheck"]
  <2>1. r \in CallStates /\ r.pc = "recheck"
    BY <1>1 DEF CallStates, PCs
  <2>2. call' = [call EXCEPT ![c] = r]
    BY <1>6 DEF Goto
  <2> HIDE DEF r
  <2> QED BY <1>4, <2>1, <2>2
<1>7. ASSUME NEW t \in Tokens, Present(c, t)
      PROVE  Freshness'
  <2> DEFINE r == [NoCall EXCEPT !.pc = "lookup", !.token = t]
  <2>1. r \in CallStates /\ r.pc = "lookup"
    BY NoCallType DEF CallStates, PCs
  <2>2. call' = [call EXCEPT ![c] = r]
    BY <1>7 DEF Present
  <2> HIDE DEF r
  <2> QED BY <1>4, <2>1, <2>2
<1> QED
  BY <1>5, <1>6, <1>7 DEF TakeSlot, RequestFails, Results

\* A revocation: everything in flight or remembered was bounded by the present.
LEMMA RevokeFresh ==
  ASSUME Bookkeeping, Freshness, NEW t \in Tokens, Revoke(t)
  PROVE  Freshness'
<1>1. /\ revokedAt \in [Tokens -> Start .. Never] /\ revokedAt' = [revokedAt EXCEPT ![t] = now]
      /\ now' = now /\ validUntil' = validUntil /\ cache' = cache /\ call' = call
  BY DEF Revoke, Bookkeeping, TypeOK
<1>2. /\ now \in Nat /\ validationTimeout \in Nat /\ Pause \in Nat
      /\ cacheMaxTTL \in Nat
  BY FreshTypes
<1>3. ASSUME NEW c \in Calls
      PROVE  CallFresh(c)'
  <2>1. CallFresh(c) /\ call[c].token \in Tokens /\ call[c].by \in Nat
    BY FreshTypes DEF Freshness
  <2>2. CASE call[c].token # t
    <3>1. revokedAt'[call[c].token] = revokedAt[call[c].token]
      BY <1>1, <2>1, <2>2
    <3> QED BY <1>1, <2>1, <3>1 DEF CallFresh
  <2>3. CASE call[c].token = t
    <3>1. revokedAt'[call[c].token] = now
      BY <1>1, <2>1, <2>3
    <3> QED BY <1>1, <1>2, <2>1, <3>1 DEF CallFresh
  <2> QED BY <2>2, <2>3
<1>4. ASSUME NEW i \in 1 .. Len(cache)
      PROVE  EntryFresh(cache[i])'
  <2>1. EntryFresh(cache[i]) /\ cache[i].key \in Tokens /\ cache[i].expiresAt \in Nat
    BY FreshTypes DEF Freshness
  <2>2. CASE cache[i].key # t
    <3>1. revokedAt'[cache[i].key] = revokedAt[cache[i].key]
      BY <1>1, <2>1, <2>2
    <3> QED BY <1>1, <2>1, <3>1 DEF EntryFresh
  <2>3. CASE cache[i].key = t
    <3>1. revokedAt'[cache[i].key] = now
      BY <1>1, <2>1, <2>3
    <3> QED BY <1>1, <1>2, <2>1, <3>1 DEF EntryFresh
  <2> QED BY <2>2, <2>3
<1> QED
  BY <1>1, <1>3, <1>4 DEF Freshness

\* The clock: it waits for every call at its deadline.
LEMMA TickFresh ==
  ASSUME Bookkeeping, Freshness, Tick
  PROVE  Freshness'
<1>1. /\ now' = now + 1 /\ validUntil' = validUntil /\ revokedAt' = revokedAt
      /\ cache' = cache /\ call' = call
  BY DEF Tick
<1>2. now \in Nat /\ validationTimeout \in Nat /\ Pause \in Nat /\ cacheMaxTTL \in Nat
  BY FreshTypes
<1>3. ASSUME NEW c \in Calls
      PROVE  CallFresh(c)'
  <2>1. CallFresh(c) /\ call[c].by \in Nat
    BY FreshTypes DEF Freshness
  <2>2. call[c].pc \in {"asked", "answered", "storing"} => now < call[c].by
    BY DEF Tick
  <2> QED BY <1>1, <1>2, <2>1, <2>2 DEF CallFresh
<1>4. ASSUME NEW i \in 1 .. Len(cache)
      PROVE  EntryFresh(cache[i])'
  <2>1. EntryFresh(cache[i]) /\ cache[i].expiresAt \in Nat
    BY FreshTypes DEF Freshness
  <2> QED BY <1>1, <1>2, <2>1 DEF EntryFresh
<1> QED
  BY <1>1, <1>3, <1>4 DEF Freshness

LEMMA InitFresh == Init => Freshness
<1> SUFFICES ASSUME Init PROVE Freshness
  OBVIOUS
<1>1. \A c \in Calls : CallFresh(c)
  BY NoCallType DEF Init, CallFresh
<1>2. Len(cache) = 0
  BY DEF Init
<1> QED
  BY <1>1, <1>2 DEF Freshness

LEMMA NextFresh == Bookkeeping /\ Freshness /\ [Next]_vars => Freshness'
<1> SUFFICES ASSUME Bookkeeping, Freshness, [Next]_vars PROVE Freshness'
  OBVIOUS
<1>1. ASSUME NEW c \in Calls, Validate(c) PROVE Freshness'
  BY <1>1, LookupFresh, StoreFresh, ReceiveFresh, QuietStepFresh DEF Validate
<1>2. ASSUME NEW c \in Calls, GoogleAnswers(c) PROVE Freshness'
  BY <1>2, AnswerFresh
<1>3. ASSUME NEW c \in Calls, NEW t \in Tokens, Present(c, t) PROVE Freshness'
  BY <1>3, QuietStepFresh
<1>4. ASSUME NEW t \in Tokens, Revoke(t) PROVE Freshness'
  BY <1>4, RevokeFresh
<1>5. CASE Tick
  BY <1>5, TickFresh
<1>6. CASE UNCHANGED vars
  BY <1>6 DEF vars, Freshness, CallFresh, EntryFresh
<1> QED
  BY <1>1, <1>2, <1>3, <1>4, <1>5, <1>6 DEF Next

\* Every positive answer, in flight or remembered, is bounded by the token's
\* revocation and expiry at Google.
THEOREM FreshnessTheorem == Spec => []Freshness
BY InitBookkeeping, NextBookkeeping, InitFresh, NextFresh, PTL DEF Spec

-----------------------------------------------------------------------------
(* What a call may accept *)

LEMMA AcceptLemma ==
  ASSUME Bookkeeping, Freshness, Next, NEW c \in Calls, Accepts(c)
  PROVE  /\ call[c].token \notin Foreign
         /\ now < revokedAt[call[c].token] + validationTimeout + Pause + cacheMaxTTL
         /\ now < validUntil[call[c].token] + validationTimeout + Pause
<1> DEFINE t == call[c].token
<1>1. /\ now \in Nat /\ t \in Tokens /\ call[c].left \in Nat /\ call[c].by \in Nat
      /\ validUntil[t] \in Nat /\ revokedAt[t] \in Nat
      /\ validationTimeout \in Nat /\ Pause \in Nat /\ cacheMaxTTL \in Nat
      /\ cacheMaxTTL > 0
      /\ call \in [Calls -> CallStates] /\ call[c] \in CallStates
  BY FreshTypes
<1>2. CacheOK
  BY DEF Bookkeeping, TypeOK, CacheOK
<1>3. CASE CacheHit(t)
  <2>1. PICK i \in 1 .. Len(cache) : cache[i].key = t /\ now < cache[i].expiresAt
    BY <1>1, <1>2, <1>3, CacheHitLemma
  <2>2. EntryFresh(cache[i]) /\ cache[i].expiresAt \in Nat
    BY FreshTypes DEF Freshness
  <2>3. /\ t \notin Foreign
        /\ cache[i].expiresAt <= revokedAt[t] + validationTimeout + Pause + cacheMaxTTL
        /\ cache[i].expiresAt <= validUntil[t] + validationTimeout + Pause
    BY <2>1, <2>2 DEF EntryFresh
  <2> HIDE DEF t
  <2>4. /\ now < revokedAt[t] + validationTimeout + Pause + cacheMaxTTL
        /\ now < validUntil[t] + validationTimeout + Pause
    <3> DEFINE x == cache[i].expiresAt
    <3>1. x \in Nat /\ now < x
      BY <2>1, <2>2
    <3>2. /\ x <= revokedAt[t] + validationTimeout + Pause + cacheMaxTTL
          /\ x <= validUntil[t] + validationTimeout + Pause
      BY <2>3
    <3>3. /\ now \in Nat /\ validUntil[t] \in Nat /\ revokedAt[t] \in Nat
          /\ validationTimeout \in Nat /\ Pause \in Nat /\ cacheMaxTTL \in Nat
      BY <1>1
    <3> HIDE DEF x
    <3> QED BY <3>1, <3>2, <3>3
  <2> QED
    BY <2>3, <2>4 DEF t
<1>4. CASE Store(c)
  <2>1. /\ now <= call[c].by /\ t \notin Foreign /\ call[c].left > 0
        /\ call[c].by <= revokedAt[t] + validationTimeout + Pause
        /\ call[c].by + call[c].left <= validUntil[t] + validationTimeout + Pause
    BY <1>4 DEF Freshness, CallFresh, Store
  <2> HIDE DEF t
  <2>2. /\ now < revokedAt[t] + validationTimeout + Pause + cacheMaxTTL
        /\ now < validUntil[t] + validationTimeout + Pause
    BY <1>1, <2>1
  <2> QED
    BY <2>1, <2>2 DEF t
<1>5. ASSUME NEW r, call' = [call EXCEPT ![c] = r]
      PROVE  r.result = "claims" /\ call[c].result # "claims"
  BY <1>1, <1>5 DEF Accepts
<1>6. ASSUME NEW result \in Results, NEW b, Return(c, result, b)
      PROVE  result = "claims"
  <2>1. Decided(t, result).result = result
    BY <1>1, DecidedType
  <2>2. call' = [call EXCEPT ![c] = Decided(t, result)]
    BY <1>6 DEF Return
  <2> HIDE DEF t
  <2> QED BY <1>5, <2>1, <2>2
<1>7. ASSUME Validate(c)
      PROVE  CacheHit(t) \/ Store(c)
  <2>1. ASSUME NEW pc, Goto(c, pc)
        PROVE  FALSE
    BY <1>1, <2>1 DEF Goto, Accepts, CallStates
  <2>2. ~RequestFails(c)
    BY <1>6 DEF RequestFails, Results
  <2>3. ~TakeSlot(c)
    BY <1>6, <2>1 DEF TakeSlot, Results
  <2>4. ~Receive(c)
    <3> SUFFICES ASSUME Receive(c) PROVE FALSE
      OBVIOUS
    <3> DEFINE left == remainingLifetime(call[c].answer.exp, now)
    <3>1. call' = [call EXCEPT ![c] =
             [@ EXCEPT !.pc = "storing", !.left = left, !.by = now + Pause]]
      BY <1>6 DEF Receive, Results
    <3> HIDE DEF left
    <3> QED BY <1>1, <3>1 DEF Accepts, CallStates
  <2>5. FirstLookup(c) => CacheHit(t)
    BY <2>1 DEF FirstLookup
  <2>6. SecondLookup(c) => CacheHit(t)
    <3> SUFFICES ASSUME call' = [call EXCEPT ![c] =
                   [@ EXCEPT !.pc = "asked", !.by = now + validationTimeout]]
                 PROVE  FALSE
      BY DEF SecondLookup
    <3> QED BY <1>1 DEF Accepts, CallStates
  <2> QED BY <1>7, <2>2, <2>3, <2>4, <2>5, <2>6 DEF Validate
<1>8. ASSUME GoogleAnswers(c)
      PROVE  FALSE
  <2>1. PICK a : call' = [call EXCEPT ![c] = [@ EXCEPT !.pc = "answered", !.answer = a]]
    BY <1>8 DEF GoogleAnswers
  <2> QED BY <1>1, <2>1 DEF Accepts, CallStates
<1>9. ASSUME NEW u \in Tokens, Present(c, u)
      PROVE  FALSE
  <2>1. call' = [call EXCEPT ![c] = [NoCall EXCEPT !.pc = "lookup", !.token = u]]
    BY <1>9 DEF Present
  <2> QED BY <1>1, <2>1 DEF Accepts, NoCall
<1>10. ASSUME NEW d \in Calls, d # c,
              Validate(d) \/ GoogleAnswers(d) \/ \E u \in Tokens : Present(d, u)
       PROVE  FALSE
  <2>1. PICK r : CallStep(d, r)
    BY <1>10, ActionsAreCallSteps DEF Bookkeeping
  <2>2. call'[c] = call[c]
    BY <1>1, <1>10, <2>1 DEF CallStep
  <2> QED BY <2>2 DEF Accepts
<1>11. ~Tick /\ \A u \in Tokens : ~Revoke(u)
  BY DEF Tick, Revoke, Accepts
<1> QED
  BY <1>3, <1>4, <1>7, <1>8, <1>9, <1>10, <1>11 DEF Next

\* A revoked grant stops working within the cache TTL and the time one answer
\* can be in flight, for every number of calls and tokens.
THEOREM RevocationTheorem == Spec => RevocationTail
<1>1. Bookkeeping /\ Freshness /\ [Next]_vars =>
        [\A c \in Calls : Accepts(c) =>
          now < revokedAt[call[c].token] + validationTimeout + Pause + cacheMaxTTL]_vars
  BY AcceptLemma
<1> QED
  BY <1>1, InitBookkeeping, NextBookkeeping, InitFresh, NextFresh, PTL
     DEF Spec, RevocationTail

\* An expired token stops working within the time one answer can be in flight.
THEOREM ExpiryTheorem == Spec => ExpiryTail
<1>1. Bookkeeping /\ Freshness /\ [Next]_vars =>
        [\A c \in Calls : Accepts(c) =>
          now < validUntil[call[c].token] + validationTimeout + Pause]_vars
  BY AcceptLemma
<1> QED
  BY <1>1, InitBookkeeping, NextBookkeeping, InitFresh, NextFresh, PTL
     DEF Spec, ExpiryTail

\* A token that is not this deployment's is never accepted.
THEOREM AudienceTheorem == Spec => OnlyOursAccepted
<1>1. Bookkeeping /\ Freshness /\ [Next]_vars =>
        [\A c \in Calls : Accepts(c) => call[c].token \notin Foreign]_vars
  BY AcceptLemma
<1> QED
  BY <1>1, InitBookkeeping, NextBookkeeping, InitFresh, NextFresh, PTL
     DEF Spec, OnlyOursAccepted

=============================================================================
