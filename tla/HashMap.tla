------------------------------ MODULE HashMap ------------------------------
(***************************************************************************)
(* The hash map of ds/bpf/HashMap.c: chains of entries in 2^cap_bits       *)
(* buckets. A chain is a sequence of entries, its head first.              *)
(***************************************************************************)
EXTENDS Integers, SequencesExt

CONSTANTS Key, Value,
          HashBits,              \* MACHINE_WORDSIZE
          Shuffled,              \* h * 11400714819323198485 of a key, HashBits wide
          HASHMAP_MIN_CAP_BITS,
          MaxEntries             \* bound on sz

ASSUME HashMapAssumption ==
    /\ HashBits \in Nat /\ HASHMAP_MIN_CAP_BITS \in 1..HashBits
    /\ Shuffled \in [Key -> 0..2^HashBits - 1]
    /\ MaxEntries \in Nat

VARIABLES map,       \* the HashMap: buckets, cap_bits and sz
          mapMem,    \* buckets is NULL, allocated, or freed but still pointed to
          mapRet,    \* what the last call returned
          inserted,  \* ghost: the values of each key, in the order of insertion,
                     \* the newest first
          mapStatus  \* ok, or dangling once freed buckets have been used

mapvars == <<map, mapMem, mapRet, inserted, mapStatus>>

cap == IF map.cap_bits = 0 THEN 0 ELSE 2^map.cap_bits

hash_bits(h, bits) == h \div 2^(HashBits - bits)
BucketOf(k) == hash_bits(Shuffled[k], map.cap_bits)

EmptyBuckets(bits) == [b \in 0..2^bits - 1 |-> <<>>]

hashmap__init ==
    /\ map = [buckets |-> <<>>, cap_bits |-> 0, sz |-> 0]
    /\ mapMem = "NULL"
    /\ mapRet = 0
    /\ inserted = [k \in Key |-> <<>>]
    /\ mapStatus = "ok"

hashmap_needs_to_grow == cap = 0 \/ ((map.sz + 1) * 4) \div 3 > cap

\* Every entry, bucket by bucket, goes to the head of its new chain.
Rehash(m, bits) ==
    LET put(e, bs) == [bs EXCEPT ![hash_bits(Shuffled[e.key], bits)] = <<e>> \o @]
        into[b \in -1..cap - 1] ==
            IF b = -1 THEN EmptyBuckets(bits)
            ELSE FoldLeft(LAMBDA bs, e : put(e, bs), into[b - 1], m.buckets[b])
    IN  [m EXCEPT !.buckets = into[cap - 1], !.cap_bits = bits]

hashmap_grow == Rehash(map, Max({map.cap_bits + 1, HASHMAP_MIN_CAP_BITS}))

\* Mutant: the hash that was taken before the map grew is used.
InsertNew_stale(m, k, v) ==
    [[m EXCEPT !.buckets[BucketOf(k)] = <<[key |-> k, value |-> v]>> \o @]
        EXCEPT !.sz = @ + 1]

\* The place of the key in its chain, 0 when it is absent.
hashmap_find_entry(k) ==
    IF mapMem = "NULL" THEN 0
    ELSE SelectInSeq(map.buckets[BucketOf(k)], LAMBDA e : e.key = k)

hashmap_add_entry(m, h, e) == [m EXCEPT !.buckets[h] = <<e>> \o @]

InsertNew(m, k, v) ==
    [hashmap_add_entry(m, hash_bits(Shuffled[k], m.cap_bits),
                       [key |-> k, value |-> v]) EXCEPT !.sz = @ + 1]

Answer(ret) == mapRet' = ret /\ UNCHANGED mapStatus

\* The key is there, and the strategy is not HASHMAP_APPEND.
InsertFound(k, v, strategy) ==
    LET h == BucketOf(k)
        i == hashmap_find_entry(k) IN
    IF strategy = "ADD"
    THEN Answer(-1) /\ UNCHANGED <<map, mapMem, inserted>>
    ELSE /\ map' = [map EXCEPT !.buckets[h][i].value = v]
         /\ inserted' = [inserted EXCEPT ![k] =
              ReplaceAt(@, SelectInSeq(@, LAMBDA x : x = map.buckets[h][i].value), v)]
         /\ Answer(0) /\ UNCHANGED mapMem

\* kcalloc may fail before anything is changed, kmalloc after the map has grown.
InsertAbsent(k, v) ==
    LET grown == IF hashmap_needs_to_grow THEN hashmap_grow ELSE map
    IN  \/ /\ hashmap_needs_to_grow
           /\ Answer(-1) /\ UNCHANGED <<map, mapMem, inserted>>
        \/ /\ map' = grown /\ mapMem' = "allocated"
           /\ Answer(-1) /\ UNCHANGED inserted
        \/ /\ map.sz < MaxEntries
           /\ map' = InsertNew(grown, k, v) /\ mapMem' = "allocated"
           /\ inserted' = [inserted EXCEPT ![k] = <<v>> \o @]
           /\ Answer(0)

hashmap__insert(k, v, strategy) ==
    /\ mapStatus = "ok" /\ mapMem # "freed"
    /\ IF strategy # "APPEND" /\ hashmap_find_entry(k) # 0
       THEN InsertFound(k, v, strategy)
       ELSE IF strategy = "UPDATE"
       THEN Answer(-1) /\ UNCHANGED <<map, mapMem, inserted>>
       ELSE InsertAbsent(k, v)

hashmap__find(k) ==
    LET i == hashmap_find_entry(k)
    IN  IF i = 0 THEN <<>> ELSE <<map.buckets[BucketOf(k)][i].value>>

hashmap_del_entry(m, h, i) == [m EXCEPT !.buckets[h] = RemoveAt(@, i)]

hashmap__delete(k) ==
    /\ mapStatus = "ok" /\ mapMem # "freed"
    /\ IF hashmap_find_entry(k) = 0
       THEN Answer(-1) /\ UNCHANGED <<map, mapMem, inserted>>
       ELSE /\ map' = [hashmap_del_entry(map, BucketOf(k), hashmap_find_entry(k))
                         EXCEPT !.sz = @ - 1]
            /\ inserted' = [inserted EXCEPT ![k] = RemoveFirst(@, hashmap__find(k)[1])]
            /\ Answer(0) /\ UNCHANGED mapMem

\* hashmap__for_each_key_entry: the chain of the bucket of the key.
for_each_key_entry(k) ==
    IF mapMem = "NULL" THEN <<>>
    ELSE SelectSeq(map.buckets[BucketOf(k)], LAMBDA e : e.key = k)

\* buckets keeps its value.
hashmap__clear ==
    /\ mapStatus = "ok" /\ mapMem # "freed"
    /\ map' = [buckets |-> <<>>, cap_bits |-> 0, sz |-> 0]
    /\ mapMem' = IF mapMem = "NULL" THEN "NULL" ELSE "freed"
    /\ inserted' = [k \in Key |-> <<>>]
    /\ Answer(0)

\* Any call after that reads the freed buckets or frees them again.
UseAfterClear ==
    /\ mapStatus = "ok" /\ mapMem = "freed"
    /\ mapStatus' = "dangling"
    /\ UNCHANGED <<map, mapMem, mapRet, inserted>>

HashMapNext ==
    \/ \E k \in Key, v \in Value, s \in {"ADD", "SET", "UPDATE", "APPEND"} :
         hashmap__insert(k, v, s)
    \/ \E k \in Key : hashmap__delete(k)
    \/ hashmap__clear \/ UseAfterClear

-----------------------------------------------------------------------------
(* What the map promises.                                                  *)

AllEntries == FlattenSeq([b \in 1..cap |-> map.buckets[b - 1]])

\* Every entry is in the bucket of its key at the present number of buckets,
\* sz counts the entries, and at most three quarters of cap are used (hashmap_grow
\* moves every entry, and hashmap__insert takes the hash again after growing).
EntriesInTheirBucket ==
    /\ \A b \in 0..cap - 1 : \A i \in DOMAIN map.buckets[b] :
         BucketOf(map.buckets[b][i].key) = b
    /\ map.sz = Len(AllEntries)
    /\ (map.sz * 4) \div 3 <= cap

\* Going through the entries of a key, in its bucket only, gives the values inserted
\* for it, however often the map has grown, and hashmap__find answers the one value of a key that has one.
FindMatches ==
    mapMem # "freed" =>
        \A k \in Key :
            LET own == for_each_key_entry(k) IN
            /\ \A v \in Value : Len(SelectSeq(own, LAMBDA e : e.value = v))
                                 = Len(SelectSeq(inserted[k], LAMBDA x : x = v))
            /\ Len(inserted[k]) <= 1 => hashmap__find(k) = inserted[k]

\* Through insertions, deletions, growths and failures to grow, every entry can be
\* found under its key, and a call that failed has changed nothing.
MapSound == EntriesInTheirBucket /\ FindMatches
=============================================================================
