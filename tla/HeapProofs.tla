----------------------------- MODULE HeapProofs -----------------------------
(***************************************************************************)
(* The theorems about the kernel heap: whatever the sizes, the number of   *)
(* bins and of callers, and wherever the handler interrupts the thread.    *)
(***************************************************************************)
EXTENDS Heap, SequenceTheorems, NaturalsInduction, WellFoundedInduction, TLAPS

Top == start + HEAP_INIT_SIZE
LastHead == HEAP_INIT_SIZE - overhead
Bin == 0 .. BIN_MAX_IDX

-----------------------------------------------------------------------------
(* The inductive invariant.                                                *)

IsHeap(h) ==
    /\ h = [node |-> h.node, foot |-> h.foot, end |-> h.end, bins |-> h.bins]
    /\ h.node \in [DOMAIN h.node -> [hole : BOOLEAN, size : Nat]]
    /\ DOMAIN h.node \subseteq 0 .. LastHead
    /\ h.foot \in [DOMAIN h.foot -> 0 .. LastHead]
    /\ h.end \in Top .. HeapMax
    /\ h.bins \in [Bin -> Seq(0 .. LastHead)]

\* The chunks lie one behind the other from the start to the end of the first
\* heap, and the footers are those of the chunks.
Layout(h) ==
    /\ start \in DOMAIN h.node
    /\ \A a \in DOMAIN h.node : NextChunk(h, a) \in DOMAIN h.node \cup {Top}
    /\ \A a, b \in DOMAIN h.node : a < b => NextChunk(h, a) <= b
    /\ \A a \in (DOMAIN h.node \ {start}) \cup {Top} :
         \E p \in DOMAIN h.node : NextChunk(h, p) = a
    /\ DOMAIN h.foot = {get_foot(h, a) : a \in DOMAIN h.node}
    /\ \A a \in DOMAIN h.node : h.foot[get_foot(h, a)] = a

\* No element twice, and the sizes do not decrease.
SortedBin(h, bin) ==
    \A i, j \in 1 .. Len(bin) : i < j =>
        bin[i] # bin[j] /\ h.node[bin[i]].size <= h.node[bin[j]].size

\* The holes that bin b is to hold, those of X excepted.
HolesOf(h, X, b) ==
    {c \in DOMAIN h.node \ X : h.node[c].hole /\ get_bin_index(h.node[c].size) = b}

BinsKeep(h, X) ==
    \A b \in Bin : Range(h.bins[b]) = HolesOf(h, X, b) /\ SortedBin(h, h.bins[b])

\* The chunks that are in use, those of X excepted.
InUse(h, X) == {c \in DOMAIN h.node \ X : ~h.node[c].hole}

BlocksOf(p) == {p[s] - offset : s \in {t \in Slot : p[t] # NULL}}

\* Every chunk that is in use, those of X excepted, has one owner.
Owners(h, X, l, p, w) ==
    /\ InUse(h, X) = l \cup BlocksOf(p)
    /\ l \cap BlocksOf(p) = {}
    /\ \A s, t \in Slot : p[s] # NULL /\ p[s] = p[t] => s = t
    /\ \A s \in Slot : p[s] # NULL => w[s] <= h.node[p[s] - offset].size

CallOp == {"none", "split", "take", "free", "release"}

Pointers == [Slot -> (0 .. HeapMax) \cup {NULL}]

Typed ==
    /\ IsHeap(heap)
    /\ ptr \in Pointers
    /\ want \in [Slot -> Size \cup {0}]
    /\ status \in {"ok", "undefined"}
    /\ lost \subseteq 0 .. LastHead
    /\ torn \in BOOLEAN

IsCall(c) ==
    /\ c \in [op : CallOp, slot : Slot \cup {NULL}, size : Size \cup {0},
              index : Bin, found : (0 .. LastHead) \cup {NULL},
              then : (0 .. HeapMax) \cup {NULL}]
    /\ c.op = "none" => c = NoCall
    /\ c.op # "none" => c.found \in 0 .. LastHead
    /\ c.op \in {"split", "take"} => c.slot \in ThreadSlot /\ c.size \in Size

\* Between the search of a call c and its end, and between calls.
CalmIn(h, c, l, p, w) ==
    /\ Layout(h)
    /\ Owners(h, IF c.op \in {"free", "release"} THEN {c.found} ELSE {}, l, p, w)
    /\ c.op # "take" => BinsKeep(h, IF c.op = "release" THEN {c.found} ELSE {})
    /\ c.op = "take" => BinsKeep(remove_node(h, c.index, c.found), {c.found})
    /\ c.op # "none" => c.found \in DOMAIN h.node
    /\ c.op \in {"split", "take"} =>
         /\ h.node[c.found].hole
         /\ h.node[c.found].size >= c.size
         /\ c.then = p[c.slot]
    /\ c.op = "split" => get_bin_index(h.node[c.found].size) = c.index
    /\ c.op = "free" => ~h.node[c.found].hole

\* What is left when the handler has run inside a call.
TornIn(h, c) ==
    /\ c.op \in {"split", "take"} =>
         /\ Layout(h)
         /\ c.then # NULL => c.then - offset \in DOMAIN h.node
    /\ c.op = "free" =>
         /\ c.found \in DOMAIN h.node
         /\ c.found # start => /\ c.found - SizeofFooter \in DOMAIN h.foot
                               /\ PrevChunk(h, c.found) \in DOMAIN h.node
                               /\ PrevChunk(h, c.found) < c.found

Calm == CalmIn(heap, call, lost, ptr, want)
Torn == TornIn(heap, call)

IInv ==
    /\ Typed /\ IsCall(call)
    /\ status = "ok" /\ ~torn => Calm
    /\ status = "ok" /\ torn => Torn
    /\ UndefinedOnlyAfter

-----------------------------------------------------------------------------
(* Numbers, and the index of a bin.                                        *)

\* The constants, as numbers.
LEMMA ConstantsTyped ==
    /\ HEAP_INIT_SIZE \in Nat /\ Top \in Nat /\ Top = HEAP_INIT_SIZE
    /\ LastHead \in Nat /\ LastHead = Top - 20
    /\ HeapMax \in Nat /\ Top <= HeapMax
    /\ BIN_MAX_IDX \in Nat
    /\ NULL \notin Nat
<1>1. MaxPages * PAGE_SIZE \in Nat
  BY HeapAssumption
<1> QED
  BY <1>1, HeapAssumption DEF Top, LastHead, HeapMax, start, overhead, SizeofNode,
     SizeofFooter, BIN_MAX_IDX

\* A set of natural numbers has a least element.
LEMMA LeastElement ==
    ASSUME NEW T, T \subseteq Nat, T # {}
    PROVE  \E x \in T : \A y \in T : x <= y
<1> DEFINE R == OpToRel(<, Nat)
<1>1. IsWellFoundedOn(R, Nat)
  BY NatLessThanWellFounded
<1>2. \A x, y \in Nat : x < y => <<x, y>> \in R
  BY DEF OpToRel
<1> HIDE DEF R
<1>3. PICK x \in T : \A y \in T : ~(<<y, x>> \in R)
  BY <1>1, WFMin
<1>4. ASSUME NEW y \in T PROVE x <= y
  <2>1. x \in Nat /\ y \in Nat
    OBVIOUS
  <2>2. ~(y < x)
    BY <1>2, <1>3, <2>1, Zenon
  <2> QED BY ONLY <2>1, <2>2, SMT
<1> QED BY <1>4, Zenon

\* What holds at n where it holds at every smaller number holds everywhere.
LEMMA Strong ==
    ASSUME NEW T, \A n \in Nat : (\A m \in 0 .. n - 1 : m \in T) => n \in T
    PROVE  Nat \subseteq T
<1> DEFINE U == {k \in Nat : k \notin T}
<1>1. SUFFICES ASSUME U # {} PROVE FALSE
  OBVIOUS
<1>2. PICK x \in U : \A y \in U : x <= y
  <2>1. U \subseteq Nat /\ U # {}
    BY <1>1
  <2> HIDE DEF U
  <2> QED BY <2>1, LeastElement
<1>3. \A m \in 0 .. x - 1 : m \in T
  BY <1>2
<1> QED BY <1>2, <1>3

\* The loop of get_bin_index, for arguments up to n.
IsLog(g, n) ==
    g = [sz \in 0 .. n |-> IF sz < 2 THEN 0 ELSE 1 + g[sz \div 2]]

\* Halving a number.
LEMMA Halves ==
    \A n \in Nat : n \div 2 \in Nat /\ (n > 1 => n \div 2 < n /\ n \div 2 > 0)
                   /\ (n > 3 => n \div 2 > 1)
OBVIOUS

\* Halving is monotonic.
LEMMA HalvesMonotonic == \A m, n \in Nat : m <= n => m \div 2 <= n \div 2
OBVIOUS

\* Two runs of the loop agree where both are defined.
LEMMA LogUnique ==
    ASSUME NEW m \in Nat, NEW n \in Nat, NEW f, NEW g, IsLog(f, m), IsLog(g, n)
    PROVE  \A k \in Nat : k <= m /\ k <= n => f[k] = g[k]
<1> DEFINE T == {k \in Nat : k <= m /\ k <= n => f[k] = g[k]}
<1>1. /\ \A k \in 0 .. m : f[k] = IF k < 2 THEN 0 ELSE 1 + f[k \div 2]
      /\ \A k \in 0 .. n : g[k] = IF k < 2 THEN 0 ELSE 1 + g[k \div 2]
  BY Zenon DEF IsLog
<1>2. ASSUME NEW k \in Nat, \A j \in 0 .. k - 1 : j \in T PROVE k \in T
  <2>1. SUFFICES ASSUME k <= m, k <= n PROVE f[k] = g[k]
    OBVIOUS
  <2>2. k \in 0 .. m /\ k \in 0 .. n
    BY <2>1
  <2>3. CASE k < 2
    BY <1>1, <2>2, <2>3
  <2>4. CASE ~(k < 2)
    <3>1. k \div 2 \in 0 .. k - 1 /\ k \div 2 <= m /\ k \div 2 <= n
      BY <2>1, <2>4, Halves
    <3>2. f[k \div 2] = g[k \div 2]
      BY <1>2, <3>1
    <3> QED BY <1>1, <2>2, <2>4, <3>2
  <2> QED BY <2>3, <2>4
<1> HIDE DEF T
<1>3. Nat \subseteq T
  BY <1>2, Strong
<1> QED BY <1>3 DEF T

\* The loop ends, whatever it starts from.
LEMMA LogExists == \A n \in Nat : \E g : IsLog(g, n)
<1> DEFINE T == {m \in Nat : \E g : IsLog(g, m)}
<1>1. ASSUME NEW n \in Nat, \A j \in 0 .. n - 1 : j \in T PROVE n \in T
  <2>1. CASE n < 2
    <3> DEFINE g == [sz \in 0 .. n |-> 0]
    <3>1. IsLog(g, n)
      BY <2>1 DEF IsLog
    <3> QED BY <3>1
  <2>2. CASE ~(n < 2)
    <3>1. n - 1 \in T /\ n - 1 \in Nat
      BY <1>1, <2>2
    <3>2. PICK f : IsLog(f, n - 1)
      BY <3>1
    <3>3. \A k \in 0 .. n - 1 : f[k] = IF k < 2 THEN 0 ELSE 1 + f[k \div 2]
      BY <3>2, Zenon DEF IsLog
    <3> DEFINE g == [sz \in 0 .. n |-> IF sz = n THEN 1 + f[n \div 2] ELSE f[sz]]
    <3>4. \A k \in 0 .. n - 1 : g[k] = f[k]
      OBVIOUS
    <3>5. ASSUME NEW k \in 0 .. n PROVE g[k] = IF k < 2 THEN 0 ELSE 1 + g[k \div 2]
      <4>1. k >= 2 => k \div 2 \in 0 .. n - 1
        BY Halves
      <4>2. k >= 2 => g[k \div 2] = f[k \div 2]
        BY <3>4, <4>1
      <4>3. CASE k = n
        <5>1. g[k] = 1 + f[k \div 2]
          BY <4>3
        <5> HIDE DEF g
        <5> QED BY <2>2, <4>2, <4>3, <5>1
      <4>4. CASE k # n
        <5>1. k \in 0 .. n - 1
          BY <4>4
        <5> HIDE DEF g
        <5> QED BY <3>3, <3>4, <4>2, <5>1
      <4> QED BY <4>3, <4>4
    <3>6. g = [k \in 0 .. n |-> g[k]]
      OBVIOUS
    <3> HIDE DEF g
    <3>7. IsLog(g, n)
      BY <3>5, <3>6 DEF IsLog
    <3> QED BY <3>7
  <2> QED BY <2>1, <2>2
<1> HIDE DEF T
<1>2. Nat \subseteq T
  BY <1>1, Strong
<1> QED BY <1>2 DEF T

\* Log2 is that loop.
LEMMA Log2Unfold ==
    \A n \in Nat : Log2[n] = IF n < 2 THEN 0 ELSE 1 + Log2[n \div 2]
<1> DEFINE Of(n) == CHOOSE g : IsLog(g, n)
           F == [n \in Nat |-> Of(n)[n]]
           Fix(f) == f = [n \in Nat |-> IF n < 2 THEN 0 ELSE 1 + f[n \div 2]]
<1>1. \A n \in Nat : IsLog(Of(n), n)
  BY LogExists
<1> HIDE DEF Of
<1>2. ASSUME NEW n \in Nat PROVE F[n] = IF n < 2 THEN 0 ELSE 1 + F[n \div 2]
  <2>1. Of(n)[n] = IF n < 2 THEN 0 ELSE 1 + Of(n)[n \div 2]
    <3>1. n \in 0 .. n
      OBVIOUS
    <3> QED BY <1>1, <3>1, Zenon DEF IsLog
  <2>2. CASE n < 2
    BY <2>1, <2>2
  <2>3. CASE ~(n < 2)
    <3>1. n \div 2 \in Nat /\ n \div 2 <= n
      BY <2>3, Halves
    <3>2. Of(n)[n \div 2] = Of(n \div 2)[n \div 2]
      BY <1>1, <3>1, LogUnique
    <3> QED BY <2>1, <2>3, <3>1, <3>2
  <2> QED BY <2>2, <2>3
<1>3. F = [n \in Nat |-> F[n]]
  OBVIOUS
<1> HIDE DEF F
<1>4. Fix(F)
  BY <1>2, <1>3
<1>5. Fix(Log2)
  <2>1. Log2 = CHOOSE f : Fix(f)
    BY DEF Log2
  <2> HIDE DEF Fix
  <2> QED BY <1>4, <2>1
<1> QED BY <1>5, Zenon

\* The logarithm is a natural number, monotonic, and at least 2 from 4 on.
LEMMA Log2Facts ==
    /\ \A n \in Nat : Log2[n] \in Nat
    /\ \A n \in Nat : n >= 4 => Log2[n] >= 2
    /\ \A m, n \in Nat : m <= n => Log2[m] <= Log2[n]
<1>1. \A n \in Nat : Log2[n] \in Nat
  <2> DEFINE T == {n \in Nat : Log2[n] \in Nat}
  <2>1. ASSUME NEW n \in Nat, \A j \in 0 .. n - 1 : j \in T PROVE n \in T
    <3>1. CASE n < 2
      BY <3>1, Log2Unfold
    <3>2. CASE ~(n < 2)
      <4>1. n \div 2 \in 0 .. n - 1
        BY <3>2, Halves
      <4>2. Log2[n] = 1 + Log2[n \div 2] /\ Log2[n \div 2] \in Nat
        BY <2>1, <3>2, <4>1, Log2Unfold
      <4> QED BY <4>2
    <3> QED BY <3>1, <3>2
  <2> HIDE DEF T
  <2>2. Nat \subseteq T
    BY <2>1, Strong
  <2> QED BY <2>2 DEF T
<1>2. ASSUME NEW n \in Nat, n >= 4 PROVE Log2[n] >= 2
  <2>1. n \div 2 \in Nat /\ n \div 2 > 1 /\ (n \div 2) \div 2 \in Nat
    BY <1>2, Halves
  <2>2. Log2[n] = 1 + Log2[n \div 2]
    BY <1>2, Log2Unfold
  <2>3. Log2[n \div 2] = 1 + Log2[(n \div 2) \div 2]
    BY <2>1, Log2Unfold
  <2>4. Log2[(n \div 2) \div 2] \in Nat
    BY <1>1, <2>1
  <2> QED BY <2>2, <2>3, <2>4
<1>3. \A m, n \in Nat : m <= n => Log2[m] <= Log2[n]
  <2> DEFINE T == {n \in Nat : \A m \in Nat : m <= n => Log2[m] <= Log2[n]}
  <2>1. ASSUME NEW n \in Nat, \A j \in 0 .. n - 1 : j \in T PROVE n \in T
    <3>1. SUFFICES ASSUME NEW m \in Nat, m <= n PROVE Log2[m] <= Log2[n]
      OBVIOUS
    <3>2. Log2[n] \in Nat
      BY <1>1
    <3>3. CASE m < 2
      <4>1. Log2[m] = 0
        BY <3>3, Log2Unfold
      <4> QED BY <3>2, <4>1
    <3>4. CASE ~(m < 2)
      <4>1. n \div 2 \in 0 .. n - 1 /\ m \div 2 \in Nat /\ m \div 2 <= n \div 2
        BY <3>1, <3>4, Halves, HalvesMonotonic
      <4>2. Log2[m \div 2] <= Log2[n \div 2] /\ Log2[m \div 2] \in Nat
            /\ Log2[n \div 2] \in Nat
        BY <1>1, <2>1, <4>1
      <4>3. Log2[m] = 1 + Log2[m \div 2] /\ Log2[n] = 1 + Log2[n \div 2]
        BY <3>1, <3>4, Log2Unfold
      <4> QED BY <4>2, <4>3
    <3> QED BY <3>3, <3>4
  <2> HIDE DEF T
  <2>2. Nat \subseteq T
    BY <2>1, Strong
  <2> QED BY <2>2 DEF T
<1> QED BY <1>1, <1>2, <1>3

\* Every size has a bin, and a larger size does not have an earlier one.
LEMMA BinIndex ==
    /\ \A sz \in Nat : get_bin_index(sz) \in Bin
    /\ \A y, z \in Nat : y <= z => get_bin_index(y) <= get_bin_index(z)
<1> DEFINE S(sz) == IF sz < 4 THEN 4 ELSE sz
           At(k) == IF k > BIN_MAX_IDX THEN BIN_MAX_IDX ELSE k
<1>1. \A sz \in Nat : get_bin_index(sz) = At(Log2[S(sz)] - 2)
  BY DEF get_bin_index
<1>2. \A sz \in Nat : S(sz) \in Nat /\ S(sz) >= 4
  OBVIOUS
<1>3. \A y, z \in Nat : y <= z => S(y) <= S(z)
  OBVIOUS
<1>4. \A k \in Nat : At(k) \in Bin
  BY ConstantsTyped DEF Bin
<1>5. \A j, k \in Nat : j <= k => At(j) <= At(k)
  BY ConstantsTyped
<1> HIDE DEF S, At
<1>6. \A sz \in Nat : Log2[S(sz)] - 2 \in Nat
  BY <1>2, Log2Facts
<1>7. ASSUME NEW y \in Nat, NEW z \in Nat, y <= z
      PROVE get_bin_index(y) <= get_bin_index(z)
  <2>1. Log2[S(y)] <= Log2[S(z)]
    BY <1>2, <1>3, <1>7, Log2Facts
  <2>2. Log2[S(y)] - 2 <= Log2[S(z)] - 2
    BY <1>2, <2>1, Log2Facts
  <2> QED BY <1>1, <1>5, <1>6, <2>2
<1> QED BY <1>1, <1>4, <1>6, <1>7

-----------------------------------------------------------------------------
(* What the writes to memory do.                                           *)

\* A field of heap_t is assigned.
LEMMA AssignField ==
    ASSUME NEW h, IsHeap(h), NEW x
    PROVE  /\ [h EXCEPT !.node = x] =
                [node |-> x, foot |-> h.foot, end |-> h.end, bins |-> h.bins]
           /\ [h EXCEPT !.foot = x] =
                [node |-> h.node, foot |-> x, end |-> h.end, bins |-> h.bins]
           /\ [h EXCEPT !.end = x] =
                [node |-> h.node, foot |-> h.foot, end |-> x, bins |-> h.bins]
           /\ [h EXCEPT !.bins = x] =
                [node |-> h.node, foot |-> h.foot, end |-> h.end, bins |-> x]
<1>1. PICK n, f, e, b : /\ h = [node |-> n, foot |-> f, end |-> e, bins |-> b]
                        /\ n = h.node /\ f = h.foot /\ e = h.end /\ b = h.bins
  <2>1. h = [node |-> h.node, foot |-> h.foot, end |-> h.end, bins |-> h.bins]
    BY Zenon DEF IsHeap
  <2> QED BY <2>1, Zenon
<1>2. /\ [h EXCEPT !.node = x] = [node |-> x, foot |-> f, end |-> e, bins |-> b]
      /\ [h EXCEPT !.foot = x] = [node |-> n, foot |-> x, end |-> e, bins |-> b]
      /\ [h EXCEPT !.end = x] = [node |-> n, foot |-> f, end |-> x, bins |-> b]
      /\ [h EXCEPT !.bins = x] = [node |-> n, foot |-> f, end |-> e, bins |-> x]
  <2>1. h = [node |-> n, foot |-> f, end |-> e, bins |-> b]
    BY <1>1
  <2> QED BY ONLY <2>1
<1> QED BY <1>1, <1>2, Zenon

\* The two fields that Forget assigns.
LEMMA AssignTwo ==
    ASSUME NEW h, IsHeap(h), NEW x, NEW y
    PROVE  [h EXCEPT !.node = x, !.foot = y] =
             [node |-> x, foot |-> y, end |-> h.end, bins |-> h.bins]
<1>1. PICK n, f, e, b : /\ h = [node |-> n, foot |-> f, end |-> e, bins |-> b]
                        /\ e = h.end /\ b = h.bins
  <2>1. h = [node |-> h.node, foot |-> h.foot, end |-> h.end, bins |-> h.bins]
    BY Zenon DEF IsHeap
  <2> QED BY <2>1, Zenon
<1>2. [h EXCEPT !.node = x] = [node |-> x, foot |-> f, end |-> e, bins |-> b]
  <2>1. h = [node |-> n, foot |-> f, end |-> e, bins |-> b]
    BY <1>1
  <2> QED BY ONLY <2>1
<1>3. [h EXCEPT !.node = x, !.foot = y] = [[h EXCEPT !.node = x] EXCEPT !.foot = y]
  OBVIOUS
<1>4. [[node |-> x, foot |-> f, end |-> e, bins |-> b] EXCEPT !.foot = y]
        = [node |-> x, foot |-> y, end |-> e, bins |-> b]
  OBVIOUS
<1> QED BY <1>1, <1>2, <1>3, <1>4, Zenon

\* A header is written.
LEMMA WriteNode ==
    ASSUME NEW h, IsHeap(h), NEW n \in 0 .. LastHead, NEW hole \in BOOLEAN, NEW size \in Nat
    PROVE  /\ IsHeap(write_node(h, n, hole, size))
           /\ write_node(h, n, hole, size).node =
                [a \in DOMAIN h.node \cup {n} |->
                    IF a = n THEN [hole |-> hole, size |-> size] ELSE h.node[a]]
           /\ write_node(h, n, hole, size).foot = h.foot
           /\ write_node(h, n, hole, size).end = h.end
           /\ write_node(h, n, hole, size).bins = h.bins
<1> DEFINE g == [a \in DOMAIN h.node \cup {n} |->
                    IF a = n THEN [hole |-> hole, size |-> size] ELSE h.node[a]]
           w == write_node(h, n, hole, size)
<1>1. w = [node |-> g, foot |-> h.foot, end |-> h.end, bins |-> h.bins]
  <2>1. w = [h EXCEPT !.node = g]
    BY DEF write_node
  <2> HIDE DEF g, w
  <2> QED BY <2>1, AssignField
<1>2. g \in [DOMAIN h.node \cup {n} -> [hole : BOOLEAN, size : Nat]]
  BY DEF IsHeap
<1>3. DOMAIN g = DOMAIN h.node \cup {n}
  OBVIOUS
<1>4. DOMAIN g \subseteq 0 .. LastHead
  BY <1>3 DEF IsHeap
<1> HIDE DEF g, w
<1>5. w.node = g /\ w.foot = h.foot /\ w.end = h.end /\ w.bins = h.bins
  BY <1>1
<1>6. IsHeap(w)
  BY <1>1, <1>2, <1>3, <1>4, <1>5 DEF IsHeap
<1> QED BY <1>5, <1>6 DEF g, w

\* A footer is written.
LEMMA WriteFoot ==
    ASSUME NEW h, IsHeap(h), NEW at, NEW n \in 0 .. LastHead
    PROVE  /\ IsHeap(write_foot(h, at, n))
           /\ write_foot(h, at, n).foot =
                [a \in DOMAIN h.foot \cup {at} |-> IF a = at THEN n ELSE h.foot[a]]
           /\ write_foot(h, at, n).node = h.node
           /\ write_foot(h, at, n).end = h.end
           /\ write_foot(h, at, n).bins = h.bins
<1> DEFINE g == [a \in DOMAIN h.foot \cup {at} |-> IF a = at THEN n ELSE h.foot[a]]
           w == write_foot(h, at, n)
<1>1. w = [node |-> h.node, foot |-> g, end |-> h.end, bins |-> h.bins]
  <2>1. w = [h EXCEPT !.foot = g]
    BY DEF write_foot
  <2> HIDE DEF g, w
  <2> QED BY <2>1, AssignField
<1>2. g \in [DOMAIN h.foot \cup {at} -> 0 .. LastHead]
  BY DEF IsHeap
<1>3. DOMAIN g = DOMAIN h.foot \cup {at}
  OBVIOUS
<1> HIDE DEF g, w
<1>5. w.node = h.node /\ w.foot = g /\ w.end = h.end /\ w.bins = h.bins
  BY <1>1
<1>6. IsHeap(w)
  BY <1>1, <1>2, <1>3, <1>5 DEF IsHeap
<1> QED BY <1>5, <1>6 DEF g, w

\* The heap w is heap h with the header of n written.
NodeWritten(h, w, n, hole, size) ==
    /\ IsHeap(w) /\ w.foot = h.foot /\ w.end = h.end /\ w.bins = h.bins
    /\ w.node = [a \in DOMAIN h.node \cup {n} |->
                    IF a = n THEN [hole |-> hole, size |-> size] ELSE h.node[a]]

\* The heap w is heap h with the footer at address at written.
FootWritten(h, w, at, n) ==
    /\ IsHeap(w) /\ w.node = h.node /\ w.end = h.end /\ w.bins = h.bins
    /\ w.foot = [a \in DOMAIN h.foot \cup {at} |-> IF a = at THEN n ELSE h.foot[a]]

\* WriteNode and WriteFoot under one name each, to cite where their formulas would get in
\* the way.
LEMMA NodeOf ==
    ASSUME NEW h, IsHeap(h), NEW n \in 0 .. LastHead, NEW hole \in BOOLEAN, NEW size \in Nat
    PROVE  NodeWritten(h, write_node(h, n, hole, size), n, hole, size)
<1> DEFINE w == write_node(h, n, hole, size)
<1>1. /\ IsHeap(w) /\ w.foot = h.foot /\ w.end = h.end /\ w.bins = h.bins
      /\ w.node = [a \in DOMAIN h.node \cup {n} |->
                    IF a = n THEN [hole |-> hole, size |-> size] ELSE h.node[a]]
  BY ONLY WriteNode, IsHeap(h), n \in 0 .. LastHead, hole \in BOOLEAN, size \in Nat
<1> QED BY <1>1 DEF NodeWritten

\* The same of a footer.
LEMMA FootOf ==
    ASSUME NEW h, IsHeap(h), NEW at, NEW n \in 0 .. LastHead
    PROVE  FootWritten(h, write_foot(h, at, n), at, n)
<1> DEFINE w == write_foot(h, at, n)
<1>1. /\ IsHeap(w) /\ w.node = h.node /\ w.end = h.end /\ w.bins = h.bins
      /\ w.foot = [a \in DOMAIN h.foot \cup {at} |-> IF a = at THEN n ELSE h.foot[a]]
  BY ONLY WriteFoot, IsHeap(h), n \in 0 .. LastHead
<1> QED BY <1>1 DEF FootWritten

\* Headers and footers become data.
LEMMA ForgetWrites ==
    ASSUME NEW h, IsHeap(h), NEW A, NEW B, NEW r, r = Forget(h, A, B)
    PROVE  /\ IsHeap(r) /\ r.end = h.end /\ r.bins = h.bins
           /\ DOMAIN r.node = DOMAIN h.node \ A /\ DOMAIN r.foot = DOMAIN h.foot \ B
           /\ \A a \in DOMAIN r.node : r.node[a] = h.node[a]
           /\ \A a \in DOMAIN r.foot : r.foot[a] = h.foot[a]
<1> DEFINE f == [a \in DOMAIN h.node \ A |-> h.node[a]]
           g == [a \in DOMAIN h.foot \ B |-> h.foot[a]]
           w == Forget(h, A, B)
<1>1. w = [node |-> f, foot |-> g, end |-> h.end, bins |-> h.bins]
  <2>1. w = [h EXCEPT !.node = f, !.foot = g]
    BY DEF Forget, Restrict
  <2> HIDE DEF f, g, w
  <2>2. [h EXCEPT !.node = f, !.foot = g]
          = [node |-> f, foot |-> g, end |-> h.end, bins |-> h.bins]
    BY ONLY AssignTwo, IsHeap(h), Zenon
  <2> QED BY ONLY <2>1, <2>2
<1>2. /\ f \in [DOMAIN h.node \ A -> [hole : BOOLEAN, size : Nat]]
      /\ g \in [DOMAIN h.foot \ B -> 0 .. LastHead]
  BY DEF IsHeap
<1>3. DOMAIN f = DOMAIN h.node \ A /\ DOMAIN g = DOMAIN h.foot \ B
  OBVIOUS
<1>4. DOMAIN f \subseteq 0 .. LastHead
  BY <1>3 DEF IsHeap
<1> HIDE DEF f, g, w
<1>5. w.node = f /\ w.foot = g /\ w.end = h.end /\ w.bins = h.bins
  BY <1>1
<1>6. IsHeap(w)
  BY <1>1, <1>2, <1>3, <1>4, <1>5 DEF IsHeap
<1> QED BY <1>5, <1>6 DEF f, g, w

\* One bin is replaced.
LEMMA WriteBin ==
    ASSUME NEW h, IsHeap(h), NEW b \in Bin, NEW s \in Seq(0 .. LastHead)
    PROVE  /\ IsHeap([h EXCEPT !.bins[b] = s])
           /\ [h EXCEPT !.bins[b] = s].bins = [h.bins EXCEPT ![b] = s]
           /\ [h EXCEPT !.bins[b] = s].node = h.node
           /\ [h EXCEPT !.bins[b] = s].foot = h.foot
           /\ [h EXCEPT !.bins[b] = s].end = h.end
<1> DEFINE g == [h.bins EXCEPT ![b] = s]
           w == [h EXCEPT !.bins[b] = s]
<1>1. w = [node |-> h.node, foot |-> h.foot, end |-> h.end, bins |-> g]
  <2>1. w = [h EXCEPT !.bins = g]
    BY AssignField DEF IsHeap
  <2> HIDE DEF g, w
  <2> QED BY <2>1, AssignField
<1>2. g \in [Bin -> Seq(0 .. LastHead)]
  BY DEF IsHeap
<1> HIDE DEF g, w
<1>5. w.node = h.node /\ w.foot = h.foot /\ w.end = h.end /\ w.bins = g
  BY <1>1
<1>6. IsHeap(w)
  BY <1>1, <1>2, <1>5 DEF IsHeap
<1> QED BY <1>5, <1>6 DEF g, w

-----------------------------------------------------------------------------
(* How the chunks lie.                                                     *)

\* The address arithmetic, for a chunk.
LEMMA Addresses ==
    ASSUME NEW h, IsHeap(h), NEW a \in DOMAIN h.node
    PROVE  /\ a \in Nat /\ a + 20 <= Top
           /\ h.node[a].size \in Nat /\ h.node[a].hole \in BOOLEAN
           /\ SizeOf(h, a) = h.node[a].size
           /\ get_foot(h, a) = a + 16 + h.node[a].size
           /\ NextChunk(h, a) = a + 20 + h.node[a].size
<1>1. a \in 0 .. LastHead /\ h.node[a] \in [hole : BOOLEAN, size : Nat]
  BY DEF IsHeap
<1> QED
  BY <1>1, ConstantsTyped DEF SizeOf, get_foot, NextChunk, SizeofNode, SizeofFooter

\* Layout, in numbers.
LEMMA LayoutNumbers ==
    ASSUME NEW h, IsHeap(h)
    PROVE  Layout(h) <=>
             /\ 0 \in DOMAIN h.node
             /\ \A a \in DOMAIN h.node :
                  a + 20 + h.node[a].size \in DOMAIN h.node \cup {Top}
             /\ \A a, b \in DOMAIN h.node : a < b => a + 20 + h.node[a].size <= b
             /\ \A a \in (DOMAIN h.node \ {0}) \cup {Top} :
                  \E p \in DOMAIN h.node : p + 20 + h.node[p].size = a
             /\ DOMAIN h.foot = {a + 16 + h.node[a].size : a \in DOMAIN h.node}
             /\ \A a \in DOMAIN h.node : h.foot[a + 16 + h.node[a].size] = a
<1>1. \A a \in DOMAIN h.node : /\ get_foot(h, a) = a + 16 + h.node[a].size
                               /\ NextChunk(h, a) = a + 20 + h.node[a].size
  BY Addresses
<1>2. {get_foot(h, a) : a \in DOMAIN h.node} = {a + 16 + h.node[a].size : a \in DOMAIN h.node}
  BY <1>1
<1>3. start = 0
  BY DEF start
<1>4. (\A a \in DOMAIN h.node : NextChunk(h, a) \in DOMAIN h.node \cup {Top})
      <=> \A a \in DOMAIN h.node : a + 20 + h.node[a].size \in DOMAIN h.node \cup {Top}
  BY <1>1
<1>5. (\A a, b \in DOMAIN h.node : a < b => NextChunk(h, a) <= b)
      <=> \A a, b \in DOMAIN h.node : a < b => a + 20 + h.node[a].size <= b
  BY <1>1
<1>6. ASSUME NEW a
      PROVE  (\E p \in DOMAIN h.node : NextChunk(h, p) = a)
             <=> \E p \in DOMAIN h.node : p + 20 + h.node[p].size = a
  BY <1>1
<1>7. (\A a \in DOMAIN h.node : h.foot[get_foot(h, a)] = a)
      <=> \A a \in DOMAIN h.node : h.foot[a + 16 + h.node[a].size] = a
  BY <1>1
<1> QED BY <1>2, <1>3, <1>4, <1>5, <1>6, <1>7, Zenon DEF Layout

\* Layout does not depend on which chunks are holes.
LEMMA LayoutSame ==
    ASSUME NEW h, NEW r, IsHeap(h), IsHeap(r), Layout(h),
           DOMAIN r.node = DOMAIN h.node, r.foot = h.foot,
           \A a \in DOMAIN h.node : r.node[a].size = h.node[a].size
    PROVE  Layout(r)
<1>1. {a + 16 + h.node[a].size : a \in DOMAIN h.node}
        = {a + 16 + r.node[a].size : a \in DOMAIN r.node}
  OBVIOUS
<1>2. \A a \in DOMAIN h.node : r.node[a].size = h.node[a].size
  OBVIOUS
<1>3. /\ 0 \in DOMAIN r.node
      /\ \A a \in DOMAIN r.node : a + 20 + r.node[a].size \in DOMAIN r.node \cup {Top}
      /\ \A a, b \in DOMAIN r.node : a < b => a + 20 + r.node[a].size <= b
  BY <1>2, LayoutNumbers
<1>4. \A a \in (DOMAIN r.node \ {0}) \cup {Top} :
         \E p \in DOMAIN r.node : p + 20 + r.node[p].size = a
  <2>1. SUFFICES ASSUME NEW a \in (DOMAIN h.node \ {0}) \cup {Top}
                 PROVE  \E p \in DOMAIN r.node : p + 20 + r.node[p].size = a
    OBVIOUS
  <2>2. PICK p \in DOMAIN h.node : p + 20 + h.node[p].size = a
    BY LayoutNumbers, Zenon
  <2> QED BY <1>2, <2>2
<1>5. /\ DOMAIN r.foot = {a + 16 + r.node[a].size : a \in DOMAIN r.node}
      /\ \A a \in DOMAIN r.node : r.foot[a + 16 + r.node[a].size] = a
  BY <1>1, <1>2, LayoutNumbers
<1> QED BY <1>3, <1>4, <1>5, LayoutNumbers

\* heap_alloc cuts a chunk in two.
LEMMA SplitKeepsLayout ==
    ASSUME NEW h, NEW r, IsHeap(h), IsHeap(r), Layout(h),
           NEW f \in DOMAIN h.node, NEW sz \in Nat, NEW cut, NEW rest \in Nat,
           cut = f + 20 + sz, h.node[f].size = sz + 20 + rest,
           DOMAIN r.node = DOMAIN h.node \cup {cut},
           \A a \in DOMAIN r.node : r.node[a].size =
               IF a = f THEN sz ELSE IF a = cut THEN rest ELSE h.node[a].size,
           DOMAIN r.foot = DOMAIN h.foot \cup {f + 16 + sz, cut + 16 + rest},
           \A x \in DOMAIN r.foot : r.foot[x] =
               IF x = f + 16 + sz THEN f ELSE IF x = cut + 16 + rest THEN cut ELSE h.foot[x]
    PROVE  Layout(r)
<1> DEFINE N == DOMAIN h.node
           Nx(a) == a + 20 + h.node[a].size
           Rx(a) == a + 20 + r.node[a].size
<1>1. \A a \in N : a \in Nat /\ h.node[a].size \in Nat /\ Nx(a) \in Nat
  BY Addresses
<1>2. \A a, b \in N : a < b => Nx(a) <= b
  BY LayoutNumbers
<1>3. cut \notin N /\ cut \in Nat /\ f < cut /\ cut < Nx(f)
  BY <1>1, <1>2
<1>4. /\ Rx(f) = cut /\ Rx(cut) = Nx(f)
      /\ \A a \in N \ {f} : Rx(a) = Nx(a)
  BY <1>1, <1>3
<1>5. 0 \in DOMAIN r.node /\ \A a \in DOMAIN r.node : Rx(a) \in DOMAIN r.node \cup {Top}
  BY <1>4, LayoutNumbers
<1>6. ASSUME NEW a \in DOMAIN r.node, NEW b \in DOMAIN r.node, a < b PROVE Rx(a) <= b
  <2>1. CASE a \in N \ {f} /\ b \in N
    BY <1>2, <1>4, <1>6, <2>1
  <2>2. CASE a \in N \ {f} /\ b = cut
    <3>1. ~(f < a)
      BY <1>1, <1>2, <1>3, <1>6, <2>2
    <3>2. Nx(a) <= f
      BY <1>1, <1>2, <2>2, <3>1
    <3> QED BY <1>1, <1>3, <1>4, <2>2, <3>2
  <2>3. CASE a = f /\ b \in N
    BY <1>1, <1>2, <1>3, <1>4, <1>6, <2>3
  <2>4. CASE a = f /\ b = cut
    BY <1>4, <1>3, <2>4
  <2>5. CASE a = cut /\ b \in N
    <3>1. f < b
      BY <1>1, <1>3, <1>6, <2>5
    <3> QED BY <1>2, <1>4, <2>5, <3>1
  <2> QED BY <1>6, <2>1, <2>2, <2>3, <2>4, <2>5
<1>7. ASSUME NEW a \in (DOMAIN r.node \ {0}) \cup {Top}
      PROVE  \E p \in DOMAIN r.node : Rx(p) = a
  <2>1. CASE a = cut
    BY <1>4, <2>1
  <2>2. CASE a # cut
    <3>1. PICK p \in N : Nx(p) = a
      BY <2>2, LayoutNumbers
    <3>2. CASE p = f
      BY <1>4, <3>1, <3>2
    <3>3. CASE p # f
      BY <1>4, <3>1, <3>3
    <3> QED BY <3>2, <3>3
  <2> QED BY <2>1, <2>2
<1>8. DOMAIN r.foot = {a + 16 + r.node[a].size : a \in DOMAIN r.node}
  <2>1. DOMAIN h.foot = {a + 16 + h.node[a].size : a \in N}
    BY LayoutNumbers
  <2>2. /\ f + 16 + r.node[f].size = f + 16 + sz
        /\ cut + 16 + r.node[cut].size = cut + 16 + rest
        /\ f + 16 + h.node[f].size = cut + 16 + rest
        /\ \A a \in N \ {f} : r.node[a].size = h.node[a].size
    BY <1>1, <1>3
  <2>3. ASSUME NEW x \in DOMAIN r.foot
        PROVE  \E a \in DOMAIN r.node : x = a + 16 + r.node[a].size
    BY <2>1, <2>2
  <2>4. ASSUME NEW a \in DOMAIN r.node PROVE a + 16 + r.node[a].size \in DOMAIN r.foot
    BY <2>1, <2>2
  <2> QED BY <2>3, <2>4
<1>9. ASSUME NEW a \in DOMAIN r.node PROVE r.foot[a + 16 + r.node[a].size] = a
  <2>1. a + 16 + r.node[a].size \in DOMAIN r.foot
    BY <1>8
  <2>2. CASE a = f
    BY <1>3, <2>1, <2>2
  <2>3. CASE a = cut
    <3>1. f \in Nat /\ cut # f /\ cut + 16 + rest # f + 16 + sz
      BY <1>1, <1>3
    <3>2. r.node[cut].size = rest
      BY <2>3, <3>1
    <3> QED BY <2>1, <2>3, <3>1, <3>2
  <2>4. CASE a \in N \ {f}
    <3>1. r.node[a].size = h.node[a].size /\ h.foot[a + 16 + h.node[a].size] = a
      BY <1>3, <2>4, LayoutNumbers
    <3>2. Nx(a) # cut /\ Nx(a) # Nx(f)
      <4>1. CASE a < f
        BY <1>1, <1>2, <1>3, <2>4, <4>1
      <4>2. CASE f < a
        BY <1>1, <1>2, <1>3, <2>4, <4>2
      <4> QED BY <1>1, <2>4, <4>1, <4>2
    <3>3. a + 16 + h.node[a].size # f + 16 + sz /\ a + 16 + h.node[a].size # cut + 16 + rest
      BY <1>1, <1>3, <2>4, <3>2
    <3> QED BY <2>1, <3>1, <3>3
  <2> QED BY <2>2, <2>3, <2>4
<1> QED BY <1>5, <1>6, <1>7, <1>8, <1>9, LayoutNumbers

\* heap_free makes one chunk of two neighbours.
LEMMA MergeKeepsLayout ==
    ASSUME NEW h, NEW r, IsHeap(h), IsHeap(r), Layout(h),
           NEW n \in DOMAIN h.node, NEW m \in DOMAIN h.node,
           m = n + 20 + h.node[n].size,
           DOMAIN r.node = DOMAIN h.node \ {m},
           \A a \in DOMAIN r.node : r.node[a].size =
               IF a = n THEN h.node[n].size + 20 + h.node[m].size ELSE h.node[a].size,
           DOMAIN r.foot = DOMAIN h.foot \ {m - 4},
           \A x \in DOMAIN r.foot : r.foot[x] =
               IF x = m + 16 + h.node[m].size THEN n ELSE h.foot[x]
    PROVE  Layout(r)
<1> DEFINE N == DOMAIN h.node
           Nx(a) == a + 20 + h.node[a].size
           Rx(a) == a + 20 + r.node[a].size
<1>1. \A a \in N : a \in Nat /\ h.node[a].size \in Nat /\ Nx(a) \in Nat
  BY Addresses
<1>2. \A a, b \in N : a < b => Nx(a) <= b
  BY LayoutNumbers
<1>3. n < m /\ n # m /\ m # 0 /\ n \in DOMAIN r.node
  BY <1>1
<1>4. Rx(n) = Nx(m) /\ \A a \in N \ {n, m} : Rx(a) = Nx(a)
  BY <1>1, <1>3
<1>5. \A a \in N \ {n} : Nx(a) # m
  <2>1. SUFFICES ASSUME NEW a \in N \ {n}, Nx(a) = m PROVE FALSE
    OBVIOUS
  <2>2. CASE a < n
    BY <1>1, <1>2, <1>3, <2>1, <2>2
  <2>3. CASE n < a
    BY <1>1, <1>2, <2>1, <2>3
  <2> QED BY <1>1, <2>2, <2>3
<1>6. 0 \in DOMAIN r.node /\ \A a \in DOMAIN r.node : Rx(a) \in DOMAIN r.node \cup {Top}
  <2>1. 0 \in DOMAIN r.node
    BY <1>3, LayoutNumbers
  <2>2. ASSUME NEW a \in N, a # n PROVE Nx(a) \in DOMAIN r.node \cup {Top}
    <3>1. Nx(a) \in N \cup {Top} /\ Nx(a) # m
      BY <1>5, <2>2, LayoutNumbers
    <3> QED BY <3>1
  <2> QED BY <1>3, <1>4, <2>1, <2>2
<1>7. ASSUME NEW a \in DOMAIN r.node, NEW b \in DOMAIN r.node, a < b PROVE Rx(a) <= b
  <2>1. CASE a # n
    BY <1>2, <1>4, <1>7, <2>1
  <2>2. CASE a = n
    <3>1. b \in N /\ b # m /\ m <= b
      BY <1>2, <1>7, <2>2
    <3>2. m < b
      BY <1>1, <3>1
    <3>3. Nx(m) <= b
      BY <1>2, <3>1, <3>2
    <3> QED BY <1>4, <2>2, <3>3
  <2> QED BY <2>1, <2>2
<1>8. ASSUME NEW a \in (DOMAIN r.node \ {0}) \cup {Top}
      PROVE  \E p \in DOMAIN r.node : Rx(p) = a
  <2>1. PICK p \in N : Nx(p) = a
    BY LayoutNumbers
  <2>2. m # Top
    BY <1>1, Addresses
  <2>3. p # n
    BY <2>1, <2>2
  <2>4. CASE p = m
    BY <1>3, <1>4, <2>1, <2>4
  <2>5. CASE p # m
    BY <1>4, <2>1, <2>3, <2>5
  <2> QED BY <2>4, <2>5
<1>9. /\ n + 16 + r.node[n].size = m + 16 + h.node[m].size
      /\ n + 16 + h.node[n].size = m - 4
      /\ \A a \in N \ {n, m} : r.node[a].size = h.node[a].size
  BY <1>1, <1>3
<1>10. \A a \in N \ {n} : a + 16 + h.node[a].size # m - 4
  BY <1>1, <1>5
<1>11. DOMAIN h.foot = {a + 16 + h.node[a].size : a \in N}
  BY LayoutNumbers
<1>12. DOMAIN r.foot = {a + 16 + r.node[a].size : a \in DOMAIN r.node}
  <2>1. ASSUME NEW x \in DOMAIN r.foot
        PROVE  \E a \in DOMAIN r.node : x = a + 16 + r.node[a].size
    <3>1. PICK a \in N : x = a + 16 + h.node[a].size
      BY <1>11
    <3>2. a # n
      BY <1>9, <3>1
    <3> QED BY <1>3, <1>9, <3>1, <3>2
  <2>2. ASSUME NEW a \in DOMAIN r.node PROVE a + 16 + r.node[a].size \in DOMAIN r.foot
    <3>1. CASE a = n
      <4>1. m + 16 + h.node[m].size \in DOMAIN h.foot
            /\ m + 16 + h.node[m].size # m - 4
        BY <1>3, <1>10, <1>11
      <4> QED BY <1>9, <3>1, <4>1
    <3>2. CASE a # n
      BY <1>9, <1>10, <1>11, <3>2
    <3> QED BY <3>1, <3>2
  <2> QED BY <2>1, <2>2
<1>13. ASSUME NEW a \in DOMAIN r.node PROVE r.foot[a + 16 + r.node[a].size] = a
  <2>1. a + 16 + r.node[a].size \in DOMAIN r.foot
    BY <1>12
  <2>2. CASE a = n
    BY <1>9, <2>1, <2>2
  <2>3. CASE a # n
    <3>1. a \in N \ {n, m} /\ r.node[a].size = h.node[a].size
      BY <1>9, <2>3
    <3>2. h.foot[a + 16 + h.node[a].size] = a
      BY <3>1, LayoutNumbers
    <3>3. Nx(a) # Nx(m)
      <4>1. CASE a < m
        BY <1>1, <1>2, <3>1, <4>1
      <4>2. CASE m < a
        BY <1>1, <1>2, <3>1, <4>2
      <4> QED BY <1>1, <3>1, <4>1, <4>2
    <3>4. a + 16 + h.node[a].size # m + 16 + h.node[m].size
      BY <1>1, <3>1, <3>3
    <3> QED BY <2>1, <3>1, <3>2, <3>4
  <2> QED BY <2>2, <2>3
<1> QED BY <1>6, <1>7, <1>8, <1>12, <1>13, LayoutNumbers

-----------------------------------------------------------------------------
(* Sequences.                                                              *)

\* Min is the least element.
LEMMA FirstPlace ==
    ASSUME NEW T, T \subseteq Nat, T # {}
    PROVE  Min(T) \in T /\ \A j \in T : Min(T) <= j
<1>1. \E x \in T : \A y \in T : x <= y
  BY LeastElement
<1> QED BY <1>1 DEF Min

\* RemoveAt takes one place out.
LEMMA RemoveAtPlaces ==
    ASSUME NEW S, NEW s \in Seq(S), NEW k \in 1 .. Len(s)
    PROVE  /\ RemoveAt(s, k) \in Seq(S)
           /\ Len(RemoveAt(s, k)) = Len(s) - 1
           /\ \A i \in 1 .. Len(s) - 1 :
                RemoveAt(s, k)[i] = IF i < k THEN s[i] ELSE s[i + 1]
<1> DEFINE a == SubSeq(s, 1, k - 1)
           b == SubSeq(s, k + 1, Len(s))
<1>1. /\ a \in Seq(S) /\ Len(a) = k - 1
      /\ \A i \in 1 .. k - 1 : a[i] = s[i]
  BY SubSeqProperties
<1>2. /\ b \in Seq(S) /\ Len(b) = Len(s) - k
      /\ \A i \in 1 .. Len(s) - k : b[i] = s[i + k]
  BY SubSeqProperties
<1>3. RemoveAt(s, k) = a \o b
  BY DEF RemoveAt
<1> HIDE DEF a, b
<1>4. /\ a \o b \in Seq(S) /\ Len(a \o b) = Len(s) - 1
      /\ \A i \in 1 .. Len(s) - 1 :
           (a \o b)[i] = IF i <= k - 1 THEN a[i] ELSE b[i - (k - 1)]
  BY <1>1, <1>2, ConcatProperties
<1>5. ASSUME NEW i \in 1 .. Len(s) - 1 PROVE (a \o b)[i] = IF i < k THEN s[i] ELSE s[i + 1]
  <2>1. CASE i < k
    BY <1>1, <1>4, <2>1
  <2>2. CASE ~(i < k)
    <3>1. i - (k - 1) \in 1 .. Len(s) - k /\ (i - (k - 1)) + k = i + 1
      BY <2>2
    <3> QED BY <1>2, <1>4, <2>2, <3>1
  <2> QED BY <2>1, <2>2
<1> QED BY <1>3, <1>4, <1>5

\* remove_node unlinks the first node that is the one, or nothing.
LEMMA RemoveFirstPlaces ==
    ASSUME NEW S, NEW s \in Seq(S), NEW e
    PROVE  /\ e \notin Range(s) => RemoveFirst(s, e) = s
           /\ e \in Range(s) => \E k \in 1 .. Len(s) :
                 s[k] = e /\ RemoveFirst(s, e) = RemoveAt(s, k)
           /\ RemoveFirst(s, e) \in Seq(S)
<1> DEFINE T == {i \in 1 .. Len(s) : s[i] = e}
<1>1. e \in Range(s) <=> \E i \in 1 .. Len(s) : s[i] = e
  BY DEF Range
<1>2. CASE e \notin Range(s)
  BY <1>1, <1>2 DEF RemoveFirst
<1>3. CASE e \in Range(s)
  <2>1. T # {} /\ T \subseteq Nat
    BY <1>1, <1>3
  <2>2. SelectInSeq(s, LAMBDA v : v = e) = Min(T)
    BY <2>1 DEF SelectInSeq
  <2>3. Min(T) \in T
    BY <2>1, FirstPlace
  <2>4. RemoveFirst(s, e) = RemoveAt(s, Min(T))
    BY <1>1, <1>3, <2>2 DEF RemoveFirst
  <2>5. Min(T) \in 1 .. Len(s) /\ s[Min(T)] = e
    BY <2>3
  <2> QED BY <1>3, <2>4, <2>5, RemoveAtPlaces
<1> QED BY <1>2, <1>3

\* InsertAt puts one element between the others.
LEMMA InsertAtPlaces ==
    ASSUME NEW S, NEW s \in Seq(S), NEW k \in 1 .. Len(s) + 1, NEW e \in S
    PROVE  /\ InsertAt(s, k, e) \in Seq(S)
           /\ Len(InsertAt(s, k, e)) = Len(s) + 1
           /\ \A i \in 1 .. Len(s) + 1 :
                InsertAt(s, k, e)[i] = IF i < k THEN s[i] ELSE IF i = k THEN e ELSE s[i - 1]
<1> DEFINE a == SubSeq(s, 1, k - 1)
           b == SubSeq(s, k, Len(s))
           c == a \o <<e>>
<1>1. /\ a \in Seq(S) /\ Len(a) = k - 1
      /\ \A i \in 1 .. k - 1 : a[i] = s[i]
  BY SubSeqProperties
<1>2. /\ b \in Seq(S) /\ Len(b) = Len(s) - k + 1
      /\ \A i \in 1 .. Len(s) - k + 1 : b[i] = s[i + k - 1]
  BY SubSeqProperties
<1>3. InsertAt(s, k, e) = c \o b
  BY DEF InsertAt
<1> HIDE DEF a, b
<1>4. /\ c \in Seq(S) /\ Len(c) = k
      /\ \A i \in 1 .. k : c[i] = IF i < k THEN a[i] ELSE e
  BY <1>1
<1> HIDE DEF c
<1>5. /\ c \o b \in Seq(S) /\ Len(c \o b) = Len(s) + 1
      /\ \A i \in 1 .. Len(s) + 1 : (c \o b)[i] = IF i <= k THEN c[i] ELSE b[i - k]
  BY <1>2, <1>4
<1>6. ASSUME NEW i \in 1 .. Len(s) + 1
      PROVE (c \o b)[i] = IF i < k THEN s[i] ELSE IF i = k THEN e ELSE s[i - 1]
  <2>1. CASE i < k
    BY <1>1, <1>4, <1>5, <2>1
  <2>2. CASE i = k
    BY <1>4, <1>5, <2>2
  <2>3. CASE ~(i < k) /\ i # k
    <3>1. i - k \in 1 .. Len(s) - k + 1 /\ (i - k) + k - 1 = i - 1
      BY <2>3
    <3> QED BY <1>2, <1>5, <2>3, <3>1
  <2> QED BY <2>1, <2>2, <2>3
<1> QED BY <1>3, <1>5, <1>6

-----------------------------------------------------------------------------
(* The bins.                                                               *)

\* The size of a chunk, or 0, is a number.
LEMMA SizeTyped == \A h, n : IsHeap(h) => SizeOf(h, n) \in Nat
BY DEF IsHeap, SizeOf

\* Taking an element out keeps a bin sorted.
LEMMA RemoveSorted ==
    ASSUME NEW h, NEW S, NEW s \in Seq(S), SortedBin(h, s), NEW n
    PROVE  /\ Range(RemoveFirst(s, n)) = Range(s) \ {n}
           /\ SortedBin(h, RemoveFirst(s, n))
<1> DEFINE r == RemoveFirst(s, n)
<1>1. CASE n \notin Range(s)
  BY <1>1, RemoveFirstPlaces
<1>2. CASE n \in Range(s)
  <2>1. PICK k \in 1 .. Len(s) : s[k] = n /\ r = RemoveAt(s, k)
    BY <1>2, RemoveFirstPlaces
  <2> HIDE DEF r
  <2>2. /\ r \in Seq(S) /\ Len(s) \in Nat /\ Len(r) = Len(s) - 1
        /\ \A i \in 1 .. Len(s) - 1 : r[i] = IF i < k THEN s[i] ELSE s[i + 1]
    <3>1. Len(s) \in Nat
      OBVIOUS
    <3>2. /\ RemoveAt(s, k) \in Seq(S) /\ Len(RemoveAt(s, k)) = Len(s) - 1
          /\ \A i \in 1 .. Len(s) - 1 :
               RemoveAt(s, k)[i] = IF i < k THEN s[i] ELSE s[i + 1]
      BY RemoveAtPlaces
    <3> QED BY <2>1, <3>1, <3>2
  <2>3. \A i, j \in 1 .. Len(s) : i < j =>
            s[i] # s[j] /\ h.node[s[i]].size <= h.node[s[j]].size
    BY DEF SortedBin
  <2>4. ASSUME NEW i \in 1 .. Len(r), NEW j \in 1 .. Len(r), i < j
        PROVE  r[i] # r[j] /\ h.node[r[i]].size <= h.node[r[j]].size
    <3> DEFINE I == IF i < k THEN i ELSE i + 1
               J == IF j < k THEN j ELSE j + 1
    <3>1. I \in 1 .. Len(s) /\ J \in 1 .. Len(s) /\ I < J
      BY <2>2, <2>4
    <3>2. r[i] = s[I] /\ r[j] = s[J]
      BY <2>2
    <3> HIDE DEF I, J
    <3> QED BY <2>3, <3>1, <3>2
  <2>5. Range(r) = {r[i] : i \in 1 .. Len(r)} /\ Range(s) = {s[i] : i \in 1 .. Len(s)}
    BY <2>2 DEF Range
  <2>6. ASSUME NEW i \in 1 .. Len(r) PROVE r[i] \in Range(s) \ {n}
    <3> DEFINE I == IF i < k THEN i ELSE i + 1
    <3>1. I \in 1 .. Len(s) /\ r[i] = s[I] /\ I # k
      BY <2>2
    <3> HIDE DEF I
    <3>2. I < k \/ k < I
      BY <3>1
    <3>3. s[I] # s[k]
      BY <2>3, <3>1, <3>2
    <3> QED BY <2>1, <2>5, <3>1, <3>3
  <2>7. ASSUME NEW i \in 1 .. Len(s), s[i] # n PROVE s[i] \in Range(r)
    <3>1. CASE i < k
      <4>1. i \in 1 .. Len(r) /\ r[i] = s[i]
        BY <2>2, <3>1
      <4> QED BY <2>5, <4>1
    <3>2. CASE ~(i < k)
      <4>1. i # k
        BY <2>1, <2>7
      <4>2. i - 1 \in 1 .. Len(r) /\ r[i - 1] = s[i]
        BY <2>2, <3>2, <4>1
      <4> QED BY <2>5, <4>2
    <3> QED BY <3>1, <3>2
  <2>8. SortedBin(h, r)
    BY <2>4 DEF SortedBin
  <2>9. Range(r) = Range(s) \ {n}
    BY <2>5, <2>6, <2>7
  <2> QED BY <2>8, <2>9 DEF r
<1> QED BY <1>1, <1>2

\* remove_node changes one bin.
LEMMA RemoveNode ==
    ASSUME NEW h, IsHeap(h), NEW b \in Bin, NEW n
    PROVE  /\ IsHeap(remove_node(h, b, n))
           /\ remove_node(h, b, n).node = h.node
           /\ remove_node(h, b, n).foot = h.foot
           /\ remove_node(h, b, n).end = h.end
           /\ remove_node(h, b, n).bins = [h.bins EXCEPT ![b] = RemoveFirst(h.bins[b], n)]
<1> DEFINE s == RemoveFirst(h.bins[b], n)
<1>1. s \in Seq(0 .. LastHead)
  BY RemoveFirstPlaces DEF IsHeap
<1>2. remove_node(h, b, n) = [h EXCEPT !.bins[b] = s]
  BY DEF remove_node
<1> HIDE DEF s
<1>3. /\ IsHeap(remove_node(h, b, n))
      /\ remove_node(h, b, n).bins = [h.bins EXCEPT ![b] = s]
      /\ remove_node(h, b, n).node = h.node
      /\ remove_node(h, b, n).foot = h.foot
      /\ remove_node(h, b, n).end = h.end
  BY <1>1, <1>2, WriteBin
<1> QED BY <1>3 DEF s

\* remove_node changes bins only.
LEMMA RemoveNodeKeeps ==
    ASSUME NEW h, IsHeap(h), NEW b \in Bin, NEW n
    PROVE  /\ IsHeap(remove_node(h, b, n))
           /\ remove_node(h, b, n).node = h.node
           /\ remove_node(h, b, n).foot = h.foot
           /\ remove_node(h, b, n).end = h.end
<1> DEFINE s == RemoveFirst(h.bins[b], n)
<1>1. s \in Seq(0 .. LastHead)
  BY RemoveFirstPlaces DEF IsHeap
<1>2. remove_node(h, b, n) = [h EXCEPT !.bins[b] = s]
  BY DEF remove_node
<1> HIDE DEF s
<1> QED BY <1>1, <1>2, WriteBin

\* The bins without a node that is in no other bin than b.
LEMMA BinsRemove ==
    ASSUME NEW h, IsHeap(h), NEW X, BinsKeep(h, X), NEW b \in Bin, NEW n,
           \A c \in Bin \ {b} : n \notin HolesOf(h, X, c)
    PROVE  BinsKeep(remove_node(h, b, n), X \cup {n})
<1> DEFINE w == remove_node(h, b, n)
<1>1. w.node = h.node /\ w.bins = [h.bins EXCEPT ![b] = RemoveFirst(h.bins[b], n)]
  BY RemoveNode
<1> HIDE DEF w
<1>2. h.bins \in [Bin -> Seq(0 .. LastHead)]
  BY DEF IsHeap
<1>3. ASSUME NEW c \in Bin
      PROVE  Range(w.bins[c]) = HolesOf(w, X \cup {n}, c) /\ SortedBin(w, w.bins[c])
  <2>1. HolesOf(w, X \cup {n}, c) = HolesOf(h, X, c) \ {n}
    BY <1>1 DEF HolesOf
  <2>2. \A s : SortedBin(w, s) <=> SortedBin(h, s)
    BY <1>1 DEF SortedBin
  <2>3. Range(h.bins[c]) = HolesOf(h, X, c) /\ SortedBin(h, h.bins[c])
    BY DEF BinsKeep
  <2>4. CASE c = b
    <3>1. w.bins[c] = RemoveFirst(h.bins[c], n) /\ h.bins[c] \in Seq(0 .. LastHead)
      BY <1>1, <1>2, <2>4
    <3>2. /\ Range(RemoveFirst(h.bins[c], n)) = Range(h.bins[c]) \ {n}
          /\ SortedBin(h, RemoveFirst(h.bins[c], n))
      BY <2>3, <3>1, RemoveSorted
    <3> QED BY <2>1, <2>2, <2>3, <3>1, <3>2
  <2>5. CASE c # b
    <3>1. w.bins[c] = h.bins[c]
      BY <1>1, <1>2, <2>5
    <3>2. HolesOf(h, X, c) \ {n} = HolesOf(h, X, c)
      BY <2>5
    <3> QED BY <2>1, <2>2, <2>3, <3>1, <3>2
  <2> QED BY <2>4, <2>5
<1> QED BY <1>3 DEF BinsKeep, w

\* The bins of another heap with the same holes.
LEMMA BinsSame ==
    ASSUME NEW h, NEW r, NEW X, NEW Y, BinsKeep(h, X), r.bins = h.bins,
           {c \in DOMAIN r.node \ Y : r.node[c].hole} = {c \in DOMAIN h.node \ X : h.node[c].hole},
           \A c \in {c \in DOMAIN h.node \ X : h.node[c].hole} :
               r.node[c].size = h.node[c].size
    PROVE  BinsKeep(r, Y)
<1> DEFINE H == {c \in DOMAIN h.node \ X : h.node[c].hole}
<1>1. /\ \A b : HolesOf(h, X, b) = {c \in H : get_bin_index(h.node[c].size) = b}
      /\ \A b : HolesOf(r, Y, b) = {c \in H : get_bin_index(r.node[c].size) = b}
  BY Zenon DEF HolesOf
<1>2. \A c \in H : r.node[c].size = h.node[c].size
  OBVIOUS
<1> HIDE DEF H
<1>3. ASSUME NEW b \in Bin
      PROVE  Range(r.bins[b]) = HolesOf(r, Y, b) /\ SortedBin(r, r.bins[b])
  <2>1. Range(h.bins[b]) = HolesOf(h, X, b) /\ SortedBin(h, h.bins[b])
    BY DEF BinsKeep
  <2>2. HolesOf(r, Y, b) = HolesOf(h, X, b)
    <3>1. \A c : c \in HolesOf(h, X, b) <=> c \in H /\ get_bin_index(h.node[c].size) = b
      BY <1>1, Zenon
    <3>2. \A c : c \in HolesOf(r, Y, b) <=> c \in H /\ get_bin_index(r.node[c].size) = b
      BY <1>1, Zenon
    <3>3. \A c : c \in HolesOf(r, Y, b) <=> c \in HolesOf(h, X, b)
      BY <1>2, <3>1, <3>2, Zenon
    <3> QED BY <3>3
  <2>3. ASSUME NEW i \in 1 .. Len(h.bins[b]) PROVE h.bins[b][i] \in Range(h.bins[b])
    BY DEF Range
  <2>4. SortedBin(r, h.bins[b])
    <3>1. ASSUME NEW i \in 1 .. Len(h.bins[b])
          PROVE  r.node[h.bins[b][i]].size = h.node[h.bins[b][i]].size
      <4>1. h.bins[b][i] \in HolesOf(h, X, b)
        BY <2>1, <2>3
      <4>2. h.bins[b][i] \in H
        BY <1>1, <4>1, Zenon
      <4> QED BY <1>2, <4>2
    <3> QED BY <2>1, <3>1 DEF SortedBin
  <2> QED BY <2>1, <2>2, <2>4
<1> QED BY <1>3 DEF BinsKeep

\* add_node puts the node behind those that are not larger, in the bin of its size.
LEMMA AddNode ==
    ASSUME NEW h, IsHeap(h), NEW n \in 0 .. LastHead
    PROVE  LET w == add_node(h, n)
               b == get_bin_index(SizeOf(h, n))
               s == h.bins[b] IN
           /\ IsHeap(w) /\ w.node = h.node /\ w.foot = h.foot /\ w.end = h.end
           /\ b \in Bin /\ s \in Seq(0 .. LastHead)
           /\ \E at \in 1 .. Len(s) + 1 :
                /\ w.bins = [h.bins EXCEPT ![b] = InsertAt(s, at, n)]
                /\ \A i \in 1 .. Len(s) : i < at => SizeOf(h, s[i]) <= SizeOf(h, n)
                /\ at <= Len(s) => SizeOf(h, s[at]) > SizeOf(h, n)
<1> DEFINE w == add_node(h, n)
           b == get_bin_index(SizeOf(h, n))
           s == h.bins[b]
           larger == {i \in DOMAIN s : SizeOf(h, s[i]) > SizeOf(h, n)}
           at == IF larger = {} THEN Len(s) + 1
                 ELSE CHOOSE i \in larger : \A j \in larger : i <= j
<1>1. w = [h EXCEPT !.bins[b] = InsertAt(s, at, n)]
  BY DEF add_node
<1>2. b \in Bin
  BY BinIndex, SizeTyped
<1> HIDE DEF b
<1>3. s \in Seq(0 .. LastHead)
  BY <1>2 DEF IsHeap
<1> HIDE DEF s
<1>4. DOMAIN s = 1 .. Len(s) /\ Len(s) \in Nat
  BY <1>3
<1>5. \A i : SizeOf(h, s[i]) \in Nat /\ SizeOf(h, n) \in Nat
  BY SizeTyped
<1>6. /\ at \in 1 .. Len(s) + 1
      /\ \A i \in 1 .. Len(s) : i < at => SizeOf(h, s[i]) <= SizeOf(h, n)
      /\ at <= Len(s) => SizeOf(h, s[at]) > SizeOf(h, n)
  <2>1. CASE larger = {}
    <3>1. at = Len(s) + 1 /\ ~(at <= Len(s))
      BY <1>4, <2>1
    <3>2. ASSUME NEW i \in 1 .. Len(s) PROVE SizeOf(h, s[i]) <= SizeOf(h, n)
      <4>1. ~(SizeOf(h, s[i]) > SizeOf(h, n))
        BY <1>4, <2>1
      <4>2. SizeOf(h, s[i]) \in Nat /\ SizeOf(h, n) \in Nat
        BY <1>5
      <4> QED BY ONLY <4>1, <4>2
    <3> HIDE DEF at
    <3> QED BY <1>4, <3>1, <3>2
  <2>2. CASE larger # {}
    <3>1. larger \subseteq 1 .. Len(s) /\ larger \subseteq Nat
      BY <1>4
    <3> HIDE DEF larger
    <3>2. \E i \in larger : \A j \in larger : i <= j
      BY <2>2, <3>1, LeastElement
    <3>3. at \in larger /\ \A j \in larger : at <= j
      BY <2>2, <3>2
    <3> HIDE DEF at
    <3>4. at \in 1 .. Len(s)
      BY <3>1, <3>3
    <3>5. ASSUME NEW i \in 1 .. Len(s), i < at PROVE SizeOf(h, s[i]) <= SizeOf(h, n)
      <4>1. i \notin larger
        BY <3>1, <3>3, <3>5
      <4>2. ~(SizeOf(h, s[i]) > SizeOf(h, n))
        BY <1>4, <4>1 DEF larger
      <4>3. SizeOf(h, s[i]) \in Nat /\ SizeOf(h, n) \in Nat
        BY <1>5
      <4> QED BY ONLY <4>2, <4>3
    <3> QED BY <1>4, <3>3, <3>4, <3>5 DEF larger
  <2> QED BY <2>1, <2>2
<1> HIDE DEF at
<1>7. InsertAt(s, at, n) \in Seq(0 .. LastHead)
  BY <1>3, <1>6, InsertAtPlaces
<1>8. /\ IsHeap(w) /\ w.node = h.node /\ w.foot = h.foot /\ w.end = h.end
      /\ w.bins = [h.bins EXCEPT ![b] = InsertAt(s, at, n)]
  BY <1>1, <1>2, <1>7, WriteBin
<1> QED BY <1>2, <1>3, <1>6, <1>8 DEF b, s

\* Inserting keeps a bin sorted.
LEMMA InsertSorted ==
    ASSUME NEW h, IsHeap(h), NEW n \in DOMAIN h.node,
           NEW S, n \in S, NEW s \in Seq(S),
           Range(s) \subseteq DOMAIN h.node, n \notin Range(s), SortedBin(h, s),
           NEW at \in 1 .. Len(s) + 1,
           \A i \in 1 .. Len(s) : i < at => SizeOf(h, s[i]) <= SizeOf(h, n),
           at <= Len(s) => SizeOf(h, s[at]) > SizeOf(h, n)
    PROVE  /\ Range(InsertAt(s, at, n)) = Range(s) \cup {n}
           /\ SortedBin(h, InsertAt(s, at, n))
<1> DEFINE r == InsertAt(s, at, n)
           z(x) == h.node[x].size
<1>2. /\ r \in Seq(S) /\ Len(r) = Len(s) + 1
      /\ \A i \in 1 .. Len(s) + 1 :
           r[i] = IF i < at THEN s[i] ELSE IF i = at THEN n ELSE s[i - 1]
  BY InsertAtPlaces
<1> HIDE DEF r
<1>3. Range(r) = {r[i] : i \in 1 .. Len(s) + 1} /\ Range(s) = {s[i] : i \in 1 .. Len(s)}
  BY <1>2 DEF Range
<1>4. Len(s) \in Nat /\ at \in Nat
  OBVIOUS
<1>5. \A i \in 1 .. Len(s) : s[i] \in Range(s) /\ s[i] # n /\ z(s[i]) \in Nat
                             /\ SizeOf(h, s[i]) = z(s[i])
  BY <1>3, Addresses
<1>6. z(n) \in Nat /\ SizeOf(h, n) = z(n)
  BY Addresses
<1>7. \A i, j \in 1 .. Len(s) : i < j => s[i] # s[j] /\ z(s[i]) <= z(s[j])
  BY DEF SortedBin
<1> HIDE DEF z
<1>8. \A i \in 1 .. Len(s) : i < at => z(s[i]) <= z(n)
  BY <1>5, <1>6
<1>9. ASSUME NEW i \in 1 .. Len(s), at <= i PROVE z(n) <= z(s[i])
  <2>1. at \in 1 .. Len(s) /\ z(s[at]) > z(n)
    BY <1>4, <1>5, <1>6, <1>9
  <2>2. CASE i = at
    BY <1>5, <1>6, <2>1, <2>2
  <2>3. CASE i # at
    <3>1. at < i
      BY <1>4, <1>9, <2>3
    <3>2. z(s[at]) <= z(s[i])
      BY <1>7, <2>1, <3>1
    <3> QED BY <1>5, <1>6, <2>1, <3>2
  <2> QED BY <2>2, <2>3
<1>10. ASSUME NEW i \in 1 .. Len(r), NEW j \in 1 .. Len(r), i < j
       PROVE  r[i] # r[j] /\ z(r[i]) <= z(r[j])
  <2>1. CASE j < at
    <3>1. i \in 1 .. Len(s) /\ j \in 1 .. Len(s) /\ r[i] = s[i] /\ r[j] = s[j]
      BY <1>2, <1>4, <1>10, <2>1
    <3> QED BY <1>7, <1>10, <3>1
  <2>2. CASE j = at
    <3>1. i \in 1 .. Len(s) /\ i < at /\ r[i] = s[i] /\ r[j] = n
      BY <1>2, <1>4, <1>10, <2>2
    <3> QED BY <1>5, <1>8, <3>1
  <2>3. CASE at < j /\ i < at
    <3>1. i \in 1 .. Len(s) /\ j - 1 \in 1 .. Len(s) /\ r[i] = s[i] /\ r[j] = s[j - 1]
          /\ i < j - 1
      BY <1>2, <1>4, <1>10, <2>3
    <3> QED BY <1>7, <3>1
  <2>4. CASE at < j /\ i = at
    <3>1. j - 1 \in 1 .. Len(s) /\ r[i] = n /\ r[j] = s[j - 1] /\ at <= j - 1
      BY <1>2, <1>4, <1>10, <2>4
    <3> QED BY <1>5, <1>9, <3>1
  <2>5. CASE at < j /\ at < i
    <3>1. i - 1 \in 1 .. Len(s) /\ j - 1 \in 1 .. Len(s) /\ r[i] = s[i - 1]
          /\ r[j] = s[j - 1] /\ i - 1 < j - 1
      BY <1>2, <1>4, <1>10, <2>5
    <3> QED BY <1>7, <3>1
  <2>6. /\ j < at \/ j = at \/ at < j
        /\ i < at \/ i = at \/ at < i
    BY <1>2, <1>4
  <2> QED BY <2>1, <2>2, <2>3, <2>4, <2>5, <2>6, Zenon
<1>11. SortedBin(h, r)
  BY <1>10 DEF SortedBin, z
<1>12. ASSUME NEW i \in 1 .. Len(s) + 1 PROVE r[i] \in Range(s) \cup {n}
  <2>1. CASE i < at
    <3>1. i \in 1 .. Len(s) /\ r[i] = s[i]
      BY <1>2, <1>4, <2>1
    <3> QED BY <1>5, <3>1
  <2>2. CASE i = at
    BY <1>2, <2>2
  <2>3. CASE ~(i < at) /\ i # at
    <3>1. i - 1 \in 1 .. Len(s) /\ r[i] = s[i - 1]
      BY <1>2, <1>4, <2>3
    <3> QED BY <1>5, <3>1
  <2> QED BY <2>1, <2>2, <2>3
<1>13. n \in Range(r)
  <2>1. r[at] = n
    BY <1>2, <1>4
  <2> QED BY <1>3, <2>1
<1>14. ASSUME NEW i \in 1 .. Len(s) PROVE s[i] \in Range(r)
  <2>1. CASE i < at
    <3>1. i \in 1 .. Len(s) + 1 /\ r[i] = s[i]
      BY <1>2, <1>4, <2>1
    <3> QED BY <1>3, <3>1
  <2>2. CASE ~(i < at)
    <3>1. i + 1 \in 1 .. Len(s) + 1 /\ r[i + 1] = s[i]
      BY <1>2, <1>4, <2>2
    <3> QED BY <1>3, <3>1
  <2> QED BY <2>1, <2>2
<1>15. Range(r) = Range(s) \cup {n}
  BY <1>3, <1>12, <1>13, <1>14
<1> QED BY <1>11, <1>15 DEF r

\* The bins with the hole that was missing.
LEMMA BinsAdd ==
    ASSUME NEW h, IsHeap(h), NEW n \in DOMAIN h.node, h.node[n].hole, BinsKeep(h, {n})
    PROVE  BinsKeep(add_node(h, n), {})
<1> DEFINE w == add_node(h, n)
           b == get_bin_index(SizeOf(h, n))
           s == h.bins[b]
<1>1. n \in 0 .. LastHead /\ SizeOf(h, n) = h.node[n].size
  BY Addresses DEF IsHeap
<1>2. /\ w.node = h.node /\ b \in Bin /\ s \in Seq(0 .. LastHead)
      /\ \E at \in 1 .. Len(s) + 1 :
           /\ w.bins = [h.bins EXCEPT ![b] = InsertAt(s, at, n)]
           /\ \A i \in 1 .. Len(s) : i < at => SizeOf(h, s[i]) <= SizeOf(h, n)
           /\ at <= Len(s) => SizeOf(h, s[at]) > SizeOf(h, n)
  BY <1>1, AddNode
<1> HIDE DEF w
<1>3. PICK at \in 1 .. Len(s) + 1 :
           /\ w.bins = [h.bins EXCEPT ![b] = InsertAt(s, at, n)]
           /\ \A i \in 1 .. Len(s) : i < at => SizeOf(h, s[i]) <= SizeOf(h, n)
           /\ at <= Len(s) => SizeOf(h, s[at]) > SizeOf(h, n)
  BY <1>2
<1>4. \A c \in Bin : Range(h.bins[c]) = HolesOf(h, {n}, c) /\ SortedBin(h, h.bins[c])
  BY DEF BinsKeep
<1>5. h.bins \in [Bin -> Seq(0 .. LastHead)]
  BY DEF IsHeap
<1>6. b = get_bin_index(h.node[n].size)
  BY <1>1
<1>7. Range(s) \subseteq DOMAIN h.node /\ n \notin Range(s) /\ SortedBin(h, s)
  BY <1>2, <1>4 DEF HolesOf
<1>8. /\ Range(InsertAt(s, at, n)) = Range(s) \cup {n}
      /\ SortedBin(h, InsertAt(s, at, n))
  BY <1>1, <1>2, <1>3, <1>7, InsertSorted
<1>9. ASSUME NEW c \in Bin
      PROVE  Range(w.bins[c]) = HolesOf(w, {}, c) /\ SortedBin(w, w.bins[c])
  <2>1. \A t : SortedBin(w, t) <=> SortedBin(h, t)
    BY <1>2 DEF SortedBin
  <2>2. CASE c = b
    <3>1. w.bins[c] = InsertAt(s, at, n)
      BY <1>3, <1>5, <2>2
    <3>2. HolesOf(w, {}, c) = HolesOf(h, {n}, c) \cup {n}
      BY <1>2, <1>6, <2>2 DEF HolesOf
    <3>3. Range(s) = HolesOf(h, {n}, c)
      BY <1>4, <2>2
    <3> HIDE DEF s
    <3> QED BY <1>8, <2>1, <3>1, <3>2, <3>3
  <2>3. CASE c # b
    <3>1. w.bins[c] = h.bins[c]
      BY <1>3, <1>5, <2>3
    <3>2. HolesOf(w, {}, c) = HolesOf(h, {n}, c)
      BY <1>2, <1>6, <2>3 DEF HolesOf
    <3> QED BY <1>4, <2>1, <3>1, <3>2
  <2> QED BY <2>2, <2>3
<1> QED BY <1>9 DEF BinsKeep, w

-----------------------------------------------------------------------------
(* heap_alloc.                                                             *)

\* A footer is made for a chunk.
LEMMA CreateFoot ==
    ASSUME NEW h, IsHeap(h), NEW n \in DOMAIN h.node
    PROVE  LET r == create_foot(h, n) IN
           /\ IsHeap(r) /\ r.node = h.node /\ r.end = h.end /\ r.bins = h.bins
           /\ DOMAIN r.foot = DOMAIN h.foot \cup {n + 16 + h.node[n].size}
           /\ \A x \in DOMAIN r.foot :
                r.foot[x] = IF x = n + 16 + h.node[n].size THEN n ELSE h.foot[x]
<1> DEFINE at == n + 16 + h.node[n].size
<1>1. n \in 0 .. LastHead /\ get_foot(h, n) = at
  BY Addresses DEF IsHeap
<1>2. create_foot(h, n) = write_foot(h, at, n)
  BY <1>1 DEF create_foot
<1> HIDE DEF at
<1>3. /\ IsHeap(write_foot(h, at, n))
      /\ write_foot(h, at, n).foot =
           [a \in DOMAIN h.foot \cup {at} |-> IF a = at THEN n ELSE h.foot[a]]
      /\ write_foot(h, at, n).node = h.node
      /\ write_foot(h, at, n).end = h.end
      /\ write_foot(h, at, n).bins = h.bins
  BY <1>1, WriteFoot
<1> QED BY <1>2, <1>3 DEF at

\* The chunk that is cut off is a hole and in its bin; the other chunks stay.
LEMMA SplitFoundSplits ==
    ASSUME NEW h, IsHeap(h), Layout(h), NEW f \in DOMAIN h.node, NEW size \in Nat,
           h.node[f].size - size > overhead + MIN_ALLOC_SZ
    PROVE  LET r == SplitFound(h, f, size) IN
           /\ IsHeap(r) /\ Layout(r) /\ r.end = h.end
           /\ \E cut : /\ DOMAIN r.node = DOMAIN h.node \cup {cut}
                       /\ cut \notin DOMAIN h.node
                       /\ r.node[cut].hole
           /\ r.node[f].hole = h.node[f].hole /\ r.node[f].size = size
           /\ \A a \in DOMAIN h.node \ {f} : r.node[a] = h.node[a]
           /\ \A idx \in Bin :
                /\ BinsKeep(h, {})
                /\ h.node[f].hole
                /\ get_bin_index(h.node[f].size) = idx
                => BinsKeep(remove_node(r, idx, f), {f})
<1> DEFINE r == SplitFound(h, f, size)
           cut == f + 20 + size
           rest == h.node[f].size - size - 20
           A1 == write_node(h, cut, TRUE, rest)
           A2 == create_foot(A1, cut)
           A3 == add_node(A2, cut)
           A4 == write_node(A3, f, h.node[f].hole, size)
           A5 == create_foot(A4, f)
<1>1. /\ f \in Nat /\ h.node[f].size \in Nat /\ h.node[f].hole \in BOOLEAN
      /\ SizeOf(h, f) = h.node[f].size
  BY Addresses
<1>2. rest \in Nat /\ h.node[f].size = size + 20 + rest
  BY <1>1 DEF overhead, SizeofNode, SizeofFooter, MIN_ALLOC_SZ
<1>3. f + 20 + h.node[f].size <= Top
  <2>1. f + 20 + h.node[f].size \in DOMAIN h.node \cup {Top}
    BY LayoutNumbers
  <2> QED BY <2>1, Addresses, ConstantsTyped
<1>4. cut \in 0 .. LastHead /\ f \in 0 .. LastHead
  <2>1. f \in 0 .. LastHead
    BY DEF IsHeap
  <2>2. cut \in Nat /\ cut <= Top - 20 /\ LastHead = Top - 20 /\ Top \in Nat
    BY <1>1, <1>2, <1>3, ConstantsTyped
  <2> QED BY <2>1, <2>2
<1>5. r = A5
  <2>1. /\ f + overhead + size = cut
        /\ (SizeOf(h, f) - size) - overhead = rest
    BY <1>1 DEF overhead, SizeofNode, SizeofFooter
  <2>2. SizeOf(h, f) - size > overhead + MIN_ALLOC_SZ
    BY <1>1
  <2> QED BY <2>1, <2>2, Zenon DEF SplitFound
<1> HIDE DEF cut, rest
<1>6. cut \notin DOMAIN h.node /\ cut # f
  <2>1. cut = f + 20 + size
    BY DEF cut
  <2>2. \A b \in DOMAIN h.node : b \in Nat /\ (f < b => f + 20 + h.node[f].size <= b)
    BY LayoutNumbers, Addresses
  <2> QED BY <1>1, <1>2, <2>1, <2>2
<1>7. /\ IsHeap(A1) /\ A1.foot = h.foot /\ A1.end = h.end /\ A1.bins = h.bins
      /\ A1.node = [a \in DOMAIN h.node \cup {cut} |->
            IF a = cut THEN [hole |-> TRUE, size |-> rest] ELSE h.node[a]]
  <2>1. ASSUME NEW q \in BOOLEAN
        PROVE  LET w == write_node(h, cut, q, rest) IN
               /\ IsHeap(w) /\ w.foot = h.foot /\ w.end = h.end /\ w.bins = h.bins
               /\ w.node = [a \in DOMAIN h.node \cup {cut} |->
                     IF a = cut THEN [hole |-> q, size |-> rest] ELSE h.node[a]]
    BY <1>2, <1>4, WriteNode
  <2>2. TRUE \in BOOLEAN
    OBVIOUS
  <2> QED BY <2>1, <2>2, Zenon
<1> HIDE DEF A1
<1>8. /\ DOMAIN A1.node = DOMAIN h.node \cup {cut}
      /\ A1.node[cut].hole /\ A1.node[cut].size = rest
      /\ \A a \in DOMAIN h.node : A1.node[a] = h.node[a]
  BY <1>6, <1>7
<1>9. /\ IsHeap(A2) /\ A2.node = A1.node /\ A2.end = h.end /\ A2.bins = h.bins
      /\ DOMAIN A2.foot = DOMAIN h.foot \cup {cut + 16 + rest}
      /\ \A x \in DOMAIN A2.foot : A2.foot[x] = IF x = cut + 16 + rest THEN cut ELSE h.foot[x]
  BY <1>7, <1>8, CreateFoot
<1> HIDE DEF A2
<1>10. IsHeap(A3) /\ A3.node = A1.node /\ A3.foot = A2.foot /\ A3.end = h.end
  BY <1>4, <1>9, AddNode
<1> HIDE DEF A3
<1>11. /\ IsHeap(A4) /\ A4.foot = A2.foot /\ A4.end = h.end /\ A4.bins = A3.bins
       /\ A4.node = [a \in DOMAIN A1.node \cup {f} |->
             IF a = f THEN [hole |-> h.node[f].hole, size |-> size] ELSE A1.node[a]]
  BY <1>1, <1>4, <1>10, WriteNode
<1> HIDE DEF A4
<1>12. /\ DOMAIN A4.node = DOMAIN h.node \cup {cut}
       /\ A4.node[f].hole = h.node[f].hole /\ A4.node[f].size = size
       /\ A4.node[cut] = A1.node[cut]
       /\ \A a \in DOMAIN h.node \ {f} : A4.node[a] = h.node[a]
  BY <1>6, <1>8, <1>11
<1>13. /\ IsHeap(A5) /\ A5.node = A4.node /\ A5.end = h.end /\ A5.bins = A3.bins
       /\ DOMAIN A5.foot = DOMAIN A2.foot \cup {f + 16 + size}
       /\ \A x \in DOMAIN A5.foot : A5.foot[x] = IF x = f + 16 + size THEN f ELSE A2.foot[x]
  BY <1>11, <1>12, CreateFoot
<1> HIDE DEF A5
<1>14. Layout(A5)
  <2>1. DOMAIN A5.node = DOMAIN h.node \cup {cut}
    BY <1>12, <1>13
  <2>2. \A a \in DOMAIN A5.node : A5.node[a].size =
            IF a = f THEN size ELSE IF a = cut THEN rest ELSE h.node[a].size
    BY <1>8, <1>12, <1>13
  <2>3. DOMAIN A5.foot = DOMAIN h.foot \cup {f + 16 + size, cut + 16 + rest}
    BY <1>9, <1>13
  <2>4. \A x \in DOMAIN A5.foot : A5.foot[x] =
            IF x = f + 16 + size THEN f ELSE IF x = cut + 16 + rest THEN cut ELSE h.foot[x]
    BY <1>9, <1>13
  <2>5. cut = f + 20 + size
    BY DEF cut
  <2> QED BY <1>2, <1>13, <2>1, <2>2, <2>3, <2>4, <2>5, SplitKeepsLayout
<1>15. ASSUME NEW idx \in Bin, BinsKeep(h, {}), h.node[f].hole,
              get_bin_index(h.node[f].size) = idx
       PROVE  BinsKeep(remove_node(A5, idx, f), {f})
  <2>1. BinsKeep(A2, {cut})
    <3>1. {c \in DOMAIN A2.node \ {cut} : A2.node[c].hole}
            = {c \in DOMAIN h.node \ {} : h.node[c].hole}
      BY <1>6, <1>8, <1>9
    <3>2. \A c \in {c \in DOMAIN h.node \ {} : h.node[c].hole} :
             A2.node[c].size = h.node[c].size
      BY <1>8, <1>9
    <3> QED BY <1>9, <1>15, <3>1, <3>2, BinsSame
  <2>2. BinsKeep(A3, {})
    BY <1>8, <1>9, <2>1, BinsAdd DEF A3
  <2>3. BinsKeep(remove_node(A3, idx, f), {f})
    <3>1. \A c \in Bin \ {idx} : f \notin HolesOf(A3, {}, c)
      BY <1>8, <1>10, <1>15 DEF HolesOf
    <3>2. {} \cup {f} = {f}
      OBVIOUS
    <3>3. BinsKeep(remove_node(A3, idx, f), {} \cup {f})
      BY <1>10, <2>2, <3>1, BinsRemove
    <3> QED BY <3>2, <3>3
  <2> DEFINE u == remove_node(A3, idx, f)
             v == remove_node(A5, idx, f)
  <2>4. u.node = A3.node /\ v.node = A5.node /\ u.bins = v.bins
    <3>1. /\ u.node = A3.node
          /\ u.bins = [A3.bins EXCEPT ![idx] = RemoveFirst(A3.bins[idx], f)]
      BY <1>10, RemoveNode
    <3>2. /\ v.node = A5.node
          /\ v.bins = [A5.bins EXCEPT ![idx] = RemoveFirst(A5.bins[idx], f)]
      BY <1>13, RemoveNode
    <3>3. A5.bins = A3.bins
      BY <1>13
    <3> QED BY ONLY <3>1, <3>2, <3>3, Zenon
  <2> HIDE DEF u, v
  <2>5. {c \in DOMAIN v.node \ {f} : v.node[c].hole} = {c \in DOMAIN u.node \ {f} : u.node[c].hole}
    BY <1>8, <1>10, <1>12, <1>13, <2>4
  <2>6. \A c \in {c \in DOMAIN u.node \ {f} : u.node[c].hole} : v.node[c].size = u.node[c].size
    BY <1>8, <1>10, <1>12, <1>13, <2>4
  <2>7. BinsKeep(u, {f})
    BY <2>3 DEF u
  <2>8. BinsKeep(v, {f})
    BY <2>4, <2>5, <2>6, <2>7, BinsSame
  <2> QED BY <2>8 DEF v
<1>16. \E c : DOMAIN A5.node = DOMAIN h.node \cup {c} /\ c \notin DOMAIN h.node
              /\ A5.node[c].hole
  BY <1>6, <1>8, <1>12, <1>13
<1>17. /\ A5.node[f].hole = h.node[f].hole /\ A5.node[f].size = size
       /\ \A a \in DOMAIN h.node \ {f} : A5.node[a] = h.node[a]
  BY <1>12, <1>13
<1>18. IsHeap(A5) /\ A5.end = h.end
  BY <1>13
<1> HIDE DEF r
<1>19. /\ IsHeap(r) /\ Layout(r) /\ r.end = h.end
       /\ r.node[f].hole = h.node[f].hole /\ r.node[f].size = size
       /\ \A a \in DOMAIN h.node \ {f} : r.node[a] = h.node[a]
  BY ONLY <1>5, <1>14, <1>17, <1>18, Zenon
<1>20. /\ \E c : DOMAIN r.node = DOMAIN h.node \cup {c} /\ c \notin DOMAIN h.node /\ r.node[c].hole
       /\ \A idx \in Bin : /\ BinsKeep(h, {})
                          /\ h.node[f].hole
                          /\ get_bin_index(h.node[f].size) = idx
                          => BinsKeep(remove_node(r, idx, f), {f})
  BY ONLY <1>5, <1>15, <1>16, Zenon
<1> QED BY ONLY <1>19, <1>20, Zenon DEF r

\* The heap r after heap_alloc has split chunk f of heap h, or left it as it is.
SplitOf(h, f, size, r) ==
    /\ IsHeap(r) /\ Layout(r) /\ DOMAIN h.node \subseteq DOMAIN r.node
    /\ InUse(r, {}) = InUse(h, {})
    /\ r.node[f].hole = h.node[f].hole /\ r.node[f].size >= size
    /\ \A a \in DOMAIN h.node \ {f} : r.node[a] = h.node[a]
    /\ \A idx \in Bin : BinsKeep(h, {}) /\ h.node[f].hole
                           /\ get_bin_index(h.node[f].size) = idx
                           => BinsKeep(remove_node(r, idx, f), {f})

\* A chunk that is large enough is cut, or taken as it is.
LEMMA SplitFoundFacts ==
    ASSUME NEW h, IsHeap(h), Layout(h), NEW f \in DOMAIN h.node, NEW size \in Nat,
           h.node[f].size >= size
    PROVE  SplitOf(h, f, size, SplitFound(h, f, size))
<1> DEFINE r == SplitFound(h, f, size)
<1>1. SizeOf(h, f) = h.node[f].size
  BY Addresses
<1>2. CASE h.node[f].size - size > overhead + MIN_ALLOC_SZ
  <2>1. /\ IsHeap(r) /\ Layout(r) /\ r.end = h.end
        /\ \E cut : /\ DOMAIN r.node = DOMAIN h.node \cup {cut}
                    /\ cut \notin DOMAIN h.node
                    /\ r.node[cut].hole
        /\ r.node[f].hole = h.node[f].hole /\ r.node[f].size = size
        /\ \A a \in DOMAIN h.node \ {f} : r.node[a] = h.node[a]
        /\ \A idx \in Bin :
             /\ BinsKeep(h, {})
             /\ h.node[f].hole
             /\ get_bin_index(h.node[f].size) = idx
             => BinsKeep(remove_node(r, idx, f), {f})
    BY <1>2, SplitFoundSplits
  <2> HIDE DEF r
  <2>2. InUse(r, {}) = InUse(h, {})
    BY <2>1 DEF InUse
  <2>3. DOMAIN h.node \subseteq DOMAIN r.node /\ r.node[f].size >= size
    BY <2>1
  <2>4. SplitOf(h, f, size, r)
    BY <2>1, <2>2, <2>3 DEF SplitOf
  <2> QED BY <2>4 DEF r
<1>3. CASE ~(h.node[f].size - size > overhead + MIN_ALLOC_SZ)
  <2>1. r = h
    BY <1>1, <1>3, Zenon DEF SplitFound
  <2>2. ASSUME NEW idx \in Bin, BinsKeep(h, {}), get_bin_index(h.node[f].size) = idx
        PROVE  BinsKeep(remove_node(h, idx, f), {f})
    <3>1. \A c \in Bin \ {idx} : f \notin HolesOf(h, {}, c)
      BY <2>2 DEF HolesOf
    <3>2. BinsKeep(remove_node(h, idx, f), {} \cup {f})
      BY <2>2, <3>1, BinsRemove
    <3>3. {} \cup {f} = {f}
      OBVIOUS
    <3> QED BY <3>2, <3>3
  <2> HIDE DEF r
  <2>3. SplitOf(h, f, size, h)
    BY <2>2 DEF SplitOf
  <2> QED BY <2>1, <2>3 DEF r
<1> QED BY <1>2, <1>3

\* The chunk is no hole any more and in no bin.
LEMMA TakeFoundTyped ==
    ASSUME NEW h, IsHeap(h), NEW f \in 0 .. LastHead, NEW idx \in Bin
    PROVE  LET r == TakeFound(h, idx, f) IN
           /\ IsHeap(r) /\ r.foot = h.foot /\ r.end = h.end
           /\ DOMAIN r.node = DOMAIN h.node \cup {f}
           /\ ~r.node[f].hole /\ r.node[f].size = SizeOf(h, f)
           /\ \A a \in DOMAIN h.node \ {f} : r.node[a] = h.node[a]
           /\ r.bins = remove_node(h, idx, f).bins
<1> DEFINE w == write_node(h, f, FALSE, SizeOf(h, f))
           r == TakeFound(h, idx, f)
<1>1. SizeOf(h, f) \in Nat
  BY SizeTyped
<1>2. /\ IsHeap(w) /\ w.foot = h.foot /\ w.end = h.end /\ w.bins = h.bins
      /\ w.node = [a \in DOMAIN h.node \cup {f} |->
            IF a = f THEN [hole |-> FALSE, size |-> SizeOf(h, f)] ELSE h.node[a]]
  <2>1. ASSUME NEW q \in BOOLEAN
        PROVE  LET v == write_node(h, f, q, SizeOf(h, f)) IN
               /\ IsHeap(v) /\ v.foot = h.foot /\ v.end = h.end /\ v.bins = h.bins
               /\ v.node = [a \in DOMAIN h.node \cup {f} |->
                     IF a = f THEN [hole |-> q, size |-> SizeOf(h, f)] ELSE h.node[a]]
    BY <1>1, WriteNode
  <2>2. FALSE \in BOOLEAN
    OBVIOUS
  <2> QED BY <2>1, <2>2, Zenon
<1>3. r = remove_node(w, idx, f)
  BY Zenon DEF TakeFound
<1> HIDE DEF w, r
<1>4. /\ IsHeap(r) /\ r.foot = h.foot /\ r.end = h.end /\ r.node = w.node
      /\ r.bins = [h.bins EXCEPT ![idx] = RemoveFirst(h.bins[idx], f)]
  BY <1>2, <1>3, RemoveNode
<1>5. remove_node(h, idx, f).bins = [h.bins EXCEPT ![idx] = RemoveFirst(h.bins[idx], f)]
  BY RemoveNode
<1>6. /\ DOMAIN r.node = DOMAIN h.node \cup {f}
      /\ ~r.node[f].hole /\ r.node[f].size = SizeOf(h, f)
      /\ \A a \in DOMAIN h.node \ {f} : r.node[a] = h.node[a]
  BY <1>2, <1>4
<1> QED BY <1>4, <1>5, <1>6, Zenon DEF r

\* With the chunk taken, the chunks lie as before, and the bins hold the holes.
LEMMA TakeFoundFacts ==
    ASSUME NEW h, IsHeap(h), Layout(h), NEW f \in DOMAIN h.node, NEW idx \in Bin
    PROVE  LET r == TakeFound(h, idx, f) IN
           /\ Layout(r)
           /\ DOMAIN r.node = DOMAIN h.node
           /\ r.node[f].size = h.node[f].size
           /\ {c \in DOMAIN r.node : ~r.node[c].hole}
                = {c \in DOMAIN h.node : ~h.node[c].hole} \cup {f}
           /\ BinsKeep(remove_node(h, idx, f), {f}) => BinsKeep(r, {})
<1> DEFINE r == TakeFound(h, idx, f)
           u == remove_node(h, idx, f)
<1>1. f \in 0 .. LastHead /\ SizeOf(h, f) = h.node[f].size
  BY Addresses DEF IsHeap
<1>2. /\ IsHeap(r) /\ r.foot = h.foot /\ r.end = h.end
      /\ DOMAIN r.node = DOMAIN h.node \cup {f}
      /\ ~r.node[f].hole /\ r.node[f].size = h.node[f].size
      /\ \A a \in DOMAIN h.node \ {f} : r.node[a] = h.node[a]
      /\ r.bins = u.bins
  BY <1>1, TakeFoundTyped
<1>3. u.node = h.node
  <2>1. IsHeap(u) /\ u.node = h.node /\ u.foot = h.foot
    BY RemoveNodeKeeps
  <2> QED BY <2>1
<1> HIDE DEF r, u
<1>4. DOMAIN r.node = DOMAIN h.node
  BY <1>2
<1>5. Layout(r)
  BY <1>2, <1>4, LayoutSame
<1>6. {c \in DOMAIN r.node : ~r.node[c].hole}
         = {c \in DOMAIN h.node : ~h.node[c].hole} \cup {f}
  BY <1>2, <1>4
<1>7. ASSUME BinsKeep(u, {f}) PROVE BinsKeep(r, {})
  <2>1. {c \in DOMAIN r.node \ {} : r.node[c].hole} = {c \in DOMAIN u.node \ {f} : u.node[c].hole}
    BY <1>2, <1>3, <1>4
  <2>2. \A c \in {c \in DOMAIN u.node \ {f} : u.node[c].hole} : r.node[c].size = u.node[c].size
    BY <1>2, <1>3
  <2> QED BY <1>2, <1>7, <2>1, <2>2, BinsSame
<1> QED BY <1>2, <1>4, <1>5, <1>6, <1>7 DEF r, u

\* Every footer names a chunk, and no chunk is larger than the heap was at first.
FeetNameChunks(h) ==
    \A x \in DOMAIN h.foot : h.foot[x] \in DOMAIN h.node /\ h.node[h.foot[x]].size <= Top

\* So it is where the chunks tile the heap.
LEMMA LayoutFeet ==
    ASSUME NEW h, IsHeap(h), Layout(h)
    PROVE  FeetNameChunks(h) /\ Top - SizeofFooter \in DOMAIN h.foot
<1>1. \A a \in DOMAIN h.node : /\ a \in Nat /\ h.node[a].size \in Nat
                               /\ a + 20 + h.node[a].size \in DOMAIN h.node \cup {Top}
  BY Addresses, LayoutNumbers
<1>2. \A a \in DOMAIN h.node : h.node[a].size <= Top
  <2>1. SUFFICES ASSUME NEW a \in DOMAIN h.node PROVE h.node[a].size <= Top
    OBVIOUS
  <2>2. a + 20 + h.node[a].size <= Top
    BY <1>1, Addresses, ConstantsTyped
  <2> QED BY <1>1, <2>2, ConstantsTyped
<1>3. /\ DOMAIN h.foot = {a + 16 + h.node[a].size : a \in DOMAIN h.node}
      /\ \A a \in DOMAIN h.node : h.foot[a + 16 + h.node[a].size] = a
  BY LayoutNumbers
<1>4. PICK p \in DOMAIN h.node : p + 20 + h.node[p].size = Top
  BY LayoutNumbers
<1>5. Top - SizeofFooter = p + 16 + h.node[p].size
  BY <1>1, <1>4, ConstantsTyped DEF SizeofFooter
<1> QED BY <1>2, <1>3, <1>5 DEF FeetNameChunks

\* What the check of the wilderness leaves alone: contract never runs.
LEMMA WildernessFacts ==
    ASSUME NEW h, IsHeap(h), FeetNameChunks(h), NEW o \in WildernessOutcomes(h)
    PROVE  /\ IsHeap(o.heap)
           /\ o.heap.node = h.node /\ o.heap.foot = h.foot /\ o.heap.bins = h.bins
           /\ o.ok \in BOOLEAN /\ o.defined \in BOOLEAN
           /\ ~o.defined => ~o.ok /\ o.heap = h /\ h.end - SizeofFooter \notin DOMAIN h.foot
<1> DEFINE size == h.node[get_wilderness(h)].size
<1>1. CASE ~WildernessWritten(h)
  <2>1. o = [heap |-> h, ok |-> FALSE, defined |-> FALSE]
    BY <1>1 DEF WildernessOutcomes
  <2> QED BY <1>1, <2>1 DEF WildernessWritten
<1>2. CASE WildernessWritten(h)
  <2>1. size \in Nat /\ size <= Top
    BY <1>2, Addresses DEF FeetNameChunks, WildernessWritten, get_wilderness
  <2>2. ~(size > MAX_WILDERNESS)
    BY <2>1, ConstantsTyped, HeapAssumption
  <2> HIDE DEF size
  <2>3. \/ o = [heap |-> h, ok |-> FALSE, defined |-> TRUE]
        \/ o = [heap |-> h, ok |-> TRUE, defined |-> TRUE]
        \/ /\ h.end + PAGE_SIZE <= HeapMax
           /\ o = [heap |-> expand(h), ok |-> TRUE, defined |-> TRUE]
    <3>1. CASE size < MIN_WILDERNESS
      <4> DEFINE fails == [heap |-> h, ok |-> FALSE, defined |-> TRUE]
                 grows == [heap |-> expand(h), ok |-> TRUE, defined |-> TRUE]
      <4>1. WildernessOutcomes(h) =
               {fails} \cup (IF h.end + PAGE_SIZE <= HeapMax THEN {grows} ELSE {})
        BY <1>2, <2>2, <3>1 DEF WildernessOutcomes, size
      <4> HIDE DEF fails, grows
      <4>2. o = fails \/ (h.end + PAGE_SIZE <= HeapMax /\ o = grows)
        BY <4>1
      <4> QED BY <4>2 DEF fails, grows
    <3>2. CASE ~(size < MIN_WILDERNESS)
      BY <1>2, <2>2, <3>2 DEF WildernessOutcomes, size
    <3> QED BY <3>1, <3>2
  <2>4. CASE \/ o = [heap |-> h, ok |-> FALSE, defined |-> TRUE]
             \/ o = [heap |-> h, ok |-> TRUE, defined |-> TRUE]
    <3>1. o.heap = h /\ o.defined = TRUE
      BY <2>4
    <3>3. o.ok \in BOOLEAN
      <4>1. CASE o = [heap |-> h, ok |-> FALSE, defined |-> TRUE]
        BY <4>1
      <4>2. CASE o = [heap |-> h, ok |-> TRUE, defined |-> TRUE]
        BY <4>2
      <4> QED BY <2>4, <4>1, <4>2
    <3>2. o.defined \in BOOLEAN /\ ~~o.defined
      BY <3>1, Zenon
    <3> QED BY <3>1, <3>2, <3>3, Zenon
  <2>5. CASE h.end + PAGE_SIZE <= HeapMax
             /\ o = [heap |-> expand(h), ok |-> TRUE, defined |-> TRUE]
    <3>1. h.end + PAGE_SIZE \in Top .. HeapMax
      BY <2>5, ConstantsTyped, HeapAssumption DEF IsHeap
    <3> DEFINE e == h.end + PAGE_SIZE
               w == [h EXCEPT !.end = e]
    <3>2. expand(h) = w
      BY DEF expand
    <3> HIDE DEF e
    <3>3. w = [node |-> h.node, foot |-> h.foot, end |-> e, bins |-> h.bins]
      BY AssignField
    <3> HIDE DEF w
    <3>4. w.node = h.node /\ w.foot = h.foot /\ w.end = e /\ w.bins = h.bins
      BY <3>3
    <3>5. IsHeap(w)
      BY <3>1, <3>3, <3>4 DEF IsHeap, e
    <3>6. o.heap = w /\ o.ok = TRUE /\ o.defined = TRUE
      BY <2>5, <3>2
    <3>7. o.ok \in BOOLEAN /\ o.defined \in BOOLEAN /\ ~~o.defined
      BY <3>6, Zenon
    <3> QED BY <3>4, <3>5, <3>6, <3>7, Zenon
  <2> QED BY <2>3, <2>4, <2>5, Zenon
<1> QED BY <1>1, <1>2

-----------------------------------------------------------------------------
(* heap_free.                                                              *)

\* What is common to the two merges: chunk n takes over chunk m.
Merged(h, r, n, m) ==
    /\ IsHeap(r) /\ r.end = h.end
    /\ DOMAIN r.node = DOMAIN h.node \ {m}
    /\ r.node[n].size = h.node[n].size + 20 + h.node[m].size
    /\ \A a \in DOMAIN h.node \ {n, m} : r.node[a] = h.node[a]

\* The bins without the node `out`.
BinsWithout(h, out) == remove_node(h, get_bin_index(h.node[out].size), out).bins

\* The writes of both merges, `at` being where the footer goes.
MergeInto(h, n, m, hole, out, at) ==
    LET h1 == remove_node(h, get_bin_index(h.node[out].size), out)
        h2 == write_node(h1, n, hole, h.node[n].size + 20 + h.node[m].size)
    IN  Forget(write_foot(h2, at, n), {m}, {m - 4})

\* What they write.
LEMMA MergeWrites ==
    ASSUME NEW h, IsHeap(h), NEW n \in DOMAIN h.node, NEW m \in DOMAIN h.node, n # m,
           NEW hole \in BOOLEAN, NEW out \in DOMAIN h.node, NEW at
    PROVE  LET r == MergeInto(h, n, m, hole, out, at) IN
           /\ Merged(h, r, n, m) /\ r.node[n].hole = hole /\ r.bins = BinsWithout(h, out)
           /\ DOMAIN r.foot = (DOMAIN h.foot \cup {at}) \ {m - 4}
           /\ \A x \in DOMAIN r.foot : r.foot[x] = IF x = at THEN n ELSE h.foot[x]
<1> DEFINE size == h.node[n].size + 20 + h.node[m].size
           h1 == remove_node(h, get_bin_index(h.node[out].size), out)
           h2 == write_node(h1, n, hole, size)
           h3 == write_foot(h2, at, n)
           M == {m}
           F == {m - 4}
           r == Forget(h3, M, F)
<1>1. n \in 0 .. LastHead /\ size \in Nat
  BY Addresses DEF IsHeap
<1>2. get_bin_index(h.node[out].size) \in Bin
  BY Addresses, BinIndex
<1>0. MergeInto(h, n, m, hole, out, at) = r
  BY DEF MergeInto
<1> HIDE DEF size
<1>3. IsHeap(h1) /\ h1.node = h.node /\ h1.foot = h.foot /\ h1.end = h.end
  BY <1>2, RemoveNodeKeeps
<1> HIDE DEF h1
<1>4. /\ IsHeap(h2) /\ h2.foot = h.foot /\ h2.end = h.end /\ h2.bins = h1.bins
      /\ h2.node = [a \in DOMAIN h.node \cup {n} |->
            IF a = n THEN [hole |-> hole, size |-> size] ELSE h.node[a]]
  <2>1. NodeWritten(h1, h2, n, hole, size)
    BY <1>1, <1>3, NodeOf
  <2> HIDE DEF h2
  <2> QED BY <1>3, <2>1 DEF NodeWritten
<1> HIDE DEF h2
<1>5. /\ IsHeap(h3) /\ h3.node = h2.node /\ h3.end = h2.end /\ h3.bins = h2.bins
      /\ h3.foot = [a \in DOMAIN h2.foot \cup {at} |-> IF a = at THEN n ELSE h2.foot[a]]
  <2>1. FootWritten(h2, h3, at, n)
    BY <1>1, <1>4, FootOf
  <2> HIDE DEF h3
  <2> QED BY <2>1 DEF FootWritten
<1> HIDE DEF h3, M, F
<1>6. /\ IsHeap(r) /\ r.end = h3.end /\ r.bins = h3.bins
      /\ DOMAIN r.node = DOMAIN h3.node \ M /\ DOMAIN r.foot = DOMAIN h3.foot \ F
      /\ \A a \in DOMAIN r.node : r.node[a] = h3.node[a]
      /\ \A a \in DOMAIN r.foot : r.foot[a] = h3.foot[a]
  <2>1. IsHeap(h3) /\ r = Forget(h3, M, F)
    BY <1>5
  <2> HIDE DEF r
  <2> QED BY <2>1, ForgetWrites
<1> HIDE DEF r
<1>7. DOMAIN h3.node = DOMAIN h.node /\ h3.node[n] = [hole |-> hole, size |-> size]
      /\ \A a \in DOMAIN h.node \ {n} : h3.node[a] = h.node[a]
  BY <1>4, <1>5
<1>8. /\ DOMAIN r.node = DOMAIN h.node \ {m}
      /\ r.node[n].hole = hole /\ r.node[n].size = size
      /\ \A a \in DOMAIN h.node \ {n, m} : r.node[a] = h.node[a]
  BY <1>6, <1>7 DEF M
<1>9. /\ DOMAIN r.foot = (DOMAIN h.foot \cup {at}) \ {m - 4}
      /\ \A x \in DOMAIN r.foot : r.foot[x] = IF x = at THEN n ELSE h.foot[x]
  <2>1. /\ DOMAIN h3.foot = DOMAIN h.foot \cup {at}
        /\ \A x \in DOMAIN h3.foot : h3.foot[x] = IF x = at THEN n ELSE h.foot[x]
    BY <1>4, <1>5
  <2>2. DOMAIN r.foot = DOMAIN h3.foot \ {m - 4}
    BY <1>6 DEF F
  <2>3. DOMAIN r.foot \subseteq DOMAIN h3.foot
    BY <2>2
  <2>4. \A x \in DOMAIN r.foot : r.foot[x] = h3.foot[x]
    BY <1>6
  <2> QED BY <2>1, <2>2, <2>3, <2>4
<1>10. r.end = h.end /\ r.bins = BinsWithout(h, out)
  BY <1>4, <1>5, <1>6 DEF BinsWithout, h1
<1>11. Merged(h, r, n, m)
  BY <1>6, <1>8, <1>10 DEF Merged, size
<1> QED BY <1>0, <1>8, <1>9, <1>10, <1>11

\* A merge of two neighbours.
LEMMA MergeLayout ==
    ASSUME NEW h, NEW r, IsHeap(h), Layout(h), NEW n \in DOMAIN h.node,
           NEW m \in DOMAIN h.node, m = n + 20 + h.node[n].size,
           Merged(h, r, n, m), NEW at, at = m + 16 + h.node[m].size,
           DOMAIN r.foot = (DOMAIN h.foot \cup {at}) \ {m - 4},
           \A x \in DOMAIN r.foot : r.foot[x] = IF x = at THEN n ELSE h.foot[x]
    PROVE  Layout(r)
<1>1. at \in DOMAIN h.foot
  BY LayoutNumbers
<1>2. DOMAIN r.foot = DOMAIN h.foot \ {m - 4}
  BY <1>1
<1>3. n # m
  BY Addresses
<1>4. \A a \in DOMAIN r.node : r.node[a].size =
          IF a = n THEN h.node[n].size + 20 + h.node[m].size ELSE h.node[a].size
  BY <1>3 DEF Merged
<1>5. IsHeap(r) /\ DOMAIN r.node = DOMAIN h.node \ {m}
  BY DEF Merged
<1> QED BY <1>2, <1>4, <1>5, MergeKeepsLayout

\* The chunk before n is a hole: it takes n over.
LEMMA MergePrevFacts ==
    ASSUME NEW h, IsHeap(h), NEW n \in DOMAIN h.node,
           NEW p \in DOMAIN h.node, PrevChunk(h, n) = p, p < n
    PROVE  LET c == MergePrev(h, n) IN
           /\ c.head = p /\ Merged(h, c.heap, p, n) /\ c.heap.node[p].hole
           /\ c.heap.bins = BinsWithout(h, p)
           /\ Layout(h) /\ n = p + 20 + h.node[p].size => Layout(c.heap)
<1> DEFINE at == n + 16 + h.node[n].size
           r == MergeInto(h, p, n, TRUE, p, at)
           c == MergePrev(h, n)
<1>1. get_foot(h, n) = at /\ n - SizeofFooter = n - 4 /\ overhead = 20 /\ p # n
  BY Addresses DEF SizeofFooter, overhead, SizeofNode
<1>2. c = [heap |-> r, head |-> p]
  BY <1>1, Zenon DEF MergePrev, MergeInto
<1> HIDE DEF at
<1>3. /\ Merged(h, r, p, n) /\ r.node[p].hole /\ r.bins = BinsWithout(h, p)
      /\ DOMAIN r.foot = (DOMAIN h.foot \cup {at}) \ {n - 4}
      /\ \A x \in DOMAIN r.foot : r.foot[x] = IF x = at THEN p ELSE h.foot[x]
  <2>1. ASSUME NEW q \in BOOLEAN
        PROVE  LET g == MergeInto(h, p, n, q, p, at) IN
               /\ Merged(h, g, p, n) /\ g.node[p].hole = q /\ g.bins = BinsWithout(h, p)
               /\ DOMAIN g.foot = (DOMAIN h.foot \cup {at}) \ {n - 4}
               /\ \A x \in DOMAIN g.foot : g.foot[x] = IF x = at THEN p ELSE h.foot[x]
    BY <1>1, MergeWrites
  <2>2. TRUE \in BOOLEAN
    OBVIOUS
  <2> QED BY <2>1, <2>2, Zenon
<1> HIDE DEF r
<1>4. ASSUME Layout(h), n = p + 20 + h.node[p].size PROVE Layout(r)
  BY <1>3, <1>4, MergeLayout DEF at
<1>5. c.head = p /\ c.heap = r
  BY <1>2
<1> QED BY <1>3, <1>4, <1>5

\* The chunk behind n is a hole: n takes it over.
LEMMA MergeNextFacts ==
    ASSUME NEW h, IsHeap(h), NEW n \in DOMAIN h.node, NEW m \in DOMAIN h.node, n # m
    PROVE  LET r == MergeNext(h, n, m) IN
           /\ Merged(h, r, n, m) /\ r.node[n].hole = h.node[n].hole
           /\ r.bins = BinsWithout(h, m)
           /\ Layout(h) /\ m = n + 20 + h.node[n].size => Layout(r)
<1> DEFINE size == h.node[n].size + 20 + h.node[m].size
           at == n + 16 + size
           h1 == remove_node(h, get_bin_index(h.node[m].size), m)
           h2 == write_node(h1, n, h.node[n].hole, size)
           r == MergeInto(h, n, m, h.node[n].hole, m, at)
<1>1. h.node[n].hole \in BOOLEAN /\ size \in Nat /\ n \in 0 .. LastHead
  BY Addresses DEF IsHeap
<1>7. get_bin_index(h.node[m].size) \in Bin
  BY Addresses, BinIndex
<1>2. SizeOf(h2, n) = size
  <2> HIDE DEF size
  <2>1. IsHeap(h1) /\ h1.node = h.node /\ h1.foot = h.foot /\ h1.end = h.end
    BY <1>7, RemoveNodeKeeps
  <2> HIDE DEF h1
  <2>2. h2.node = [a \in DOMAIN h1.node \cup {n} |->
            IF a = n THEN [hole |-> h.node[n].hole, size |-> size] ELSE h1.node[a]]
    <3>1. NodeWritten(h1, h2, n, h.node[n].hole, size)
      BY <1>1, <2>1, NodeOf
    <3> HIDE DEF h2
    <3> QED BY <3>1 DEF NodeWritten
  <2> HIDE DEF h2
  <2> QED BY <2>2 DEF SizeOf
<1>3. get_foot(h2, n) = at /\ m - SizeofFooter = m - 4 /\ overhead = 20
  BY <1>2 DEF get_foot, SizeofFooter, overhead, SizeofNode
<1>4. MergeNext(h, n, m) = r
  BY <1>3, Zenon DEF MergeNext, MergeInto
<1> HIDE DEF at
<1>5. /\ Merged(h, r, n, m) /\ r.node[n].hole = h.node[n].hole /\ r.bins = BinsWithout(h, m)
      /\ DOMAIN r.foot = (DOMAIN h.foot \cup {at}) \ {m - 4}
      /\ \A x \in DOMAIN r.foot : r.foot[x] = IF x = at THEN n ELSE h.foot[x]
  BY <1>1, MergeWrites
<1> HIDE DEF r
<1>6. ASSUME Layout(h), m = n + 20 + h.node[n].size PROVE Layout(r)
  <2>1. at = m + 16 + h.node[m].size
    BY <1>6, Addresses DEF at
  <2> QED BY <1>5, <1>6, <2>1, MergeLayout
<1> QED BY <1>4, <1>5, <1>6

\* The footer before a chunk names the chunk before it.
LEMMA PrevChunkFacts ==
    ASSUME NEW h, IsHeap(h), Layout(h), NEW n \in DOMAIN h.node, n # start
    PROVE  /\ n - SizeofFooter \in DOMAIN h.foot
           /\ PrevChunk(h, n) \in DOMAIN h.node /\ PrevChunk(h, n) < n
           /\ n = PrevChunk(h, n) + 20 + h.node[PrevChunk(h, n)].size
<1>1. n # 0
  BY DEF start
<1>2. PICK p \in DOMAIN h.node : p + 20 + h.node[p].size = n
  BY <1>1, LayoutNumbers
<1>3. p \in Nat /\ h.node[p].size \in Nat /\ n - 4 = p + 16 + h.node[p].size
  BY <1>2, Addresses
<1>4. n - 4 \in DOMAIN h.foot /\ h.foot[n - 4] = p
  BY <1>3, LayoutNumbers
<1> QED BY <1>2, <1>3, <1>4 DEF PrevChunk, SizeofFooter

\* The first half of heap_free: the chunk before is merged, or not.
FirstMerge(h, n) ==
    IF n # start /\ h.node[PrevChunk(h, n)].hole
    THEN MergePrev(h, n) ELSE [heap |-> h, head |-> n]

\* Coalesce in two steps.
LEMMA CoalesceSteps ==
    ASSUME NEW h, NEW n, NEW next
    PROVE  LET a == FirstMerge(h, n) IN
           Coalesce(h, n, next) =
             IF n # start /\ next
             THEN [heap |-> MergeNext(a.heap, a.head, NextChunk(h, n)), head |-> a.head] ELSE a
BY DEF Coalesce, FirstMerge

\* Merging writes headers and footers only, whatever the handler has done before.
LEMMA CoalesceTyped ==
    ASSUME NEW h, IsHeap(h), NEW n \in DOMAIN h.node,
           n # start => PrevChunk(h, n) \in DOMAIN h.node /\ PrevChunk(h, n) < n
    PROVE  LET c == Coalesce(h, n, NextIsHole(h, n)) IN
           IsHeap(c.heap) /\ c.head \in 0 .. LastHead /\ c.heap.end = h.end
<1> DEFINE a == FirstMerge(h, n)
           m == NextChunk(h, n)
           c == Coalesce(h, n, NextIsHole(h, n))
<1>0. n \in 0 .. LastHead
  BY DEF IsHeap
<1>1. n \in 0 .. LastHead /\ n \in Nat /\ m \in Nat /\ n < m
  BY <1>0, Addresses
<1>2. /\ IsHeap(a.heap) /\ a.heap.end = h.end /\ a.head \in DOMAIN a.heap.node
      /\ a.head <= n /\ a.head \in 0 .. LastHead
      /\ DOMAIN h.node \ {n} \subseteq DOMAIN a.heap.node
  <2>1. CASE n # start /\ h.node[PrevChunk(h, n)].hole
    <3> DEFINE p == PrevChunk(h, n)
    <3>1. p \in DOMAIN h.node /\ p < n /\ p \in Nat
      BY <2>1, Addresses
    <3>2. a = MergePrev(h, n)
      BY <2>1 DEF FirstMerge
    <3> HIDE DEF p, a
    <3>3. a.head = p /\ Merged(h, a.heap, p, n)
      BY <3>1, <3>2, MergePrevFacts DEF p
    <3>4. p \in 0 .. LastHead
      BY <3>1 DEF IsHeap
    <3> QED BY <1>1, <3>1, <3>3, <3>4 DEF Merged
  <2>2. CASE ~(n # start /\ h.node[PrevChunk(h, n)].hole)
    <3>1. a.heap = h /\ a.head = n
      BY <2>2 DEF FirstMerge
    <3> QED BY <1>1, <3>1
  <2> QED BY <2>1, <2>2
<1> HIDE DEF a
<1>3. CASE n # start /\ NextIsHole(h, n)
  <2>1. m \in DOMAIN h.node
    BY <1>3 DEF NextIsHole
  <2>2. m \in DOMAIN a.heap.node /\ a.head # m
    BY <1>1, <1>2, <2>1
  <2>3. c = [heap |-> MergeNext(a.heap, a.head, m), head |-> a.head]
    BY <1>3, CoalesceSteps DEF a
  <2> HIDE DEF m
  <2>4. Merged(a.heap, MergeNext(a.heap, a.head, m), a.head, m)
    BY <1>2, <2>2, MergeNextFacts
  <2> QED BY <1>2, <2>3, <2>4 DEF Merged
<1>4. CASE ~(n # start /\ NextIsHole(h, n))
  <2>1. c = a
    BY <1>4, CoalesceSteps DEF a
  <2> QED BY <1>2, <2>1
<1> QED BY <1>3, <1>4

\* The chunk that is being freed, merged or not, is the only one that changes.
Freeing(h, n, r, head) ==
    /\ IsHeap(r) /\ Layout(r) /\ r.end = h.end
    /\ head \in DOMAIN r.node /\ DOMAIN r.node \subseteq DOMAIN h.node
    /\ {c \in DOMAIN r.node \ {head} : ~r.node[c].hole}
         = {c \in DOMAIN h.node \ {n} : ~h.node[c].hole}
    /\ \A c \in DOMAIN r.node \ {head} : r.node[c] = h.node[c]
    /\ BinsKeep(h, {}) => BinsKeep(r, {head})

\* So it is after the first half.
LEMMA FirstMergeFacts ==
    ASSUME NEW h, IsHeap(h), Layout(h), NEW n \in DOMAIN h.node, ~h.node[n].hole
    PROVE  LET a == FirstMerge(h, n) IN
           /\ Freeing(h, n, a.heap, a.head)
           /\ a.head + 20 + a.heap.node[a.head].size = n + 20 + h.node[n].size
           /\ DOMAIN h.node \ {n} \subseteq DOMAIN a.heap.node
           /\ a.head <= n
<1> DEFINE a == FirstMerge(h, n)
<1>0. n \in Nat /\ h.node[n].size \in Nat
  BY Addresses
<1>1. CASE n # start /\ h.node[PrevChunk(h, n)].hole
  <2> DEFINE p == PrevChunk(h, n)
  <2>1. /\ p \in DOMAIN h.node /\ p < n /\ n = p + 20 + h.node[p].size
        /\ p \in Nat /\ h.node[p].size \in Nat /\ h.node[p].hole
    BY <1>1, PrevChunkFacts, Addresses
  <2>2. a = MergePrev(h, n)
    BY <1>1 DEF FirstMerge
  <2>3. p = PrevChunk(h, n)
    OBVIOUS
  <2> HIDE DEF p, a
  <2>4. /\ a.head = p /\ Merged(h, a.heap, p, n) /\ a.heap.node[p].hole
        /\ a.heap.bins = BinsWithout(h, p) /\ Layout(a.heap)
    <3>0. p \in DOMAIN h.node /\ PrevChunk(h, n) = p /\ p < n
      BY <2>1, <2>3
    <3>3. LET c == MergePrev(h, n) IN
          /\ c.head = p /\ Merged(h, c.heap, p, n) /\ c.heap.node[p].hole
          /\ c.heap.bins = BinsWithout(h, p)
      BY <3>0, MergePrevFacts, Zenon
    <3>1. /\ a.head = p /\ Merged(h, a.heap, p, n) /\ a.heap.node[p].hole
          /\ a.heap.bins = BinsWithout(h, p)
      BY <2>2, <3>3, Zenon
    <3>2. Layout(a.heap)
      BY <2>1, <2>2, <2>3, MergePrevFacts
    <3> QED BY <3>1, <3>2
  <2> DEFINE r == a.heap
             b == get_bin_index(h.node[p].size)
             u == remove_node(h, b, p)
  <2>5. /\ IsHeap(r) /\ r.end = h.end /\ DOMAIN r.node = DOMAIN h.node \ {n}
        /\ r.node[p].size = h.node[p].size + 20 + h.node[n].size
        /\ \A c \in DOMAIN h.node \ {p, n} : r.node[c] = h.node[c]
    BY <2>4 DEF Merged
  <2>6. b \in Bin
    BY <2>1, BinIndex
  <2>7. u.node = h.node /\ r.bins = u.bins
    <3>1. IsHeap(u) /\ u.node = h.node /\ u.foot = h.foot /\ u.end = h.end
      <4> HIDE DEF b
      <4> QED BY <2>6, RemoveNodeKeeps
    <3> QED BY <2>4, <3>1 DEF BinsWithout
  <2> HIDE DEF r
  <2>8. ASSUME BinsKeep(h, {}) PROVE BinsKeep(r, {p})
    <3>1. BinsKeep(u, {p})
      <4>1. \A c \in Bin \ {b} : p \notin HolesOf(h, {}, c)
        BY DEF HolesOf
      <4>2. BinsKeep(u, {} \cup {p})
        BY <2>6, <2>8, <4>1, BinsRemove
      <4>3. {} \cup {p} = {p}
        OBVIOUS
      <4> QED BY <4>2, <4>3
    <3> HIDE DEF u
    <3>2. {c \in DOMAIN r.node \ {p} : r.node[c].hole} = {c \in DOMAIN u.node \ {p} : u.node[c].hole}
      BY <2>5, <2>7
    <3>3. \A c \in {c \in DOMAIN u.node \ {p} : u.node[c].hole} : r.node[c].size = u.node[c].size
      BY <2>5, <2>7
    <3> QED BY <2>7, <3>1, <3>2, <3>3, BinsSame
  <2>9. {c \in DOMAIN r.node \ {p} : ~r.node[c].hole} = {c \in DOMAIN h.node \ {n} : ~h.node[c].hole}
    BY <2>1, <2>5
  <2>10. p \in DOMAIN r.node /\ DOMAIN r.node \subseteq DOMAIN h.node
         /\ \A c \in DOMAIN r.node \ {p} : r.node[c] = h.node[c]
    BY <2>1, <2>5
  <2>11. Freeing(h, n, r, p)
    BY <2>4, <2>5, <2>8, <2>9, <2>10 DEF Freeing, r
  <2>12. p + 20 + r.node[p].size = n + 20 + h.node[n].size /\ p <= n
    BY <1>0, <2>1, <2>5
  <2> QED BY <2>4, <2>5, <2>11, <2>12 DEF r, a
<1>2. CASE ~(n # start /\ h.node[PrevChunk(h, n)].hole)
  <2>1. a.heap = h /\ a.head = n
    BY <1>2 DEF FirstMerge
  <2> HIDE DEF a
  <2>2. ASSUME BinsKeep(h, {}) PROVE BinsKeep(h, {n})
    <3>1. {c \in DOMAIN h.node \ {n} : h.node[c].hole} = {c \in DOMAIN h.node \ {} : h.node[c].hole}
      OBVIOUS
    <3> QED BY <2>2, <3>1, BinsSame
  <2>3. Freeing(h, n, h, n)
    BY <2>2 DEF Freeing
  <2> QED BY <1>0, <2>1, <2>3 DEF a
<1> QED BY <1>1, <1>2

\* heap_free up to the last add_node.
LEMMA CoalesceFacts ==
    ASSUME NEW h, IsHeap(h), Layout(h), NEW n \in DOMAIN h.node, ~h.node[n].hole
    PROVE  LET c == Coalesce(h, n, NextIsHole(h, n)) IN Freeing(h, n, c.heap, c.head)
<1> DEFINE c == Coalesce(h, n, NextIsHole(h, n))
           m == NextChunk(h, n)
           a == FirstMerge(h, n)
           A == a.heap
           hd == a.head
<1>1. /\ Freeing(h, n, A, hd)
      /\ hd + 20 + A.node[hd].size = n + 20 + h.node[n].size
      /\ DOMAIN h.node \ {n} \subseteq DOMAIN A.node
      /\ hd <= n
  BY FirstMergeFacts
<1>2. CASE ~(n # start /\ NextIsHole(h, n))
  <2>1. c = a
    BY <1>2, CoalesceSteps
  <2> QED BY <1>1, <2>1
<1>3. CASE n # start /\ NextIsHole(h, n)
  <2> DEFINE r == MergeNext(A, hd, m)
  <2>1. c.heap = r /\ c.head = hd
    <3>1. c = [heap |-> r, head |-> hd]
      BY <1>3, CoalesceSteps
    <3> QED BY <3>1
  <2> HIDE DEF c, a, A, hd
  <2>2. m \in DOMAIN h.node /\ h.node[m].hole /\ m = n + 20 + h.node[n].size
        /\ n \in Nat /\ h.node[n].size \in Nat
    BY <1>3, Addresses DEF NextIsHole
  <2> HIDE DEF m
  <2>3. IsHeap(A) /\ Layout(A) /\ hd \in DOMAIN A.node
    BY <1>1 DEF Freeing
  <2>4. hd \in Nat /\ hd # m /\ m # n
    BY <1>1, <2>2, <2>3, Addresses
  <2>5. m \in DOMAIN A.node /\ m = hd + 20 + A.node[hd].size
    BY <1>1, <2>2, <2>4
  <2>6. A.node[m] = h.node[m]
    BY <1>1, <2>4, <2>5 DEF Freeing
  <2>7. Merged(A, r, hd, m) /\ r.bins = BinsWithout(A, m) /\ Layout(r)
    BY <2>3, <2>4, <2>5, MergeNextFacts
  <2> HIDE DEF r
  <2>8. /\ IsHeap(r) /\ r.end = A.end /\ DOMAIN r.node = DOMAIN A.node \ {m}
        /\ \A x \in DOMAIN A.node \ {hd, m} : r.node[x] = A.node[x]
    BY <2>7 DEF Merged
  <2> DEFINE b == get_bin_index(A.node[m].size)
             u == remove_node(A, b, m)
  <2>9. b \in Bin
    BY <2>3, <2>5, Addresses, BinIndex
  <2>10. u.node = A.node /\ r.bins = u.bins
    <3>1. IsHeap(u) /\ u.node = A.node /\ u.foot = A.foot /\ u.end = A.end
      <4> HIDE DEF b
      <4> QED BY <2>3, <2>9, RemoveNodeKeeps
    <3> QED BY <2>7, <3>1 DEF BinsWithout
  <2>11. ASSUME BinsKeep(A, {hd}) PROVE BinsKeep(r, {hd})
    <3>1. BinsKeep(u, {hd} \cup {m})
      <4>1. \A x \in Bin \ {b} : m \notin HolesOf(A, {hd}, x)
        BY DEF HolesOf
      <4> QED BY <2>3, <2>9, <2>11, <4>1, BinsRemove
    <3> HIDE DEF u
    <3>2. {x \in DOMAIN r.node \ {hd} : r.node[x].hole}
            = {x \in DOMAIN u.node \ ({hd} \cup {m}) : u.node[x].hole}
      BY <2>8, <2>10
    <3>3. \A x \in {x \in DOMAIN u.node \ ({hd} \cup {m}) : u.node[x].hole} :
             r.node[x].size = u.node[x].size
      BY <2>8, <2>10
    <3> QED BY <2>10, <3>1, <3>2, <3>3, BinsSame
  <2>12. {x \in DOMAIN r.node \ {hd} : ~r.node[x].hole}
           = {x \in DOMAIN A.node \ {hd} : ~A.node[x].hole}
    BY <2>2, <2>6, <2>8
  <2>13. \A x \in DOMAIN r.node \ {hd} : r.node[x] = A.node[x]
    BY <2>8
  <2>14. hd \in DOMAIN r.node /\ DOMAIN r.node \subseteq DOMAIN A.node
    BY <2>3, <2>4, <2>8
  <2>15. Freeing(h, n, r, hd)
    BY <1>1, <2>7, <2>8, <2>11, <2>12, <2>13, <2>14 DEF Freeing
  <2> QED BY <2>1, <2>15 DEF c
<1> QED BY <1>2, <1>3

\* The chunk becomes a hole and goes to its bin.
LEMMA ReleaseFacts ==
    ASSUME NEW h, IsHeap(h), NEW n \in 0 .. LastHead
    PROVE  LET r == Release(h, n) IN
           /\ IsHeap(r) /\ r.end = h.end /\ r.foot = h.foot
           /\ n \in DOMAIN h.node =>
                /\ DOMAIN r.node = DOMAIN h.node
                /\ \A c \in DOMAIN h.node \ {n} : r.node[c] = h.node[c]
                /\ r.node[n].hole
                /\ Layout(h) => Layout(r)
                /\ BinsKeep(h, {n}) => BinsKeep(r, {})
<1> DEFINE w == write_node(h, n, TRUE, SizeOf(h, n))
           r == Release(h, n)
<1>1. SizeOf(h, n) \in Nat
  BY SizeTyped
<1>2. /\ IsHeap(w) /\ w.foot = h.foot /\ w.end = h.end /\ w.bins = h.bins
      /\ w.node = [a \in DOMAIN h.node \cup {n} |->
            IF a = n THEN [hole |-> TRUE, size |-> SizeOf(h, n)] ELSE h.node[a]]
  <2>1. ASSUME NEW q \in BOOLEAN
        PROVE  LET v == write_node(h, n, q, SizeOf(h, n)) IN
               /\ IsHeap(v) /\ v.foot = h.foot /\ v.end = h.end /\ v.bins = h.bins
               /\ v.node = [a \in DOMAIN h.node \cup {n} |->
                     IF a = n THEN [hole |-> q, size |-> SizeOf(h, n)] ELSE h.node[a]]
    BY <1>1, WriteNode
  <2>2. TRUE \in BOOLEAN
    OBVIOUS
  <2> QED BY <2>1, <2>2, Zenon
<1>3. r = add_node(w, n)
  BY Zenon DEF Release
<1> HIDE DEF w, r
<1>4. IsHeap(r) /\ r.node = w.node /\ r.foot = h.foot /\ r.end = h.end
  BY <1>2, <1>3, AddNode
<1>5. ASSUME n \in DOMAIN h.node
      PROVE  /\ DOMAIN r.node = DOMAIN h.node
             /\ \A c \in DOMAIN h.node \ {n} : r.node[c] = h.node[c]
             /\ r.node[n].hole
             /\ Layout(h) => Layout(r)
             /\ BinsKeep(h, {n}) => BinsKeep(r, {})
  <2>1. /\ DOMAIN w.node = DOMAIN h.node /\ w.node[n].hole
        /\ w.node[n].size = SizeOf(h, n) /\ SizeOf(h, n) = h.node[n].size
        /\ \A c \in DOMAIN h.node \ {n} : w.node[c] = h.node[c]
    BY <1>2, <1>5, Addresses
  <2>2. ASSUME Layout(h) PROVE Layout(r)
    BY <1>4, <2>1, <2>2, LayoutSame
  <2>3. ASSUME BinsKeep(h, {n}) PROVE BinsKeep(r, {})
    <3>1. {c \in DOMAIN w.node \ {n} : w.node[c].hole} = {c \in DOMAIN h.node \ {n} : h.node[c].hole}
      BY <2>1
    <3>2. \A c \in {c \in DOMAIN h.node \ {n} : h.node[c].hole} : w.node[c].size = h.node[c].size
      BY <2>1
    <3>3. BinsKeep(w, {n})
      BY <1>2, <2>3, <3>1, <3>2, BinsSame
    <3> QED BY <1>2, <1>3, <1>5, <2>1, <3>3, BinsAdd
  <2> QED BY <1>4, <2>1, <2>2, <2>3
<1> QED BY <1>4, <1>5 DEF r

-----------------------------------------------------------------------------
(* The search, and the chunks that a walk meets.                           *)

\* get_best_fit returns the first node of the bin that is large enough.
LEMMA BestFitOfBin ==
    ASSUME NEW h, IsHeap(h), NEW b \in Bin, NEW size \in Nat
    PROVE  LET s == h.bins[b]
               f == get_best_fit(h, b, size) IN
           /\ f # NULL => \E i \in 1 .. Len(s) :
                /\ f = s[i] /\ f \in 0 .. LastHead /\ SizeOf(h, f) >= size
                /\ \A j \in 1 .. Len(s) : SizeOf(h, s[j]) >= size => i <= j
           /\ (\E i \in 1 .. Len(s) : SizeOf(h, s[i]) >= size) => f # NULL
<1> DEFINE s == h.bins[b]
           f == get_best_fit(h, b, size)
           T == {i \in 1 .. Len(s) : SizeOf(h, s[i]) >= size}
<1>1. s \in Seq(0 .. LastHead)
  BY DEF IsHeap
<1>2. SelectInSeq(s, LAMBDA n : SizeOf(h, n) >= size) = IF T # {} THEN Min(T) ELSE 0
  BY DEF SelectInSeq
<1>3. CASE T = {}
  <2>1. f = NULL
    BY <1>2, <1>3 DEF get_best_fit
  <2> QED BY <1>3, <2>1
<1>4. CASE T # {}
  <2>1. T \subseteq Nat
    OBVIOUS
  <2>2. Min(T) \in T /\ \A j \in T : Min(T) <= j
    BY <1>4, <2>1, FirstPlace
  <2>3. Min(T) # 0
    BY <2>2
  <2>4. f = s[Min(T)]
    BY <1>2, <1>4, <2>3 DEF get_best_fit
  <2>5. Min(T) \in 1 .. Len(s) /\ SizeOf(h, s[Min(T)]) >= size
        /\ \A j \in 1 .. Len(s) : SizeOf(h, s[j]) >= size => Min(T) <= j
    BY <2>2
  <2> DEFINE m == Min(T)
  <2>6a. m \in 1 .. Len(s)
    BY <2>5
  <2> HIDE DEF s, T, m
  <2>6b. s[m] \in 0 .. LastHead
    BY <1>1, <2>6a, ElementOfSeq
  <2>6. s[Min(T)] \in 0 .. LastHead /\ s[Min(T)] # NULL
    BY <2>6b, ConstantsTyped DEF m
  <2> HIDE DEF f
  <2> QED BY <2>4, <2>5, <2>6 DEF f, s
<1> QED BY <1>3, <1>4

\* The search of heap_alloc: the first bin with a fit, and the fit in it.
FirstBin(h, size) ==
    LET bs == BinsWithFit(h, size) IN CHOOSE i \in bs : \A j \in bs : i <= j

\* What the search finds.
LEMMA SearchFinds ==
    ASSUME NEW h, IsHeap(h), NEW size \in Nat, BinsWithFit(h, size) # {}
    PROVE  LET b == FirstBin(h, size)
               s == h.bins[b]
               f == get_best_fit(h, b, size) IN
           /\ b \in Bin /\ \A j \in BinsWithFit(h, size) : b <= j
           /\ f \in 0 .. LastHead /\ SizeOf(h, f) >= size
           /\ \E i \in 1 .. Len(s) :
                f = s[i] /\ \A j \in 1 .. Len(s) : SizeOf(h, s[j]) >= size => i <= j
<1> DEFINE bs == BinsWithFit(h, size)
           b == FirstBin(h, size)
           f == get_best_fit(h, b, size)
<1>1. get_bin_index(size) \in Bin
  BY BinIndex
<1>2. bs \subseteq Bin /\ bs \subseteq Nat
  BY <1>1, ConstantsTyped DEF BinsWithFit, Bin
<1>3. \A i \in bs : get_best_fit(h, i, size) # NULL
  BY DEF BinsWithFit
<1> HIDE DEF bs
<1>4. \E i \in bs : \A j \in bs : i <= j
  BY <1>2, LeastElement DEF bs
<1>5. b \in bs /\ \A j \in bs : b <= j
  BY <1>4 DEF FirstBin, bs
<1> HIDE DEF b
<1>6. b \in Bin /\ f # NULL
  BY <1>2, <1>3, <1>5
<1>7. \E i \in 1 .. Len(h.bins[b]) :
         /\ f = h.bins[b][i] /\ f \in 0 .. LastHead /\ SizeOf(h, f) >= size
         /\ \A j \in 1 .. Len(h.bins[b]) : SizeOf(h, h.bins[b][j]) >= size => i <= j
  BY <1>6, BestFitOfBin
<1> QED BY <1>5, <1>6, <1>7 DEF b, bs

\* Where the bins hold the holes, it is a hole in the bin of its size, and no
\* other hole fits better.
LEMMA SearchFindsHole ==
    ASSUME NEW h, IsHeap(h), BinsKeep(h, {}), NEW size \in Nat, BinsWithFit(h, size) # {}
    PROVE  LET b == FirstBin(h, size)
               f == get_best_fit(h, b, size) IN
           /\ b \in Bin /\ f \in DOMAIN h.node /\ h.node[f].hole
           /\ get_bin_index(h.node[f].size) = b /\ h.node[f].size >= size
           /\ \A c \in DOMAIN h.node : h.node[c].hole /\ h.node[c].size >= size =>
                h.node[f].size <= h.node[c].size
<1> DEFINE b == FirstBin(h, size)
           s == h.bins[b]
           f == get_best_fit(h, b, size)
<1>1. /\ b \in Bin /\ \A j \in BinsWithFit(h, size) : b <= j
      /\ f \in 0 .. LastHead /\ SizeOf(h, f) >= size
      /\ \E i \in 1 .. Len(s) :
           f = s[i] /\ \A j \in 1 .. Len(s) : SizeOf(h, s[j]) >= size => i <= j
  BY SearchFinds
<1> HIDE DEF b
<1>2. \A x \in Bin : /\ h.bins[x] \in Seq(0 .. LastHead)
                     /\ Range(h.bins[x]) = {h.bins[x][i] : i \in 1 .. Len(h.bins[x])}
  <2>1. SUFFICES ASSUME NEW x \in Bin
        PROVE  /\ h.bins[x] \in Seq(0 .. LastHead)
               /\ Range(h.bins[x]) = {h.bins[x][i] : i \in 1 .. Len(h.bins[x])}
    OBVIOUS
  <2>2. h.bins[x] \in Seq(0 .. LastHead)
    BY DEF IsHeap
  <2>3. DOMAIN h.bins[x] = 1 .. Len(h.bins[x])
    BY <2>2
  <2> QED BY <2>2, <2>3 DEF Range
<1>3. \A x \in Bin : Range(h.bins[x]) = HolesOf(h, {}, x) /\ SortedBin(h, h.bins[x])
  BY DEF BinsKeep
<1> HIDE DEF f
<1>4. PICK i \in 1 .. Len(s) :
          f = s[i] /\ \A j \in 1 .. Len(s) : SizeOf(h, s[j]) >= size => i <= j
  BY <1>1
<1>5. f \in HolesOf(h, {}, b)
  <2>1. f \in {s[k] : k \in 1 .. Len(s)}
    BY <1>4
  <2>2. Range(s) = {s[k] : k \in 1 .. Len(s)} /\ Range(s) = HolesOf(h, {}, b)
    BY <1>1, <1>2, <1>3
  <2> QED BY <2>1, <2>2, Zenon
<1>6. f \in DOMAIN h.node /\ h.node[f].hole /\ get_bin_index(h.node[f].size) = b
  BY <1>5 DEF HolesOf
<1>7. h.node[f].size \in Nat /\ h.node[f].size >= size
  BY <1>1, <1>6, Addresses
<1>8. ASSUME NEW c \in DOMAIN h.node, h.node[c].hole, h.node[c].size >= size
      PROVE  h.node[f].size <= h.node[c].size
  <2> DEFINE d == get_bin_index(h.node[c].size)
             t == h.bins[d]
  <2>1. h.node[c].size \in Nat /\ SizeOf(h, c) = h.node[c].size
    BY Addresses
  <2>2. d \in Bin /\ get_bin_index(size) <= d /\ get_bin_index(size) \in Bin
    BY <1>8, <2>1, BinIndex
  <2>3. c \in HolesOf(h, {}, d)
    BY <1>8 DEF HolesOf
  <2>3a. d = get_bin_index(h.node[c].size)
    OBVIOUS
  <2> HIDE DEF d
  <2>4. PICK k \in 1 .. Len(t) : c = t[k]
    BY <1>2, <1>3, <2>2, <2>3
  <2>5. get_best_fit(h, d, size) # NULL
    BY <1>8, <2>1, <2>2, <2>4, BestFitOfBin
  <2>6. d \in BinsWithFit(h, size)
    BY <2>2, <2>5, ConstantsTyped DEF BinsWithFit, Bin
  <2>7. b <= d
    BY <1>1, <2>6
  <2>8. CASE b = d
    <3>1. i <= k
      BY <1>4, <1>8, <2>1, <2>4, <2>8
    <3>2. CASE i = k
      BY <1>4, <1>7, <2>4, <2>8, <3>2
    <3>3. CASE i # k
      <4>1. i < k
        BY <3>1, <3>3
      <4>2. SortedBin(h, s) /\ i \in 1 .. Len(s) /\ k \in 1 .. Len(s)
        BY <1>1, <1>3, <2>8
      <4>3. h.node[s[i]].size <= h.node[s[k]].size
        BY <4>1, <4>2 DEF SortedBin
      <4> QED BY <1>4, <2>4, <2>8, <4>3
    <3> QED BY <3>2, <3>3
  <2>9. CASE b # d
    <3>1. b \in Nat /\ d \in Nat /\ b < d
      BY <1>1, <2>2, <2>7, <2>9, ConstantsTyped DEF Bin
    <3>2. SUFFICES ASSUME h.node[c].size < h.node[f].size PROVE FALSE
      BY <1>7, <2>1
    <3>3. get_bin_index(h.node[c].size) <= get_bin_index(h.node[f].size)
      BY <1>7, <2>1, <3>2, BinIndex
    <3> QED BY <1>6, <2>3a, <3>1, <3>3
  <2> QED BY <2>8, <2>9
<1> QED BY <1>1, <1>6, <1>7, <1>8 DEF f, b

\* The equation of the walk from the start of the heap.
IsWalkOf(f) ==
    f = [a \in 0 .. HeapMax |->
            IF a \in DOMAIN heap.node /\ NextChunk(heap, a) \in 1 .. HeapMax
            THEN {a} \cup f[NextChunk(heap, a)] ELSE {}]

\* Walking by the sizes meets every chunk.
LEMMA ChunksAreHeads ==
    ASSUME IsHeap(heap), Layout(heap)
    PROVE  Chunks = DOMAIN heap.node
<1> DEFINE N == DOMAIN heap.node
           Nx(a) == NextChunk(heap, a)
           g == [a \in 0 .. HeapMax |-> IF a \in N THEN {b \in N : a <= b} ELSE {}]
<1>1. \A a \in N : a \in Nat /\ a + 20 <= Top /\ Nx(a) \in Nat /\ Nx(a) > a
  BY Addresses
<1>2. /\ 0 \in N
      /\ \A a \in N : Nx(a) \in N \cup {Top}
      /\ \A a, b \in N : a < b => Nx(a) <= b
  BY DEF Layout, start
<1>3. \A a \in N : a \in 0 .. HeapMax /\ Nx(a) \in 1 .. HeapMax /\ Nx(a) <= Top
  BY <1>1, <1>2, ConstantsTyped
<1>4. Top \notin N /\ Top \in 0 .. HeapMax
  BY <1>1, ConstantsTyped
<1>5. ASSUME NEW a \in N PROVE {b \in N : a <= b} = {a} \cup {b \in N : Nx(a) <= b}
  BY <1>1, <1>2
<1>6. ASSUME NEW a \in N PROVE g[Nx(a)] = {b \in N : Nx(a) <= b}
  <2>1. Nx(a) \in 0 .. HeapMax
    BY <1>3
  <2>2. CASE Nx(a) \in N
    BY <2>1, <2>2
  <2>3. CASE Nx(a) = Top
    <3>1. g[Nx(a)] = {}
      BY <1>4, <2>3
    <3>2. \A b \in N : ~(Top <= b)
      BY <1>1, ConstantsTyped
    <3> QED BY <2>3, <3>1, <3>2
  <2> QED BY <1>2, <2>2, <2>3
<1>7. ASSUME NEW a \in 0 .. HeapMax
      PROVE  g[a] = IF a \in N /\ Nx(a) \in 1 .. HeapMax THEN {a} \cup g[Nx(a)] ELSE {}
  <2>1. CASE a \in N
    <3>1. g[a] = {b \in N : a <= b}
      BY <2>1
    <3> HIDE DEF g
    <3> QED BY <1>3, <1>5, <1>6, <2>1, <3>1
  <2>2. CASE a \notin N
    BY <2>2
  <2> QED BY <2>1, <2>2
<1>8. g = [a \in 0 .. HeapMax |-> g[a]]
  OBVIOUS
<1>9. 0 \in 0 .. HeapMax /\ g[0] = N
  <2>1. 0 \in 0 .. HeapMax
    BY ConstantsTyped
  <2>2. \A b \in N : 0 <= b
    BY <1>1
  <2>3. g[0] = {b \in N : 0 <= b}
    BY <1>2, <2>1, Zenon
  <2> HIDE DEF g
  <2>4. {b \in N : 0 <= b} = N
    BY <2>2
  <2> QED BY <2>1, <2>3, <2>4
<1> HIDE DEF g
<1>10. IsWalkOf(g)
  BY <1>7, <1>8, Zenon DEF IsWalkOf
<1>11. ChunksFrom = CHOOSE f : IsWalkOf(f)
  BY DEF ChunksFrom, IsWalkOf
<1>12. IsWalkOf(ChunksFrom)
  BY <1>10, <1>11, Zenon
<1> DEFINE f == ChunksFrom
<1> HIDE DEF f
<1>13. \A a \in 0 .. HeapMax :
          f[a] = IF a \in N /\ Nx(a) \in 1 .. HeapMax THEN {a} \cup f[Nx(a)] ELSE {}
  BY <1>12, Zenon DEF IsWalkOf, f
<1> DEFINE T == {k \in Nat : \A a \in 0 .. HeapMax : a + k = HeapMax => f[a] = g[a]}
<1>14. ASSUME NEW k \in Nat, \A j \in 0 .. k - 1 : j \in T PROVE k \in T
  <2>1. SUFFICES ASSUME NEW a \in 0 .. HeapMax, a + k = HeapMax PROVE f[a] = g[a]
    OBVIOUS
  <2>2. CASE a \in N
    <3>1. Nx(a) \in 0 .. HeapMax /\ HeapMax - Nx(a) \in 0 .. k - 1
          /\ Nx(a) + (HeapMax - Nx(a)) = HeapMax
      BY <1>1, <1>3, <2>1, <2>2, ConstantsTyped
    <3>2. f[Nx(a)] = g[Nx(a)]
      BY <1>14, <3>1
    <3> HIDE DEF T
    <3> QED BY <1>7, <1>13, <2>2, <3>2
  <2>3. CASE a \notin N
    BY <1>7, <1>13, <2>3
  <2> QED BY <2>2, <2>3
<1> HIDE DEF T
<1>15. Nat \subseteq T
  BY <1>14, Strong
<1>16. f[0] = g[0]
  <2>1. HeapMax \in T /\ 0 + HeapMax = HeapMax
    BY <1>15, ConstantsTyped
  <2> QED BY <1>9, <2>1 DEF T
<1> QED BY <1>9, <1>16 DEF Chunks, start, f

-----------------------------------------------------------------------------
(* Who owns a chunk.                                                       *)

\* The block that a slot points to.
LEMMA BlockFacts ==
    ASSUME NEW h, NEW X, NEW l, NEW p \in Pointers, NEW w, Owners(h, X, l, p, w),
           NEW s \in Slot, p[s] # NULL
    PROVE  /\ p[s] \in Nat /\ p[s] - 8 \in InUse(h, X) /\ p[s] - 8 \notin l
           /\ w[s] <= h.node[p[s] - 8].size
           /\ \A t \in Slot \ {s} : p[t] # NULL => p[t] \in Nat /\ p[t] # p[s]
<1>1. \A t \in Slot : p[t] # NULL => p[t] \in Nat
  BY DEF Pointers
<1>2. offset = 8
  BY DEF offset
<1>3. p[s] - 8 \in BlocksOf(p)
  BY <1>2 DEF BlocksOf
<1>4. p[s] - 8 \in InUse(h, X) /\ p[s] - 8 \notin l
  BY <1>3 DEF Owners
<1>5. w[s] <= h.node[p[s] - 8].size
  BY <1>2 DEF Owners
<1>6. \A t \in Slot \ {s} : p[t] # NULL => p[t] # p[s]
  BY DEF Owners
<1> QED BY <1>1, <1>4, <1>5, <1>6

\* The same chunks are in use and none of them has shrunk.
LEMMA OwnersSame ==
    ASSUME NEW h, NEW r, NEW X, NEW Y, NEW l, NEW p \in Pointers, NEW w,
           Owners(h, X, l, p, w), InUse(r, Y) = InUse(h, X),
           \A c \in InUse(h, X) : r.node[c].size = h.node[c].size
    PROVE  Owners(r, Y, l, p, w)
<1>1. ASSUME NEW s \in Slot, p[s] # NULL PROVE w[s] <= r.node[p[s] - offset].size
  <2>1. p[s] - 8 \in InUse(h, X) /\ w[s] <= h.node[p[s] - 8].size
    BY <1>1, BlockFacts
  <2> QED BY <2>1 DEF offset
<1> QED BY <1>1 DEF Owners

\* The blocks when one slot gets a new one.
LEMMA BlocksGain ==
    ASSUME NEW p \in Pointers, NEW s \in Slot, NEW f \in Nat
    PROVE  BlocksOf([p EXCEPT ![s] = f + 8]) =
             {p[t] - 8 : t \in {u \in Slot \ {s} : p[u] # NULL}} \cup {f}
<1> DEFINE q == [p EXCEPT ![s] = f + 8]
           A == {u \in Slot \ {s} : p[u] # NULL}
<1>1. q[s] = f + 8 /\ \A t \in Slot \ {s} : q[t] = p[t]
  BY DEF Pointers
<1> HIDE DEF q
<1>2. f + 8 # NULL /\ (f + 8) - 8 = f
  BY ConstantsTyped
<1>3. {t \in Slot : q[t] # NULL} = A \cup {s}
  BY <1>1, <1>2
<1>4. BlocksOf(q) = {q[t] - 8 : t \in A \cup {s}}
  BY <1>3 DEF BlocksOf, offset
<1>5. \A t \in A : q[t] = p[t] /\ t # s
  BY <1>1
<1> HIDE DEF A
<1>6. {q[t] - 8 : t \in A \cup {s}} = {p[t] - 8 : t \in A} \cup {q[s] - 8}
  BY <1>5
<1>7. q[s] - 8 = f
  BY <1>1, <1>2
<1> QED BY <1>4, <1>6, <1>7 DEF q, A

\* The blocks when one slot is cleared.
LEMMA BlocksDrop ==
    ASSUME NEW p \in Pointers, NEW s \in Slot
    PROVE  BlocksOf([p EXCEPT ![s] = NULL]) =
             {p[t] - 8 : t \in {u \in Slot \ {s} : p[u] # NULL}}
<1> DEFINE q == [p EXCEPT ![s] = NULL]
           A == {u \in Slot \ {s} : p[u] # NULL}
<1>1. q[s] = NULL /\ \A t \in Slot \ {s} : q[t] = p[t]
  BY DEF Pointers
<1> HIDE DEF q
<1>3. {t \in Slot : q[t] # NULL} = A
  BY <1>1
<1>4. BlocksOf(q) = {q[t] - 8 : t \in A}
  BY <1>3 DEF BlocksOf, offset
<1>5. \A t \in A : q[t] = p[t]
  BY <1>1
<1> HIDE DEF A
<1>6. {q[t] - 8 : t \in A} = {p[t] - 8 : t \in A}
  BY <1>5
<1> QED BY <1>4, <1>6 DEF q, A

\* The blocks of the other slots.
LEMMA BlocksOthers ==
    ASSUME NEW h, NEW X, NEW l, NEW p \in Pointers, NEW w, Owners(h, X, l, p, w),
           NEW s \in Slot, NEW rest,
           rest = {p[t] - 8 : t \in {u \in Slot \ {s} : p[u] # NULL}}
    PROVE  /\ p[s] = NULL => BlocksOf(p) = rest
           /\ p[s] # NULL => BlocksOf(p) = rest \cup {p[s] - 8} /\ p[s] - 8 \notin rest
<1>0. ASSUME p[s] # NULL
      PROVE  /\ p[s] \in Nat
             /\ \A t \in Slot \ {s} : p[t] # NULL => p[t] \in Nat /\ p[t] # p[s]
  BY <1>0, ConstantsTyped DEF Owners, Pointers
<1> DEFINE A == {u \in Slot \ {s} : p[u] # NULL}
           B == {u \in Slot : p[u] # NULL}
<1>1. BlocksOf(p) = {p[t] - 8 : t \in B}
  BY DEF BlocksOf, offset
<1>2. CASE p[s] = NULL
  <2>1. B = A
    BY <1>2
  <2> QED BY <1>1, <1>2, <2>1
<1>3. CASE p[s] # NULL
  <2>1. B = A \cup {s}
    BY <1>3
  <2>2. {p[t] - 8 : t \in A \cup {s}} = rest \cup {p[s] - 8}
    OBVIOUS
  <2>3. \A t \in A : p[t] \in Nat /\ p[s] \in Nat /\ p[t] # p[s]
    BY <1>0, <1>3
  <2>4. p[s] - 8 \notin rest
    BY <2>3
  <2> QED BY <1>1, <1>3, <2>1, <2>2, <2>4
<1> QED BY <1>2, <1>3

\* heap_alloc returns chunk f to slot s; krealloc has still the old block.
LEMMA OwnersGain ==
    ASSUME NEW h, NEW r, NEW l, NEW p \in Pointers, NEW w, Owners(h, {}, l, p, w),
           NEW s \in Slot, NEW f \in Nat, NEW size \in Nat,
           DOMAIN w = Slot, f \notin InUse(h, {}),
           InUse(r, {}) = InUse(h, {}) \cup {f}, size <= r.node[f].size,
           \A c \in InUse(h, {}) : r.node[c].size = h.node[c].size
    PROVE  Owners(r, IF p[s] = NULL THEN {} ELSE {p[s] - 8}, l,
                  [p EXCEPT ![s] = f + 8], [w EXCEPT ![s] = size])
<1>0a. ASSUME NEW t \in Slot, p[t] # NULL
       PROVE  /\ p[t] \in Nat /\ p[t] - 8 \in InUse(h, {})
              /\ w[t] <= h.node[p[t] - 8].size
              /\ \A u \in Slot \ {t} : p[u] # NULL => p[u] \in Nat /\ p[u] # p[t]
  BY <1>0a, BlockFacts
<1> DEFINE q == [p EXCEPT ![s] = f + 8]
           v == [w EXCEPT ![s] = size]
           rest == {p[t] - 8 : t \in {u \in Slot \ {s} : p[u] # NULL}}
           X == IF p[s] = NULL THEN {} ELSE {p[s] - 8}
<1>1. q[s] = f + 8 /\ v[s] = size /\ \A t \in Slot \ {s} : q[t] = p[t] /\ v[t] = w[t]
  BY DEF Pointers
<1>2. BlocksOf(q) = rest \cup {f}
  BY BlocksGain
<1>3. BlocksOf(p) = rest \cup X /\ rest \cap X = {}
  <2>1. CASE p[s] = NULL
    <3>1. BlocksOf(p) = rest
      BY <2>1, BlocksOthers
    <3> QED BY <2>1, <3>1
  <2>2. CASE p[s] # NULL
    <3>1. BlocksOf(p) = rest \cup {p[s] - 8} /\ p[s] - 8 \notin rest
      BY <2>2, BlocksOthers
    <3> QED BY <2>2, <3>1
  <2> QED BY <2>1, <2>2
<1> HIDE DEF rest, q, v
<1>4. InUse(h, {}) = l \cup BlocksOf(p) /\ l \cap BlocksOf(p) = {}
  BY DEF Owners
<1>5. InUse(r, X) = InUse(r, {}) \ X
  BY DEF InUse
<1> HIDE DEF X
<1>6. InUse(r, X) = l \cup BlocksOf(q) /\ l \cap BlocksOf(q) = {}
  BY <1>2, <1>3, <1>4, <1>5
<1>7. ASSUME NEW t \in Slot, p[t] # NULL
      PROVE  /\ p[t] \in Nat /\ p[t] - 8 \in InUse(h, {})
             /\ w[t] <= h.node[p[t] - 8].size
             /\ \A u \in Slot : p[u] = p[t] => u = t
  BY <1>0a, <1>7
<1>8. ASSUME NEW t \in Slot, NEW u \in Slot, q[t] # NULL, q[t] = q[u] PROVE t = u
  <2>1. \A x \in Slot \ {s} : p[x] # NULL => p[x] # f + 8
    <3>1. ASSUME NEW x \in Slot, p[x] # NULL, p[x] = f + 8 PROVE FALSE
      <4>1. p[x] - 8 = f
        BY <3>1
      <4> QED BY <1>7, <3>1, <4>1
    <3> QED BY <3>1
  <2>2. CASE t = s \/ u = s
    BY <1>1, <1>8, <2>1, <2>2
  <2>3. CASE t # s /\ u # s
    BY <1>1, <1>7, <1>8, <2>3
  <2> QED BY <2>2, <2>3
<1>9. ASSUME NEW t \in Slot, q[t] # NULL PROVE v[t] <= r.node[q[t] - offset].size
  <2>1. CASE t = s
    BY <1>1, <2>1 DEF offset
  <2>2. CASE t # s
    <3>1. q[t] = p[t] /\ v[t] = w[t]
      BY <1>1, <2>2
    <3>2. p[t] - 8 \in InUse(h, {}) /\ w[t] <= h.node[p[t] - 8].size
      BY <1>7, <1>9, <3>1
    <3> QED BY <3>1, <3>2 DEF offset
  <2> QED BY <2>1, <2>2
<1>10. Owners(r, X, l, q, v)
  BY <1>6, <1>8, <1>9 DEF Owners
<1> QED BY <1>10 DEF X, q, v

\* heap_alloc has taken chunk f and returns NULL.
LEMMA OwnersLose ==
    ASSUME NEW h, NEW r, NEW l, NEW p \in Pointers, NEW w, Owners(h, {}, l, p, w), NEW f,
           f \notin InUse(h, {}), InUse(r, {}) = InUse(h, {}) \cup {f},
           \A c \in InUse(h, {}) : r.node[c].size = h.node[c].size
    PROVE  Owners(r, {}, l \cup {f}, p, w)
<1>1. InUse(h, {}) = l \cup BlocksOf(p) /\ l \cap BlocksOf(p) = {}
  BY DEF Owners
<1>2. InUse(r, {}) = (l \cup {f}) \cup BlocksOf(p) /\ (l \cup {f}) \cap BlocksOf(p) = {}
  BY <1>1
<1>3. ASSUME NEW s \in Slot, p[s] # NULL PROVE w[s] <= r.node[p[s] - offset].size
  <2>1. p[s] - 8 \in InUse(h, {}) /\ w[s] <= h.node[p[s] - 8].size
    BY <1>3, BlockFacts
  <2> QED BY <2>1 DEF offset
<1> QED BY <1>2, <1>3 DEF Owners

\* A caller gives its block back.
LEMMA OwnersDrop ==
    ASSUME NEW h, NEW l, NEW p \in Pointers, NEW w, Owners(h, {}, l, p, w),
           NEW s \in Slot, p[s] # NULL, DOMAIN w = Slot
    PROVE  Owners(h, {p[s] - 8}, l, [p EXCEPT ![s] = NULL], [w EXCEPT ![s] = 0])
<1> DEFINE q == [p EXCEPT ![s] = NULL]
           v == [w EXCEPT ![s] = 0]
           rest == {p[t] - 8 : t \in {u \in Slot \ {s} : p[u] # NULL}}
           n == p[s] - 8
<1>1. q[s] = NULL /\ \A t \in Slot \ {s} : q[t] = p[t] /\ v[t] = w[t]
  BY DEF Pointers
<1>2. BlocksOf(q) = rest
  BY BlocksDrop
<1>3. BlocksOf(p) = rest \cup {n} /\ n \notin rest
  BY BlocksOthers
<1> HIDE DEF rest, q, v
<1>4. InUse(h, {}) = l \cup BlocksOf(p) /\ l \cap BlocksOf(p) = {}
  BY DEF Owners
<1>5. InUse(h, {n}) = InUse(h, {}) \ {n}
  BY DEF InUse
<1> HIDE DEF n
<1>6. InUse(h, {n}) = l \cup BlocksOf(q) /\ l \cap BlocksOf(q) = {}
  BY <1>2, <1>3, <1>4, <1>5
<1>7. \A t, u \in Slot : q[t] # NULL /\ q[t] = q[u] => t = u
  BY <1>1 DEF Owners
<1>8. \A t \in Slot : q[t] # NULL => v[t] <= h.node[q[t] - offset].size
  BY <1>1 DEF Owners
<1>9. Owners(h, {n}, l, q, v)
  BY <1>6, <1>7, <1>8 DEF Owners
<1> QED BY <1>9 DEF n, q, v

-----------------------------------------------------------------------------
(* What a call of the allocator does to the heap, as a whole.              *)

\* Chunk f of heap h has been taken: what holds of the outcome o with heap r.
Taken(h, f, o, r) ==
    /\ IsHeap(r) /\ Layout(r) /\ DOMAIN h.node \subseteq DOMAIN r.node
    /\ o.ok \in BOOLEAN /\ o.defined \in BOOLEAN
    /\ InUse(r, {}) = InUse(h, {}) \cup {f}
    /\ \A a \in DOMAIN h.node \ {f} : r.node[a] = h.node[a]
    /\ ~o.defined => ~o.ok /\ r.end # Top

\* heap_alloc from the moment it takes a chunk.
LEMMA TakenFacts ==
    ASSUME NEW h, IsHeap(h), Layout(h), NEW f \in DOMAIN h.node, NEW idx \in Bin,
           NEW o \in WildernessOutcomes(TakeFound(h, idx, f))
    PROVE  /\ Taken(h, f, o, o.heap)
           /\ DOMAIN o.heap.node = DOMAIN h.node
           /\ o.heap.node[f].size = h.node[f].size
           /\ BinsKeep(remove_node(h, idx, f), {f}) => BinsKeep(o.heap, {})
<1> DEFINE t == TakeFound(h, idx, f)
           r == o.heap
<1>1. f \in 0 .. LastHead
  BY DEF IsHeap
<1>2. /\ IsHeap(t) /\ t.foot = h.foot /\ t.end = h.end
      /\ \A a \in DOMAIN h.node \ {f} : t.node[a] = h.node[a]
  BY <1>1, TakeFoundTyped
<1>3. /\ Layout(t) /\ DOMAIN t.node = DOMAIN h.node /\ t.node[f].size = h.node[f].size
      /\ {c \in DOMAIN t.node : ~t.node[c].hole}
           = {c \in DOMAIN h.node : ~h.node[c].hole} \cup {f}
      /\ BinsKeep(remove_node(h, idx, f), {f}) => BinsKeep(t, {})
  <2>1. Layout(t) /\ DOMAIN t.node = DOMAIN h.node /\ t.node[f].size = h.node[f].size
    BY TakeFoundFacts
  <2>2. {c \in DOMAIN t.node : ~t.node[c].hole}
          = {c \in DOMAIN h.node : ~h.node[c].hole} \cup {f}
    <3>1. ~t.node[f].hole
      BY <1>1, TakeFoundTyped
    <3> HIDE DEF t
    <3> QED BY <1>2, <2>1, <3>1
  <2>3. BinsKeep(remove_node(h, idx, f), {f}) => BinsKeep(t, {})
    BY TakeFoundFacts
  <2> QED BY <2>1, <2>2, <2>3
<1>4. o \in WildernessOutcomes(t)
  OBVIOUS
<1> HIDE DEF t, r
<1>5. FeetNameChunks(t) /\ Top - SizeofFooter \in DOMAIN t.foot
  BY <1>2, <1>3, LayoutFeet
<1>6. /\ IsHeap(r) /\ r.node = t.node /\ r.foot = t.foot /\ r.bins = t.bins
      /\ o.ok \in BOOLEAN /\ o.defined \in BOOLEAN
      /\ ~o.defined => ~o.ok /\ r = t /\ t.end - SizeofFooter \notin DOMAIN t.foot
  BY <1>2, <1>4, <1>5, WildernessFacts DEF r
<1>7. Layout(r)
  BY <1>2, <1>3, <1>6, LayoutSame
<1>8. BinsKeep(t, {}) => BinsKeep(r, {})
  BY <1>6, BinsSame
<1>9. InUse(r, {}) = InUse(h, {}) \cup {f}
  BY <1>3, <1>6 DEF InUse
<1>10. ~o.defined => r.end # Top
  BY <1>5, <1>6
<1>11. \A a \in DOMAIN h.node \ {f} : r.node[a] = h.node[a]
  BY <1>2, <1>6
<1>12. Taken(h, f, o, r)
  BY <1>3, <1>6, <1>7, <1>9, <1>10, <1>11 DEF Taken
<1> QED BY <1>3, <1>6, <1>8, <1>12 DEF r

\* heap_alloc of the handler, once the search has found a chunk.
LEMMA AllocatedFacts ==
    ASSUME NEW h, IsHeap(h), Layout(h), NEW f \in DOMAIN h.node, NEW size \in Nat,
           h.node[f].size >= size, NEW idx \in Bin,
           NEW o \in WildernessOutcomes(TakeFound(SplitFound(h, f, size), idx, f))
    PROVE  /\ Taken(h, f, o, o.heap)
           /\ o.heap.node[f].size >= size
           /\ BinsKeep(h, {}) /\ h.node[f].hole /\ get_bin_index(h.node[f].size) = idx
                => BinsKeep(o.heap, {})
<1> DEFINE t == SplitFound(h, f, size)
           r == o.heap
<1>0. SplitOf(h, f, size, t)
  BY SplitFoundFacts
<1>2. o \in WildernessOutcomes(TakeFound(t, idx, f))
  OBVIOUS
<1> HIDE DEF t
<1>1. /\ IsHeap(t) /\ Layout(t) /\ DOMAIN h.node \subseteq DOMAIN t.node
      /\ t.node[f].size >= size
      /\ \A a \in DOMAIN h.node \ {f} : t.node[a] = h.node[a]
      /\ BinsKeep(h, {}) /\ h.node[f].hole /\ get_bin_index(h.node[f].size) = idx
           => BinsKeep(remove_node(t, idx, f), {f})
  BY <1>0 DEF SplitOf
<1>3. f \in DOMAIN t.node
  BY <1>1
<1>4. /\ Taken(t, f, o, r) /\ DOMAIN r.node = DOMAIN t.node
      /\ r.node[f].size = t.node[f].size
      /\ BinsKeep(remove_node(t, idx, f), {f}) => BinsKeep(r, {})
  BY <1>1, <1>2, <1>3, TakenFacts
<1>5. InUse(t, {}) = InUse(h, {})
  BY <1>0 DEF SplitOf
<1> HIDE DEF r
<1>6. \A a \in DOMAIN h.node \ {f} : r.node[a] = h.node[a]
  BY <1>1, <1>4 DEF Taken
<1>7. Taken(h, f, o, r)
  BY <1>1, <1>4, <1>5, <1>6 DEF Taken
<1> QED BY <1>1, <1>4, <1>7 DEF r

\* heap_free up to the last add_node: the chunks in use are those of before but one.
LEMMA FreeingFacts ==
    ASSUME NEW h, NEW n, NEW g, NEW d, Freeing(h, n, g, d)
    PROVE  /\ InUse(g, {d}) = InUse(h, {n})
           /\ \A a \in InUse(h, {n}) : g.node[a] = h.node[a]
<1>2. InUse(g, {d}) = InUse(h, {n})
  BY DEF Freeing, InUse
<1>3. \A a \in InUse(g, {d}) : g.node[a] = h.node[a]
  BY DEF Freeing, InUse
<1> QED BY <1>2, <1>3

\* heap_free, the whole.
LEMMA FreedFacts ==
    ASSUME NEW h, IsHeap(h), Layout(h), NEW n \in DOMAIN h.node, ~h.node[n].hole,
           NEW c, c = Coalesce(h, n, NextIsHole(h, n)),
           NEW r, r = Release(c.heap, c.head)
    PROVE  /\ IsHeap(r) /\ Layout(r) /\ r.end = h.end
           /\ InUse(r, {}) = InUse(h, {n})
           /\ \A a \in InUse(h, {n}) : r.node[a] = h.node[a]
           /\ BinsKeep(h, {}) => BinsKeep(r, {})
<1>1. PICK g, d : g = c.heap /\ d = c.head
  OBVIOUS
<1>1a. Freeing(h, n, g, d)
  BY <1>1, CoalesceFacts
<1>1b. /\ IsHeap(g) /\ Layout(g) /\ g.end = h.end
       /\ d \in DOMAIN g.node
       /\ InUse(g, {d}) = InUse(h, {n})
       /\ \A a \in InUse(h, {n}) : g.node[a] = h.node[a]
       /\ BinsKeep(h, {}) => BinsKeep(g, {d})
  <2>1. InUse(g, {d}) = InUse(h, {n}) /\ \A a \in InUse(h, {n}) : g.node[a] = h.node[a]
    BY <1>1a, FreeingFacts
  <2> QED BY <1>1a, <2>1, Zenon DEF Freeing
<1>2. r = Release(g, d)
  BY <1>1
<1>3. d \in 0 .. LastHead
  BY <1>1b DEF IsHeap
<1>4. /\ IsHeap(r) /\ r.end = g.end
      /\ DOMAIN r.node = DOMAIN g.node
      /\ \A a \in DOMAIN g.node \ {d} : r.node[a] = g.node[a]
      /\ r.node[d].hole
      /\ Layout(r)
      /\ BinsKeep(g, {d}) => BinsKeep(r, {})
  BY <1>1b, <1>2, <1>3, ReleaseFacts
<1>5. InUse(r, {}) = InUse(g, {d})
  BY <1>4 DEF InUse
<1>6. \A a \in InUse(g, {d}) : r.node[a] = g.node[a]
  BY <1>4 DEF InUse
<1>7. InUse(r, {}) = InUse(h, {n})
  BY <1>1b, <1>5, Zenon
<1>8. \A a \in InUse(h, {n}) : r.node[a] = h.node[a]
  BY <1>1b, <1>6
<1> QED BY <1>1b, <1>4, <1>7, <1>8

-----------------------------------------------------------------------------
(* The invariant, call by call.                                            *)

\* Between two calls.
LEMMA CalmIdle ==
    ASSUME NEW h, NEW l, NEW p, NEW w
    PROVE  CalmIn(h, NoCall, l, p, w)
             <=> Layout(h) /\ Owners(h, {}, l, p, w) /\ BinsKeep(h, {})
<1>1. NoCall.op = "none"
  BY DEF NoCall
<1> QED BY <1>1 DEF CalmIn

\* Before heap_alloc splits what it has found.
LEMMA CalmSplit ==
    ASSUME NEW h, NEW c, c.op = "split", NEW l, NEW p, NEW w
    PROVE  CalmIn(h, c, l, p, w) <=>
             /\ Layout(h) /\ Owners(h, {}, l, p, w) /\ BinsKeep(h, {})
             /\ c.found \in DOMAIN h.node
             /\ h.node[c.found].hole
             /\ h.node[c.found].size >= c.size
             /\ c.then = p[c.slot]
             /\ get_bin_index(h.node[c.found].size) = c.index
BY DEF CalmIn

\* Before heap_alloc takes it.
LEMMA CalmTake ==
    ASSUME NEW h, NEW c, c.op = "take", NEW l, NEW p, NEW w
    PROVE  CalmIn(h, c, l, p, w) <=>
             /\ Layout(h) /\ Owners(h, {}, l, p, w)
             /\ BinsKeep(remove_node(h, c.index, c.found), {c.found})
             /\ c.found \in DOMAIN h.node
             /\ h.node[c.found].hole
             /\ h.node[c.found].size >= c.size
             /\ c.then = p[c.slot]
BY DEF CalmIn

\* When heap_free begins.
LEMMA CalmFree ==
    ASSUME NEW h, NEW c, c.op = "free", NEW l, NEW p, NEW w
    PROVE  CalmIn(h, c, l, p, w) <=>
             /\ Layout(h) /\ Owners(h, {c.found}, l, p, w) /\ BinsKeep(h, {})
             /\ c.found \in DOMAIN h.node /\ ~h.node[c.found].hole
BY DEF CalmIn

\* Before its last add_node.
LEMMA CalmRelease ==
    ASSUME NEW h, NEW c, c.op = "release", NEW l, NEW p, NEW w
    PROVE  CalmIn(h, c, l, p, w) <=>
             /\ Layout(h) /\ Owners(h, {c.found}, l, p, w) /\ BinsKeep(h, {c.found})
             /\ c.found \in DOMAIN h.node
BY DEF CalmIn

\* No call has a legal value.
LEMMA NoCallTyped == IsCall(NoCall) /\ NoCall.op = "none"
<1>1. 0 \in Bin
  BY ConstantsTyped DEF Bin
<1> QED BY <1>1 DEF IsCall, NoCall, CallOp

\* A call of heap_free on chunk n.
FreeCall(s, n) == [NoCall EXCEPT !.op = "free", !.slot = s, !.found = n]

\* It has a legal value.
LEMMA FreeCallTyped ==
    ASSUME NEW n \in 0 .. LastHead, NEW s \in Slot
    PROVE  /\ IsCall(FreeCall(s, n))
           /\ FreeCall(s, n).op = "free" /\ FreeCall(s, n).found = n
<1> DEFINE c == FreeCall(s, n)
<1>1. 0 \in Bin
  BY ConstantsTyped DEF Bin
<1>2. c = [op |-> "free", slot |-> s, size |-> 0, index |-> 0, found |-> n, then |-> NULL]
  <2>1. c = [NoCall EXCEPT !.op = "free", !.slot = s, !.found = n]
    BY DEF FreeCall
  <2> HIDE DEF c
  <2> QED BY <2>1 DEF NoCall
<1> HIDE DEF c
<1>3. IsCall(c) /\ c.op = "free" /\ c.found = n
  BY <1>1, <1>2 DEF IsCall, CallOp
<1> QED BY <1>3 DEF c

\* create_heap: one hole, in its bin.
LEMMA CreateHeapFacts ==
    /\ IsHeap(create_heap) /\ Layout(create_heap) /\ BinsKeep(create_heap, {})
    /\ InUse(create_heap, {}) = {} /\ create_heap.end = Top
<1> DEFINE empty == [node |-> <<>>, foot |-> <<>>, end |-> start + HEAP_INIT_SIZE,
                     bins |-> [b \in 0 .. BIN_MAX_IDX |-> <<>>]]
<1>1. IsHeap(empty) /\ DOMAIN empty.node = {} /\ DOMAIN empty.foot = {} /\ empty.end = Top
      /\ \A b \in Bin : empty.bins[b] = <<>>
  <2>1. DOMAIN <<>> = {}
    OBVIOUS
  <2>2. empty.node = <<>> /\ empty.foot = <<>> /\ empty.end = Top
        /\ empty.bins = [b \in Bin |-> <<>>]
    BY DEF Top, Bin
  <2>3. empty.bins \in [Bin -> Seq(0 .. LastHead)]
    BY <2>2
  <2>4. Top \in Top .. HeapMax
    BY ConstantsTyped
  <2>5. /\ empty.node \in [DOMAIN empty.node -> [hole : BOOLEAN, size : Nat]]
        /\ empty.foot \in [DOMAIN empty.foot -> 0 .. LastHead]
    BY <2>1, <2>2
  <2>6. IsHeap(empty)
    BY <2>1, <2>2, <2>3, <2>4, <2>5 DEF IsHeap
  <2> QED BY <2>1, <2>2, <2>6
<1> HIDE DEF empty
<1> DEFINE one(q) == write_node(empty, 0, q, LastHead)
<1>2. 0 \in 0 .. LastHead /\ LastHead \in Nat
  BY ConstantsTyped
<1>3. ASSUME NEW q \in BOOLEAN
      PROVE  /\ IsHeap(one(q)) /\ DOMAIN one(q).node = {0}
             /\ one(q).node[0].hole = q /\ one(q).node[0].size = LastHead
             /\ DOMAIN one(q).foot = {} /\ one(q).end = Top
             /\ \A b \in Bin : one(q).bins[b] = <<>>
  <2>1. /\ IsHeap(one(q))
        /\ one(q).node = [a \in DOMAIN empty.node \cup {0} |->
                            IF a = 0 THEN [hole |-> q, size |-> LastHead] ELSE empty.node[a]]
        /\ one(q).foot = empty.foot
        /\ one(q).end = empty.end
        /\ one(q).bins = empty.bins
    BY <1>1, <1>2, WriteNode
  <2> HIDE DEF one
  <2>2. DOMAIN one(q).node = {0} /\ one(q).node[0] = [hole |-> q, size |-> LastHead]
    BY <1>1, <2>1
  <2> QED BY <1>1, <2>1, <2>2
<1>4. PICK h1 : h1 = one(TRUE)
  OBVIOUS
<1>5. /\ IsHeap(h1) /\ DOMAIN h1.node = {0}
      /\ h1.node[0].hole /\ h1.node[0].size = LastHead
      /\ DOMAIN h1.foot = {} /\ h1.end = Top
      /\ \A b \in Bin : h1.bins[b] = <<>>
  <2>1. TRUE \in BOOLEAN
    OBVIOUS
  <2> HIDE DEF one
  <2> QED BY <1>3, <1>4, <2>1, Zenon
<1>6. PICK h2 : h2 = create_foot(h1, 0)
  OBVIOUS
<1>7. /\ IsHeap(h2) /\ h2.node = h1.node /\ h2.end = Top /\ h2.bins = h1.bins
      /\ DOMAIN h2.foot = {16 + LastHead} /\ h2.foot[16 + LastHead] = 0
  <2>1. 0 \in DOMAIN h1.node
    BY <1>5
  <2>2. /\ IsHeap(h2) /\ h2.node = h1.node /\ h2.end = h1.end /\ h2.bins = h1.bins
        /\ DOMAIN h2.foot = DOMAIN h1.foot \cup {0 + 16 + h1.node[0].size}
        /\ \A x \in DOMAIN h2.foot :
             h2.foot[x] = IF x = 0 + 16 + h1.node[0].size THEN 0 ELSE h1.foot[x]
    BY <1>5, <1>6, <2>1, CreateFoot
  <2>3. 0 + 16 + h1.node[0].size = 16 + LastHead
    BY <1>2, <1>5
  <2> QED BY <1>5, <2>2, <2>3
<1>8. BinsKeep(h2, {0})
  <2>1. ASSUME NEW b \in Bin
        PROVE  Range(h2.bins[b]) = HolesOf(h2, {0}, b) /\ SortedBin(h2, h2.bins[b])
    <3>1. h2.bins[b] = <<>> /\ DOMAIN <<>> = {} /\ Len(<<>>) = 0
      BY <1>5, <1>7
    <3>2. Range(<<>>) = {}
      BY <3>1 DEF Range
    <3>3. HolesOf(h2, {0}, b) = {}
      BY <1>5, <1>7 DEF HolesOf
    <3>4. SortedBin(h2, <<>>)
      BY DEF SortedBin
    <3> QED BY <3>1, <3>2, <3>3, <3>4
  <2> QED BY <2>1 DEF BinsKeep
<1>9. PICK h3 : h3 = add_node(h2, 0)
  OBVIOUS
<1>10. IsHeap(h3) /\ h3.node = h1.node /\ h3.foot = h2.foot /\ h3.end = Top
  BY <1>2, <1>7, <1>9, AddNode
<1>11. BinsKeep(h3, {})
  <2>1. 0 \in DOMAIN h2.node /\ h2.node[0].hole
    BY <1>5, <1>7
  <2> QED BY <1>7, <1>8, <1>9, <2>1, BinsAdd
<1>12. Layout(h3)
  <2>1. /\ 0 + 20 + LastHead = Top /\ 0 + 16 + LastHead = 16 + LastHead
    BY ConstantsTyped
  <2>2. DOMAIN h3.node = {0} /\ h3.node[0].size = LastHead
    BY <1>5, <1>10
  <2>3. {a + 16 + h3.node[a].size : a \in {0}} = {16 + LastHead}
    BY <2>1, <2>2
  <2>4. /\ 0 \in DOMAIN h3.node
        /\ \A a \in DOMAIN h3.node :
             a + 20 + h3.node[a].size \in DOMAIN h3.node \cup {Top}
        /\ \A a, b \in DOMAIN h3.node : a < b => a + 20 + h3.node[a].size <= b
        /\ \A a \in (DOMAIN h3.node \ {0}) \cup {Top} :
             \E p \in DOMAIN h3.node : p + 20 + h3.node[p].size = a
    BY <2>1, <2>2
  <2>5. /\ DOMAIN h3.foot = {a + 16 + h3.node[a].size : a \in DOMAIN h3.node}
        /\ \A a \in DOMAIN h3.node : h3.foot[a + 16 + h3.node[a].size] = a
    BY <1>7, <1>10, <2>1, <2>2, <2>3
  <2> QED BY <1>10, <2>4, <2>5, LayoutNumbers
<1>13. InUse(h3, {}) = {}
  BY <1>5, <1>10 DEF InUse
<1>14. create_heap = h3
  <2>1. create_heap = add_node(create_foot(write_node(empty, 0, TRUE, LastHead), 0), 0)
    BY DEF create_heap, start, LastHead, empty
  <2> QED BY <1>4, <1>6, <1>9, <2>1
<1> QED BY <1>10, <1>11, <1>12, <1>13, <1>14

\* The invariant holds when create_heap has run.
LEMMA InitHolds == Init => IInv
<1>1. SUFFICES ASSUME Init PROVE IInv
  OBVIOUS
<1>2. IsHeap(heap) /\ Layout(heap) /\ BinsKeep(heap, {}) /\ InUse(heap, {}) = {}
  BY <1>1, CreateHeapFacts DEF Init
<1>3. Typed
  BY <1>1, <1>2 DEF Init, Typed, Pointers
<1>4. call = NoCall /\ status = "ok" /\ torn = FALSE /\ lost = {}
      /\ \A s \in Slot : ptr[s] = NULL
  BY <1>1 DEF Init
<1>5. Owners(heap, {}, lost, ptr, want)
  BY <1>2, <1>4 DEF Owners, BlocksOf
<1>6. Calm
  BY <1>2, <1>4, <1>5, CalmIdle DEF Calm
<1> QED BY <1>3, <1>4, <1>6, NoCallTyped DEF IInv, UndefinedOnlyAfter

\* What the invariant says when no call is under way.
LEMMA IdleFacts ==
    ASSUME IInv, Idle
    PROVE  /\ Layout(heap) /\ Owners(heap, {}, lost, ptr, want) /\ BinsKeep(heap, {})
           /\ IsHeap(heap) /\ ptr \in Pointers /\ want \in [Slot -> Size \cup {0}]
           /\ call = NoCall /\ status = "ok" /\ torn = FALSE
<1>1. call = NoCall /\ status = "ok" /\ torn = FALSE
  BY DEF IInv, Typed, Idle
<1>2. CalmIn(heap, NoCall, lost, ptr, want)
  BY <1>1 DEF IInv, Calm
<1> QED BY <1>1, <1>2, CalmIdle DEF IInv, Typed

\* The search.
LEMMA AllocFindStep ==
    ASSUME IInv, NEW s \in ThreadSlot, NEW size \in Size, AllocFind(s, size)
    PROVE  IInv'
<1>1. /\ Layout(heap) /\ Owners(heap, {}, lost, ptr, want) /\ BinsKeep(heap, {})
      /\ IsHeap(heap) /\ ptr \in Pointers
      /\ status = "ok" /\ torn = FALSE
  BY IdleFacts DEF AllocFind
<1> DEFINE b == FirstBin(heap, size)
           f == get_best_fit(heap, b, size)
<1>2. size \in Nat /\ s \in Slot
  BY HeapAssumption DEF Slot
<1>3. BinsWithFit(heap, size) # {}
  BY DEF AllocFind
<1>4. /\ b \in Bin /\ f \in DOMAIN heap.node /\ heap.node[f].hole
      /\ get_bin_index(heap.node[f].size) = b /\ heap.node[f].size >= size
  BY <1>1, <1>2, <1>3, SearchFindsHole
<1>5. /\ call' = [op |-> "split", slot |-> s, size |-> size, index |-> b,
                  found |-> f, then |-> ptr[s]]
      /\ heap' = heap /\ ptr' = ptr /\ want' = want /\ status' = status
      /\ lost' = lost /\ torn' = torn
  BY DEF AllocFind, FirstBin
<1> HIDE DEF b, f
<1>6. f \in 0 .. LastHead /\ ptr[s] \in (0 .. HeapMax) \cup {NULL}
  BY <1>1, <1>2, <1>4 DEF IsHeap, Pointers
<1>7. IsCall(call')
  BY <1>2, <1>4, <1>5, <1>6 DEF IsCall, CallOp
<1>8. Typed'
  BY <1>5 DEF IInv, Typed
<1>9. /\ call'.op = "split" /\ call'.found = f /\ call'.size = size /\ call'.slot = s
      /\ call'.then = ptr[s] /\ call'.index = b
  BY <1>5
<1>10. CalmIn(heap, call', lost, ptr, want)
  BY <1>1, <1>4, <1>9, CalmSplit
<1>11. Calm'
  BY <1>5, <1>10 DEF Calm
<1> QED BY <1>1, <1>5, <1>7, <1>8, <1>11 DEF IInv, UndefinedOnlyAfter

\* krealloc within the block.
LEMMA ReallocSameStep ==
    ASSUME IInv, NEW s \in ThreadSlot, NEW size \in Size, ReallocSame(s, size)
    PROVE  IInv'
<1>1. /\ Layout(heap) /\ Owners(heap, {}, lost, ptr, want) /\ BinsKeep(heap, {})
      /\ ptr \in Pointers /\ want \in [Slot -> Size \cup {0}]
      /\ call = NoCall /\ status = "ok" /\ torn = FALSE
  BY IdleFacts DEF ReallocSame
<1>2. /\ ptr[s] # NULL /\ size <= heap.node[ptr[s] - offset].size
      /\ want' = [want EXCEPT ![s] = size]
      /\ heap' = heap /\ ptr' = ptr /\ call' = call /\ status' = status
      /\ lost' = lost /\ torn' = torn
  BY DEF ReallocSame
<1>3. s \in Slot
  BY DEF Slot
<1>4. want' \in [Slot -> Size \cup {0}] /\ want'[s] = size
      /\ \A t \in Slot \ {s} : want'[t] = want[t]
  BY <1>1, <1>2, <1>3
<1>5. \A t \in Slot : ptr[t] # NULL => want'[t] <= heap.node[ptr[t] - offset].size
  BY <1>1, <1>2, <1>4 DEF Owners
<1>6. Owners(heap, {}, lost, ptr, want')
  BY <1>1, <1>5 DEF Owners
<1>7. CalmIn(heap, NoCall, lost, ptr, want')
  BY <1>1, <1>6, CalmIdle
<1>8. Calm'
  BY <1>1, <1>2, <1>7 DEF Calm
<1>9. Typed'
  BY <1>2, <1>4 DEF IInv, Typed
<1>10. IsCall(call')
  BY <1>2 DEF IInv
<1> QED BY <1>1, <1>2, <1>8, <1>9, <1>10 DEF IInv, UndefinedOnlyAfter

\* kfree begins.
LEMMA FreeStartStep ==
    ASSUME IInv, NEW s \in ThreadSlot, FreeStart(s)
    PROVE  IInv'
<1>1. /\ Layout(heap) /\ Owners(heap, {}, lost, ptr, want) /\ BinsKeep(heap, {})
      /\ IsHeap(heap) /\ ptr \in Pointers /\ want \in [Slot -> Size \cup {0}]
      /\ status = "ok" /\ torn = FALSE
  BY IdleFacts DEF FreeStart
<1> DEFINE n == ptr[s] - 8
<1>2. /\ ptr[s] # NULL
      /\ call' = FreeCall(s, n)
      /\ ptr' = [ptr EXCEPT ![s] = NULL] /\ want' = [want EXCEPT ![s] = 0]
      /\ heap' = heap /\ status' = status /\ lost' = lost /\ torn' = torn
  BY DEF FreeStart, offset, FreeCall
<1>3. s \in Slot
  BY DEF Slot
<1>4. n \in InUse(heap, {})
  BY <1>1, <1>2, <1>3, BlockFacts
<1>5. n \in DOMAIN heap.node /\ ~heap.node[n].hole
  BY <1>4 DEF InUse
<1>6. n \in 0 .. LastHead
  BY <1>1, <1>5 DEF IsHeap
<1>7. Owners(heap, {n}, lost, ptr', want')
  BY <1>1, <1>2, <1>3, OwnersDrop
<1> HIDE DEF n
<1>8. IsCall(call') /\ call'.op = "free" /\ call'.found = n
  BY <1>2, <1>3, <1>6, FreeCallTyped
<1>9. CalmIn(heap, call', lost, ptr', want')
  BY <1>1, <1>5, <1>7, <1>8, CalmFree
<1>10. Calm'
  BY <1>2, <1>9 DEF Calm
<1>11. Typed'
  <2>1. ptr' \in Pointers /\ want' \in [Slot -> Size \cup {0}]
    BY <1>1, <1>2 DEF Pointers
  <2> QED BY <1>2, <2>1 DEF IInv, Typed
<1> QED BY <1>1, <1>2, <1>8, <1>10, <1>11 DEF IInv, UndefinedOnlyAfter

\* SplitFound leaves the heap alone when the chunk has gone.
LEMMA SplitNothing ==
    ASSUME NEW h, NEW f, f \notin DOMAIN h.node, NEW size \in Nat
    PROVE  SplitFound(h, f, size) = h
<1>1. SizeOf(h, f) = 0
  BY DEF SizeOf
<1>2. ~(SizeOf(h, f) - size > overhead + MIN_ALLOC_SZ)
  BY <1>1 DEF overhead, MIN_ALLOC_SZ, SizeofNode, SizeofFooter
<1> QED BY <1>2 DEF SplitFound

\* heap_alloc splits what it has found.
LEMMA AllocSplitStep ==
    ASSUME IInv, AllocSplit
    PROVE  IInv'
<1> DEFINE f == call.found
           size == call.size
<1>1. /\ status = "ok" /\ call.op = "split" /\ ptr' = ptr /\ want' = want
      /\ lost' = lost /\ torn' = torn
  BY DEF AllocSplit
<1>2. /\ IsHeap(heap) /\ ptr \in Pointers /\ torn \in BOOLEAN
      /\ f \in 0 .. LastHead /\ size \in Nat
  BY <1>1, HeapAssumption DEF IInv, Typed, IsCall
<1>3. CASE StillFits
  <2>1. /\ heap' = SplitFound(heap, f, size) /\ call' = [call EXCEPT !.op = "take"]
        /\ status' = "ok"
    BY <1>1, <1>3 DEF AllocSplit
  <2>2. SizeOf(heap, f) >= size
    BY <1>3 DEF StillFits
  <2>3. /\ call'.op = "take" /\ call'.found = f /\ call'.size = size
        /\ call'.index = call.index /\ call'.slot = call.slot /\ call'.then = call.then
        /\ IsCall(call')
    BY <1>1, <2>1 DEF IInv, IsCall, CallOp
  <2>4. f \in DOMAIN heap.node => heap.node[f].size >= size
    BY <1>2, <2>2, Addresses
  <2> HIDE DEF f, size
  <2>5. ASSUME f \in DOMAIN heap.node, Layout(heap)
        PROVE  SplitOf(heap, f, size, heap')
    <3>1. IsHeap(heap) /\ size \in Nat /\ heap.node[f].size >= size
      BY <1>2, <2>4, <2>5 DEF size
    <3>2. heap' = SplitFound(heap, f, size)
      BY <2>1 DEF f, size
    <3> QED BY <2>5, <3>1, <3>2, SplitFoundFacts
  <2>6. CASE ~torn
    <3>1. CalmIn(heap, call, lost, ptr, want)
      BY <1>1, <2>6 DEF IInv, Calm
    <3>2. /\ Layout(heap) /\ Owners(heap, {}, lost, ptr, want) /\ BinsKeep(heap, {})
          /\ f \in DOMAIN heap.node
          /\ heap.node[f].hole
          /\ call.then = ptr[call.slot]
          /\ get_bin_index(heap.node[f].size) = call.index
      BY <1>1, <3>1, CalmSplit DEF f
    <3>3. SplitOf(heap, f, size, heap') /\ InUse(heap', {}) = InUse(heap, {})
      BY <2>5, <3>2 DEF SplitOf
    <3>4. \A c \in InUse(heap, {}) : heap'.node[c].size = heap.node[c].size
      BY <3>2, <3>3 DEF InUse, SplitOf
    <3>5. Owners(heap', {}, lost, ptr, want)
      BY <1>2, <3>2, <3>3, <3>4, OwnersSame
    <3>6. call.index \in Bin
      BY DEF IInv, IsCall
    <3>7. BinsKeep(remove_node(heap', call.index, f), {f})
      BY <3>2, <3>3, <3>6 DEF SplitOf
    <3>8. f \in DOMAIN heap'.node /\ heap'.node[f].hole /\ heap'.node[f].size >= size
      BY <3>2, <3>3 DEF SplitOf
    <3>9. CalmIn(heap', call', lost, ptr, want)
      <4>1. Layout(heap')
        BY <3>3 DEF SplitOf
      <4> QED BY <2>3, <3>2, <3>5, <3>7, <3>8, <4>1, CalmTake
    <3>10. Calm' /\ Typed'
      <4>1. IsHeap(heap')
        BY <3>3 DEF SplitOf
      <4> QED BY <1>1, <2>1, <3>9, <4>1 DEF Calm, IInv, Typed
    <3> QED BY <1>1, <2>1, <2>3, <2>6, <3>10 DEF IInv, UndefinedOnlyAfter
  <2>7. CASE torn
    <3>1. /\ Layout(heap)
          /\ call.then # NULL => call.then - offset \in DOMAIN heap.node
      BY <1>1, <2>7 DEF IInv, Torn, TornIn
    <3>2. IsHeap(heap') /\ Layout(heap') /\ DOMAIN heap.node \subseteq DOMAIN heap'.node
      <4>1. CASE f \in DOMAIN heap.node
        BY <2>5, <3>1, <4>1 DEF SplitOf
      <4>2. CASE f \notin DOMAIN heap.node
        <5>1. heap' = heap
          BY <1>2, <2>1, <4>2, SplitNothing DEF size
        <5> QED BY <1>2, <3>1, <5>1
      <4> QED BY <4>1, <4>2
    <3>3. Torn'
      BY <2>3, <3>1, <3>2 DEF Torn, TornIn
    <3>4. Typed'
      BY <1>1, <2>1, <3>2 DEF IInv, Typed
    <3> QED BY <1>1, <2>1, <2>3, <2>7, <3>3, <3>4 DEF IInv, UndefinedOnlyAfter
  <2> QED BY <2>6, <2>7
<1>4. CASE ~StillFits
  <2>1. status' = "undefined" /\ heap' = heap /\ call' = call
    BY <1>4 DEF AllocSplit
  <2>2. torn
    <3>1. SUFFICES ASSUME ~torn PROVE FALSE
      BY <1>2
    <3>2. CalmIn(heap, call, lost, ptr, want)
      BY <1>1, <3>1 DEF IInv, Calm
    <3>3. f \in DOMAIN heap.node /\ heap.node[f].size >= size
      BY <1>1, <3>2, CalmSplit
    <3>4. SizeOf(heap, f) >= size
      BY <1>2, <3>3, Addresses
    <3> QED BY <1>4, <3>4 DEF StillFits
  <2>3. Typed' /\ IsCall(call')
    BY <1>1, <2>1 DEF IInv, Typed
  <2> QED BY <1>1, <2>1, <2>2, <2>3 DEF IInv, UndefinedOnlyAfter
<1> QED BY <1>3, <1>4

\* What is left of the invariant when the handler has left a heap r behind.
LEMMA TornFacts ==
    ASSUME NEW r, IsHeap(r), Layout(r), NEW c,
           c.op \in {"split", "take"} /\ c.then # NULL => c.then - 8 \in DOMAIN r.node,
           c.op = "free" => c.found \in DOMAIN r.node
    PROVE  TornIn(r, c)
<1>1. ASSUME c.op = "free", c.found # start
      PROVE  /\ c.found - SizeofFooter \in DOMAIN r.foot
             /\ PrevChunk(r, c.found) \in DOMAIN r.node
             /\ PrevChunk(r, c.found) < c.found
  BY <1>1, PrevChunkFacts
<1> QED BY <1>1 DEF TornIn, offset

\* heap_alloc takes what it has found, in a heap that the handler has changed.
LEMMA TakeTorn ==
    ASSUME NEW h, IsHeap(h), Layout(h), NEW f \in 0 .. LastHead, NEW idx \in Bin,
           NEW o \in WildernessOutcomes(TakeFound(h, idx, f))
    PROVE  /\ IsHeap(o.heap) /\ DOMAIN h.node \subseteq DOMAIN o.heap.node
           /\ o.heap.foot = h.foot
           /\ o.ok \in BOOLEAN /\ o.defined \in BOOLEAN
<1> DEFINE t == TakeFound(h, idx, f)
<1>1. /\ IsHeap(t) /\ t.foot = h.foot /\ t.end = h.end
      /\ DOMAIN t.node = DOMAIN h.node \cup {f}
      /\ t.node[f].size = SizeOf(h, f)
      /\ \A a \in DOMAIN h.node \ {f} : t.node[a] = h.node[a]
  BY TakeFoundTyped
<1>2. o \in WildernessOutcomes(t)
  OBVIOUS
<1> HIDE DEF t
<1>3. FeetNameChunks(h)
  BY LayoutFeet
<1>4. \A a \in DOMAIN h.node : t.node[a].size = h.node[a].size
  BY <1>1, Addresses
<1>5. FeetNameChunks(t)
  BY <1>1, <1>3, <1>4 DEF FeetNameChunks
<1>6. /\ IsHeap(o.heap) /\ o.heap.node = t.node /\ o.heap.foot = t.foot
      /\ o.ok \in BOOLEAN /\ o.defined \in BOOLEAN
  BY <1>1, <1>2, <1>5, WildernessFacts
<1> QED BY <1>1, <1>6

\* heap_alloc takes what it has found and returns.
LEMMA AllocTakeStep ==
    ASSUME IInv, AllocTake
    PROVE  IInv'
<1>1. PICK f, s, size, then, idx :
          f = call.found /\ s = call.slot /\ size = call.size /\ then = call.then
          /\ idx = call.index
  OBVIOUS
<1>2. status = "ok" /\ call.op = "take" /\ torn' = torn
  BY DEF AllocTake
<1>3. /\ IsHeap(heap) /\ ptr \in Pointers /\ want \in [Slot -> Size \cup {0}]
      /\ lost \subseteq 0 .. LastHead /\ torn \in BOOLEAN
  BY DEF IInv, Typed
<1>4. /\ f \in 0 .. LastHead /\ s \in ThreadSlot /\ s \in Slot
      /\ size \in Size /\ size \in Nat
      /\ then \in (0 .. HeapMax) \cup {NULL} /\ idx \in Bin
  BY <1>1, <1>2, HeapAssumption DEF IInv, IsCall, Slot
<1>5. f \in Nat /\ f # NULL /\ f + 8 \in 0 .. HeapMax
  BY <1>4, ConstantsTyped
<1>6. PICK o \in WildernessOutcomes(TakeFound(heap, idx, f)) :
        LET found == IF o.ok THEN f ELSE NULL IN
        /\ heap' = o.heap
        /\ status' = IF o.defined THEN "ok" ELSE "undefined"
        /\ Return(s, size, found, then)
        /\ call' = AfterAlloc(s, found, then)
        /\ lost' = IF o.ok THEN lost ELSE lost \cup {f}
  BY <1>1, Zenon DEF AllocTake
<1>7. /\ heap' = o.heap
      /\ status' = IF o.defined THEN "ok" ELSE "undefined"
  BY <1>6
<1>8. o.ok => /\ ptr' = [ptr EXCEPT ![s] = f + 8] /\ want' = [want EXCEPT ![s] = size]
              /\ lost' = lost
              /\ call' = IF then = NULL THEN NoCall ELSE FreeCall(s, then - 8)
  BY <1>5, <1>6 DEF Return, AfterAlloc, FreeCall, offset
<1>9. ~o.ok => /\ ptr' = [ptr EXCEPT ![s] = then] /\ want' = [want EXCEPT ![s] = want[s]]
               /\ lost' = lost \cup {f} /\ call' = NoCall
  BY <1>6 DEF Return, AfterAlloc
<1>10. /\ ptr' \in Pointers /\ want' \in [Slot -> Size \cup {0}]
       /\ lost' \subseteq 0 .. LastHead /\ status' \in {"ok", "undefined"}
  <2>1. CASE o.ok
    <3>1. ptr' \in Pointers
      BY <1>3, <1>5, <1>8, <2>1 DEF Pointers
    <3>2. want' \in [Slot -> Size \cup {0}]
      BY <1>3, <1>4, <1>8, <2>1
    <3> QED BY <1>3, <1>7, <1>8, <2>1, <3>1, <3>2
  <2>2. CASE ~o.ok
    <3>1. ptr' \in Pointers
      BY <1>3, <1>4, <1>9, <2>2 DEF Pointers
    <3>2. want' \in [Slot -> Size \cup {0}]
      BY <1>3, <1>4, <1>9, <2>2
    <3> QED BY <1>3, <1>4, <1>7, <1>9, <2>2, <3>1, <3>2
  <2> QED BY <2>1, <2>2
<1>11. CASE ~torn
  <2>1. CalmIn(heap, call, lost, ptr, want)
    BY <1>2, <1>11 DEF IInv, Calm
  <2>2. /\ Layout(heap) /\ Owners(heap, {}, lost, ptr, want)
        /\ BinsKeep(remove_node(heap, idx, f), {f})
        /\ f \in DOMAIN heap.node
        /\ heap.node[f].hole
        /\ heap.node[f].size >= size
        /\ then = ptr[s]
    BY <1>1, <1>2, <2>1, CalmTake
  <2>3. /\ Taken(heap, f, o, o.heap)
        /\ DOMAIN o.heap.node = DOMAIN heap.node
        /\ o.heap.node[f].size = heap.node[f].size
        /\ BinsKeep(remove_node(heap, idx, f), {f}) => BinsKeep(o.heap, {})
    BY <1>3, <1>4, <2>2, TakenFacts
  <2>4. /\ IsHeap(heap') /\ Layout(heap') /\ BinsKeep(heap', {})
        /\ InUse(heap', {}) = InUse(heap, {}) \cup {f}
        /\ heap'.node[f].size >= size
        /\ \A a \in DOMAIN heap.node \ {f} : heap'.node[a] = heap.node[a]
        /\ ~o.defined => ~o.ok /\ heap'.end # Top
        /\ o.ok \in BOOLEAN /\ o.defined \in BOOLEAN
    BY <1>7, <2>2, <2>3 DEF Taken
  <2>5. /\ f \notin InUse(heap, {})
        /\ \A c \in InUse(heap, {}) : heap'.node[c].size = heap.node[c].size
    BY <2>2, <2>4 DEF InUse
  <2>6. Typed'
    BY <1>2, <1>10, <2>4 DEF IInv, Typed
  <2>7. IsCall(call') /\ Calm'
    <3>1. CASE o.ok
      <4>1. DOMAIN want = Slot /\ size <= heap'.node[f].size
        <5>1. f \in DOMAIN heap'.node
          BY <1>7, <2>2, <2>3
        <5>2. heap'.node[f].size \in Nat
          BY <2>4, <5>1, Addresses
        <5> QED BY <1>3, <1>4, <2>4, <5>2
      <4>2. Owners(heap', IF ptr[s] = NULL THEN {} ELSE {ptr[s] - 8}, lost, ptr', want')
        <5>1. ptr' = [ptr EXCEPT ![s] = f + 8] /\ want' = [want EXCEPT ![s] = size]
          BY <1>8, <3>1
        <5>2. /\ ptr \in Pointers /\ Owners(heap, {}, lost, ptr, want)
              /\ s \in Slot /\ f \in Nat /\ size \in Nat
              /\ DOMAIN want = Slot /\ f \notin InUse(heap, {})
              /\ InUse(heap', {}) = InUse(heap, {}) \cup {f}
              /\ size <= heap'.node[f].size
              /\ \A c \in InUse(heap, {}) : heap'.node[c].size = heap.node[c].size
          BY <1>3, <1>4, <1>5, <2>2, <2>4, <2>5, <4>1
        <5>3. Owners(heap', IF ptr[s] = NULL THEN {} ELSE {ptr[s] - 8}, lost,
                     [ptr EXCEPT ![s] = f + 8], [want EXCEPT ![s] = size])
          BY <5>2, OwnersGain
        <5> QED BY <5>1, <5>3
      <4>3. CASE then = NULL
        <5>1. call' = NoCall /\ Owners(heap', {}, lost, ptr', want') /\ lost' = lost
          BY <1>8, <2>2, <3>1, <4>2, <4>3
        <5>2. CalmIn(heap', NoCall, lost, ptr', want')
          BY <2>4, <5>1, CalmIdle
        <5> QED BY <5>1, <5>2, NoCallTyped DEF Calm
      <4>4. CASE then # NULL
        <5> DEFINE n == then - 8
        <5>1. call' = FreeCall(s, n) /\ Owners(heap', {n}, lost, ptr', want') /\ lost' = lost
          BY <1>8, <2>2, <3>1, <4>2, <4>4
        <5>2. n \in InUse(heap, {})
          BY <1>3, <1>4, <2>2, <4>4, BlockFacts
        <5>3. n \in InUse(heap', {})
          BY <2>4, <5>2
        <5> HIDE DEF n
        <5>4. n \in DOMAIN heap'.node /\ ~heap'.node[n].hole
          BY <5>3 DEF InUse
        <5>5. n \in 0 .. LastHead
          BY <2>4, <5>4 DEF IsHeap
        <5>6. IsCall(call') /\ call'.op = "free" /\ call'.found = n
          BY <1>4, <5>1, <5>5, FreeCallTyped
        <5>7. CalmIn(heap', call', lost, ptr', want')
          BY <2>4, <5>1, <5>4, <5>6, CalmFree
        <5> QED BY <5>1, <5>6, <5>7 DEF Calm
      <4> QED BY <4>3, <4>4
    <3>2. CASE ~o.ok
      <4>1. ptr' = ptr /\ want' = want
        BY <1>3, <1>4, <1>9, <2>2, <3>2 DEF Pointers
      <4>2. call' = NoCall /\ lost' = lost \cup {f}
        BY <1>9, <3>2
      <4>3. Owners(heap', {}, lost', ptr', want')
        BY <1>3, <2>2, <2>4, <2>5, <4>1, <4>2, OwnersLose
      <4>4. CalmIn(heap', NoCall, lost', ptr', want')
        BY <2>4, <4>3, CalmIdle
      <4> QED BY <4>2, <4>4, NoCallTyped DEF Calm
    <3> QED BY <3>1, <3>2
  <2>8. status' = "undefined" => heap'.end # start + HEAP_INIT_SIZE
    BY <1>7, <2>4 DEF Top
  <2> QED BY <1>2, <1>11, <2>6, <2>7, <2>8 DEF IInv, UndefinedOnlyAfter
<1>12. CASE torn
  <2>1. /\ Layout(heap)
        /\ then # NULL => then - 8 \in DOMAIN heap.node
    BY <1>1, <1>2, <1>12 DEF IInv, Torn, TornIn, offset
  <2>2. /\ IsHeap(heap') /\ DOMAIN heap.node \subseteq DOMAIN heap'.node
        /\ heap'.foot = heap.foot
        /\ o.ok \in BOOLEAN /\ o.defined \in BOOLEAN
    BY <1>3, <1>4, <1>7, <2>1, TakeTorn
  <2>3. Typed'
    BY <1>2, <1>10, <2>2 DEF IInv, Typed
  <2>4. IsCall(call') /\ Torn'
    <3>1. CASE call' = NoCall
      BY <3>1, NoCallTyped DEF Torn, TornIn
    <3>2. CASE call' # NoCall
      <4> DEFINE n == then - 8
      <4>1. call' = FreeCall(s, n) /\ n \in DOMAIN heap.node
        BY <1>8, <1>9, <2>1, <3>2
      <4> HIDE DEF n
      <4>2. n \in 0 .. LastHead
        BY <1>3, <4>1 DEF IsHeap
      <4>3. IsCall(call') /\ call'.op = "free" /\ call'.found = n
        BY <1>4, <4>1, <4>2, FreeCallTyped
      <4>4. ASSUME n # start
            PROVE  /\ n - SizeofFooter \in DOMAIN heap.foot
                   /\ PrevChunk(heap, n) \in DOMAIN heap.node
                   /\ PrevChunk(heap, n) < n
        BY <1>3, <2>1, <4>1, <4>4, PrevChunkFacts
      <4>5. PrevChunk(heap', n) = PrevChunk(heap, n)
        BY <2>2 DEF PrevChunk
      <4>6. TornIn(heap', call')
        BY <2>2, <4>1, <4>3, <4>4, <4>5 DEF TornIn
      <4> QED BY <4>3, <4>6 DEF Torn
    <3> QED BY <3>1, <3>2
  <2> QED BY <1>2, <1>12, <2>3, <2>4 DEF IInv, UndefinedOnlyAfter
<1> QED BY <1>11, <1>12

\* RemoveFirst leaves every other element where it can be found.
LEMMA RemoveFirstOthers ==
    ASSUME NEW S, NEW s \in Seq(S), NEW e, NEW i \in 1 .. Len(s), s[i] # e
    PROVE  s[i] \in Range(RemoveFirst(s, e))
<1> DEFINE r == RemoveFirst(s, e)
<1>1. r \in Seq(S)
  BY RemoveFirstPlaces
<1>2. CASE e \notin Range(s)
  <2>1. r = s
    BY <1>2, RemoveFirstPlaces
  <2> HIDE DEF r
  <2> QED BY <2>1 DEF Range, r
<1>3. CASE e \in Range(s)
  <2>1. PICK k \in 1 .. Len(s) : s[k] = e /\ r = RemoveAt(s, k)
    BY <1>3, RemoveFirstPlaces
  <2> HIDE DEF r
  <2>2. /\ Len(r) = Len(s) - 1
        /\ \A j \in 1 .. Len(s) - 1 : r[j] = IF j < k THEN s[j] ELSE s[j + 1]
    BY <2>1, RemoveAtPlaces
  <2>3. \E j \in 1 .. Len(r) : r[j] = s[i]
    <3>1. CASE i < k
      <4>1. i \in 1 .. Len(s) - 1 /\ r[i] = s[i]
        BY <2>2, <3>1
      <4> QED BY <2>2, <4>1
    <3>2. CASE i > k
      <4>1. i - 1 \in 1 .. Len(s) - 1 /\ ~(i - 1 < k) /\ (i - 1) + 1 = i
        BY <3>2
      <4>2. r[i - 1] = s[i]
        BY <2>2, <4>1
      <4> QED BY <2>2, <4>1, <4>2
    <3>3. i # k
      BY <2>1
    <3> QED BY <3>1, <3>2, <3>3
  <2>4. DOMAIN r = 1 .. Len(r)
    BY <1>1 DEF r
  <2> QED BY <2>3, <2>4 DEF Range, r
<1> QED BY <1>2, <1>3

\* Outside the steps that the handler has interrupted the bins hold chunks.
LEMMA BinsHoldChunks ==
    ASSUME NEW h, IsHeap(h), NEW c, IsCall(c), NEW l, NEW p, NEW w, CalmIn(h, c, l, p, w),
           NEW b \in Bin, NEW i \in 1 .. Len(h.bins[b])
    PROVE  h.bins[b][i] \in DOMAIN h.node
<1> DEFINE e == h.bins[b][i]
<1>1. h.bins[b] \in Seq(0 .. LastHead) /\ DOMAIN h.bins[b] = 1 .. Len(h.bins[b])
  BY DEF IsHeap
<1>2. e \in Range(h.bins[b])
  BY <1>1 DEF Range
<1>3. CASE c.op # "take"
  <2>1. PICK X : BinsKeep(h, X)
    BY <1>3 DEF CalmIn
  <2> QED BY <1>2, <2>1 DEF BinsKeep, HolesOf
<1>4. CASE c.op = "take"
  <2>1. PICK f, idx : f = c.found /\ idx = c.index
    OBVIOUS
  <2>2. BinsKeep(remove_node(h, idx, f), {f}) /\ f \in DOMAIN h.node /\ idx \in Bin
    BY <1>4, <2>1 DEF CalmIn, IsCall
  <2> DEFINE r == remove_node(h, idx, f)
  <2>3. /\ r.node = h.node
        /\ r.bins = [h.bins EXCEPT ![idx] = RemoveFirst(h.bins[idx], f)]
    BY <2>2, RemoveNode
  <2>4. BinsKeep(r, {f})
    BY <2>2
  <2> HIDE DEF r
  <2>5. Range(r.bins[b]) \subseteq DOMAIN h.node
    BY <2>3, <2>4 DEF BinsKeep, HolesOf
  <2>6. r.bins[b] = IF b = idx THEN RemoveFirst(h.bins[b], f) ELSE h.bins[b]
    BY <2>2, <2>3 DEF IsHeap
  <2>7. CASE b # idx \/ e = f
    BY <1>2, <2>2, <2>5, <2>6, <2>7
  <2>8. CASE b = idx /\ e # f
    <3>1. e \in Range(RemoveFirst(h.bins[b], f))
      BY <1>1, <2>8, RemoveFirstOthers
    <3> HIDE DEF e
    <3>2. e \in Range(r.bins[b])
      BY <2>6, <2>8, <3>1
    <3> QED BY <2>5, <3>2 DEF e
  <2> QED BY <2>7, <2>8
<1> QED BY <1>3, <1>4

\* A chunk behind which nothing can be read is the last one.
LEMMA NothingBehind ==
    ASSUME NEW h, IsHeap(h), Layout(h), NEW n \in DOMAIN h.node, ~NextReadable(h, n)
    PROVE  NextChunk(h, n) = start + HEAP_INIT_SIZE
BY DEF Layout, NextReadable, Top

\* heap_free merges.
LEMMA FreeCoalesceStep ==
    ASSUME IInv, FreeCoalesce
    PROVE  IInv'
<1>1. PICK n : n = call.found
  OBVIOUS
<1>2. /\ status = "ok" /\ call.op = "free" /\ torn' = torn /\ ptr' = ptr /\ want' = want
      /\ lost' = lost
  BY DEF FreeCoalesce
<1>3. /\ IsHeap(heap) /\ ptr \in Pointers /\ torn \in BOOLEAN /\ IsCall(call)
  BY DEF IInv, Typed
<1>4. torn => /\ n \in DOMAIN heap.node
              /\ n # start => PrevChunk(heap, n) \in DOMAIN heap.node /\ PrevChunk(heap, n) < n
  BY <1>1, <1>2 DEF IInv, Torn, TornIn
<1>5. ~torn => /\ Layout(heap) /\ Owners(heap, {n}, lost, ptr, want) /\ BinsKeep(heap, {})
               /\ n \in DOMAIN heap.node /\ ~heap.node[n].hole
  <2>1. SUFFICES ASSUME ~torn
        PROVE  /\ Layout(heap) /\ Owners(heap, {n}, lost, ptr, want) /\ BinsKeep(heap, {})
               /\ n \in DOMAIN heap.node /\ ~heap.node[n].hole
    OBVIOUS
  <2>2. CalmIn(heap, call, lost, ptr, want)
    BY <1>2, <2>1 DEF IInv, Calm
  <2> QED BY <1>1, <1>2, <2>2, CalmFree
<1>6. CASE status' = "ok"
  <2> DEFINE c == Coalesce(heap, n, NextIsHole(heap, n))
  <2>1. heap' = c.heap /\ call' = [call EXCEPT !.op = "release", !.found = c.head]
    BY <1>1, <1>2, <1>6 DEF FreeCoalesce
  <2>2. PICK d : d = c.head
    OBVIOUS
  <2>3. call' = [call EXCEPT !.op = "release", !.found = d]
    BY <2>1, <2>2
  <2>4. ASSUME d \in 0 .. LastHead PROVE IsCall(call') /\ call'.op = "release" /\ call'.found = d
    BY <1>3, <2>3, <2>4 DEF IsCall, CallOp
  <2>5. CASE ~torn
    <3>1. Freeing(heap, n, c.heap, c.head)
      BY <1>3, <1>5, <2>5, CoalesceFacts
    <3>2. Freeing(heap, n, heap', d)
      BY <2>1, <2>2, <3>1
    <3>3. IsHeap(heap') /\ Layout(heap') /\ d \in DOMAIN heap'.node /\ BinsKeep(heap', {d})
      BY <1>5, <2>5, <3>2 DEF Freeing
    <3>4. InUse(heap', {d}) = InUse(heap, {n})
          /\ \A a \in InUse(heap, {n}) : heap'.node[a] = heap.node[a]
      BY <3>2, FreeingFacts
    <3>5. Owners(heap', {d}, lost, ptr, want)
      BY <1>3, <1>5, <2>5, <3>4, OwnersSame
    <3>6. d \in 0 .. LastHead
      BY <3>3 DEF IsHeap
    <3>7. CalmIn(heap', call', lost, ptr, want)
      BY <2>4, <3>3, <3>5, <3>6, CalmRelease
    <3>8. Typed' /\ Calm'
      BY <1>2, <1>6, <3>3, <3>7 DEF IInv, Typed, Calm
    <3> QED BY <1>2, <1>6, <2>4, <2>5, <3>6, <3>8 DEF IInv, UndefinedOnlyAfter
  <2>6. CASE torn
    <3>1. IsHeap(c.heap) /\ c.head \in 0 .. LastHead
      BY <1>3, <1>4, <2>6, CoalesceTyped
    <3> HIDE DEF c
    <3>2. IsHeap(heap') /\ d \in 0 .. LastHead
      BY <2>1, <2>2, <3>1
    <3>3. Torn'
      BY <2>4, <3>2 DEF Torn, TornIn
    <3>4. Typed'
      BY <1>2, <1>6, <3>2 DEF IInv, Typed
    <3> QED BY <1>2, <1>6, <2>4, <2>6, <3>2, <3>3, <3>4 DEF IInv, UndefinedOnlyAfter
  <2> QED BY <1>3, <2>5, <2>6
<1>7. CASE status' # "ok"
  <2>1. status' = "undefined" /\ heap' = heap /\ call' = call /\ ~NextReadable(heap, n)
    BY <1>1, <1>2, <1>7 DEF FreeCoalesce
  <2>2. Typed' /\ IsCall(call')
    BY <1>2, <2>1 DEF IInv, Typed
  <2>3. torn' \/ \E a \in DOMAIN heap'.node :
                   NextChunk(heap', a) = start + HEAP_INIT_SIZE /\ ~heap'.node[a].hole
    <3>1. CASE torn
      BY <1>2, <3>1
    <3>2. CASE ~torn
      <4>1. n \in DOMAIN heap.node /\ ~heap.node[n].hole
            /\ NextChunk(heap, n) = start + HEAP_INIT_SIZE
        BY <1>3, <1>5, <2>1, <3>2, NothingBehind
      <4> QED BY <2>1, <4>1
    <3> QED BY <3>1, <3>2
  <2>4. UndefinedOnlyAfter'
    BY <2>3 DEF UndefinedOnlyAfter
  <2> QED BY <2>1, <2>2, <2>4 DEF IInv
<1> QED BY <1>6, <1>7

\* heap_free puts the chunk into its bin.
LEMMA FreeReleaseStep ==
    ASSUME IInv, FreeRelease
    PROVE  IInv'
<1>1. PICK n : n = call.found
  OBVIOUS
<1>2. /\ status = "ok" /\ call.op = "release" /\ torn' = torn /\ ptr' = ptr /\ want' = want
      /\ lost' = lost /\ status' = status /\ call' = NoCall /\ heap' = Release(heap, n)
  BY <1>1 DEF FreeRelease
<1>3. /\ IsHeap(heap) /\ ptr \in Pointers /\ torn \in BOOLEAN /\ n \in 0 .. LastHead
  BY <1>1, <1>2 DEF IInv, Typed, IsCall
<1>4. /\ IsHeap(heap')
      /\ n \in DOMAIN heap.node =>
           /\ DOMAIN heap'.node = DOMAIN heap.node
           /\ \A c \in DOMAIN heap.node \ {n} : heap'.node[c] = heap.node[c]
           /\ heap'.node[n].hole
           /\ Layout(heap) => Layout(heap')
           /\ BinsKeep(heap, {n}) => BinsKeep(heap', {})
  BY <1>2, <1>3, ReleaseFacts
<1>5. Typed'
  BY <1>2, <1>4 DEF IInv, Typed
<1>6. CASE torn
  <2>1. Torn'
    BY <1>2, NoCallTyped DEF Torn, TornIn
  <2> QED BY <1>2, <1>5, <1>6, <2>1, NoCallTyped DEF IInv, UndefinedOnlyAfter
<1>7. CASE ~torn
  <2>1. CalmIn(heap, call, lost, ptr, want)
    BY <1>2, <1>7 DEF IInv, Calm
  <2>2. /\ Layout(heap) /\ Owners(heap, {n}, lost, ptr, want) /\ BinsKeep(heap, {n})
        /\ n \in DOMAIN heap.node
    BY <1>1, <1>2, <2>1, CalmRelease
  <2>3. InUse(heap', {}) = InUse(heap, {n})
    BY <1>4, <2>2 DEF InUse
  <2>4. \A c \in InUse(heap, {n}) : heap'.node[c].size = heap.node[c].size
    BY <1>4, <2>2 DEF InUse
  <2>5. Owners(heap', {}, lost, ptr, want)
    BY <1>3, <2>2, <2>3, <2>4, OwnersSame
  <2>6. CalmIn(heap', NoCall, lost, ptr, want)
    BY <1>4, <2>2, <2>5, CalmIdle
  <2>7. Calm'
    BY <1>2, <2>6 DEF Calm
  <2> QED BY <1>2, <1>5, <1>7, <2>7, NoCallTyped DEF IInv, UndefinedOnlyAfter
<1> QED BY <1>3, <1>6, <1>7

\* What the invariant says when the handler is about to call the allocator.
LEMMA HandlerFacts ==
    ASSUME IInv, status = "ok", ~torn
    PROVE  /\ IsHeap(heap) /\ ptr \in Pointers /\ want \in [Slot -> Size \cup {0}]
           /\ lost \subseteq 0 .. LastHead /\ IsCall(call)
           /\ CalmIn(heap, call, lost, ptr, want) /\ Layout(heap)
           /\ call = NoCall =>
                Owners(heap, {}, lost, ptr, want) /\ BinsKeep(heap, {})
           /\ call.op = "free" => call.found \in InUse(heap, {})
<1>1. CalmIn(heap, call, lost, ptr, want)
  BY DEF IInv, Calm
<1>2. Layout(heap)
  BY <1>1 DEF CalmIn
<1>3. call = NoCall => Owners(heap, {}, lost, ptr, want) /\ BinsKeep(heap, {})
  BY <1>1, CalmIdle
<1>4. call.op = "free" => call.found \in InUse(heap, {})
  BY <1>1 DEF CalmIn, InUse
<1> QED BY <1>1, <1>2, <1>3, <1>4 DEF IInv, Typed

\* The block that the handler, or krealloc, holds while a call is under way.
LEMMA HeldFacts ==
    ASSUME NEW h, NEW c, NEW l, NEW p \in Pointers, NEW w, CalmIn(h, c, l, p, w),
           NEW s \in Slot, p[s] # NULL
    PROVE  /\ p[s] - 8 \in InUse(h, {})
           /\ \A t \in Slot \ {s} : p[t] # NULL => p[t] - 8 # p[s] - 8
           /\ c.op = "free" => p[s] - 8 # c.found
<1>1. PICK X : /\ Owners(h, X, l, p, w)
               /\ X = IF c.op \in {"free", "release"} THEN {c.found} ELSE {}
  BY DEF CalmIn
<1>2. /\ p[s] \in Nat /\ p[s] - 8 \in InUse(h, X) /\ p[s] - 8 \notin l
      /\ w[s] <= h.node[p[s] - 8].size
      /\ \A t \in Slot \ {s} : p[t] # NULL => p[t] \in Nat /\ p[t] # p[s]
  <2>1. Owners(h, X, l, p, w)
    BY <1>1
  <2>2. \A t \in Slot \ {s} : p[t] # NULL => p[t] \in Nat /\ p[t] # p[s]
    BY <2>1 DEF Owners, Pointers
  <2>3. /\ p[s] \in Nat /\ p[s] - 8 \in InUse(h, X) /\ p[s] - 8 \notin l
        /\ w[s] <= h.node[p[s] - 8].size
    BY <2>1, BlockFacts
  <2> QED BY <2>2, <2>3
<1>3. p[s] - 8 \in InUse(h, {}) /\ p[s] - 8 \notin X
  BY <1>2 DEF InUse
<1>4. \A t \in Slot \ {s} : p[t] # NULL => p[t] - 8 # p[s] - 8
  BY <1>2
<1>5. c.op = "free" => c.found \in X
  BY <1>1
<1> QED BY <1>3, <1>4, <1>5

\* The handler allocates.
LEMMA IrqAllocStep ==
    ASSUME IInv, NEW s \in IrqSlot, NEW size \in Size, IrqAlloc(s, size)
    PROVE  IInv'
<1>1. status = "ok" /\ ~torn /\ ptr[s] = NULL /\ call' = call /\ torn' = (call # NoCall)
  BY DEF IrqAlloc
<1>2. /\ IsHeap(heap) /\ ptr \in Pointers /\ want \in [Slot -> Size \cup {0}]
      /\ lost \subseteq 0 .. LastHead /\ IsCall(call)
      /\ CalmIn(heap, call, lost, ptr, want) /\ Layout(heap)
      /\ call = NoCall => Owners(heap, {}, lost, ptr, want) /\ BinsKeep(heap, {})
      /\ call.op = "free" => call.found \in InUse(heap, {})
  BY <1>1, HandlerFacts
<1>3. size \in Nat /\ s \in Slot
  BY HeapAssumption DEF Slot
<1>4. PICK b, f : b = FirstBin(heap, size) /\ f = get_best_fit(heap, b, size)
  OBVIOUS
<1>5. BinsWithFit(heap, size) # {}
  BY DEF IrqAlloc
<1>6. /\ b \in Bin /\ f \in 0 .. LastHead /\ SizeOf(heap, f) >= size
      /\ \E i \in 1 .. Len(heap.bins[b]) : f = heap.bins[b][i]
  BY <1>2, <1>3, <1>4, <1>5, SearchFinds
<1>7. f \in DOMAIN heap.node
  BY <1>2, <1>6, BinsHoldChunks
<1>8. heap.node[f].size >= size
  BY <1>2, <1>6, <1>7, Addresses
<1>9. f \in Nat /\ f # NULL /\ f + 8 \in 0 .. HeapMax
  BY <1>6, ConstantsTyped
<1>10. PICK o \in WildernessOutcomes(TakeFound(SplitFound(heap, f, size), b, f)) :
         /\ heap' = o.heap
         /\ status' = IF o.defined THEN "ok" ELSE "undefined"
         /\ Return(s, size, IF o.ok THEN f ELSE NULL, NULL)
         /\ lost' = IF o.ok THEN lost ELSE lost \cup {f}
  BY <1>4, Zenon DEF IrqAlloc, FirstBin
<1>11. /\ Taken(heap, f, o, o.heap)
       /\ o.heap.node[f].size >= size
       /\ BinsKeep(heap, {}) /\ heap.node[f].hole /\ get_bin_index(heap.node[f].size) = b
            => BinsKeep(o.heap, {})
  BY <1>2, <1>3, <1>6, <1>7, <1>8, AllocatedFacts
<1>12. /\ IsHeap(heap') /\ Layout(heap') /\ DOMAIN heap.node \subseteq DOMAIN heap'.node
       /\ o.ok \in BOOLEAN /\ o.defined \in BOOLEAN
       /\ InUse(heap', {}) = InUse(heap, {}) \cup {f}
       /\ heap'.node[f].size >= size
       /\ \A a \in DOMAIN heap.node \ {f} : heap'.node[a] = heap.node[a]
       /\ ~o.defined => ~o.ok /\ heap'.end # Top
       /\ BinsKeep(heap, {}) /\ heap.node[f].hole /\ get_bin_index(heap.node[f].size) = b
            => BinsKeep(heap', {})
  BY <1>10, <1>11 DEF Taken
<1>13. o.ok => /\ ptr' = [ptr EXCEPT ![s] = f + 8] /\ want' = [want EXCEPT ![s] = size]
               /\ lost' = lost
  BY <1>9, <1>10 DEF Return, offset
<1>14. ~o.ok => ptr' = ptr /\ want' = want /\ lost' = lost \cup {f}
  <2>1. SUFFICES ASSUME ~o.ok PROVE ptr' = ptr /\ want' = want /\ lost' = lost \cup {f}
    OBVIOUS
  <2>2. /\ ptr' = [ptr EXCEPT ![s] = NULL] /\ want' = [want EXCEPT ![s] = want[s]]
        /\ lost' = lost \cup {f}
    BY <1>10, <2>1 DEF Return
  <2> QED BY <1>1, <1>2, <1>3, <2>2 DEF Pointers
<1>15. Typed'
  <2>1. /\ ptr' \in Pointers /\ want' \in [Slot -> Size \cup {0}] /\ lost' \subseteq 0 .. LastHead
    <3>1. CASE o.ok
      <4>1. ptr' \in Pointers
        BY <1>2, <1>9, <1>13, <3>1 DEF Pointers
      <4>2. want' \in [Slot -> Size \cup {0}]
        BY <1>2, <1>13, <3>1
      <4> QED BY <1>2, <1>13, <3>1, <4>1, <4>2
    <3>2. CASE ~o.ok
      BY <1>2, <1>6, <1>14, <3>2
    <3> QED BY <3>1, <3>2
  <2>2. status' \in {"ok", "undefined"} /\ torn' \in BOOLEAN
    BY <1>1, <1>10
  <2> QED BY <1>12, <2>1, <2>2 DEF Typed
<1>16. IsCall(call')
  BY <1>1, <1>2
<1>17. UndefinedOnlyAfter'
  <2>1. status' = "undefined" => heap'.end # start + HEAP_INIT_SIZE
    BY <1>10, <1>12 DEF Top
  <2> QED BY <2>1 DEF UndefinedOnlyAfter
<1>18. CASE call = NoCall
  <2>1. /\ heap.node[f].hole /\ get_bin_index(heap.node[f].size) = b
    BY <1>2, <1>3, <1>4, <1>5, <1>18, SearchFindsHole
  <2>2. BinsKeep(heap', {})
    BY <1>2, <1>12, <1>18, <2>1
  <2>3. /\ f \notin InUse(heap, {})
        /\ \A c \in InUse(heap, {}) : heap'.node[c].size = heap.node[c].size
    BY <1>12, <2>1 DEF InUse
  <2>4. Owners(heap', {}, lost', ptr', want')
    <3>1. CASE o.ok
      <4>1. f \in DOMAIN heap'.node
        BY <1>7, <1>12
      <4>2. heap'.node[f].size \in Nat
        BY <1>12, <4>1, Addresses
      <4>3. /\ ptr \in Pointers /\ Owners(heap, {}, lost, ptr, want)
            /\ s \in Slot /\ f \in Nat /\ size \in Nat
            /\ DOMAIN want = Slot /\ f \notin InUse(heap, {})
            /\ InUse(heap', {}) = InUse(heap, {}) \cup {f}
            /\ size <= heap'.node[f].size
            /\ \A c \in InUse(heap, {}) : heap'.node[c].size = heap.node[c].size
        BY <1>2, <1>3, <1>9, <1>12, <1>18, <2>3, <4>2
      <4>4. Owners(heap', IF ptr[s] = NULL THEN {} ELSE {ptr[s] - 8}, lost,
                   [ptr EXCEPT ![s] = f + 8], [want EXCEPT ![s] = size])
        BY <4>3, OwnersGain
      <4> QED BY <1>1, <1>13, <3>1, <4>4
    <3>2. CASE ~o.ok
      BY <1>2, <1>12, <1>14, <1>18, <2>3, <3>2, OwnersLose
    <3> QED BY <3>1, <3>2
  <2>5. CalmIn(heap', NoCall, lost', ptr', want')
    BY <1>12, <2>2, <2>4, CalmIdle
  <2>6. Calm'
    BY <1>1, <1>18, <2>5 DEF Calm
  <2> QED BY <1>1, <1>15, <1>16, <1>17, <1>18, <2>6 DEF IInv
<1>19. CASE call # NoCall
  <2>1. ASSUME call.op \in {"split", "take"}, call.then # NULL
        PROVE  call.then - 8 \in DOMAIN heap'.node
    <3>1. call.then = ptr[call.slot] /\ call.slot \in Slot
      BY <1>2, <2>1 DEF CalmIn, IsCall, Slot
    <3>2. PICK t \in Slot : t = call.slot
      BY <3>1
    <3>3. ptr[t] - 8 \in InUse(heap, {})
      BY <1>2, <2>1, <3>1, <3>2, HeldFacts
    <3> QED BY <1>12, <3>1, <3>2, <3>3 DEF InUse
  <2>2. call.op = "free" => call.found \in DOMAIN heap'.node
    BY <1>2, <1>12 DEF InUse
  <2>3. TornIn(heap', call)
    BY <1>12, <2>1, <2>2, TornFacts
  <2>4. Torn'
    BY <1>1, <2>3 DEF Torn
  <2> QED BY <1>1, <1>15, <1>16, <1>17, <1>19, <2>4 DEF IInv
<1> QED BY <1>18, <1>19

\* The handler frees.
LEMMA IrqFreeStep ==
    ASSUME IInv, NEW s \in IrqSlot, IrqFree(s)
    PROVE  IInv'
<1>1. /\ status = "ok" /\ ~torn /\ ptr[s] # NULL /\ call' = call /\ lost' = lost
      /\ torn' = (call # NoCall)
      /\ ptr' = [ptr EXCEPT ![s] = NULL] /\ want' = [want EXCEPT ![s] = 0]
  BY DEF IrqFree
<1>2. /\ IsHeap(heap) /\ ptr \in Pointers /\ want \in [Slot -> Size \cup {0}]
      /\ lost \subseteq 0 .. LastHead /\ IsCall(call)
      /\ CalmIn(heap, call, lost, ptr, want) /\ Layout(heap)
      /\ call = NoCall => Owners(heap, {}, lost, ptr, want) /\ BinsKeep(heap, {})
      /\ call.op = "free" => call.found \in InUse(heap, {})
  BY <1>1, HandlerFacts
<1>3. s \in Slot /\ s \notin ThreadSlot
  BY HeapAssumption DEF Slot
<1>4. PICK n : n = ptr[s] - 8
  OBVIOUS
<1>5. /\ n \in InUse(heap, {})
      /\ \A t \in Slot \ {s} : ptr[t] # NULL => ptr[t] - 8 # n
      /\ call.op = "free" => n # call.found
  <2>0. CalmIn(heap, call, lost, ptr, want) /\ ptr \in Pointers /\ s \in Slot /\ ptr[s] # NULL
    BY <1>1, <1>2, <1>3
  <2>1. /\ ptr[s] - 8 \in InUse(heap, {})
        /\ \A t \in Slot \ {s} : ptr[t] # NULL => ptr[t] - 8 # ptr[s] - 8
        /\ call.op = "free" => ptr[s] - 8 # call.found
    BY <2>0, HeldFacts
  <2> QED BY <1>4, <2>1
<1>6. n \in DOMAIN heap.node /\ ~heap.node[n].hole
  BY <1>5 DEF InUse
<1>7. ptr' \in Pointers /\ want' \in [Slot -> Size \cup {0}] /\ torn' \in BOOLEAN
      /\ IsCall(call')
  <2>1. ptr' \in Pointers
    BY <1>1, <1>2 DEF Pointers
  <2>2. want' \in [Slot -> Size \cup {0}]
    BY <1>1, <1>2
  <2> QED BY <1>1, <1>2, <2>1, <2>2
<1>8. \/ /\ heap' = Release(Coalesce(heap, n, NextIsHole(heap, n)).heap,
                            Coalesce(heap, n, NextIsHole(heap, n)).head)
         /\ status' = status
      \/ ~NextReadable(heap, n) /\ status' = "undefined" /\ heap' = heap
  BY <1>4 DEF IrqFree, offset
<1>9. CASE ~NextReadable(heap, n) /\ status' = "undefined" /\ heap' = heap
  <2>1. NextChunk(heap', n) = start + HEAP_INIT_SIZE
    BY <1>2, <1>6, <1>9, NothingBehind
  <2>2. UndefinedOnlyAfter'
    BY <1>6, <1>9, <2>1 DEF UndefinedOnlyAfter
  <2>3. Typed'
    BY <1>1, <1>2, <1>7, <1>9 DEF Typed
  <2> QED BY <1>7, <1>9, <2>2, <2>3 DEF IInv
<1>10. CASE /\ heap' = Release(Coalesce(heap, n, NextIsHole(heap, n)).heap,
                               Coalesce(heap, n, NextIsHole(heap, n)).head)
            /\ status' = status
  <2>1. PICK c : c = Coalesce(heap, n, NextIsHole(heap, n))
    OBVIOUS
  <2>2. heap' = Release(c.heap, c.head)
    BY <1>10, <2>1
  <2>3. /\ IsHeap(heap') /\ Layout(heap') /\ heap'.end = heap.end
        /\ InUse(heap', {}) = InUse(heap, {n})
        /\ \A a \in InUse(heap, {n}) : heap'.node[a] = heap.node[a]
        /\ BinsKeep(heap, {}) => BinsKeep(heap', {})
    BY <1>2, <1>6, <2>1, <2>2, FreedFacts
  <2>4. Typed' /\ UndefinedOnlyAfter'
    BY <1>1, <1>2, <1>7, <1>10, <2>3 DEF Typed, UndefinedOnlyAfter
  <2>5. CASE call = NoCall
    <3>1. DOMAIN want = Slot
      BY <1>2
    <3>2. Owners(heap, {n}, lost, ptr', want')
      BY <1>1, <1>2, <1>3, <1>4, <2>5, <3>1, OwnersDrop
    <3>3. Owners(heap', {}, lost, ptr', want')
      BY <1>7, <2>3, <3>2, OwnersSame
    <3>4. CalmIn(heap', NoCall, lost, ptr', want')
      BY <1>2, <2>3, <2>5, <3>3, CalmIdle
    <3>5. Calm'
      BY <1>1, <2>5, <3>4 DEF Calm
    <3> QED BY <1>1, <1>7, <1>10, <2>4, <2>5, <3>5 DEF IInv
  <2>6. CASE call # NoCall
    <3>1. ASSUME call.op \in {"split", "take"}, call.then # NULL
          PROVE  call.then - 8 \in DOMAIN heap'.node
      <4>1. call.then = ptr[call.slot] /\ call.slot \in Slot /\ call.slot # s
        BY <1>2, <1>3, <3>1 DEF CalmIn, IsCall, Slot
      <4>2. PICK t \in Slot : t = call.slot
        BY <4>1
      <4>3. ptr[t] - 8 \in InUse(heap, {})
        BY <1>2, <3>1, <4>1, <4>2, HeldFacts
      <4>4. ptr[t] - 8 # n
        BY <1>5, <3>1, <4>1, <4>2
      <4>5. ptr[t] - 8 \in InUse(heap, {n})
        BY <4>3, <4>4 DEF InUse
      <4> QED BY <2>3, <4>1, <4>2, <4>5 DEF InUse
    <3>2. ASSUME call.op = "free" PROVE call.found \in DOMAIN heap'.node
      <4>1. call.found \in InUse(heap, {n})
        BY <1>2, <1>5, <3>2 DEF InUse
      <4> QED BY <2>3, <4>1 DEF InUse
    <3>3. TornIn(heap', call)
      BY <2>3, <3>1, <3>2, TornFacts
    <3>4. Torn'
      BY <1>1, <3>3 DEF Torn
    <3> QED BY <1>1, <1>7, <1>10, <2>4, <2>6, <3>4 DEF IInv
  <2> QED BY <2>5, <2>6
<1> QED BY <1>8, <1>9, <1>10

\* No step of the thread or of the handler breaks the invariant.
LEMMA NextHolds == IInv /\ [Next]_vars => IInv'
<1>1. SUFFICES ASSUME IInv, [Next]_vars PROVE IInv'
  OBVIOUS
<1>2. CASE UNCHANGED vars
  <2>1. /\ heap' = heap /\ ptr' = ptr /\ want' = want /\ call' = call /\ status' = status
        /\ lost' = lost /\ torn' = torn
    BY <1>2 DEF vars
  <2> QED BY <1>1, <2>1 DEF IInv, Typed, Calm, Torn, UndefinedOnlyAfter
<1>3. ASSUME NEW s \in ThreadSlot, NEW size \in Size, AllocFind(s, size) PROVE IInv'
  BY <1>1, <1>3, AllocFindStep
<1>4. ASSUME NEW s \in ThreadSlot, NEW size \in Size, AllocNone(s, size) PROVE IInv'
  BY <1>2, <1>4 DEF AllocNone
<1>5. ASSUME NEW s \in ThreadSlot, NEW size \in Size, ReallocSame(s, size) PROVE IInv'
  BY <1>1, <1>5, ReallocSameStep
<1>6. ASSUME NEW s \in ThreadSlot, FreeStart(s) PROVE IInv'
  BY <1>1, <1>6, FreeStartStep
<1>7. CASE AllocSplit
  BY <1>1, <1>7, AllocSplitStep
<1>8. CASE AllocTake
  BY <1>1, <1>8, AllocTakeStep
<1>9. CASE FreeCoalesce
  BY <1>1, <1>9, FreeCoalesceStep
<1>10. CASE FreeRelease
  BY <1>1, <1>10, FreeReleaseStep
<1>11. ASSUME NEW s \in IrqSlot, NEW size \in Size, IrqAlloc(s, size) PROVE IInv'
  BY <1>1, <1>11, IrqAllocStep
<1>12. ASSUME NEW s \in IrqSlot, IrqFree(s) PROVE IInv'
  BY <1>1, <1>12, IrqFreeStep
<1> QED
  BY <1>1, <1>2, <1>3, <1>4, <1>5, <1>6, <1>7, <1>8, <1>9, <1>10, <1>11, <1>12 DEF Next

-----------------------------------------------------------------------------
(* The theorems.                                                           *)

\* The elements of a sequence.
LEMMA SeqElements ==
    ASSUME NEW S, NEW q \in Seq(S)
    PROVE  DOMAIN q = 1 .. Len(q) /\ \A i \in 1 .. Len(q) : q[i] \in S
OBVIOUS

\* The types, from the invariant.
LEMMA InvTypes == ASSUME IInv PROVE TypeOK
<1>1. /\ IsHeap(heap) /\ ptr \in Pointers /\ want \in [Slot -> Size \cup {0}]
      /\ status \in {"ok", "undefined"} /\ lost \subseteq 0 .. LastHead /\ torn \in BOOLEAN
  BY DEF IInv, Typed
<1>2. heap.end \in Nat /\ heap.end <= HeapMax /\ LastHead \in Nat /\ LastHead <= heap.end
  BY <1>1, ConstantsTyped DEF IsHeap
<1>3. 0 .. LastHead \subseteq 0 .. heap.end
  BY <1>2
<1>4. heap.end \in start .. HeapMax
  BY <1>2, ConstantsTyped DEF start
<1>5. \A a \in DOMAIN heap.node :
         a \in 0 .. heap.end /\ heap.node[a] \in [hole : BOOLEAN, size : Nat]
  BY <1>1, <1>3 DEF IsHeap
<1>6. \A a \in DOMAIN heap.foot : heap.foot[a] \in 0 .. heap.end
  BY <1>1, <1>3 DEF IsHeap
<1>7. ASSUME NEW b \in 0 .. BIN_MAX_IDX PROVE Range(heap.bins[b]) \subseteq 0 .. heap.end
  <2>1. heap.bins[b] \in Seq(0 .. LastHead)
    BY <1>1 DEF IsHeap, Bin
  <2>2. PICK q \in Seq(0 .. LastHead) : q = heap.bins[b]
    BY <2>1
  <2>3. DOMAIN q = 1 .. Len(q) /\ \A i \in 1 .. Len(q) : q[i] \in 0 .. LastHead
    BY <2>2, SeqElements
  <2> QED BY <1>3, <2>2, <2>3 DEF Range
<1>8. call.op \in CallOp
  BY DEF IInv, IsCall
<1> QED BY <1>1, <1>3, <1>4, <1>5, <1>6, <1>7, <1>8 DEF TypeOK, Pointers, CallOp

\* Between two calls the walk by the sizes meets the chunks.
LEMMA InvChunks == ASSUME IInv, Idle PROVE Chunks = DOMAIN heap.node
BY IdleFacts, ChunksAreHeads

\* The boundary tags, from the invariant.
LEMMA InvBoundaryTags == ASSUME IInv PROVE BoundaryTags
<1>1. SUFFICES ASSUME Idle
      PROVE  /\ \E c \in Chunks : NextChunk(heap, c) = start + HEAP_INIT_SIZE
             /\ \A c \in Chunks :
                  <<get_foot(heap, c), c>> \in {<<a, heap.foot[a]>> : a \in DOMAIN heap.foot}
             /\ \A c \in Chunks : NextChunk(heap, c) <= start + HEAP_INIT_SIZE
  BY DEF BoundaryTags
<1>2. Chunks = DOMAIN heap.node
  BY <1>1, InvChunks
<1>3. Layout(heap) /\ IsHeap(heap)
  BY <1>1, IdleFacts
<1>4. \E c \in Chunks : NextChunk(heap, c) = start + HEAP_INIT_SIZE
  BY <1>2, <1>3 DEF Layout, Top
<1>5. ASSUME NEW c \in Chunks
      PROVE <<get_foot(heap, c), c>> \in {<<a, heap.foot[a]>> : a \in DOMAIN heap.foot}
  <2>1. get_foot(heap, c) \in DOMAIN heap.foot /\ heap.foot[get_foot(heap, c)] = c
    BY <1>2, <1>3 DEF Layout
  <2> QED BY <2>1
<1>6. ASSUME NEW c \in Chunks PROVE NextChunk(heap, c) <= Top
  <2>1. NextChunk(heap, c) \in DOMAIN heap.node \cup {Top}
    BY <1>2, <1>3 DEF Layout
  <2>2. CASE NextChunk(heap, c) \in DOMAIN heap.node
    <3>1. PICK m \in DOMAIN heap.node : m = NextChunk(heap, c)
      BY <2>2
    <3>2. m \in Nat /\ m + 20 <= Top
      BY <1>3, Addresses
    <3> QED BY <3>1, <3>2, ConstantsTyped
  <2> QED BY <2>1, <2>2, ConstantsTyped
<1> QED BY <1>4, <1>5, <1>6 DEF Top

\* The bins, from the invariant.
LEMMA InvBins == ASSUME IInv PROVE BinsHoldHoles
<1>1. SUFFICES ASSUME Idle, NEW b \in 0 .. BIN_MAX_IDX
      PROVE  /\ Range(heap.bins[b]) =
                  {c \in Chunks : heap.node[c].hole /\ get_bin_index(heap.node[c].size) = b}
             /\ \A i, j \in DOMAIN heap.bins[b] : i < j =>
                  /\ heap.bins[b][i] # heap.bins[b][j]
                  /\ heap.node[heap.bins[b][i]].size <= heap.node[heap.bins[b][j]].size
  BY DEF BinsHoldHoles
<1>2. Chunks = DOMAIN heap.node
  BY <1>1, InvChunks
<1>3. BinsKeep(heap, {}) /\ IsHeap(heap)
  BY <1>1, IdleFacts
<1>4. Range(heap.bins[b]) = HolesOf(heap, {}, b) /\ SortedBin(heap, heap.bins[b])
  BY <1>1, <1>3 DEF BinsKeep, Bin
<1>5. heap.bins[b] \in Seq(0 .. LastHead)
  BY <1>1, <1>3 DEF IsHeap, Bin
<1>6. DOMAIN heap.bins[b] = 1 .. Len(heap.bins[b])
  BY <1>5
<1>7. HolesOf(heap, {}, b) =
        {c \in Chunks : heap.node[c].hole /\ get_bin_index(heap.node[c].size) = b}
  BY <1>2 DEF HolesOf
<1> QED BY <1>4, <1>6, <1>7 DEF SortedBin

\* The owners of the chunks, from the invariant.
LEMMA InvAccounted == ASSUME IInv PROVE ChunksAccounted
<1>1. SUFFICES ASSUME Idle
      PROVE  {c \in Chunks : ~heap.node[c].hole} = lost \cup BlocksOf(ptr)
  BY DEF ChunksAccounted, BlocksOf
<1>2. Chunks = DOMAIN heap.node
  BY <1>1, InvChunks
<1>3. Owners(heap, {}, lost, ptr, want)
  BY <1>1, IdleFacts
<1>4. InUse(heap, {}) = {c \in Chunks : ~heap.node[c].hole}
  BY <1>2 DEF InUse
<1> QED BY <1>3, <1>4 DEF Owners

\* The blocks of two slots, from the invariant.
LEMMA InvDisjoint == ASSUME IInv PROVE BlocksDisjoint
<1>1. SUFFICES ASSUME status = "ok", ~torn, NEW s \in Slot, ptr[s] # NULL
      PROVE  /\ ptr[s] + want[s] <= start + HEAP_INIT_SIZE
             /\ \A t \in Slot \ {s} :
                  ptr[t] # NULL => ptr[s] # ptr[t] /\ Region(s) \cap Region(t) = {}
  BY DEF BlocksDisjoint
<1>2. CalmIn(heap, call, lost, ptr, want) /\ IsHeap(heap) /\ ptr \in Pointers
      /\ want \in [Slot -> Size \cup {0}] /\ Layout(heap)
  BY <1>1, HandlerFacts
<1>3. PICK X : Owners(heap, X, lost, ptr, want)
  BY <1>2 DEF CalmIn
<1>4. ASSUME NEW t \in Slot, ptr[t] # NULL
      PROVE  /\ ptr[t] \in Nat /\ want[t] \in Nat /\ ptr[t] - 8 \in DOMAIN heap.node
             /\ heap.node[ptr[t] - 8].size \in Nat
             /\ want[t] <= heap.node[ptr[t] - 8].size
             /\ NextChunk(heap, ptr[t] - 8) = (ptr[t] - 8) + 20 + heap.node[ptr[t] - 8].size
             /\ NextChunk(heap, ptr[t] - 8) <= Top
  <2>1. /\ ptr[t] \in Nat /\ ptr[t] - 8 \in InUse(heap, X) /\ ptr[t] - 8 \notin lost
        /\ want[t] <= heap.node[ptr[t] - 8].size
    BY <1>2, <1>3, <1>4, BlockFacts
  <2>2. PICK n \in DOMAIN heap.node : n = ptr[t] - 8
    BY <2>1 DEF InUse
  <2>3. /\ heap.node[n].size \in Nat /\ NextChunk(heap, n) = n + 20 + heap.node[n].size
    BY <1>2, Addresses
  <2>4. NextChunk(heap, n) <= Top
    <3>1. NextChunk(heap, n) \in DOMAIN heap.node \cup {Top}
      BY <1>2 DEF Layout
    <3>2. \A m \in DOMAIN heap.node : m \in Nat /\ m <= Top
      BY <1>2, Addresses, ConstantsTyped
    <3> QED BY <3>1, <3>2, ConstantsTyped
  <2>5. want[t] \in Nat
    <3>1. want[t] \in Size \cup {0}
      BY <1>2
    <3>2. Size \subseteq Nat
      BY HeapAssumption
    <3>3. Size \cup {0} \subseteq Nat
      BY <3>2
    <3> QED BY <3>1, <3>3
  <2> QED BY <2>1, <2>2, <2>3, <2>4, <2>5
<1>5. ptr[s] + want[s] <= Top
  BY <1>1, <1>4, ConstantsTyped
<1>6. ASSUME NEW t \in Slot \ {s}, ptr[t] # NULL
      PROVE  ptr[s] # ptr[t] /\ Region(s) \cap Region(t) = {}
  <2>1. ptr[s] # ptr[t]
    BY <1>1, <1>3, <1>6 DEF Owners
  <2>2. PICK a, b, x, y \in Nat :
             a = ptr[s] /\ b = ptr[t] /\ x = want[s] /\ y = want[t]
    BY <1>1, <1>4, <1>6
  <2>3. a + x <= b \/ b + y <= a
    <3>1. CASE a < b
      <4>1. a - 8 < b - 8
        BY <2>2, <3>1
      <4>2. NextChunk(heap, a - 8) <= b - 8
        BY <1>1, <1>2, <1>4, <1>6, <2>2, <4>1 DEF Layout
      <4> QED BY <1>1, <1>4, <2>2, <4>2
    <3>2. CASE b < a
      <4>1. b - 8 < a - 8
        BY <2>2, <3>2
      <4>2. NextChunk(heap, b - 8) <= a - 8
        BY <1>1, <1>2, <1>4, <1>6, <2>2, <4>1 DEF Layout
      <4> QED BY <1>4, <1>6, <2>2, <4>2
    <3> QED BY <2>1, <2>2, <3>1, <3>2
  <2>4. (a .. (a + x - 1)) \cap (b .. (b + y - 1)) = {}
    BY <2>2, <2>3
  <2> QED BY <2>1, <2>2, <2>4 DEF Region
<1> QED BY <1>5, <1>6 DEF Top

\* The invariant of the allocator holds in every state: between two calls, inside
\* the calls of the thread, and after the handler has interrupted one.
THEOREM HeapInvariant == Spec => []IInv
<1>1. Init => IInv
  BY InitHolds
<1>2. IInv /\ [Next]_vars => IInv'
  BY NextHolds
<1> QED BY <1>1, <1>2, PTL DEF Spec

\* Through any sequence of heap_alloc, heap_free and krealloc the chunks tile the
\* heap, the bins hold exactly the holes and are sorted, every other chunk has an
\* owner and the blocks are disjoint.
THEOREM HeapIsConsistent == Spec => []HeapConsistent
<1>1. IInv => HeapConsistent
  BY InvTypes, InvBoundaryTags, InvBins, InvAccounted, InvDisjoint DEF HeapConsistent
<1> QED BY <1>1, HeapInvariant, PTL

\* Unwritten memory is used only when expand has moved the end of the heap, the
\* last chunk is in use or the handler has interrupted a call.
THEOREM HeapUndefinedOnlyAfter == Spec => []UndefinedOnlyAfter
<1>1. IInv => UndefinedOnlyAfter
  BY DEF IInv
<1> QED BY <1>1, HeapInvariant, PTL

\* The search takes the smallest hole that is large enough.
THEOREM HeapBestFit == Spec => BestFit
<1> DEFINE A == call = NoCall /\ call'.op = "split" =>
                  LET fits == {c \in Chunks : /\ heap.node[c].hole
                                              /\ heap.node[c].size >= call'.size}
                  IN  /\ call'.found \in fits
                      /\ \A c \in fits : heap.node[call'.found].size <= heap.node[c].size
<1>1. ASSUME IInv, [Next]_vars PROVE A
  <2>1. SUFFICES ASSUME call = NoCall, call'.op = "split"
        PROVE  LET fits == {c \in Chunks : /\ heap.node[c].hole
                                           /\ heap.node[c].size >= call'.size}
               IN  /\ call'.found \in fits
                   /\ \A c \in fits : heap.node[call'.found].size <= heap.node[c].size
    OBVIOUS
  <2>2. call.op = "none" /\ call' # call
    BY <2>1, NoCallTyped
  <2>3. PICK s \in ThreadSlot, size \in Size : AllocFind(s, size)
    <3>1. ~UNCHANGED vars
      BY <2>2 DEF vars
    <3>2. ~AllocSplit /\ ~AllocTake /\ ~FreeCoalesce /\ ~FreeRelease
      BY <2>2 DEF AllocSplit, AllocTake, FreeCoalesce, FreeRelease
    <3>3. \A s \in IrqSlot : ~IrqFree(s) /\ \A size \in Size : ~IrqAlloc(s, size)
      BY <2>2 DEF IrqFree, IrqAlloc
    <3>4. \A s \in ThreadSlot, size \in Size : ~AllocNone(s, size) /\ ~ReallocSame(s, size)
      BY <2>2 DEF AllocNone, ReallocSame, vars
    <3>5. \A s \in ThreadSlot : ~FreeStart(s)
      <4>1. SUFFICES ASSUME NEW s \in ThreadSlot, FreeStart(s) PROVE FALSE
        OBVIOUS
      <4>2. call' = [NoCall EXCEPT !.op = "free", !.slot = s, !.found = ptr[s] - offset]
        BY <4>1 DEF FreeStart
      <4>3. call'.op = "free"
        BY <4>2 DEF NoCall
      <4> QED BY <2>1, <4>3
    <3> QED BY <1>1, <3>1, <3>2, <3>3, <3>4, <3>5 DEF Next
  <2>4. Idle /\ BinsWithFit(heap, size) # {}
    BY <2>3 DEF AllocFind
  <2>5. /\ BinsKeep(heap, {}) /\ IsHeap(heap) /\ Chunks = DOMAIN heap.node
    BY <1>1, <2>4, IdleFacts, InvChunks
  <2> DEFINE b == FirstBin(heap, size)
             f == get_best_fit(heap, b, size)
  <2>6. /\ f \in DOMAIN heap.node /\ heap.node[f].hole /\ heap.node[f].size >= size
        /\ \A c \in DOMAIN heap.node : heap.node[c].hole /\ heap.node[c].size >= size =>
             heap.node[f].size <= heap.node[c].size
    BY <2>4, <2>5, SearchFindsHole, HeapAssumption
  <2>7. call' = [op |-> "split", slot |-> s, size |-> size, index |-> b,
                 found |-> f, then |-> ptr[s]]
    BY <2>3 DEF AllocFind, FirstBin
  <2> HIDE DEF b, f
  <2>8. call'.found = f /\ call'.size = size
    BY <2>7
  <2> QED BY <2>5, <2>6, <2>8
<1>2. IInv /\ [Next]_vars => A
  BY <1>1
<1> QED BY <1>2, HeapInvariant, PTL DEF Spec, BestFit

=============================================================================
