-------------------------------- MODULE Heap --------------------------------
(***************************************************************************)
(* The kernel heap: allocator/allocator.c, llist.c and mem_alloc.c behind  *)
(* klibc/alloc.c.                                                          *)
(*                                                                         *)
(* The heap is a region of chunks. A chunk is a node_t, its bytes and a    *)
(* footer that points back to the node_t; the chunks that are holes are    *)
(* also in the bin of their size. `node` and `foot` are the headers and    *)
(* footers that have been written, by address: memory outside their        *)
(* domains holds what nobody has written.                                  *)
(*                                                                         *)
(* Nothing masks interrupts in the allocator, and the timer interrupt      *)
(* frees and allocates on the same heap. A call of the thread is cut       *)
(* into steps; a call of the interrupt handler runs between two of them.   *)
(***************************************************************************)
EXTENDS Integers, FiniteSets, SequencesExt

CONSTANTS HEAP_INIT_SIZE, PAGE_SIZE, MIN_WILDERNESS, MAX_WILDERNESS,
          BIN_COUNT,
          Size,         \* the sizes that callers ask for
          ThreadSlot,   \* the pointers that the thread keeps
          IrqSlot,      \* the pointers that the interrupt handler keeps
          NULL,
          MaxPages      \* bound: expand runs at most so many times

\* allocator.h and the layout of node_t and footer_t
SizeofNode == 16
SizeofFooter == 4
overhead == SizeofNode + SizeofFooter
offset == 8
MIN_ALLOC_SZ == 4
BIN_MAX_IDX == BIN_COUNT - 1

ASSUME HeapAssumption ==
    /\ HEAP_INIT_SIZE \in Nat /\ HEAP_INIT_SIZE > overhead
    /\ PAGE_SIZE \in Nat \ {0}
    /\ MIN_WILDERNESS \in Nat
    /\ MAX_WILDERNESS \in Nat /\ MAX_WILDERNESS >= HEAP_INIT_SIZE
    /\ BIN_COUNT \in Nat \ {0}
    /\ Size \subseteq Nat
    /\ ThreadSlot \cap IrqSlot = {}
    /\ NULL \notin Nat
    /\ MaxPages \in Nat

Slot == ThreadSlot \cup IrqSlot
start == 0
HeapMax == HEAP_INIT_SIZE + MaxPages * PAGE_SIZE

VARIABLES heap,     \* heap_t with the memory it manages
          ptr,      \* the pointer a caller holds in a slot
          want,     \* ghost: the bytes it asked for
          call,     \* the call the thread is in
          status,   \* ok, or undefined once unwritten memory has been used
          lost,     \* ghost: chunks no caller got and no bin holds
          torn      \* ghost: the handler has run inside a call of the thread

vars == <<heap, ptr, want, call, status, lost, torn>>

NoCall == [op |-> "none", slot |-> NULL, size |-> 0, index |-> 0,
           found |-> NULL, then |-> NULL]

-----------------------------------------------------------------------------
(* llist.c: a bin is a list sorted by size.                                *)

\* heap_free leaves size 0 in the head of a chunk it has merged.
SizeOf(h, n) == IF n \in DOMAIN h.node THEN h.node[n].size ELSE 0
get_foot(h, n) == n + SizeofNode + SizeOf(h, n)

\* while (sz >>= 1) index++
Log2[sz \in Nat] == IF sz < 2 THEN 0 ELSE 1 + Log2[sz \div 2]

\* The exponent of the largest power of two that is at most sz, less 2.
get_bin_index(sz) ==
    LET index == Log2[IF sz < 4 THEN 4 ELSE sz] - 2
    IN  IF index > BIN_MAX_IDX THEN BIN_MAX_IDX ELSE index

\* Mutant: add_node puts the node at the head of its bin.
add_node_front(h, n) ==
    [h EXCEPT !.bins[get_bin_index(SizeOf(h, n))] = <<n>> \o @]

\* Behind every node that is not larger.
add_node(h, n) ==
    LET b == get_bin_index(SizeOf(h, n))
        bin == h.bins[b]
        larger == {i \in DOMAIN bin : SizeOf(h, bin[i]) > SizeOf(h, n)}
        at == IF larger = {} THEN Len(bin) + 1
              ELSE CHOOSE i \in larger : \A j \in larger : i <= j
    IN  [h EXCEPT !.bins[b] = InsertAt(bin, at, n)]

\* Nothing happens when the node is not in that bin.
remove_node(h, b, n) == [h EXCEPT !.bins[b] = RemoveFirst(@, n)]

\* Mutant: the size of a node is compared with its overhead included.
get_best_fit_gross(h, b, size) ==
    LET i == SelectInSeq(h.bins[b], LAMBDA n : SizeOf(h, n) + overhead >= size)
    IN  IF i = 0 THEN NULL ELSE h.bins[b][i]

get_best_fit(h, b, size) ==
    LET i == SelectInSeq(h.bins[b], LAMBDA n : SizeOf(h, n) >= size)
    IN  IF i = 0 THEN NULL ELSE h.bins[b][i]

-----------------------------------------------------------------------------
(* allocator.c                                                             *)

write_node(h, n, hole, size) ==
    [h EXCEPT !.node = [a \in DOMAIN @ \cup {n} |->
        IF a = n THEN [hole |-> hole, size |-> size] ELSE @[a]]]

write_foot(h, at, n) ==
    [h EXCEPT !.foot = [a \in DOMAIN @ \cup {at} |->
        IF a = at THEN n ELSE @[a]]]

create_foot(h, n) == write_foot(h, get_foot(h, n), n)

create_heap ==
    LET empty == [node |-> <<>>, foot |-> <<>>, end |-> start + HEAP_INIT_SIZE,
                  bins |-> [b \in 0..BIN_MAX_IDX |-> <<>>]]
    IN  add_node(create_foot(write_node(empty, start, TRUE,
                                        HEAP_INIT_SIZE - overhead), start), start)

\* The search of heap_alloc: from the bin of the size upwards.
BinsWithFit(h, size) ==
    {b \in get_bin_index(size)..BIN_MAX_IDX : get_best_fit(h, b, size) # NULL}

SplitFound(h, found, size) ==
    LET rest == SizeOf(h, found) - size
        split == found + overhead + size
        h1 == add_node(create_foot(write_node(h, split, TRUE, rest - overhead),
                                   split), split)
    IN  IF rest > overhead + MIN_ALLOC_SZ
        THEN create_foot(write_node(h1, found, h.node[found].hole, size), found)
        ELSE h

TakeFound(h, index, found) ==
    remove_node(write_node(h, found, FALSE, SizeOf(h, found)), index, found)

\* get_wilderness reads the footer at the end of the heap.
WildernessWritten(h) == (h.end - SizeofFooter) \in DOMAIN h.foot
get_wilderness(h) == h.foot[h.end - SizeofFooter]

expand(h) == [h EXCEPT !.end = @ + PAGE_SIZE]
contract(h) == [h EXCEPT !.end = @ - PAGE_SIZE]

\* What the check of the wilderness may do: the new heap, whether the call
\* succeeds, and whether it used unwritten memory. vm2_allocate_page may fail.
WildernessOutcomes(h) ==
    IF ~WildernessWritten(h) THEN {[heap |-> h, ok |-> FALSE, defined |-> FALSE]}
    ELSE LET size == h.node[get_wilderness(h)].size IN
         CASE size < MIN_WILDERNESS ->
                {[heap |-> h, ok |-> FALSE, defined |-> TRUE]} \cup
                (IF h.end + PAGE_SIZE <= HeapMax
                 THEN {[heap |-> expand(h), ok |-> TRUE, defined |-> TRUE]} ELSE {})
           [] size > MAX_WILDERNESS ->
                {[heap |-> contract(h), ok |-> TRUE, defined |-> TRUE]}
           [] OTHER -> {[heap |-> h, ok |-> TRUE, defined |-> TRUE]}

\* heap_free up to the last add_node: merge with the neighbours that are holes.
NextChunk(h, n) == get_foot(h, n) + SizeofFooter
PrevChunk(h, n) == h.foot[n - SizeofFooter]

\* What is left of a head or a foot inside a merged chunk is data.
Forget(h, nodes, feet) ==
    [h EXCEPT !.node = Restrict(@, DOMAIN @ \ nodes),
              !.foot = Restrict(@, DOMAIN @ \ feet)]

MergePrev(h, n) ==
    LET p == PrevChunk(h, n)
        h1 == remove_node(h, get_bin_index(h.node[p].size), p)
        h2 == write_node(h1, p, TRUE, h.node[p].size + overhead + h.node[n].size)
    IN  [heap |-> Forget(write_foot(h2, get_foot(h, n), p),
                         {n}, {n - SizeofFooter}),
         head |-> p]

\* Mutant: the next chunk is merged but stays in its bin.
MergeNextInBin(h, n, m) ==
    LET h2 == write_node(h, n, h.node[n].hole,
                         h.node[n].size + overhead + h.node[m].size)
    IN  Forget(write_foot(h2, get_foot(h2, n), n), {m}, {m - SizeofFooter})

MergeNext(h, n, m) ==
    LET h1 == remove_node(h, get_bin_index(h.node[m].size), m)
        h2 == write_node(h1, n, h.node[n].hole,
                         h.node[n].size + overhead + h.node[m].size)
    IN  Forget(write_foot(h2, get_foot(h2, n), n), {m}, {m - SizeofFooter})

\* next->hole and the neighbour's header are read from memory: beyond the end
\* there is none, and a page that expand added holds anything.
Coalesce(h, n, nextIsHole) ==
    LET m == NextChunk(h, n)
        a == IF n # start /\ h.node[PrevChunk(h, n)].hole
             THEN MergePrev(h, n) ELSE [heap |-> h, head |-> n]
    IN  IF n # start /\ nextIsHole
        THEN [heap |-> MergeNext(a.heap, a.head, m), head |-> a.head] ELSE a

NextReadable(h, n) == n = start \/ NextChunk(h, n) \in DOMAIN h.node
NextIsHole(h, n) ==
    NextChunk(h, n) \in DOMAIN h.node /\ h.node[NextChunk(h, n)].hole

Release(h, n) == add_node(write_node(h, n, TRUE, SizeOf(h, n)), n)

-----------------------------------------------------------------------------
(* The callers: kmalloc, kfree and krealloc of klibc/alloc.c.              *)

Init ==
    /\ heap = create_heap
    /\ ptr = [s \in Slot |-> NULL]
    /\ want = [s \in Slot |-> 0]
    /\ call = NoCall
    /\ status = "ok"
    /\ lost = {}
    /\ torn = FALSE

\* Bound: nothing is called any more after a call that was interrupted.
Idle == status = "ok" /\ call = NoCall /\ ~torn

\* heap_alloc returns: the pointer is &found->next, or NULL.
Return(s, size, found, old) ==
    /\ ptr' = [ptr EXCEPT ![s] = IF found = NULL THEN old ELSE found + offset]
    /\ want' = [want EXCEPT ![s] = IF found = NULL THEN @ ELSE size]

\* krealloc frees the old block once the new one holds the data.
AfterAlloc(s, found, old) ==
    IF found # NULL /\ old # NULL
    THEN [NoCall EXCEPT !.op = "free", !.slot = s, !.found = old - offset]
    ELSE NoCall

NeedsBlock(s, size) == ptr[s] # NULL => size > heap.node[ptr[s] - offset].size

\* heap_alloc, the search. kmalloc has no old block, krealloc has one.
AllocFind(s, size) ==
    /\ Idle
    /\ NeedsBlock(s, size)
    /\ LET bs == BinsWithFit(heap, size) IN
         /\ bs # {}
         /\ LET b == CHOOSE i \in bs : \A j \in bs : i <= j IN
              call' = [op |-> "split", slot |-> s, size |-> size, index |-> b,
                       found |-> get_best_fit(heap, b, size), then |-> ptr[s]]
    /\ UNCHANGED <<heap, ptr, want, status, lost, torn>>

\* No bin has a chunk that fits: NULL, and krealloc keeps the old block.
AllocNone(s, size) ==
    /\ Idle
    /\ NeedsBlock(s, size)
    /\ BinsWithFit(heap, size) = {}
    /\ UNCHANGED vars

\* found->size - size wraps around when the handler has cut the chunk, or has
\* merged it, which leaves size 0.
StillFits == SizeOf(heap, call.found) >= call.size

AllocSplit ==
    /\ status = "ok" /\ call.op = "split"
    /\ \/ /\ StillFits
          /\ heap' = SplitFound(heap, call.found, call.size)
          /\ call' = [call EXCEPT !.op = "take"]
          /\ UNCHANGED status
       \/ /\ ~StillFits
          /\ status' = "undefined"
          /\ UNCHANGED <<heap, call>>
    /\ UNCHANGED <<ptr, want, lost, torn>>

AllocTake ==
    /\ status = "ok" /\ call.op = "take"
    /\ \E o \in WildernessOutcomes(TakeFound(heap, call.index, call.found)) :
         LET found == IF o.ok THEN call.found ELSE NULL IN
         /\ heap' = o.heap
         /\ status' = IF o.defined THEN "ok" ELSE "undefined"
         /\ Return(call.slot, call.size, found, call.then)
         /\ call' = AfterAlloc(call.slot, found, call.then)
         /\ lost' = IF o.ok THEN lost ELSE lost \cup {call.found}
    /\ UNCHANGED torn

\* krealloc within the block that is already there.
ReallocSame(s, size) ==
    /\ Idle /\ ptr[s] # NULL /\ size # 0
    /\ size <= heap.node[ptr[s] - offset].size
    /\ want' = [want EXCEPT ![s] = size]
    /\ UNCHANGED <<heap, ptr, call, status, lost, torn>>

\* kfree, and krealloc to size 0.
FreeStart(s) ==
    /\ Idle /\ ptr[s] # NULL
    /\ call' = [NoCall EXCEPT !.op = "free", !.slot = s, !.found = ptr[s] - offset]
    /\ ptr' = [ptr EXCEPT ![s] = NULL]
    /\ want' = [want EXCEPT ![s] = 0]
    /\ UNCHANGED <<heap, status, lost, torn>>

\* Fresh memory may read as a node that is no hole, or as anything.
FreeCoalesce ==
    /\ status = "ok" /\ call.op = "free"
    /\ \/ /\ NextReadable(heap, call.found) \/ NextChunk(heap, call.found) < heap.end
          /\ LET c == Coalesce(heap, call.found, NextIsHole(heap, call.found)) IN
               /\ heap' = c.heap
               /\ call' = [call EXCEPT !.op = "release", !.found = c.head]
          /\ UNCHANGED status
       \/ /\ ~NextReadable(heap, call.found)
          /\ status' = "undefined"
          /\ UNCHANGED <<heap, call>>
    /\ UNCHANGED <<ptr, want, lost, torn>>

FreeRelease ==
    /\ status = "ok" /\ call.op = "release"
    /\ heap' = Release(heap, call.found)
    /\ call' = NoCall
    /\ UNCHANGED <<ptr, want, status, lost, torn>>

-----------------------------------------------------------------------------
(* The timer interrupt: the handler's own kmalloc and kfree, whole.        *)

\* Bound: one call of the handler inside a call of the thread.
IrqAlloc(s, size) ==
    /\ status = "ok" /\ ~torn /\ ptr[s] = NULL
    /\ LET bs == BinsWithFit(heap, size) IN
         /\ bs # {}
         /\ LET b == CHOOSE i \in bs : \A j \in bs : i <= j
                found == get_best_fit(heap, b, size)
                h == TakeFound(SplitFound(heap, found, size), b, found) IN
            \E o \in WildernessOutcomes(h) :
              /\ heap' = o.heap
              /\ status' = IF o.defined THEN "ok" ELSE "undefined"
              /\ Return(s, size, IF o.ok THEN found ELSE NULL, NULL)
              /\ lost' = IF o.ok THEN lost ELSE lost \cup {found}
    /\ torn' = (call # NoCall)
    /\ UNCHANGED call

IrqFree(s) ==
    /\ status = "ok" /\ ~torn /\ ptr[s] # NULL
    /\ LET n == ptr[s] - offset IN
       \/ /\ NextReadable(heap, n) \/ NextChunk(heap, n) < heap.end
          /\ LET c == Coalesce(heap, n, NextIsHole(heap, n)) IN
               heap' = Release(c.heap, c.head)
          /\ UNCHANGED status
       \/ ~NextReadable(heap, n) /\ status' = "undefined" /\ UNCHANGED heap
    /\ ptr' = [ptr EXCEPT ![s] = NULL]
    /\ want' = [want EXCEPT ![s] = 0]
    /\ torn' = (call # NoCall)
    /\ UNCHANGED <<call, lost>>

Next ==
    \/ \E s \in ThreadSlot, size \in Size :
         AllocFind(s, size) \/ AllocNone(s, size) \/ ReallocSame(s, size)
    \/ \E s \in ThreadSlot : FreeStart(s)
    \/ AllocSplit \/ AllocTake \/ FreeCoalesce \/ FreeRelease
    \/ \E s \in IrqSlot, size \in Size : IrqAlloc(s, size)
    \/ \E s \in IrqSlot : IrqFree(s)

Spec == Init /\ [][Next]_vars

-----------------------------------------------------------------------------
(* What the heap promises.                                                 *)

TypeOK ==
    /\ heap.end \in start..HeapMax
    /\ \A a \in DOMAIN heap.node :
         a \in 0..heap.end /\ heap.node[a] \in [hole : BOOLEAN, size : Nat]
    /\ \A a \in DOMAIN heap.foot : heap.foot[a] \in 0..heap.end
    /\ \A b \in 0..BIN_MAX_IDX : Range(heap.bins[b]) \subseteq 0..heap.end
    /\ ptr \in [Slot -> 0..HeapMax \cup {NULL}]
    /\ want \in [Slot -> Size \cup {0}]
    /\ call.op \in {"none", "split", "take", "free", "release"}
    /\ status \in {"ok", "undefined"}
    /\ lost \subseteq 0..heap.end
    /\ torn \in BOOLEAN

\* The heads of the chunks, from the start of the heap by their sizes.
ChunksFrom[a \in 0..HeapMax] ==
    IF a \in DOMAIN heap.node /\ NextChunk(heap, a) \in 1..HeapMax
    THEN {a} \cup ChunksFrom[NextChunk(heap, a)] ELSE {}
Chunks == ChunksFrom[start]

\* Between two calls the chunks lie one behind the other from the start to the
\* end that create_heap chose, and the footer of each points to its head:
\* splitting (heap_alloc) and merging (heap_free) rewrite every boundary tag.
BoundaryTags ==
    Idle =>
        /\ \E c \in Chunks : NextChunk(heap, c) = start + HEAP_INIT_SIZE
        /\ \A c \in Chunks :
               <<get_foot(heap, c), c>> \in {<<a, heap.foot[a]>> : a \in DOMAIN heap.foot}
        /\ \A c \in Chunks : NextChunk(heap, c) <= start + HEAP_INIT_SIZE

\* Between two calls every hole is in one bin, once, the one of its size, the
\* bins hold nothing else and are sorted: add_node and remove_node always look
\* in the bin of the size the chunk has at that moment.
BinsHoldHoles ==
    Idle =>
        \A b \in 0..BIN_MAX_IDX :
            LET bin == heap.bins[b] IN
            /\ Range(bin) = {c \in Chunks : /\ heap.node[c].hole
                                           /\ get_bin_index(heap.node[c].size) = b}
            /\ \A i, j \in DOMAIN bin : i < j =>
                   bin[i] # bin[j] /\ heap.node[bin[i]].size <= heap.node[bin[j]].size

\* Between two calls a chunk that is no hole belongs to a caller, unless expand
\* failed after heap_alloc had taken it out of its bin.
ChunksAccounted ==
    Idle =>
        {c \in Chunks : ~heap.node[c].hole}
            = lost \cup {ptr[s] - offset : s \in {t \in Slot : ptr[t] # NULL}}

Region(s) == ptr[s]..(ptr[s] + want[s] - 1)

\* The blocks that callers hold lie within the heap and do not overlap, unless
\* the handler has called the allocator inside a call of the thread, which
\* nothing prevents.
BlocksDisjoint ==
    status = "ok" /\ ~torn =>
        \A s \in Slot : ptr[s] # NULL =>
            /\ ptr[s] + want[s] <= start + HEAP_INIT_SIZE
            /\ \A t \in Slot \ {s} :
                 ptr[t] # NULL => ptr[s] # ptr[t] /\ Region(s) \cap Region(t) = {}

\* Through any sequence of heap_alloc, heap_free and krealloc: the chunks tile the
\* heap, the bins hold exactly the holes, every other chunk has an owner, and the
\* blocks of different owners are disjoint.
HeapConsistent ==
    TypeOK /\ BoundaryTags /\ BinsHoldHoles /\ ChunksAccounted /\ BlocksDisjoint

\* heap_alloc takes the smallest hole that is large enough, and gives up only
\* when there is none.
BestFit ==
    [][call = NoCall /\ call'.op = "split" =>
        LET fits == {c \in Chunks : /\ heap.node[c].hole
                                    /\ heap.node[c].size >= call'.size}
        IN  /\ call'.found \in fits
            /\ \A c \in fits : heap.node[call'.found].size <= heap.node[c].size]_vars

\* The heap goes by unwritten memory only after expand has moved its end away
\* from the footer of the wilderness, or when its last chunk is in use, or when
\* the handler has changed the chunk that the thread had found.
UndefinedOnlyAfter ==
    status = "undefined" =>
        \/ heap.end # start + HEAP_INIT_SIZE
        \/ \E a \in DOMAIN heap.node : /\ NextChunk(heap, a) = start + HEAP_INIT_SIZE
                                        /\ ~heap.node[a].hole
        \/ torn
=============================================================================
