-------------------------------- MODULE Pmm --------------------------------
(***************************************************************************)
(* The physical memory manager (vm/pmm.c): pmm_init builds one sliceinfo   *)
(* per 8 KiB slice, then L1 page tables (a whole slice), L2 page tables    *)
(* and pages (parts of a slice) are handed out and taken back through four *)
(* intrusive doubly linked lists.                                          *)
(*                                                                         *)
(* A slice is its number counted from physicalMemoryManager.start, and a   *)
(* sliceinfo is named by the slice it describes, so that the C pointers    *)
(* `next`, `prev` and the list heads are slice numbers or NULL.            *)
(* Memory not yet written is zero: the code never clears `prev`, `filled`  *)
(* and `type` of a fresh sliceinfo and relies on RAM being zero at boot.   *)
(***************************************************************************)
EXTENDS Integers

CONSTANTS SliceCount,          \* slices between start and end
          SliceinfoPerSlice,   \* SLICEINFO_PER_SLICE, 512 in the code
          L2TablesPerSlice,    \* L2TABLES_PER_SLICE, 8 in the code
          PagesPerSlice,       \* PAGES_PER_SLICE, 2 in the code
          Reserved             \* slices for which address_in_reserved_region

\* The slices that pmm_init indexes.
Slices == 0 .. SliceCount - 1

\* The C null pointer: the number of no slice.
NULL == -1

\* Bit positions of the 8-bit field MemorySliceInfo.filled.
Bits == 0 .. 7

ASSUME SizesAssumption ==
    /\ SliceCount \in Nat \ {0}
    /\ SliceinfoPerSlice \in Nat /\ SliceinfoPerSlice >= 2
    /\ L2TablesPerSlice \in 2 .. 8
    /\ PagesPerSlice \in 2 .. 8

\* The peripherals of the BCM2836 start at 0x3F000000 and reach past the end of
\* RAM: the reserved slices, if any, are the last ones. The first slice follows
\* the kernel image and is never reserved.
ASSUME ReservedAssumption ==
    /\ Reserved \subseteq Slices \ {0}
    /\ \A r \in Reserved : \A s \in Slices : s >= r => s \in Reserved

Lists == {"unused", "allocated", "l2ptPartialFree", "pagePartialFree"}

\* enum MemoryType. Zeroed memory reads as the first enumerator.
Types == {"L1PageTable", "L2PageTable", "Page", "BucketInfo"}

\* What a client can be handed: part i of slice s used as a k.
Kinds == {"L1PageTable", "L2PageTable", "Page"}

Units == Kinds \X Slices \X Bits

VARIABLES ll,        \* list heads, and the next and prev of every sliceinfo
          type,      \* MemorySliceInfo.type
          filled,    \* MemorySliceInfo.filled, as the set of its one bits
          infoAt,    \* infoAt[b, x]: the .slice of bucketinfo[x] in slice b
          boot,      \* the locals of pmm_init: i, infoindex, currentslice
          status,    \* "booting", "ready", "fault" (NULL dereferenced), "panic"
          held       \* how many times clients were given each unit (ghost)

vars == <<ll, type, filled, infoAt, boot, status, held>>

-----------------------------------------------------------------------------
(* The linked list helpers.                                                *)

push_to_ll(L, l, entry) ==
    [head |-> [L.head EXCEPT ![l] = entry],
     next |-> [L.next EXCEPT ![entry] = L.head[l]],
     prev |-> IF L.head[l] # NULL THEN [L.prev EXCEPT ![L.head[l]] = entry]
                                  ELSE L.prev]

\* Only meaningful when the list is not empty: the C code dereferences *head.
pop_from_ll(L, l) ==
    LET top == L.head[l]
        new == L.next[top]
    IN [head |-> [L.head EXCEPT ![l] = new],
        next |-> [L.next EXCEPT ![top] = NULL],
        prev |-> [p \in Slices |-> IF p = top \/ p = new THEN NULL
                                                         ELSE L.prev[p]]]

\* Mutant: entry->prev is not cleared.
remove_element_ll_keeps_prev(L, l, entry) ==
    LET n == L.next[entry]
        p == L.prev[entry]
    IN [head |-> IF p # NULL THEN L.head ELSE [L.head EXCEPT ![l] = n],
        next |-> [x \in Slices |-> IF x = entry THEN NULL
                                   ELSE IF x = p THEN n ELSE L.next[x]],
        prev |-> [x \in Slices |-> IF x = n THEN p ELSE L.prev[x]]]

remove_element_ll(L, l, entry) ==
    LET n == L.next[entry]
        p == L.prev[entry]
    IN [head |-> IF p # NULL THEN L.head ELSE [L.head EXCEPT ![l] = n],
        next |-> [x \in Slices |-> IF x = entry THEN NULL
                                   ELSE IF x = p THEN n ELSE L.next[x]],
        prev |-> [x \in Slices |-> IF x = entry THEN NULL
                                   ELSE IF x = n THEN p ELSE L.prev[x]]]

\* Mutant: the lowest one bit (ctz without the complement).
first_free_not_negated(bits) == CHOOSE i \in bits : \A j \in bits : i <= j

\* Index of the lowest zero bit.
first_free(bits) ==
    CHOOSE i \in 0 .. 15 : i \notin bits /\ \A j \in 0 .. i - 1 : j \in bits

-----------------------------------------------------------------------------
(* pmm_get_sliceinfo_for_slice: where the sliceinfo of slice s is looked   *)
(* for, and the slice described by what is found there.                    *)

\* Mutant: without the correction for the buckets after the first.
SliceinfoLocation_uncorrected(s) ==
    LET bucketinfo == (s \div SliceinfoPerSlice) * SliceinfoPerSlice
    IN <<bucketinfo, s - bucketinfo>>

SliceinfoLocation(s) ==
    LET bucketindex == s \div SliceinfoPerSlice
        correction  == IF bucketindex = 0 THEN 0 ELSE 1
        bucketinfo  == bucketindex * SliceinfoPerSlice - correction
    IN <<bucketinfo, s - (bucketinfo + correction)>>

pmm_get_sliceinfo_for_slice(s) == infoAt[SliceinfoLocation(s)]

-----------------------------------------------------------------------------
(* pmm_init, one iteration of its loop at a time.                          *)

Init ==
    /\ ll = [head |-> [l \in Lists |-> IF l = "allocated" THEN 0 ELSE NULL],
             next |-> [s \in Slices |-> NULL],
             prev |-> [s \in Slices |-> NULL]]
    /\ type = [s \in Slices |-> IF s = 0 THEN "BucketInfo" ELSE "L1PageTable"]
    /\ filled = [s \in Slices |-> IF s = 0 THEN {0} ELSE {}]
    /\ infoAt = [a \in Slices \X (0 .. SliceinfoPerSlice - 1) |->
                    IF a = <<0, 0>> THEN 0 ELSE NULL]
    /\ boot = [i |-> 1, infoindex |-> 1, currentslice |-> 0]
    /\ status = "booting"
    /\ held = [u \in Units |-> 0]

\* The list a slice is put on when it is indexed.
InitialList(s) == IF s \in Reserved THEN "allocated" ELSE "unused"

\* Mutant: the bucket is checked before infoindex is incremented.
IndexSlice_off_by_one ==
    /\ status = "booting" /\ boot.i < SliceCount
    /\ boot.infoindex < SliceinfoPerSlice
    /\ infoAt' = [infoAt EXCEPT ![<<boot.currentslice, boot.infoindex>>] = boot.i]
    /\ ll' = push_to_ll(ll, InitialList(boot.i), boot.i)
    /\ boot' = [i |-> boot.i + 1, infoindex |-> boot.infoindex + 1,
                currentslice |-> boot.currentslice]
    /\ UNCHANGED <<type, filled, status, held>>

\* The loop body, when the current bucket has room for another sliceinfo.
IndexSlice ==
    /\ status = "booting" /\ boot.i < SliceCount
    /\ boot.infoindex + 1 < SliceinfoPerSlice
    /\ infoAt' = [infoAt EXCEPT ![<<boot.currentslice, boot.infoindex>>] = boot.i]
    /\ ll' = push_to_ll(ll, InitialList(boot.i), boot.i)
    /\ boot' = [i |-> boot.i + 1, infoindex |-> boot.infoindex + 1,
                currentslice |-> boot.currentslice]
    /\ UNCHANGED <<type, filled, status, held>>

\* The loop body, when this sliceinfo fills the bucket: pmm_new_sliceinfo_slice
\* turns the top of the unused list into the next bucketinfo.
IndexSliceAndOpenBucket ==
    /\ status = "booting" /\ boot.i < SliceCount
    /\ boot.infoindex + 1 >= SliceinfoPerSlice
    /\ infoAt' = [infoAt EXCEPT ![<<boot.currentslice, boot.infoindex>>] = boot.i]
    /\ LET pushed == push_to_ll(ll, InitialList(boot.i), boot.i)
           b      == pushed.head["unused"]
       IN IF b = NULL
          THEN /\ status' = "fault"
               /\ ll' = pushed
               /\ UNCHANGED <<type, filled, boot>>
          ELSE /\ ll' = push_to_ll(pop_from_ll(pushed, "unused"), "allocated", b)
               /\ type' = [type EXCEPT ![b] = "BucketInfo"]
               /\ filled' = [filled EXCEPT ![b] = {}]
               /\ boot' = [i |-> boot.i + 1, infoindex |-> 0, currentslice |-> b]
               /\ UNCHANGED status
    /\ UNCHANGED held

PmmReady ==
    /\ status = "booting" /\ boot.i >= SliceCount
    /\ status' = "ready"
    /\ UNCHANGED <<ll, type, filled, infoAt, boot, held>>

-----------------------------------------------------------------------------
(* Allocation.                                                             *)

Give(u) == held' = [held EXCEPT ![u] = @ + 1]

\* With no unused slice the function returns NULL and changes nothing.
pmm_allocate_l1_pagetable ==
    /\ status = "ready"
    /\ ll.head["unused"] # NULL
    /\ LET s == ll.head["unused"]
       IN /\ ll' = push_to_ll(pop_from_ll(ll, "unused"), "allocated", s)
          /\ type' = [type EXCEPT ![s] = "L1PageTable"]
          /\ Give(<<"L1PageTable", s, 0>>)
    /\ UNCHANGED <<filled, infoAt, boot, status>>

\* pmm_allocate_l2_pagetable and pmm_allocate_page are the same code with
\* another list, type and number of parts.
PartialList(k) == IF k = "L2PageTable" THEN "l2ptPartialFree"
                                       ELSE "pagePartialFree"

PartsPerSlice(k) == IF k = "L1PageTable" THEN 1
                    ELSE IF k = "L2PageTable" THEN L2TablesPerSlice
                    ELSE PagesPerSlice

\* 0xff and 0b11: the value of `filled` when every part is taken.
FullMask(k) == 0 .. PartsPerSlice(k) - 1

\* Mutant: a slice that becomes full is popped but not put on the allocated list.
AllocateFromPartial_drops_full(k) ==
    /\ status = "ready"
    /\ ll.head[PartialList(k)] # NULL
    /\ LET s     == ll.head[PartialList(k)]
           index == first_free(filled[s])
           bits  == (filled[s] \cup {index}) \cap Bits
       IN /\ filled' = [filled EXCEPT ![s] = bits]
          /\ ll' = IF bits = FullMask(k) THEN pop_from_ll(ll, PartialList(k)) ELSE ll
          /\ Give(<<k, s, index>>)
    /\ UNCHANGED <<type, infoAt, boot, status>>

\* A partially used slice of the kind serves the request.
AllocateFromPartial(k) ==
    /\ status = "ready"
    /\ ll.head[PartialList(k)] # NULL
    /\ LET s     == ll.head[PartialList(k)]
           index == first_free(filled[s])
           bits  == (filled[s] \cup {index}) \cap Bits
       IN /\ filled' = [filled EXCEPT ![s] = bits]
          /\ ll' = IF bits = FullMask(k)
                   THEN push_to_ll(pop_from_ll(ll, PartialList(k)), "allocated", s)
                   ELSE ll
          /\ Give(<<k, s, index>>)
    /\ UNCHANGED <<type, infoAt, boot, status>>

\* No partially used slice: take an unused one.
AllocateFromUnused(k) ==
    /\ status = "ready"
    /\ ll.head[PartialList(k)] = NULL
    /\ ll.head["unused"] # NULL
    /\ LET s == ll.head["unused"]
       IN /\ ll' = push_to_ll(pop_from_ll(ll, "unused"), PartialList(k), s)
          /\ type' = [type EXCEPT ![s] = k]
          /\ filled' = [filled EXCEPT ![s] = {0}]
          /\ Give(<<k, s, 0>>)
    /\ UNCHANGED <<infoAt, boot, status>>

\* No partially used and no unused slice: pop_from_ll dereferences NULL.
AllocateExhausted(k) ==
    /\ status = "ready"
    /\ ll.head[PartialList(k)] = NULL
    /\ ll.head["unused"] = NULL
    /\ status' = "fault"
    /\ UNCHANGED <<ll, type, filled, infoAt, boot, held>>

-----------------------------------------------------------------------------
(* Freeing. Clients free what they hold.                                   *)

TakeBack(u) == held' = [held EXCEPT ![u] = @ - 1]

pmm_free_l1_pagetable(s) ==
    /\ status = "ready"
    /\ held[<<"L1PageTable", s, 0>>] > 0
    /\ LET info  == pmm_get_sliceinfo_for_slice(s)
           moved == push_to_ll(remove_element_ll(ll, "allocated", info), "unused", info)
       IN IF info \in Reserved
          THEN status' = "panic" /\ UNCHANGED <<ll, held>>
          ELSE /\ ll' = [head |-> moved.head, next |-> moved.next,
                         prev |-> [moved.prev EXCEPT ![info] = NULL]]
               /\ TakeBack(<<"L1PageTable", s, 0>>)
               /\ UNCHANGED status
    /\ UNCHANGED <<type, filled, infoAt, boot>>

\* Mutant: the slice is put on the unused list although other parts are in use.
FreePart_always_unused(k, s, i) ==
    /\ status = "ready"
    /\ held[<<k, s, i>>] > 0
    /\ LET info == pmm_get_sliceinfo_for_slice(s)
           from == IF filled[info] = FullMask(k) THEN "allocated" ELSE PartialList(k)
       IN /\ ll' = push_to_ll(remove_element_ll(ll, from, info), "unused", info)
          /\ filled' = [filled EXCEPT ![info] = @ \ {i}]
    /\ TakeBack(<<k, s, i>>)
    /\ UNCHANGED <<type, infoAt, boot, status>>

\* pmm_free_l2_pagetable and pmm_free_page of part i of slice s.
FreePart(k, s, i) ==
    /\ status = "ready"
    /\ held[<<k, s, i>>] > 0
    /\ LET info == pmm_get_sliceinfo_for_slice(s)
           from == IF filled[info] = FullMask(k) THEN "allocated" ELSE PartialList(k)
           index_in_slice == (s - info) * PartsPerSlice(k) + i
           bits == filled[info] \ {index_in_slice}
           to   == IF bits = {} THEN "unused" ELSE PartialList(k)
       IN IF info \in Reserved
          THEN status' = "panic" /\ UNCHANGED <<ll, filled, held>>
          ELSE /\ ll' = push_to_ll(remove_element_ll(ll, from, info), to, info)
               /\ filled' = [filled EXCEPT ![info] = bits]
               /\ TakeBack(<<k, s, i>>)
               /\ UNCHANGED status
    /\ UNCHANGED <<type, infoAt, boot>>

Next ==
    \/ IndexSlice
    \/ IndexSliceAndOpenBucket
    \/ PmmReady
    \/ pmm_allocate_l1_pagetable
    \/ \E s \in Slices : pmm_free_l1_pagetable(s)
    \/ \E k \in {"L2PageTable", "Page"} :
          \/ AllocateFromPartial(k)
          \/ AllocateFromUnused(k)
          \/ AllocateExhausted(k)
          \/ \E s \in Slices, i \in Bits : FreePart(k, s, i)

Spec == Init /\ [][Next]_vars

-----------------------------------------------------------------------------
(* Properties.                                                             *)

\* Every variable keeps the type its C declaration gives it.
TypeOK ==
    /\ ll \in [head : [Lists -> Slices \cup {NULL}],
               next : [Slices -> Slices \cup {NULL}],
               prev : [Slices -> Slices \cup {NULL}]]
    /\ type \in [Slices -> Types]
    /\ filled \in [Slices -> SUBSET Bits]
    /\ infoAt \in [Slices \X (0 .. SliceinfoPerSlice - 1) -> Slices \cup {NULL}]
    /\ boot \in [i : 0 .. SliceCount, infoindex : 0 .. SliceinfoPerSlice - 1,
                 currentslice : Slices]
    /\ status \in {"booting", "ready", "fault", "panic"}
    /\ held \in [Units -> Nat]

\* The parts of slice s that clients hold, given what the slice is used for.
PartsHeld(s) == {i \in Bits : held[<<type[s], s, i>>] > 0}

\* The list a slice belongs on, told by what clients hold of it.
ListOf ==
    [s \in Slices |->
        IF s >= boot.i THEN "none"
        ELSE IF s \in Reserved \/ type[s] = "BucketInfo" THEN "allocated"
        ELSE IF PartsHeld(s) = {} THEN "unused"
        ELSE IF PartsHeld(s) = FullMask(type[s]) THEN "allocated"
        ELSE PartialList(type[s])]

\* L is a set of doubly linked lists in which slice s is on list where[s]: heads
\* have no prev, next and prev are each other's inverse and stay on one list.
WellLinked(L, where) ==
    /\ \A l \in Lists : L.head[l] # NULL => where[L.head[l]] = l
    /\ \A s \in Slices :
          /\ where[s] # "none" =>
                (L.prev[s] = NULL <=> L.head[where[s]] = s)
          /\ where[s] = "none" => L.prev[s] = NULL /\ L.next[s] = NULL
          /\ L.next[s] # NULL => /\ L.prev[L.next[s]] = s
                                 /\ where[L.next[s]] = where[s]
          /\ L.prev[s] # NULL => /\ L.next[L.prev[s]] = s
                                 /\ where[L.prev[s]] = where[s]

\* Every indexed slice is linked into exactly the list that what clients hold of
\* it calls for, although push_to_ll never writes entry->prev and the free
\* functions pick the list to unlink from by looking at `filled` alone.
ListsConsistent == status # "fault" => WellLinked(ll, ListOf)

\* The slices met when following `next` from the head of list l.
Walk(l) ==
    LET at[n \in 0 .. SliceCount] ==
            IF n = 0 THEN ll.head[l]
            ELSE IF at[n - 1] = NULL THEN NULL ELSE ll.next[at[n - 1]]
    IN {at[n] : n \in 0 .. SliceCount} \ {NULL}

\* No slice is ever lost: following a list from its head finds every slice that
\* belongs on it and no other (what listlength counts in test_pagealloc2.c).
NoSliceLost ==
    status # "fault" =>
        \A l \in Lists : Walk(l) = {s \in Slices : ListOf[s] = l}

InUse == {u \in Units : held[u] > 0}

\* Two units share memory: the same part, or one slice used as two things.
Overlap(u, v) == u[2] = v[2] /\ (u[1] # v[1] \/ u[3] = v[3])

\* The allocation functions never hand out memory that a client already has, that
\* overlaps what a client has, that is MMIO, or that holds sliceinfo structs.
NoDoubleHandout ==
    /\ \A u \in InUse : held[u] = 1
    /\ \A u, v \in InUse : Overlap(u, v) => u = v
    /\ \A u \in InUse : u[2] \notin Reserved /\ type[u[2]] = u[1]

\* The pointer arithmetic of pmm_get_sliceinfo_for_slice finds the sliceinfo
\* that pmm_init wrote for the slice, for every slice that can be handed out.
LookupFindsSliceinfo ==
    \A s \in Slices \ Reserved :
        s < boot.i => pmm_get_sliceinfo_for_slice(s) = s

(* The strengthening that makes the properties above inductive.             *)

\* Only indexed, unreserved slices of the right type are handed out, each part
\* once, and only after pmm_init.
HandoutsValid ==
    \A k \in Kinds, s \in Slices, i \in Bits :
        held[<<k, s, i>>] > 0 =>
            /\ held[<<k, s, i>>] = 1
            /\ status # "booting" /\ s < boot.i /\ s \notin Reserved
            /\ type[s] = k /\ i \in FullMask(k)

\* The bits of `filled` are the parts clients hold, whenever the code reads them.
FilledMatchesHeld ==
    \A s \in Slices : type[s] \in {"L2PageTable", "Page"} => filled[s] = PartsHeld(s)

\* The bucket that pmm_init writes into is the one the lookup will search, or it
\* is past the start of the reserved region and no lookup searches it.
BootCursor ==
    LET b == boot.i \div SliceinfoPerSlice
        start == b * SliceinfoPerSlice
    IN /\ status = "booting" =>
             /\ boot.i = start + boot.infoindex
             /\ type[boot.currentslice] = "BucketInfo"
             /\ \A s \in Slices : s >= boot.i => type[s] # "BucketInfo"
             /\ b = 0 => boot.currentslice = 0
             /\ b > 0 /\ start - 1 \notin Reserved => boot.currentslice = start - 1
             /\ b > 0 /\ start - 1 \in Reserved =>
                   \A s \in Slices \ Reserved : SliceinfoLocation(s)[1] # boot.currentslice
       /\ status \in {"ready", "panic"} => boot.i = SliceCount

\* The slices that lookups search hold sliceinfo structs, and are never reused.
SearchedSlicesAreBucketinfo ==
    \A s \in Slices \ Reserved :
        s < boot.i => type[SliceinfoLocation(s)[1]] = "BucketInfo"

IInv ==
    /\ TypeOK
    /\ ListsConsistent
    /\ HandoutsValid
    /\ FilledMatchesHeld
    /\ BootCursor
    /\ LookupFindsSliceinfo
    /\ SearchedSlicesAreBucketinfo

-----------------------------------------------------------------------------
\* The abstract allocator, its handed out units being the held ones.
Allocator ==
    INSTANCE UnitAllocator WITH
        Slices      <- Slices,
        Allocatable <- Slices \ Reserved,
        Parts       <- [k \in Kinds |-> FullMask(k)],
        owned       <- held

\* pmm.c implements the abstract allocator: every call hands out a unit that is
\* available or takes back one that is held, and nothing else changes hands.
ImplementsAllocator == Allocator!Spec
=============================================================================
