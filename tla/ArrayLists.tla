---------------------------- MODULE ArrayLists ----------------------------
(***************************************************************************)
(* The two growing arrays: ds/u8_array_list.c (bytes) and                  *)
(* ds/vp_array_list.c (pointers).                                          *)
(*                                                                         *)
(* `mem` is the block behind `array`, one item per element that fits into  *)
(* it, and `array` says whether the pointer is NULL. Items beyond length   *)
(* keep what was there.                                                    *)
(***************************************************************************)
EXTENDS Integers, SequencesExt

CONSTANTS U8, Pointer, Junk,
          PointerSize,   \* sizeof(void *)
          MaxList        \* bound on lengths and capacities

ASSUME ArrayListAssumption ==
    PointerSize \in Nat \ {0} /\ MaxList \in Nat /\ Junk \notin U8 \cup Pointer

Fresh(n) == [i \in 1..n |-> Junk]

\* krealloc: a smaller block is the old one, and 0 frees it; NULL and 0 give a
\* block of no bytes.
krealloc(l, n) ==
    IF n = 0 THEN [l EXCEPT !.mem = <<>>,
                            !.array = IF @ = "NULL" THEN "block" ELSE "NULL"]
    ELSE IF n <= Len(l.mem) THEN l
    ELSE [l EXCEPT !.mem = @ \o Fresh(n - Len(l.mem)), !.array = "block"]

list_create(initial_cap) ==
    [length |-> 0, capacity |-> initial_cap, array |-> "block",
     mem |-> Fresh(initial_cap)]

Contents(l) == SubSeq(l.mem, 1, l.length)

\* Both push functions grow to this capacity.
Grown(c) == Max({c + c \div 4, c + 2})

-----------------------------------------------------------------------------
(* u8_array_list.c                                                         *)

u8a_resize(l, new_size) ==
    [krealloc(l, new_size) EXCEPT !.capacity = new_size,
                                  !.length = Min({@, new_size})]

\* Whether list->array[list->length] lies within the block.
Room(l) == l.length < Len(l.mem)

u8a_grow(l) ==
    IF l.capacity = 0 \/ l.length >= l.capacity - 1
    THEN [krealloc(l, Grown(l.capacity)) EXCEPT !.capacity = Grown(l.capacity)]
    ELSE l

put(l, x) == [l EXCEPT !.mem[l.length + 1] = x, !.length = @ + 1]

u8a_push(l, x) == put(u8a_grow(l), x)

u8a_push_string(l, s) ==
    LET r == u8a_resize(l, l.length + Len(s))
    IN  [r EXCEPT !.mem = [i \in DOMAIN @ |-> IF i \in l.length + 1..l.length + Len(s)
                                              THEN s[i - l.length] ELSE @[i]],
                  !.length = l.length + Len(s)]

\* u8a_pop and vpa_pop: the block is never made smaller, only the capacity.
list_pop(l) ==
    IF l.length = 0 THEN l
    ELSE [l EXCEPT !.length = @ - 1,
                   !.capacity = IF l.length - 1 < @ \div 2 THEN @ \div 2 ELSE @]

u8a_clone(l) ==
    [list_create(l.length) EXCEPT !.mem = Contents(l), !.length = l.length]

VARIABLES u8,        \* the U8ArrayList
          bytes,     \* ghost: the bytes pushed and not popped
          u8Status   \* ok, overrun, freed, or leaked when u8a_free keeps the block

u8vars == <<u8, bytes, u8Status>>

U8Init(capacities) ==
    /\ u8 \in {list_create(c) : c \in capacities}
    /\ bytes = <<>>
    /\ u8Status = "ok"

U8Push(x) ==
    /\ u8Status = "ok" /\ u8.length < MaxList
    /\ \/ /\ Room(u8a_grow(u8))
          /\ u8' = u8a_push(u8, x) /\ bytes' = Append(bytes, x) /\ UNCHANGED u8Status
       \/ /\ ~Room(u8a_grow(u8))
          /\ u8Status' = "overrun" /\ UNCHANGED <<u8, bytes>>

U8PushString(s) ==
    /\ u8Status = "ok" /\ u8.length + Len(s) <= MaxList
    /\ u8' = u8a_push_string(u8, s)
    /\ bytes' = bytes \o s
    /\ UNCHANGED u8Status

U8Set(i, x) ==
    /\ u8Status = "ok" /\ i \in 1..u8.length
    /\ u8' = [u8 EXCEPT !.mem[i] = x]
    /\ bytes' = [bytes EXCEPT ![i] = x]
    /\ UNCHANGED u8Status

U8Pop ==
    /\ u8Status = "ok"
    /\ u8' = list_pop(u8)
    /\ bytes' = IF bytes = <<>> THEN <<>> ELSE Front(bytes)
    /\ UNCHANGED u8Status

U8Resize(n) ==
    /\ u8Status = "ok"
    /\ u8' = u8a_resize(u8, n)
    /\ bytes' = SubSeq(bytes, 1, Min({n, Len(bytes)}))
    /\ UNCHANGED u8Status

\* The clone goes on, the original is freed.
U8Clone ==
    /\ u8Status = "ok" /\ u8.capacity > 0
    /\ u8' = u8a_clone(u8)
    /\ UNCHANGED <<bytes, u8Status>>

u8a_free ==
    /\ u8Status = "ok"
    /\ u8Status' = IF u8.capacity = 0 /\ u8.array = "block" THEN "leaked" ELSE "freed"
    /\ UNCHANGED <<u8, bytes>>

U8Next ==
    \/ \E x \in U8 : U8Push(x) \/ \E i \in 1..MaxList : U8Set(i, x)
    \/ \E s \in {<<>>} \cup {<<x, x>> : x \in U8} : U8PushString(s)
    \/ U8Pop \/ U8Clone \/ u8a_free
    \/ \E n \in 0..MaxList : U8Resize(n)

\* However the list grew, shrank, was resized and cloned, it holds the bytes
\* pushed and not popped, and no push ever writes behind the block.
U8HoldsBytes ==
    /\ Contents(u8) = bytes
    /\ u8.capacity <= Len(u8.mem)
    /\ u8Status # "overrun"

\* u8a_free, which looks at the capacity only, leaves no block behind that has
\* room for a byte.
U8LeakOnlyEmpty == u8Status = "leaked" => u8.mem = <<>>

-----------------------------------------------------------------------------
(* vp_array_list.c: a block of n bytes holds n \div PointerSize pointers.   *)

krealloc_bytes(l, n) ==
    IF n = 0 \/ n > Len(l.mem) * PointerSize THEN krealloc(l, n \div PointerSize)
    ELSE l

VARIABLES vpa,       \* the VPArrayList
          elements,  \* ghost: the pointers pushed and not popped or cut off
          released,  \* the pointers that freeFunc has been called on
          owned,     \* ghost: the pointers pushed and not popped
          popped,    \* ghost: the pointers that have been popped
          resized,   \* ghost: vpa_resize has been called, or the list created empty
          vpaStatus  \* ok, freed, overrun, or junk_freed

vpavars == <<vpa, elements, released, owned, popped, resized, vpaStatus>>

VpaInit(capacities) ==
    /\ vpa \in {list_create(c) : c \in capacities}
    /\ elements = <<>>
    /\ released = {} /\ owned = {} /\ popped = {}
    /\ resized = (vpa.capacity = 0)
    /\ vpaStatus = "ok"

vpa_grow(l) ==
    IF l.length >= l.capacity
    THEN [krealloc_bytes(l, Grown(l.capacity) * PointerSize)
            EXCEPT !.capacity = Grown(l.capacity)]
    ELSE l

\* The pointer is stored before the array is made longer.
vpa_push(p) ==
    /\ vpaStatus = "ok" /\ vpa.length < MaxList
    /\ p \notin owned
    /\ owned' = owned \cup {p}
    /\ \/ /\ Room(vpa)
          /\ vpa' = vpa_grow(put(vpa, p))
          /\ elements' = Append(elements, p)
          /\ UNCHANGED vpaStatus
       \/ /\ ~Room(vpa)
          /\ vpaStatus' = "overrun" /\ UNCHANGED <<vpa, elements>>
    /\ UNCHANGED <<released, popped, resized>>

vpa_pop ==
    /\ vpaStatus = "ok"
    /\ vpa' = list_pop(vpa)
    /\ \/ /\ elements # <<>>
          /\ elements' = Front(elements)
          /\ owned' = owned \ {Last(elements)}
          /\ popped' = popped \cup {Last(elements)}
       \/ elements = <<>> /\ UNCHANGED <<elements, owned, popped>>
    /\ UNCHANGED <<released, resized, vpaStatus>>

\* The loop frees array[length] down to array[capacity + 1], and new_size is
\* taken for a number of bytes.
FreedByResize(n) == {i \in n + 2..vpa.length + 1 : vpa.length > n}

vpa_resize(n) ==
    /\ vpaStatus = "ok"
    /\ LET freed == FreedByResize(n)
           valid == \A i \in freed : i <= Len(vpa.mem) /\ vpa.mem[i] # Junk IN
       \/ /\ valid
          /\ released' = released \cup {vpa.mem[i] : i \in freed}
          /\ vpa' = [krealloc_bytes(vpa, n) EXCEPT !.capacity = n,
                                                   !.length = Min({@, n})]
          /\ elements' = SubSeq(elements, 1, Min({n, Len(elements)}))
          /\ UNCHANGED vpaStatus
       \/ /\ ~valid
          /\ vpaStatus' = "junk_freed" /\ UNCHANGED <<vpa, elements, released>>
    /\ resized' = TRUE
    /\ UNCHANGED <<owned, popped>>

\* The old pointer is the caller's again.
vpa_set(i, p) ==
    /\ vpaStatus = "ok" /\ i \in 1..vpa.length /\ p \notin owned
    /\ vpa' = [vpa EXCEPT !.mem[i] = p]
    /\ elements' = [elements EXCEPT ![i] = p]
    /\ owned' = (owned \ {elements[i]}) \cup {p}
    /\ UNCHANGED <<released, popped, resized, vpaStatus>>

\* freefunc is called on every element.
vpa_free ==
    /\ vpaStatus = "ok"
    /\ released' = released \cup Range(Contents(vpa))
    /\ vpaStatus' = "freed"
    /\ UNCHANGED <<vpa, elements, owned, popped, resized>>

VpaNext ==
    \/ \E p \in Pointer : vpa_push(p)
    \/ \E p \in Pointer, i \in 1..MaxList : vpa_set(i, p)
    \/ vpa_pop \/ vpa_free
    \/ \E n \in 0..MaxList : vpa_resize(n)

\* The list holds the pointers pushed and not popped; vpa_push writes behind the
\* block only after vpa_resize, which asks for too few bytes, or in a list that
\* was created without capacity.
VpaHoldsElements ==
    /\ vpaStatus = "ok" => Contents(vpa) = elements
    /\ vpaStatus \in {"overrun", "junk_freed"} => resized
    /\ ~resized => vpa.length < Len(vpa.mem)

\* freeFunc is called on a pointer that is still in the list only if that pointer
\* was popped and pushed again: vpa_resize starts one place too far, where such a
\* pointer may have left a copy.
VpaFreesCutOff ==
    vpaStatus # "freed" => released \cap Range(elements) \subseteq popped

\* vpa_free leaves no pointer behind that was pushed and not popped, unless
\* vpa_resize, which skips the first one that it cuts off, has been called.
VpaFreesAll == vpaStatus = "freed" /\ ~resized => owned \subseteq released
=============================================================================
