--------------------------- MODULE UnitAllocator ---------------------------
(***************************************************************************)
(* What the physical memory manager promises its clients (pmm.h): it hands *)
(* out L1 page tables, L2 page tables and pages, each time memory that     *)
(* nobody holds and that is not reserved, a slice serving one kind at a    *)
(* time, and it takes back what it handed out.                             *)
(***************************************************************************)
EXTENDS Integers

CONSTANTS Slices,       \* the slices under management
          Allocatable,  \* those that may be handed out
          Parts         \* Parts[k]: the parts a slice is divided into as a k

VARIABLE owned          \* how often each unit is handed out

Kinds == DOMAIN Parts

Units == Kinds \X Slices \X (0 .. 7)

Init == owned = [u \in Units |-> 0]

\* Unit <<k, s, i>> is free to hand out when o is handed out: nobody holds it,
\* nor any part of the slice as something else.
Available(o, k, s, i) ==
    /\ s \in Allocatable
    /\ i \in Parts[k]
    /\ o[<<k, s, i>>] = 0
    /\ \A j \in Kinds, p \in 0 .. 7 : j # k => o[<<j, s, p>>] = 0

Allocate(k, s, i) ==
    /\ Available(owned, k, s, i)
    /\ owned' = [owned EXCEPT ![<<k, s, i>>] = 1]

Free(k, s, i) ==
    /\ owned[<<k, s, i>>] = 1
    /\ owned' = [owned EXCEPT ![<<k, s, i>>] = 0]

Next == \E k \in Kinds, s \in Slices, i \in 0 .. 7 : Allocate(k, s, i) \/ Free(k, s, i)

Spec == Init /\ [][Next]_owned
=============================================================================
