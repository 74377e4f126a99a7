-------------------------------- MODULE Asid --------------------------------
(***************************************************************************)
(* The ASID allocator (vm/asid_allocator.c). An address space gets the     *)
(* hardware id `asid` and the iteration of that id at which it got it;     *)
(* ids are reused round robin, and a stale iteration at a context switch   *)
(* tells that another address space has used the id in between.            *)
(***************************************************************************)
EXTENDS Integers

CONSTANTS AsidCount,       \* number of hardware ids, 256 (uint8_t curr)
          IterationCount   \* values of cache_iteration, 256 (uint8_t)

ASSUME AsidAssumption == AsidCount \in Nat \ {0} /\ IterationCount \in Nat \ {0}

Asids == 0 .. AsidCount - 1

VARIABLES curr, allocated_ids, tlb_everything_allocated

asidvars == <<curr, allocated_ids, tlb_everything_allocated>>

AsidInit ==
    /\ curr = 0
    /\ allocated_ids = [a \in Asids |-> 0]
    /\ tlb_everything_allocated = FALSE

NextIteration(a) == (allocated_ids[a] + 1) % IterationCount

\* The descriptor asid_request_descriptor returns, and its effect.
RequestedDescriptor == [asid |-> curr, cache_iteration |-> NextIteration(curr)]

\* Mutant: curr is not advanced.
asid_request_descriptor_same_id ==
    /\ allocated_ids' = [allocated_ids EXCEPT ![curr] = NextIteration(curr)]
    /\ UNCHANGED <<curr, tlb_everything_allocated>>

asid_request_descriptor ==
    /\ allocated_ids' = [allocated_ids EXCEPT ![curr] = NextIteration(curr)]
    /\ curr' = (curr + 1) % AsidCount
    /\ tlb_everything_allocated' = (tlb_everything_allocated \/ curr = AsidCount - 1)

\* What asid_check_and_update returns for desc, the updated desc, and its effect.
MustFlush(desc) == desc.cache_iteration # allocated_ids[desc.asid]

UpdatedDescriptor(desc) ==
    IF MustFlush(desc)
    THEN [asid |-> desc.asid, cache_iteration |-> NextIteration(desc.asid)]
    ELSE desc

asid_check_and_update(desc) ==
    /\ allocated_ids' = IF MustFlush(desc)
                        THEN [allocated_ids EXCEPT ![desc.asid] = NextIteration(desc.asid)]
                        ELSE allocated_ids
    /\ UNCHANGED <<curr, tlb_everything_allocated>>

AsidTypeOK ==
    /\ curr \in Asids
    /\ allocated_ids \in [Asids -> 0 .. IterationCount - 1]
    /\ tlb_everything_allocated \in BOOLEAN
=============================================================================
