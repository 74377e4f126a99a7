--------------------------- MODULE AddressSpaces ---------------------------
(***************************************************************************)
(* Virtual address spaces (vm/vas2.c) on top of the virtual memory manager *)
(* (Vm), the ASID allocator (Asid), the physical memory manager's abstract *)
(* specification (UnitAllocator, through Vm) and the MMU.                  *)
(*                                                                         *)
(* The code that will call create_vas, switch_to_vas, allocate_page and    *)
(* free_vas, a scheduler, does not exist yet: the model calls them in any  *)
(* order on address spaces that exist, interleaved with the growth of the  *)
(* kernel heap, which takes memory from the same allocator.                *)
(***************************************************************************)
EXTENDS Vm, Asid

CONSTANTS Vas,         \* the address spaces created over the life of the system
          UserPages    \* the pages processes ask for

ASSUME UserPagesAssumption ==
    UserPages \subseteq 0 .. KernelBase * L2Entries - 1

VARIABLES vas,         \* struct vas2 of each, and whether it exists
          ttbr0,       \* translation table base register 0
          contextid,   \* the ASID in the context id register
          current,     \* the address space switch_to_vas was last called for
          tlb          \* <<asid, v>>: the TLB may hold translations of v under asid

uservars == <<vas, ttbr0, contextid, current, tlb>>
vars == <<vmvars, asidvars, uservars>>

\* No address space.
Nobody == "nobody"

ASSUME VasAssumption == Nobody \notin Vas

NoVas == [state |-> "none", tlbDescriptor |-> [asid |-> 0, cache_iteration |-> 0],
          l1PageTable |-> NULL, l2tables |-> {}, pages |-> {}]

Live == {v \in Vas : vas[v].state = "live"}

Init ==
    /\ VmInit /\ AsidInit
    /\ vas = [v \in Vas |-> NoVas]
    /\ ttbr0 = [top |-> 0, unit |-> kernell1PageTable]
    /\ contextid = 0
    /\ current = Nobody
    /\ tlb = {}

-----------------------------------------------------------------------------
(* vas2.c. Address spaces are made once the kernel is up.                  *)

\* pmm_allocate_l1_pagetable returns NULL when there is no unused slice.
create_vas(v) ==
    /\ stage = "running"
    /\ vas[v].state = "none"
    /\ asid_request_descriptor
    /\ LET tables == Candidates(mem, "L1PageTable")
           new(l1pt) == [state |-> "live", tlbDescriptor |-> RequestedDescriptor,
                         l1PageTable |-> l1pt, l2tables |-> {}, pages |-> {}]
       IN \/ /\ tables = {}
             /\ vas' = [vas EXCEPT ![v] = new(NULL)]
             /\ UNCHANGED mem
          \/ \E u \in tables :
             /\ vas' = [vas EXCEPT ![v] = new(Pointer(u))]
             /\ mem' = HandOut(mem, u)
    /\ UNCHANGED <<mmio_current_top, heap_end, stage, ttbr0, contextid, current, tlb>>

\* The ASID in CONTEXTIDR, which tags what the TLB loads from now on.
asid_set(id) == contextid' = id

switch_to_vas(v) ==
    /\ stage = "running"
    /\ v \in Live
    /\ LET desc == vas[v].tlbDescriptor
       IN /\ asid_check_and_update(desc)
          /\ vas' = [vas EXCEPT ![v].tlbDescriptor = UpdatedDescriptor(desc)]
          /\ tlb' = IF MustFlush(desc) THEN {t \in tlb : t[1] # desc.asid} ELSE tlb
          /\ asid_set(desc.asid)
    /\ ttbr0' = vas[v].l1PageTable
    /\ current' = v
    /\ UNCHANGED vmvars

\* Mutant: the pages are not freed.
free_vas_keeps_pages(v) ==
    /\ stage = "running"
    /\ v \in Live
    /\ mem' = TakeBack(mem, {vas[v].l1PageTable} \ {NULL})
    /\ vas' = [vas EXCEPT ![v] = [NoVas EXCEPT !.state = "freed"]]
    /\ UNCHANGED <<stage, mmio_current_top, heap_end, asidvars, ttbr0, contextid, current, tlb>>

\* The l2tables list is always empty: allocate_page never learns of an L2 table.
free_vas(v) ==
    /\ stage = "running"
    /\ v \in Live
    /\ LET freed == vas[v].l2tables \cup vas[v].pages \cup ({vas[v].l1PageTable} \ {NULL})
       IN IF \A a \in freed : MayFree(mem, a)
          THEN mem' = TakeBack(mem, freed) /\ UNCHANGED stage
          ELSE stage' = "corrupt" /\ UNCHANGED mem
    /\ vas' = [vas EXCEPT ![v] = [NoVas EXCEPT !.state = "freed"]]
    /\ UNCHANGED <<mmio_current_top, heap_end, asidvars, ttbr0, contextid, current, tlb>>

\* Asking for a page that is mapped already is FATAL. Nothing checks that create_vas
\* got an L1 table: without one the first access dereferences NULL.
allocate_page(v, p) ==
    /\ stage = "running"
    /\ v \in Live
    /\ IF vas[v].l1PageTable = NULL
       THEN stage' = "fault" /\ UNCHANGED <<mem, vas>>
       ELSE \E o \in vm2_allocate_page(mem, vas[v].l1PageTable.unit, p) :
               /\ mem' = o.mem
               /\ stage' = o.end
               /\ vas' = IF o.end = "running" THEN [vas EXCEPT ![v].pages = @ \cup {o.page}]
                                              ELSE vas
    /\ UNCHANGED <<mmio_current_top, heap_end, asidvars, ttbr0, contextid, current, tlb>>

-----------------------------------------------------------------------------
(* The processor.                                                          *)

\* The current process runs: the MMU caches its translations under the ASID.
RunUser ==
    /\ stage = "running"
    /\ current \in Live
    /\ tlb' = tlb \cup {<<contextid, current>>}
    /\ UNCHANGED <<vmvars, asidvars, vas, ttbr0, contextid, current>>

\* vm2_start ends with vm2_set_user_pagetable(NULL) and vm2_free_page, called by
\* contract, flushes the whole TLB.
Kernel ==
    /\ VmNext
    /\ ttbr0' = IF stage = "vm" THEN NULL ELSE ttbr0
    /\ tlb' = IF heap_end' < heap_end THEN {} ELSE tlb
    /\ UNCHANGED <<asidvars, vas, contextid, current>>

\* Memory: what is mapped does not depend on which process runs.
MemoryNext ==
    \/ Kernel
    \/ \E v \in Vas :
          \/ create_vas(v)
          \/ free_vas(v)
          \/ \E p \in UserPages : allocate_page(v, p)

Next ==
    \/ MemoryNext
    \/ RunUser
    \/ \E v \in Vas : switch_to_vas(v)

\* The same system while no process is scheduled.
MemorySpec == Init /\ [][MemoryNext]_vars

Spec == Init /\ [][Next]_vars

-----------------------------------------------------------------------------
(* Properties.                                                             *)

\* Every variable keeps the type its C declaration gives it.
TypeOK ==
    /\ VmTypeOK /\ AsidTypeOK
    /\ \A v \in Vas :
          /\ vas[v].state \in {"none", "live", "freed"}
          /\ vas[v].tlbDescriptor \in [asid : Asids, cache_iteration : 0 .. IterationCount - 1]
          /\ vas[v].l1PageTable \in {Pointer(u) : u \in L1Units} \cup {NULL}
          /\ vas[v].l2tables \subseteq {Pointer(u) : u \in L2Units}
          /\ vas[v].pages \subseteq {Pointer(u) : u \in PageUnits}
    /\ ttbr0 \in [top : {0, 1}, unit : {kernell1PageTable} \cup L1Units] \cup {NULL}
    /\ contextid \in Asids
    /\ current \in Vas \cup {Nobody}
    /\ tlb \subseteq Asids \X Vas

\* The tables that a running MMU may be pointed at.
LiveTables ==
    {kernell1PageTable} \cup {vas[v].l1PageTable.unit : v \in {v \in Live : vas[v].l1PageTable # NULL}}

\* The L1 tables of address spaces are handed out, and no table, of an address
\* space or of the kernel, refers to memory that was taken back by free_vas or
\* contract and may belong to somebody else by now.
NoDanglingMappings ==
    Alive => \A t \in LiveTables :
                /\ t # kernell1PageTable => mem.owned[t] = 1
                /\ TableSound(t)

\* Two address spaces, or an address space and the kernel heap, never share a
\* physical page or an L2 table.
NoSharedMemory ==
    Alive => \A t1, t2 \in LiveTables :
                t1 # t2 =>
                   /\ TablesOf(t1) \cap TablesOf(t2) = {}
                   /\ \A p \in MappedPages(t1), q \in MappedPages(t2) :
                         Translate(t1, p).unit # Translate(t2, q).unit

\* No page leaks: the pages handed out are the ones that a live address space has
\* on its list, which are the ones its table maps, and the ones the kernel maps.
PagesAccounted ==
    Alive =>
        /\ \A v \in Live :
              vas[v].pages = IF vas[v].l1PageTable = NULL THEN {}
                             ELSE LET t == vas[v].l1PageTable.unit
                                  IN {Pointer(Translate(t, p).unit) : p \in MappedPages(t)}
        /\ {u \in PageUnits : mem.owned[u] > 0} =
              {Translate(kernell1PageTable, p).unit : p \in MappedPages(kernell1PageTable)}
              \cup UNION {{a.unit : a \in vas[v].pages} : v \in Live}

\* asid_allocator.h: as long as tlb_everything_allocated is false no flush is
\* needed, because an ASID tags the translations of one address space only.
IsolatedBeforeReuse ==
    ~tlb_everything_allocated =>
        \A s, t \in tlb : s[1] = t[1] => s[2] = t[2]

\* While an address space lives, what it has mapped stays mapped to the same page
\* whatever other address spaces and the kernel heap do.
MappingsStable ==
    [][Alive' => \A v \in Live \cap Live' :
          vas[v].l1PageTable # NULL =>
             LET t == vas[v].l1PageTable.unit
             IN /\ vas'[v].l1PageTable = vas[v].l1PageTable
                /\ \A p \in MappedPages(t) :
                      p \in MappedPages(t)' /\ Translate(t, p)' = Translate(t, p)]_vars

(* What vas2.h says and the code does not do.                              *)

\* vas2.h: free_vas clears all page tables of an address space, so that an L2
\* table that is handed out is in use by the kernel or by a live address space.
L2TablesReclaimed ==
    Alive => {u \in L2Units : mem.owned[u] > 0} = UNION {TablesOf(t) : t \in LiveTables}

\* The page tables as a whole, through create_vas, allocate_page, free_vas, expand
\* and contract: no table dangles, none shares memory with another, the heap is
\* mapped up to its end, and the kernel keeps its window and its peripherals.
MappingsSound ==
    NoDanglingMappings /\ NoSharedMemory /\ HeapMapped /\ KernelWindowIntact

\* What free_vas, contract and vm2_free_page give back was handed out, and every
\* page that is handed out belongs to somebody who will give it back.
MemoryAccounted == PagesAccounted /\ NoInvalidFree
=============================================================================
