--------------------------------- MODULE Vm ---------------------------------
(***************************************************************************)
(* The virtual memory manager (vm/vm2.c): page tables in memory, the       *)
(* functions that map and unmap pages in them, and the kernel's own table  *)
(* from startup.s through vm2_start, init_vector_table and init_heap to    *)
(* the growth of the kernel heap.                                          *)
(*                                                                         *)
(* Page p of an address space is its virtual address divided by 4 KiB.     *)
(* Memory comes from the abstract allocator that pmm.c implements          *)
(* (UnitAllocator), so a table or a page is a unit <<kind, slice, part>>.  *)
(* KERNEL_VIRTUAL_OFFSET is 2^31: adding it to a 32-bit address, like      *)
(* subtracting it, flips the top bit. An address is its top bit and the    *)
(* unit that the other bits lead to.                                       *)
(***************************************************************************)
EXTENDS Integers, FiniteSets

CONSTANTS Slices,            \* the slices the physical memory manager hands out
          L2TablesPerSlice, PagesPerSlice,
          L2Entries,         \* entries of an L2 table, 256 in the code
          KernelBase,        \* L1 index of KERNEL_VIRTUAL_OFFSET, 2048
          RamMebibytes,      \* available_RAM in MiB
          HeapBase,          \* L1 index of KERNEL_HEAP_BASE, 3072
          HeapInitPages,     \* HEAP_INIT_SIZE in pages, 16
          MmioBase,          \* L1 index of KERNEL_MMIO_BASE, 4095
          Peripherals        \* <<physical MiB, MiB>> of the calls in bcm2836_init

ASSUME LayoutAssumption ==
    /\ L2TablesPerSlice \in 1 .. 8 /\ PagesPerSlice \in 1 .. 8
    /\ {L2Entries, KernelBase, RamMebibytes, HeapBase, HeapInitPages, MmioBase} \subseteq Nat \ {0}
    /\ KernelBase + RamMebibytes <= HeapBase
    /\ HeapBase + 1 < MmioBase

\* Both peripherals have registers, and the gap of nearly 1 GiB between the heap's
\* base and KERNEL_MMIO_BASE holds them (4 MiB and 16 MiB in the code).
ASSUME PeripheralsAssumption ==
    /\ \A n \in {1, 2} : Peripherals[n][1] \in Nat /\ Peripherals[n][2] \in Nat \ {0}
    /\ HeapBase + Peripherals[1][2] + Peripherals[2][2] <= MmioBase

Kinds == {"L1PageTable", "L2PageTable", "Page"}

Parts ==
    [k \in Kinds |-> IF k = "L1PageTable" THEN {0}
                     ELSE IF k = "L2PageTable" THEN 0 .. L2TablesPerSlice - 1
                     ELSE 0 .. PagesPerSlice - 1]

\* kernell1PageTable lies in the kernel image, not in the allocator's memory.
kernell1PageTable == <<"Kernel", 0, 0>>

VARIABLES mem,               \* units handed out; contents of L1 and of L2 tables
          mmio_current_top,  \* as an L1 index
          heap_end,          \* as a page
          stage              \* how far start() got; "running", or how it ended

vmvars == <<mem, mmio_current_top, heap_end, stage>>

Pmm == INSTANCE UnitAllocator WITH Allocatable <- Slices, owned <- mem.owned

L1Units == {u \in Pmm!Units : u[1] = "L1PageTable" /\ u[3] \in Parts[u[1]]}
L2Units == {u \in Pmm!Units : u[1] = "L2PageTable" /\ u[3] \in Parts[u[1]]}
PageUnits == {u \in Pmm!Units : u[1] = "Page" /\ u[3] \in Parts[u[1]]}

-----------------------------------------------------------------------------
(* Addresses and page table entries.                                       *)

l1pt_index(p) == p \div L2Entries
l2pt_index(p) == p % L2Entries

\* A pointer that the kernel can dereference, as the allocator returns it.
Pointer(u) == [top |-> 1, unit |-> u]
NULL == [top |-> 0, unit |-> <<"None", 0, 0>>]

PHYS2VIRT(a) == [top |-> 1 - a.top, unit |-> a.unit]
VIRT2PHYS(a) == [top |-> 1 - a.top, unit |-> a.unit]

\* Entry types: 0 invalid, 1 coarse (L1), 2 section (L1) or small page (L2).
Invalid == [type |-> 0, base |-> NULL]
Coarse(a) == [type |-> 1, base |-> a]
Section(mib) == [type |-> 2, base |-> [top |-> 0, unit |-> <<"Section", mib, 0>>]]
SmallPage(a) == [type |-> 2, base |-> a]

UserIndexes == 0 .. KernelBase - 1
KernelIndexes == 0 .. MmioBase
L2Indexes == 0 .. L2Entries - 1

find_l2pt(entry) == PHYS2VIRT(entry.base)

-----------------------------------------------------------------------------
(* The physical memory manager as vm2.c and vas2.c see it. Running out of  *)
(* memory makes pmm_allocate_l2_pagetable and pmm_allocate_page            *)
(* dereference NULL: the outcome "fault".                                  *)

\* What pmm_allocate_* may return, nothing when memory has run out: the first free
\* part of a partially used slice if there is one, else a part of an unused slice.
\* Unused slices are interchangeable, so it does not matter which one is on top
\* of the list.
Candidates(m, k) ==
    LET available == {u \in Pmm!Units : u[1] = k /\ Pmm!Available(m.owned, k, u[2], u[3])}
        partial   == {u \in available : \E i \in Parts[k] : m.owned[<<k, u[2], i>>] > 0}
    IN IF partial # {} THEN {u \in partial : \A v \in partial : u[2] = v[2] => u[3] <= v[3]}
       ELSE IF available = {} THEN {}
       ELSE {CHOOSE u \in available : u[3] = 0}

\* Mutant: tables are handed out with what they held before.
HandOut_without_zeroing(m, u) == [m EXCEPT !.owned[u] = @ + 1]

\* Handing out a unit zeroes it.
HandOut(m, u) ==
    [owned |-> [m.owned EXCEPT ![u] = @ + 1],
     l1    |-> IF u \in L1Units THEN [m.l1 EXCEPT ![u] = [i \in UserIndexes |-> Invalid]]
                                ELSE m.l1,
     l2    |-> IF u \in L2Units THEN [m.l2 EXCEPT ![u] = [j \in L2Indexes |-> Invalid]]
                                ELSE m.l2]

\* pmm_free_* finds the slice by its kernel address: anything else than a pointer
\* to something handed out ends in FATAL or in a corrupted list.
MayFree(m, a) == a.top = 1 /\ a.unit \in Pmm!Units /\ m.owned[a.unit] = 1

TakeBack(m, as) ==
    [m EXCEPT !.owned = [u \in Pmm!Units |-> IF Pointer(u) \in as THEN @[u] - 1 ELSE @[u]]]

-----------------------------------------------------------------------------
(* vm2_allocate_page, as the set of its outcomes: memory afterwards, the   *)
(* page returned and whether the kernel survives. Every caller passes      *)
(* remap = false.                                                          *)

Outcome(m, page, end) == [mem |-> m, page |-> page, end |-> end]

\* Mutant: the physical address of the page is returned.
MapInL2_returns_physical(m, l2, p) ==
    LET pages == Candidates(m, "Page")
        j     == l2pt_index(p)
    IN IF pages = {} THEN {Outcome(m, NULL, "fault")}
       ELSE IF m.l2[l2.unit][j] # Invalid THEN {Outcome(m, NULL, "panic")}
       ELSE {LET given == HandOut(m, u)
             IN Outcome([given EXCEPT !.l2[l2.unit][j] = SmallPage(VIRT2PHYS(Pointer(u)))],
                        VIRT2PHYS(Pointer(u)), "running") : u \in pages}

\* Mutant: an entry in use is overwritten.
MapInL2_overwrites(m, l2, p) ==
    LET pages == Candidates(m, "Page")
    IN IF pages = {} THEN {Outcome(m, NULL, "fault")}
       ELSE {LET given == HandOut(m, u)
             IN Outcome([given EXCEPT !.l2[l2.unit][l2pt_index(p)] =
                            SmallPage(VIRT2PHYS(Pointer(u)))],
                        Pointer(u), "running") : u \in pages}

\* `case 1`: take a page and enter it in the L2 table at address l2.
MapInL2(m, l2, p) ==
    LET pages == Candidates(m, "Page")
        j     == l2pt_index(p)
    IN IF pages = {} THEN {Outcome(m, NULL, "fault")}
       ELSE IF l2.top = 0 THEN {Outcome(m, NULL, "corrupt")}
       ELSE IF m.l2[l2.unit][j] # Invalid THEN {Outcome(m, NULL, "panic")}
       ELSE {LET given == HandOut(m, u)
             IN Outcome([given EXCEPT !.l2[l2.unit][j] = SmallPage(VIRT2PHYS(Pointer(u)))],
                        Pointer(u), "running") : u \in pages}

\* `case 0`: take an L2 table and enter it in the L1 table, then fall through.
\* The table is not reported to the caller: *created_l2pt is NULL on return.
vm2_allocate_page(m, l1pt, p) ==
    LET i     == l1pt_index(p)
        entry == m.l1[l1pt][i]
        tables == Candidates(m, "L2PageTable")
        install(u) == [HandOut(m, u) EXCEPT !.l1[l1pt][i] = Coarse(VIRT2PHYS(Pointer(u)))]
    IN IF entry.type = 2 THEN {Outcome(m, NULL, "running")}
       ELSE IF entry.type = 1 THEN MapInL2(m, find_l2pt(entry), p)
       ELSE IF tables = {} THEN {Outcome(m, NULL, "fault")}
       ELSE UNION {MapInL2(install(u), Pointer(u), p) : u \in tables}

\* The entry holds a physical address: VIRT2PHYS makes a kernel pointer of it only
\* because subtracting 2^31 wraps around.
vm2_free_page(m, l1pt, p) ==
    LET entry == m.l1[l1pt][l1pt_index(p)]
        l2    == find_l2pt(entry)
        page  == VIRT2PHYS(m.l2[l2.unit][l2pt_index(p)].base)
    IN IF entry.type # 1 THEN Outcome(m, NULL, "running")
       ELSE IF ~MayFree(m, page) THEN Outcome(m, NULL, "corrupt")
       ELSE Outcome([TakeBack(m, {page}) EXCEPT !.l2[l2.unit][l2pt_index(p)] = Invalid],
                    page, "running")

-----------------------------------------------------------------------------
(* start(): the kernel's page table.                                       *)

\* startup.s has mapped the first MiB twice; the rest of the table is zero.
VmInit ==
    /\ mem = [owned |-> [u \in Pmm!Units |-> 0],
              l1 |-> [t \in {kernell1PageTable} \cup L1Units |->
                        IF t = kernell1PageTable
                        THEN [i \in KernelIndexes |->
                                IF i \in {0, KernelBase} THEN Section(0) ELSE Invalid]
                        ELSE [i \in UserIndexes |-> Invalid]],
              l2 |-> [t \in L2Units |-> [j \in L2Indexes |-> Invalid]]]
    /\ mmio_current_top = MmioBase
    /\ heap_end = 0
    /\ stage = "chipset"

\* One call of vm2_map_peripheral on a kernel table t whose MMIO starts at top.
vm2_map_peripheral(t, top, physical, n) ==
    [i \in KernelIndexes |->
        IF i \in top - n .. top - 1 THEN Section(physical + (i - (top - n))) ELSE t[i]]

\* init_chipset calls vm2_map_peripheral for the registers and the peripherals.
bcm2836_init ==
    /\ stage = "chipset"
    /\ LET top1 == mmio_current_top - Peripherals[1][2]
           one  == vm2_map_peripheral(mem.l1[kernell1PageTable], mmio_current_top,
                                      Peripherals[1][1], Peripherals[1][2])
           two  == vm2_map_peripheral(one, top1, Peripherals[2][1], Peripherals[2][2])
       IN /\ mem' = [mem EXCEPT !.l1[kernell1PageTable] = two]
          /\ mmio_current_top' = top1 - Peripherals[2][2]
    /\ stage' = "vm"
    /\ UNCHANGED heap_end

\* Drops the identity mapping and maps all RAM (with remap = true) at KernelBase.
vm2_start ==
    /\ stage = "vm"
    /\ mem' = [mem EXCEPT !.l1[kernell1PageTable] =
                 [i \in KernelIndexes |->
                    IF i = 0 THEN Invalid
                    ELSE IF i \in KernelBase .. KernelBase + RamMebibytes - 1
                    THEN Section(i - KernelBase) ELSE @[i]]]
    /\ stage' = "vectors"
    /\ UNCHANGED <<mmio_current_top, heap_end>>

\* HIGH_VECTOR_LOCATION is in the MiB above KERNEL_MMIO_BASE.
VectorPage == MmioBase * L2Entries

init_vector_table ==
    /\ stage = "vectors"
    /\ \E o \in vm2_allocate_page(mem, kernell1PageTable, VectorPage) :
          /\ mem' = o.mem
          /\ stage' = IF o.end = "running" THEN "heap" ELSE o.end
    /\ heap_end' = HeapBase * L2Entries
    /\ UNCHANGED mmio_current_top

\* init_heap, page by page: one page for heap_t and its bins, then the heap.
HeapStart == HeapBase * L2Entries + 1
HeapInitEnd == HeapStart + HeapInitPages

InitHeapPage ==
    /\ stage = "heap"
    /\ \E o \in vm2_allocate_page(mem, kernell1PageTable, heap_end) :
          /\ mem' = o.mem
          /\ stage' = IF o.end # "running" THEN o.end
                      ELSE IF o.page = NULL THEN "panic"
                      ELSE IF heap_end + 1 < HeapInitEnd THEN "heap" ELSE "running"
    /\ heap_end' = heap_end + 1
    /\ UNCHANGED mmio_current_top

\* heap_alloc found the wilderness too small.
expand ==
    /\ stage = "running"
    /\ \E o \in vm2_allocate_page(mem, kernell1PageTable, heap_end) :
          /\ mem' = o.mem
          /\ stage' = o.end
          /\ heap_end' = IF o.page = NULL THEN heap_end ELSE heap_end + 1
    /\ UNCHANGED mmio_current_top

\* heap_alloc found the wilderness too large, which takes a heap that has grown.
contract ==
    /\ stage = "running"
    /\ heap_end > HeapInitEnd
    /\ LET o == vm2_free_page(mem, kernell1PageTable, heap_end - 1)
       IN /\ mem' = o.mem
          /\ stage' = o.end
    /\ heap_end' = heap_end - 1
    /\ UNCHANGED mmio_current_top

VmNext ==
    \/ bcm2836_init
    \/ vm2_start
    \/ init_vector_table
    \/ InitHeapPage
    \/ expand
    \/ contract

VmSpec == VmInit /\ [][VmNext]_vmvars

-----------------------------------------------------------------------------
(* Properties.                                                             *)

Entries(types, units) ==
    {Invalid} \cup [type : types, base : [top : {0, 1}, unit : units]]

Stages == {"chipset", "vm", "vectors", "heap", "running", "fault", "panic", "corrupt"}

\* Every table keeps its shape: L1 entries are invalid, coarse or sections, L2
\* entries are invalid or small pages.
VmTypeOK ==
    /\ mem.owned \in [Pmm!Units -> Nat]
    /\ \A t \in L1Units : \A i \in UserIndexes :
          mem.l1[t][i] \in Entries({1}, L2Units)
    /\ \A i \in KernelIndexes :
          LET entry == mem.l1[kernell1PageTable][i]
          IN \/ entry \in Entries({1}, L2Units)
             \/ entry = Section(entry.base.unit[2])
    /\ mem.l2 \in [L2Units -> [L2Indexes -> Entries({2}, PageUnits)]]
    /\ mmio_current_top \in KernelIndexes
    /\ heap_end \in Nat
    /\ stage \in Stages

\* What the MMU finds for page p in the table l1pt: the L2 tables and pages that
\* the table refers to.
CoarseEntries(l1pt) == {mem.l1[l1pt][i] : i \in {i \in DOMAIN mem.l1[l1pt] : mem.l1[l1pt][i].type = 1}}

TablesOf(l1pt) == {entry.base.unit : entry \in CoarseEntries(l1pt)}

MappedPages(l1pt) ==
    {p \in 0 .. (MmioBase + 1) * L2Entries - 1 :
        /\ l1pt_index(p) \in DOMAIN mem.l1[l1pt]
        /\ mem.l1[l1pt][l1pt_index(p)].type = 1
        /\ mem.l2[mem.l1[l1pt][l1pt_index(p)].base.unit][l2pt_index(p)].type # 0}

Translate(l1pt, p) ==
    mem.l2[mem.l1[l1pt][l1pt_index(p)].base.unit][l2pt_index(p)].base

\* The table refers by physical address to L2 tables and pages that are handed
\* out, and no two of its pages are the same memory.
TableSound(l1pt) ==
    /\ \A entry \in CoarseEntries(l1pt) :
          entry.base.top = 0 /\ mem.owned[entry.base.unit] = 1
    /\ \A p \in MappedPages(l1pt) :
          /\ Translate(l1pt, p).top = 0
          /\ mem.owned[Translate(l1pt, p).unit] = 1
          /\ \A q \in MappedPages(l1pt) :
                Translate(l1pt, p) = Translate(l1pt, q) => p = q

Alive == stage \notin {"fault", "panic", "corrupt"}

\* The kernel heap is mapped without holes from its base to heap->end, and no
\* page above heap->end stays mapped (expand would then panic on it).
HeapMapped ==
    stage = "running" =>
        MappedPages(kernell1PageTable) =
            HeapBase * L2Entries .. heap_end - 1 \cup {VectorPage}

\* After vm2_start the window through which PHYS2VIRT works stays complete, the
\* identity mapping is gone, and the peripherals stay mapped: a growing heap stops
\* below them.
KernelWindowIntact ==
    stage \in {"vectors", "heap", "running"} =>
        LET t == mem.l1[kernell1PageTable]
        IN /\ t[0] = Invalid
           /\ \A i \in 0 .. RamMebibytes - 1 : t[KernelBase + i] = Section(i)
           /\ \A n \in {1, 2} : \A k \in 0 .. Peripherals[n][2] - 1 :
                 \E i \in mmio_current_top .. MmioBase - 1 :
                    t[i] = Section(Peripherals[n][1] + k)
           /\ heap_end <= mmio_current_top * L2Entries

\* vm2_free_page, whose address arithmetic relies on wrap-around, and free_vas only
\* give back pointers that the allocator handed out.
NoInvalidFree == stage # "corrupt"
=============================================================================
