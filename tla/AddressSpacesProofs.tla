------------------------ MODULE AddressSpacesProofs ------------------------
(***************************************************************************)
(* Proofs about AddressSpaces, for every set of address spaces and slices, *)
(* every layout of the kernel's virtual memory and every number of ASIDs.  *)
(*                                                                         *)
(* The page tables are looked at entry by entry: entry i of the L1 table t *)
(* is a link when it is coarse, and a linked L2 table maps page i, j of t  *)
(* when its entry j is valid. The operators below take memory as an        *)
(* argument, so that the lemmas about what vm2_allocate_page and           *)
(* vm2_free_page do to memory are lemmas without state.                    *)
(***************************************************************************)
EXTENDS AddressSpaces, TLAPS

L1Tables == {kernell1PageTable} \cup L1Units

UserTable == [UserIndexes -> Entries({1}, L2Units)]

KernelTable == [KernelIndexes -> Entries({1}, L2Units) \cup {Section(n) : n \in Nat}]

\* The shape of memory: every table is of the length its user expects.
MemType ==
    {m \in [owned : [Pmm!Units -> {0, 1}],
            l1 : [L1Tables -> UserTable \cup KernelTable],
            l2 : [L2Units -> [L2Indexes -> Entries({2}, PageUnits)]]] :
        /\ m.l1[kernell1PageTable] \in KernelTable
        /\ \A t \in L1Units : m.l1[t] \in UserTable}

-----------------------------------------------------------------------------
(* What the tables T of memory m refer to.                                 *)

Links(m, t) == {i \in DOMAIN m.l1[t] : m.l1[t][i].type = 1}

Under(m, t, i) == m.l1[t][i].base.unit

\* The L2 tables that a table of T links to.
Linked(m, T) == {x \in L2Units : \E t \in T : \E i \in Links(m, t) : x = Under(m, t, i)}

\* The valid entries of an L2 table, and the page that one refers to.
Leaves(m, x) == {j \in L2Indexes : m.l2[x][j].type # 0}

PageAt(m, x, j) == m.l2[x][j].base.unit

\* The pages that the L1 table t maps, as memory and as virtual pages.
PagesOf(m, t) ==
    {u \in PageUnits : \E i \in Links(m, t) : \E j \in Leaves(m, Under(m, t, i)) :
                          u = PageAt(m, Under(m, t, i), j)}

Mapped(m, t) ==
    {p \in 0 .. (MmioBase + 1) * L2Entries - 1 :
        /\ l1pt_index(p) \in Links(m, t)
        /\ l2pt_index(p) \in Leaves(m, Under(m, t, l1pt_index(p)))}

Entry(m, t, p) == m.l2[Under(m, t, l1pt_index(p))][l2pt_index(p)].base

\* Links are physical addresses of L2 tables that are handed out, and no two links
\* lead to the same table.
LinksSound(m, T) ==
    /\ \A t \in T : \A i \in Links(m, t) :
          m.l1[t][i].base.top = 0 /\ m.owned[Under(m, t, i)] = 1
    /\ \A s, t \in T : \A i \in Links(m, s), k \in Links(m, t) :
          Under(m, s, i) = Under(m, t, k) => s = t /\ i = k

\* The same of the pages that linked tables refer to.
LeavesSound(m, T) ==
    /\ \A x \in Linked(m, T) : \A j \in Leaves(m, x) :
          m.l2[x][j].base.top = 0 /\ m.owned[PageAt(m, x, j)] = 1
    /\ \A x, y \in Linked(m, T) : \A j \in Leaves(m, x), k \in Leaves(m, y) :
          PageAt(m, x, j) = PageAt(m, y, k) => x = y /\ j = k

\* Every page that is handed out is mapped by a table of T.
PagesMapped(m, T) ==
    \A u \in PageUnits : m.owned[u] = 1 => \E t \in T : u \in PagesOf(m, t)

Sound(m, T) == LinksSound(m, T) /\ LeavesSound(m, T) /\ PagesMapped(m, T)

-----------------------------------------------------------------------------
(* The inductive invariant.                                                *)

Booting == stage \in {"chipset", "vm", "vectors"}

\* Live address spaces and the L1 tables they have.
TableHolders == {v \in Live : vas[v].l1PageTable # NULL}

VasTypeOK ==
    /\ vas \in [Vas -> [state : {"none", "live", "freed"},
                        tlbDescriptor : [asid : Asids, cache_iteration : 0 .. IterationCount - 1],
                        l1PageTable : {Pointer(u) : u \in L1Units} \cup {NULL},
                        l2tables : {{}},
                        pages : SUBSET {Pointer(u) : u \in PageUnits}]]
    /\ ttbr0 \in [top : {0, 1}, unit : L1Tables] \cup {NULL}
    /\ contextid \in Asids
    /\ current \in Vas \cup {Nobody}
    /\ tlb \subseteq Asids \X Vas

StrongTypeOK ==
    /\ mem \in MemType
    /\ mmio_current_top \in HeapBase .. MmioBase
    /\ heap_end \in Nat
    /\ stage \in Stages
    /\ AsidTypeOK
    /\ VasTypeOK

\* Until the vector table nothing is handed out and the kernel has sections only.
NothingYet ==
    /\ Booting => /\ \A u \in Pmm!Units : mem.owned[u] = 0
                  /\ Links(mem, kernell1PageTable) = {}
                  /\ mem.l1[kernell1PageTable][MmioBase] = Invalid
                  /\ heap_end = 0
    /\ stage = "chipset" => mmio_current_top = MmioBase
    /\ stage = "heap" \/ Booting => Live = {}

\* The peripherals are below MmioBase, down to mmio_current_top.
PeripheralsMapped ==
    stage \in {"vm", "vectors", "heap", "running"} =>
        LET t == mem.l1[kernell1PageTable]
        IN /\ mmio_current_top < MmioBase
           /\ \A i \in mmio_current_top .. MmioBase - 1 : t[i].type = 2
           /\ \A n \in {1, 2} : \A k \in 0 .. Peripherals[n][2] - 1 :
                 \E i \in mmio_current_top .. MmioBase - 1 :
                    t[i] = Section(Peripherals[n][1] + k)

WindowMapped ==
    stage \in {"vectors", "heap", "running"} =>
        LET t == mem.l1[kernell1PageTable]
        IN /\ t[0] = Invalid
           /\ \A i \in 0 .. RamMebibytes - 1 : t[KernelBase + i] = Section(i)

\* The heap ends where its mapped pages end, below the peripherals.
HeapLaidOut ==
    stage \in {"heap", "running"} =>
        /\ Mapped(mem, kernell1PageTable) =
              (HeapBase * L2Entries .. heap_end - 1) \cup {VectorPage}
        /\ heap_end >= HeapBase * L2Entries
        /\ heap_end <= mmio_current_top * L2Entries

\* Live address spaces have L1 tables of their own.
TablesHeld ==
    /\ \A v \in TableHolders : mem.owned[vas[v].l1PageTable.unit] = 1
    /\ \A v, w \in TableHolders : vas[v].l1PageTable = vas[w].l1PageTable => v = w

\* The list of pages of an address space is what its table maps.
PagesListed ==
    \A v \in Live :
        vas[v].pages = IF vas[v].l1PageTable = NULL THEN {}
                       ELSE {Pointer(u) : u \in PagesOf(mem, vas[v].l1PageTable.unit)}

MemoryInv ==
    /\ StrongTypeOK
    /\ stage # "corrupt"
    /\ NothingYet
    /\ PeripheralsMapped
    /\ WindowMapped
    /\ HeapLaidOut
    /\ Alive => /\ Sound(mem, LiveTables)
                /\ TablesHeld
                /\ PagesListed

-----------------------------------------------------------------------------
(* Arithmetic and the layout of virtual memory.                            *)

\* LayoutAssumption, constant by constant.
LEMMA Sizes ==
    /\ L2Entries \in Nat \ {0} /\ KernelBase \in Nat \ {0} /\ RamMebibytes \in Nat \ {0}
    /\ HeapBase \in Nat \ {0} /\ HeapInitPages \in Nat \ {0} /\ MmioBase \in Nat \ {0}
    /\ KernelBase + RamMebibytes <= HeapBase /\ HeapBase + 1 < MmioBase
    /\ L2TablesPerSlice \in 1 .. 8 /\ PagesPerSlice \in 1 .. 8
BY LayoutAssumption

\* A page is the entry l2pt_index of the L2 table of entry l1pt_index.
LEMMA PageSplit ==
    ASSUME NEW p \in Nat
    PROVE  /\ l1pt_index(p) \in Nat
           /\ l2pt_index(p) \in L2Indexes
           /\ l1pt_index(p) * L2Entries \in Nat
           /\ p = l1pt_index(p) * L2Entries + l2pt_index(p)
<1> DEFINE n == L2Entries
<1>1. n \in Nat \ {0}
  BY Sizes
<1> HIDE DEF n
<1>2. p \div n \in Nat /\ p % n \in 0 .. n - 1
  BY <1>1
<1>3. (p \div n) * n \in Nat
  BY <1>1, <1>2
<1>4. p = (p \div n) * n + (p % n)
  BY <1>1, <1>2, <1>3
<1> QED BY <1>2, <1>3, <1>4 DEF n, l1pt_index, l2pt_index, L2Indexes

\* Conversely, an index of an L1 table and one of an L2 table make a page.
LEMMA PageJoin ==
    ASSUME NEW i \in Nat, NEW j \in L2Indexes
    PROVE  /\ i * L2Entries + j \in Nat
           /\ l1pt_index(i * L2Entries + j) = i
           /\ l2pt_index(i * L2Entries + j) = j
<1> DEFINE n == L2Entries
<1>1. n \in Nat \ {0}
  BY Sizes
<1>0. j \in Nat /\ j < n
  BY <1>1 DEF L2Indexes
<1> HIDE DEF n
<1>2. i * n \in Nat /\ i * n + j \in Nat
  BY <1>1, <1>0
<1>3. (i * n + j) \div n = i
  BY <1>1, <1>0, <1>2
<1>4. (i * n + j) % n = j
  BY <1>1, <1>0, <1>2, <1>3
<1> QED BY <1>2, <1>3, <1>4 DEF n, l1pt_index, l2pt_index

\* The page tables of two L1 indexes follow each other.
LEMMA IndexOrder ==
    ASSUME NEW i \in Nat, NEW k \in Nat
    PROVE  /\ i * L2Entries \in Nat
           /\ i < k => i * L2Entries + L2Entries <= k * L2Entries
           /\ i <= k => i * L2Entries <= k * L2Entries
<1> DEFINE n == L2Entries
<1>1. n \in Nat \ {0}
  BY Sizes
<1> HIDE DEF n
<1>2. i * n \in Nat /\ k * n \in Nat
  BY <1>1
<1>3. i < k => i * n + n <= k * n
  BY <1>1, <1>2
<1> QED BY <1>1, <1>2, <1>3 DEF n

\* Where a page lies between the multiples of L2Entries tells its L1 index.
LEMMA IndexBounds ==
    ASSUME NEW p \in Nat, NEW k \in Nat
    PROVE  /\ p < k * L2Entries => l1pt_index(p) < k
           /\ p >= k * L2Entries => l1pt_index(p) >= k
<1>1. /\ l1pt_index(p) \in Nat /\ l2pt_index(p) \in 0 .. L2Entries - 1
      /\ l1pt_index(p) * L2Entries \in Nat
      /\ p = l1pt_index(p) * L2Entries + l2pt_index(p)
  BY PageSplit DEF L2Indexes
<1>2. L2Entries \in Nat \ {0} /\ k * L2Entries \in Nat
  BY Sizes, IndexOrder
<1>3. l1pt_index(p) >= k => l1pt_index(p) * L2Entries >= k * L2Entries
  BY <1>1, IndexOrder
<1>4. l1pt_index(p) < k => l1pt_index(p) * L2Entries + L2Entries <= k * L2Entries
  BY <1>1, IndexOrder
<1> QED BY <1>1, <1>2, <1>3, <1>4

\* The page of an L1 index i <= MmioBase lies in the address space.
LEMMA PageInRange ==
    ASSUME NEW i \in KernelIndexes, NEW j \in L2Indexes
    PROVE  i * L2Entries + j \in 0 .. (MmioBase + 1) * L2Entries - 1
<1>1. i \in Nat /\ i < MmioBase + 1 /\ MmioBase + 1 \in Nat
  BY Sizes DEF KernelIndexes
<1>2. i * L2Entries \in Nat /\ i * L2Entries + L2Entries <= (MmioBase + 1) * L2Entries
      /\ (MmioBase + 1) * L2Entries \in Nat
  BY <1>1, IndexOrder
<1>3. j \in Nat /\ j < L2Entries /\ L2Entries \in Nat
  BY Sizes DEF L2Indexes
<1> QED BY <1>2, <1>3

-----------------------------------------------------------------------------
(* Units and tables.                                                       *)

\* A unit is an L1 table, an L2 table or a page; the kernel's table is no unit.
LEMMA UnitKinds ==
    /\ Pmm!Units = Kinds \X Slices \X (0 .. 7)
    /\ L1Units \subseteq Pmm!Units /\ L2Units \subseteq Pmm!Units /\ PageUnits \subseteq Pmm!Units
    /\ L1Units \cap L2Units = {} /\ L1Units \cap PageUnits = {} /\ L2Units \cap PageUnits = {}
    /\ kernell1PageTable \notin Pmm!Units /\ kernell1PageTable \notin L1Units
BY DEF Pmm!Units, Pmm!Kinds, Parts, Kinds, L1Units, L2Units, PageUnits, kernell1PageTable

\* pmm_allocate_* returns units of the kind asked for that nobody has.
LEMMA CandidatesAreFree ==
    ASSUME NEW m \in MemType, NEW k \in Kinds, NEW u \in Candidates(m, k)
    PROVE  /\ u \in Pmm!Units /\ u[1] = k /\ u[3] \in Parts[k]
           /\ m.owned[u] = 0
<1> DEFINE available == {w \in Pmm!Units : w[1] = k /\ Pmm!Available(m.owned, k, w[2], w[3])}
           partial   == {w \in available : \E i \in Parts[k] : m.owned[<<k, w[2], i>>] > 0}
<1>1. \A w \in available : /\ w \in Pmm!Units /\ w[1] = k /\ w[3] \in Parts[k]
                           /\ m.owned[w] = 0
  BY UnitKinds DEF Pmm!Available
<1>2. CASE partial # {}
  BY <1>1, <1>2 DEF Candidates
<1>3. CASE partial = {} /\ available = {}
  BY <1>3 DEF Candidates
<1>4. CASE partial = {} /\ available # {}
  <2>1. PICK w \in available : TRUE
    BY <1>4
  <2> DEFINE z == <<k, w[2], 0>>
  <2>2. m.owned \in [Pmm!Units -> {0, 1}]
    BY DEF MemType
  <2>3. 0 \in Parts[k] /\ z \in Pmm!Units
    BY <2>1, Sizes, UnitKinds DEF Parts, Kinds
  <2>4. ~(m.owned[z] > 0)
    BY <2>1, <2>3, <1>4
  <2>5. m.owned[z] = 0
    BY <2>2, <2>3, <2>4
  <2>6. Pmm!Available(m.owned, k, w[2], w[3])
    BY <2>1
  <2>7. Pmm!Available(m.owned, k, w[2], 0)
    BY <2>3, <2>5, <2>6 DEF Pmm!Available
  <2>8. z \in available /\ z[3] = 0
    BY <2>3, <2>7
  <2>9. (CHOOSE c \in available : c[3] = 0) \in available
    BY <2>8
  <2>10. u = CHOOSE c \in available : c[3] = 0
    BY <1>4 DEF Candidates
  <2> QED BY <1>1, <2>9, <2>10
<1> QED BY <1>2, <1>3, <1>4

\* So a candidate of a kind is a unit of that kind.
LEMMA CandidateKinds ==
    ASSUME NEW m \in MemType
    PROVE  /\ \A u \in Candidates(m, "L1PageTable") : u \in L1Units /\ m.owned[u] = 0
           /\ \A u \in Candidates(m, "L2PageTable") : u \in L2Units /\ m.owned[u] = 0
           /\ \A u \in Candidates(m, "Page") : u \in PageUnits /\ m.owned[u] = 0
BY CandidatesAreFree DEF Kinds, L1Units, L2Units, PageUnits

-----------------------------------------------------------------------------
(* What the functions of vm2.c do to memory.                               *)

Physical(u) == [top |-> 0, unit |-> u]

\* Page u is taken and entered at index j of the L2 table x.
PageMapped(m, x, j, u) ==
    [owned |-> [m.owned EXCEPT ![u] = 1],
     l1    |-> m.l1,
     l2    |-> [m.l2 EXCEPT ![x] = [m.l2[x] EXCEPT ![j] = SmallPage(Physical(u))]]]

\* L2 table x is taken, zeroed and entered at index i of the L1 table t.
TableLinked(m, t, i, x) ==
    [owned |-> [m.owned EXCEPT ![x] = 1],
     l1    |-> [m.l1 EXCEPT ![t] = [m.l1[t] EXCEPT ![i] = Coarse(Physical(x))]],
     l2    |-> [m.l2 EXCEPT ![x] = [j \in L2Indexes |-> Invalid]]]

\* The fields of memory and their types.
LEMMA MemFields ==
    ASSUME NEW m \in MemType
    PROVE  /\ m = [owned |-> m.owned, l1 |-> m.l1, l2 |-> m.l2]
           /\ m.owned \in [Pmm!Units -> {0, 1}]
           /\ m.l1 \in [L1Tables -> UserTable \cup KernelTable]
           /\ m.l2 \in [L2Units -> [L2Indexes -> Entries({2}, PageUnits)]]
           /\ m.l1[kernell1PageTable] \in KernelTable
           /\ \A t \in L1Units : m.l1[t] \in UserTable
BY DEF MemType

\* pmm_allocate_page counts a free page as handed out and leaves the tables alone.
LEMMA HandOutPage ==
    ASSUME NEW m \in MemType, NEW u \in PageUnits, m.owned[u] = 0
    PROVE  HandOut(m, u) = [owned |-> [m.owned EXCEPT ![u] = 1], l1 |-> m.l1, l2 |-> m.l2]
BY UnitKinds, MemFields DEF HandOut

\* pmm_allocate_l2_pagetable also zeroes the table.
LEMMA HandOutTable ==
    ASSUME NEW m \in MemType, NEW x \in L2Units, m.owned[x] = 0
    PROVE  HandOut(m, x) = [owned |-> [m.owned EXCEPT ![x] = 1], l1 |-> m.l1,
                            l2 |-> [m.l2 EXCEPT ![x] = [j \in L2Indexes |-> Invalid]]]
<1>1. x \notin L1Units /\ x \in Pmm!Units
  BY UnitKinds
<1>2. [m.owned EXCEPT ![x] = @ + 1] = [m.owned EXCEPT ![x] = 1]
  BY <1>1, MemFields
<1> QED BY <1>1, <1>2, Zenon DEF HandOut

\* `case 1` of vm2_allocate_page either ends the kernel without touching memory or
\* enters a free page in an entry that was invalid.
LEMMA MapInL2Outcomes ==
    ASSUME NEW m \in MemType, NEW x \in L2Units, NEW p \in Nat,
           NEW o \in MapInL2(m, Pointer(x), p)
    PROVE  \/ /\ o.end \in {"fault", "panic"}
              /\ o.mem = m /\ o.page = NULL
           \/ /\ o.end = "running"
              /\ m.l2[x][l2pt_index(p)] = Invalid
              /\ \E u \in PageUnits :
                    /\ m.owned[u] = 0
                    /\ o.page = Pointer(u)
                    /\ o.mem = PageMapped(m, x, l2pt_index(p), u)
<1> DEFINE j == l2pt_index(p)
           pages == Candidates(m, "Page")
<1>1. CASE pages = {}
  BY <1>1 DEF MapInL2, Outcome
<1>2. CASE pages # {} /\ m.l2[x][j] # Invalid
  BY <1>2 DEF MapInL2, Outcome, Pointer
<1>3. CASE pages # {} /\ m.l2[x][j] = Invalid
  <2>0. Pointer(x).top # 0 /\ Pointer(x).unit = x
    BY DEF Pointer
  <2>1. PICK u \in pages :
           o = Outcome([HandOut(m, u) EXCEPT !.l2[x][j] = SmallPage(VIRT2PHYS(Pointer(u)))],
                       Pointer(u), "running")
    BY <1>3, <2>0 DEF MapInL2
  <2>2. u \in PageUnits /\ m.owned[u] = 0
    BY CandidateKinds
  <2>3. VIRT2PHYS(Pointer(u)) = Physical(u)
    BY DEF VIRT2PHYS, Pointer, Physical
  <2>4. o.mem = PageMapped(m, x, j, u)
    BY <2>1, <2>2, <2>3, HandOutPage DEF Outcome, PageMapped
  <2> QED BY <1>3, <2>1, <2>2, <2>4 DEF Outcome
<1> QED BY <1>1, <1>2, <1>3

\* The entries that the code writes, and what the type of an entry tells of it.
LEMMA EntryTypes ==
    /\ Invalid \in Entries({1}, L2Units) /\ Invalid \in Entries({2}, PageUnits)
    /\ Invalid.type = 0
    /\ \A x \in L2Units : /\ Coarse(Physical(x)) \in Entries({1}, L2Units)
                          /\ Coarse(Physical(x)).type = 1
                          /\ Coarse(Physical(x)).base = Physical(x)
    /\ \A u \in PageUnits : /\ SmallPage(Physical(u)) \in Entries({2}, PageUnits)
                            /\ SmallPage(Physical(u)).type = 2
                            /\ SmallPage(Physical(u)).base = Physical(u)
    /\ \A x : Physical(x).top = 0 /\ Physical(x).unit = x
    /\ \A n : Section(n).type = 2
    /\ \A e \in Entries({1}, L2Units) :
          /\ e.type \in {0, 1} /\ (e.type = 0 <=> e = Invalid)
          /\ e.type = 1 => e.base.unit \in L2Units
    /\ \A e \in Entries({2}, PageUnits) :
          /\ e.type \in {0, 2} /\ (e.type = 0 <=> e = Invalid)
          /\ e.type # 0 => e.base.unit \in PageUnits
BY DEF Entries, Invalid, Coarse, SmallPage, Physical, Section

\* Links lead to L2 tables, and their valid entries to pages.
LEMMA LinkTypes ==
    ASSUME NEW m \in MemType, NEW t \in L1Tables
    PROVE  /\ Links(m, t) \subseteq KernelIndexes
           /\ t # kernell1PageTable => DOMAIN m.l1[t] = UserIndexes
           /\ DOMAIN m.l1[kernell1PageTable] = KernelIndexes
           /\ UserIndexes \subseteq KernelIndexes /\ KernelIndexes \subseteq Nat
           /\ \A i \in DOMAIN m.l1[t] : m.l1[t][i].type \in {0, 1, 2}
                                        /\ (m.l1[t][i].type = 0 <=> m.l1[t][i] = Invalid)
           /\ t # kernell1PageTable => \A i \in DOMAIN m.l1[t] : m.l1[t][i].type # 2
           /\ \A i \in Links(m, t) : Under(m, t, i) \in L2Units
<1>1. t # kernell1PageTable => t \in L1Units
  BY DEF L1Tables
<1>2. UserIndexes \subseteq KernelIndexes /\ KernelIndexes \subseteq Nat
  BY Sizes DEF UserIndexes, KernelIndexes
<1>3. t # kernell1PageTable => m.l1[t] \in [UserIndexes -> Entries({1}, L2Units)]
  BY <1>1, MemFields DEF UserTable
<1>4. m.l1[kernell1PageTable] \in [KernelIndexes -> Entries({1}, L2Units) \cup {Section(n) : n \in Nat}]
  BY MemFields DEF KernelTable
<1>5. \A e \in {Section(n) : n \in Nat} : e.type = 2
  BY EntryTypes
<1>6. /\ t # kernell1PageTable => DOMAIN m.l1[t] = UserIndexes
      /\ DOMAIN m.l1[kernell1PageTable] = KernelIndexes
  BY <1>3, <1>4
<1>7. t # kernell1PageTable => \A i \in DOMAIN m.l1[t] : m.l1[t][i] \in Entries({1}, L2Units)
  BY <1>3
<1>8. \A i \in DOMAIN m.l1[t] : m.l1[t][i] \in Entries({1}, L2Units) \/ m.l1[t][i].type = 2
  BY <1>4, <1>5, <1>6, <1>7
<1>9. \A i \in DOMAIN m.l1[t] : m.l1[t][i].type \in {0, 1, 2}
                                /\ (m.l1[t][i].type = 0 <=> m.l1[t][i] = Invalid)
  BY <1>8, EntryTypes
<1>10. t # kernell1PageTable => \A i \in DOMAIN m.l1[t] : m.l1[t][i].type # 2
  BY <1>7, EntryTypes
<1>11. \A i \in Links(m, t) : Under(m, t, i) \in L2Units
  BY <1>8, EntryTypes DEF Links, Under
<1>12. Links(m, t) \subseteq KernelIndexes
  BY <1>2, <1>6 DEF Links
<1> QED BY <1>2, <1>6, <1>9, <1>10, <1>11, <1>12

\* Valid entries of an L2 table refer to pages.
LEMMA LeafTypes ==
    ASSUME NEW m \in MemType, NEW x \in L2Units
    PROVE  /\ Leaves(m, x) \subseteq L2Indexes
           /\ \A j \in Leaves(m, x) : PageAt(m, x, j) \in PageUnits
           /\ \A j \in L2Indexes : j \notin Leaves(m, x) <=> m.l2[x][j] = Invalid
<1>1. m.l2[x] \in [L2Indexes -> Entries({2}, PageUnits)]
  BY MemFields
<1> QED BY <1>1, EntryTypes DEF Leaves, PageAt

-----------------------------------------------------------------------------
(* Mapping a page in a linked L2 table.                                    *)

\* Memory, field by field, when a page has been entered in an L2 table.
LEMMA PageMappedFields ==
    ASSUME NEW m \in MemType, NEW x \in L2Units, NEW j \in L2Indexes,
           NEW u \in PageUnits, m.owned[u] = 0,
           NEW m2, m2 = PageMapped(m, x, j, u)
    PROVE  /\ m2 \in MemType
           /\ m2.owned = [m.owned EXCEPT ![u] = 1] /\ m2.l1 = m.l1
           /\ \A t : Links(m2, t) = Links(m, t)
           /\ \A t, i : Under(m2, t, i) = Under(m, t, i)
           /\ \A T : Linked(m2, T) = Linked(m, T)
           /\ \A y \in L2Units : Leaves(m2, y) = IF y = x THEN Leaves(m, x) \cup {j} ELSE Leaves(m, y)
           /\ \A y \in L2Units, k \in L2Indexes :
                 m2.l2[y][k].base = IF y = x /\ k = j THEN Physical(u) ELSE m.l2[y][k].base
<1>1. /\ m2.owned = [m.owned EXCEPT ![u] = 1] /\ m2.l1 = m.l1
      /\ m2.l2 = [m.l2 EXCEPT ![x] = [m.l2[x] EXCEPT ![j] = SmallPage(Physical(u))]]
  BY DEF PageMapped
<1>2. m2 \in MemType
  <2>1. m2.owned \in [Pmm!Units -> {0, 1}]
    BY <1>1, UnitKinds, MemFields
  <2>2. m2.l2 \in [L2Units -> [L2Indexes -> Entries({2}, PageUnits)]]
    BY <1>1, MemFields, EntryTypes
  <2>3. m2 = [owned |-> m2.owned, l1 |-> m2.l1, l2 |-> m2.l2]
    BY DEF PageMapped
  <2> QED BY <1>1, <2>1, <2>2, <2>3, MemFields DEF MemType
<1>3. \A y \in L2Units, k \in L2Indexes :
         m2.l2[y][k] = IF y = x /\ k = j THEN SmallPage(Physical(u)) ELSE m.l2[y][k]
  BY <1>1, MemFields
<1>4. \A y \in L2Units : Leaves(m2, y) = IF y = x THEN Leaves(m, x) \cup {j} ELSE Leaves(m, y)
  BY <1>3, EntryTypes DEF Leaves
<1>5. /\ \A t : Links(m2, t) = Links(m, t)
      /\ \A t, i : Under(m2, t, i) = Under(m, t, i)
  <2>1. m2.l1 = m.l1
    BY <1>1
  <2> QED BY ONLY <2>1, Zenon DEF Links, Under
<1>6. \A T : Linked(m2, T) = Linked(m, T)
  BY ONLY <1>5 DEF Linked
<1>7. \A y \in L2Units, k \in L2Indexes :
         m2.l2[y][k].base = IF y = x /\ k = j THEN Physical(u) ELSE m.l2[y][k].base
  BY <1>3, EntryTypes
<1> QED BY <1>1, <1>2, <1>4, <1>5, <1>6, <1>7

\* A page nobody had, entered at an invalid entry of a linked L2 table, is mapped
\* by that table only and disturbs no other mapping.
LEMMA PageMappedSound ==
    ASSUME NEW m \in MemType, NEW T \in SUBSET L1Tables, Sound(m, T),
           NEW t \in T, NEW i \in Links(m, t), NEW j \in L2Indexes,
           m.l2[Under(m, t, i)][j] = Invalid,
           NEW u \in PageUnits, m.owned[u] = 0,
           NEW m2, m2 = PageMapped(m, Under(m, t, i), j, u)
    PROVE  /\ Sound(m2, T)
           /\ \A s \in T : PagesOf(m2, s) = IF s = t THEN PagesOf(m, t) \cup {u} ELSE PagesOf(m, s)
           /\ \A s \in T : Mapped(m2, s) = IF s = t THEN Mapped(m, t) \cup {i * L2Entries + j}
                                                    ELSE Mapped(m, s)
           /\ \A s \in T : \A q \in Mapped(m, s) : Entry(m2, s, q) = Entry(m, s, q)
<1> DEFINE x == Under(m, t, i)
<1>1. /\ t \in L1Tables /\ x \in L2Units /\ i \in KernelIndexes /\ i \in Nat
      /\ x \in Linked(m, T)
  BY LinkTypes DEF Linked
<1>2. /\ m2 \in MemType
      /\ m2.owned = [m.owned EXCEPT ![u] = 1] /\ m2.l1 = m.l1
      /\ \A s : Links(m2, s) = Links(m, s)
      /\ \A s, k : Under(m2, s, k) = Under(m, s, k)
      /\ Linked(m2, T) = Linked(m, T)
      /\ \A y \in L2Units : Leaves(m2, y) = IF y = x THEN Leaves(m, x) \cup {j} ELSE Leaves(m, y)
      /\ \A y \in L2Units, k \in L2Indexes :
            m2.l2[y][k].base = IF y = x /\ k = j THEN Physical(u) ELSE m.l2[y][k].base
  BY <1>1, PageMappedFields
<1>3. /\ j \notin Leaves(m, x)
      /\ \A y \in L2Units : Leaves(m, y) \subseteq L2Indexes /\ Leaves(m2, y) \subseteq L2Indexes
      /\ Linked(m, T) \subseteq L2Units
      /\ \A y \in L2Units : \A k \in Leaves(m, y) : PageAt(m, y, k) \in PageUnits
  BY <1>1, <1>2, LeafTypes DEF Linked
<1>4. \A y \in L2Units, k \in L2Indexes :
         PageAt(m2, y, k) = IF y = x /\ k = j THEN u ELSE PageAt(m, y, k)
  BY <1>2, EntryTypes DEF PageAt
<1>5. \A w \in Pmm!Units : m2.owned[w] = IF w = u THEN 1 ELSE m.owned[w]
  BY <1>2, MemFields
<1>6. \A s \in T : \A k \in Links(m, s) : Under(m, s, k) \in L2Units /\ (Under(m, s, k) = x => s = t /\ k = i)
  BY LinkTypes DEF Sound, LinksSound
<1> HIDE DEF x
<1>7. LinksSound(m2, T)
  <2>1. \A s \in T : \A k \in Links(m, s) : Under(m, s, k) \in Pmm!Units /\ Under(m, s, k) # u
    BY <1>6, UnitKinds
  <2> QED BY <1>2, <1>5, <2>1, UnitKinds DEF Sound, LinksSound
<1>8. LeavesSound(m2, T)
  <2>1. \A y \in Linked(m, T) : \A k \in Leaves(m, y) :
           /\ PageAt(m, y, k) # u /\ PageAt(m, y, k) \in Pmm!Units
           /\ m.l2[y][k].base.top = 0 /\ m.owned[PageAt(m, y, k)] = 1
    BY <1>3, UnitKinds DEF Sound, LeavesSound
  <2>2. \A y \in Linked(m, T) : \A k \in Leaves(m2, y) :
           \/ k \in Leaves(m, y) /\ ~(y = x /\ k = j)
           \/ y = x /\ k = j
    BY <1>2, <1>3
  <2>3. \A y \in Linked(m, T) : \A k \in Leaves(m2, y) :
          m2.l2[y][k].base.top = 0 /\ m2.owned[PageAt(m2, y, k)] = 1
    BY <1>2, <1>3, <1>4, <1>5, <2>1, <2>2, EntryTypes, UnitKinds
  <2>4. ASSUME NEW y \in Linked(m, T), NEW z \in Linked(m, T),
               NEW k \in Leaves(m2, y), NEW l \in Leaves(m2, z),
               PageAt(m2, y, k) = PageAt(m2, z, l)
        PROVE  y = z /\ k = l
    <3>1. y \in L2Units /\ z \in L2Units /\ k \in L2Indexes /\ l \in L2Indexes
      BY <1>3
    <3>2. CASE y = x /\ k = j
      BY <1>4, <2>1, <2>2, <2>4, <3>1, <3>2
    <3>3. CASE z = x /\ l = j
      BY <1>4, <2>1, <2>2, <2>4, <3>1, <3>3
    <3>4. CASE k \in Leaves(m, y) /\ l \in Leaves(m, z) /\ ~(y = x /\ k = j) /\ ~(z = x /\ l = j)
      BY <1>4, <2>4, <3>1, <3>4 DEF Sound, LeavesSound
    <3> QED BY <2>2, <3>2, <3>3, <3>4
  <2> QED BY <1>2, <2>3, <2>4 DEF LeavesSound
<1>9. ASSUME NEW s \in T
      PROVE  PagesOf(m2, s) = IF s = t THEN PagesOf(m, t) \cup {u} ELSE PagesOf(m, s)
  <2>1. \A k \in Links(m, s) : Under(m, s, k) # x =>
            /\ Leaves(m2, Under(m, s, k)) = Leaves(m, Under(m, s, k))
            /\ \A l \in L2Indexes : PageAt(m2, Under(m, s, k), l) = PageAt(m, Under(m, s, k), l)
    BY <1>2, <1>4, <1>6
  <2>2. CASE s # t
    BY <1>2, <1>3, <1>6, <2>1, <2>2 DEF PagesOf
  <2>3. CASE s = t
    <3>1. ASSUME NEW w \in PagesOf(m2, t) PROVE w \in PagesOf(m, t) \cup {u}
      <4>0. PICK k \in Links(m, t) : \E l \in Leaves(m2, Under(m, t, k)) :
               w = PageAt(m2, Under(m, t, k), l)
        BY <1>2, <3>1 DEF PagesOf
      <4>1. PICK l \in Leaves(m2, Under(m, t, k)) : w = PageAt(m2, Under(m, t, k), l)
        BY <4>0
      <4>2. w \in PageUnits /\ Under(m, t, k) \in L2Units /\ l \in L2Indexes
        BY <1>3, <1>6, <3>1 DEF PagesOf
      <4>3. CASE Under(m, t, k) = x /\ l = j
        BY <1>4, <4>1, <4>2, <4>3
      <4>4. CASE ~(Under(m, t, k) = x /\ l = j)
        BY <1>2, <1>4, <4>1, <4>2, <4>4 DEF PagesOf
      <4> QED BY <4>3, <4>4
    <3>2. u \in PagesOf(m2, t)
      <4>1. Under(m2, t, i) = x /\ j \in Leaves(m2, x) /\ u = PageAt(m2, x, j) /\ i \in Links(m2, t)
        BY <1>1, <1>2, <1>4 DEF x
      <4> QED BY <4>1 DEF PagesOf
    <3>3. ASSUME NEW w \in PagesOf(m, t) PROVE w \in PagesOf(m2, t)
      <4>0. PICK k \in Links(m, t) : \E l \in Leaves(m, Under(m, t, k)) :
               w = PageAt(m, Under(m, t, k), l)
        BY <3>3 DEF PagesOf
      <4>1. PICK l \in Leaves(m, Under(m, t, k)) : w = PageAt(m, Under(m, t, k), l)
        BY <4>0
      <4>2. w \in PageUnits /\ Under(m, t, k) \in L2Units /\ l \in L2Indexes
        BY <1>3, <1>6, <3>3 DEF PagesOf
      <4>3. ~(Under(m, t, k) = x /\ l = j) /\ l \in Leaves(m2, Under(m, t, k))
        BY <1>2, <1>3, <4>1, <4>2
      <4>4. w = PageAt(m2, Under(m, t, k), l)
        BY <1>4, <4>1, <4>2, <4>3
      <4> QED BY <1>2, <4>1, <4>2, <4>3, <4>4 DEF PagesOf
    <3> QED BY <2>3, <3>1, <3>2, <3>3
  <2> QED BY <2>2, <2>3
<1>10. PagesMapped(m2, T)
  <2>1. PageUnits \subseteq Pmm!Units
    BY UnitKinds
  <2> QED BY <1>5, <1>9, <2>1 DEF Sound, PagesMapped
<1>11. ASSUME NEW s \in T
       PROVE  Mapped(m2, s) = IF s = t THEN Mapped(m, t) \cup {i * L2Entries + j} ELSE Mapped(m, s)
  <2> DEFINE p == i * L2Entries + j
             R == 0 .. (MmioBase + 1) * L2Entries - 1
  <2>1. p \in R /\ l1pt_index(p) = i /\ l2pt_index(p) = j
    BY <1>1, PageInRange, PageJoin
  <2>2. \A q \in R : q \in Nat /\ l2pt_index(q) \in L2Indexes
    BY PageSplit
  <2>3. \A q \in R : l1pt_index(q) = i /\ l2pt_index(q) = j => q = p
    BY PageSplit, <2>2
  <2> HIDE DEF p, R
  <2>4. \A q \in R : l1pt_index(q) \in Links(m, s) =>
           (l2pt_index(q) \in Leaves(m2, Under(m, s, l1pt_index(q)))
              <=> \/ l2pt_index(q) \in Leaves(m, Under(m, s, l1pt_index(q)))
                  \/ s = t /\ q = p)
    <3> SUFFICES ASSUME NEW q \in R, l1pt_index(q) \in Links(m, s)
                 PROVE  l2pt_index(q) \in Leaves(m2, Under(m, s, l1pt_index(q)))
                           <=> \/ l2pt_index(q) \in Leaves(m, Under(m, s, l1pt_index(q)))
                               \/ s = t /\ q = p
      OBVIOUS
    <3>1. CASE Under(m, s, l1pt_index(q)) = x
      BY <1>2, <1>6, <2>1, <2>2, <2>3, <3>1
    <3>2. CASE Under(m, s, l1pt_index(q)) # x
      BY <1>2, <1>6, <2>1, <2>2, <2>3, <3>2 DEF x
    <3> QED BY <3>1, <3>2
  <2>5. \A q \in R : q \in Mapped(m2, s) <=> q \in Mapped(m, s) \/ (s = t /\ q = p)
    BY <1>2, <2>1, <2>4 DEF Mapped, R
  <2>6. Mapped(m2, s) \subseteq R /\ Mapped(m, s) \subseteq R
    BY DEF Mapped, R
  <2> QED BY <2>1, <2>5, <2>6 DEF p
<1>12. ASSUME NEW s \in T, NEW q \in Mapped(m, s) PROVE Entry(m2, s, q) = Entry(m, s, q)
  <2>1. q \in Nat /\ l1pt_index(q) \in Links(m, s) /\ l2pt_index(q) \in L2Indexes
        /\ l2pt_index(q) \in Leaves(m, Under(m, s, l1pt_index(q)))
    BY PageSplit, Sizes DEF Mapped
  <2>2. ~(Under(m, s, l1pt_index(q)) = x /\ l2pt_index(q) = j)
    BY <1>3, <2>1
  <2> QED BY <1>2, <1>6, <2>1, <2>2 DEF Entry
<1> QED BY <1>7, <1>8, <1>9, <1>10, <1>11, <1>12 DEF Sound

-----------------------------------------------------------------------------
(* Linking a fresh L2 table.                                               *)

\* Memory, field by field, when an L2 table has been entered in an L1 table.
LEMMA TableLinkedFields ==
    ASSUME NEW m \in MemType, NEW t \in L1Tables, NEW i \in DOMAIN m.l1[t],
           m.l1[t][i].type = 0, NEW x \in L2Units, m.owned[x] = 0,
           NEW m2, m2 = TableLinked(m, t, i, x)
    PROVE  /\ m2 \in MemType
           /\ \A w \in Pmm!Units : m2.owned[w] = IF w = x THEN 1 ELSE m.owned[w]
           /\ \A s \in L1Tables : /\ DOMAIN m2.l1[s] = DOMAIN m.l1[s]
                                  /\ \A k \in DOMAIN m.l1[s] :
                                        m2.l1[s][k] = IF s = t /\ k = i THEN Coarse(Physical(x))
                                                                        ELSE m.l1[s][k]
           /\ \A y \in L2Units \ {x} : m2.l2[y] = m.l2[y]
           /\ \A j \in L2Indexes : m2.l2[x][j] = Invalid
<1>1. /\ m2.owned = [m.owned EXCEPT ![x] = 1]
      /\ m2.l1 = [m.l1 EXCEPT ![t] = [m.l1[t] EXCEPT ![i] = Coarse(Physical(x))]]
      /\ m2.l2 = [m.l2 EXCEPT ![x] = [j \in L2Indexes |-> Invalid]]
      /\ m2 = [owned |-> m2.owned, l1 |-> m2.l1, l2 |-> m2.l2]
  BY DEF TableLinked
<1>2. x \in Pmm!Units
  BY UnitKinds
<1>3. m2.owned \in [Pmm!Units -> {0, 1}] /\ \A w \in Pmm!Units : m2.owned[w] = IF w = x THEN 1 ELSE m.owned[w]
  BY <1>1, <1>2, MemFields
<1>4. /\ m2.l2 \in [L2Units -> [L2Indexes -> Entries({2}, PageUnits)]]
      /\ \A y \in L2Units \ {x} : m2.l2[y] = m.l2[y]
      /\ \A j \in L2Indexes : m2.l2[x][j] = Invalid
  BY <1>1, MemFields, EntryTypes
<1> DEFINE c == Coarse(Physical(x))
<1>5. c \in Entries({1}, L2Units)
  BY EntryTypes
<1> HIDE DEF c
<1>6. \/ t = kernell1PageTable /\ m.l1[t] \in KernelTable
      \/ t \in L1Units /\ t # kernell1PageTable /\ m.l1[t] \in UserTable
  BY MemFields, UnitKinds DEF L1Tables
<1>7. /\ t = kernell1PageTable => [m.l1[t] EXCEPT ![i] = c] \in KernelTable
      /\ t # kernell1PageTable => [m.l1[t] EXCEPT ![i] = c] \in UserTable
  BY <1>5, <1>6 DEF KernelTable, UserTable
<1>8. \A s \in L1Tables : m2.l1[s] = IF s = t THEN [m.l1[t] EXCEPT ![i] = c] ELSE m.l1[s]
  BY <1>1, MemFields DEF c
<1>9. m2.l1 \in [L1Tables -> UserTable \cup KernelTable]
  BY <1>1, <1>7, MemFields DEF c
<1>10. /\ m2.l1[kernell1PageTable] \in KernelTable
       /\ \A s \in L1Units : m2.l1[s] \in UserTable
  BY <1>7, <1>8, MemFields, UnitKinds DEF L1Tables
<1>11. m2 \in MemType
  BY <1>1, <1>3, <1>4, <1>9, <1>10 DEF MemType
<1>12. \A s \in L1Tables : /\ DOMAIN m2.l1[s] = DOMAIN m.l1[s]
                           /\ \A k \in DOMAIN m.l1[s] :
                                 m2.l1[s][k] = IF s = t /\ k = i THEN c ELSE m.l1[s][k]
  <2>1. DOMAIN [m.l1[t] EXCEPT ![i] = c] = DOMAIN m.l1[t]
    OBVIOUS
  <2>2. \A k \in DOMAIN m.l1[t] : [m.l1[t] EXCEPT ![i] = c][k] = IF k = i THEN c ELSE m.l1[t][k]
    BY <1>6 DEF KernelTable, UserTable
  <2> QED BY <1>8, <2>1, <2>2
<1> QED BY <1>3, <1>4, <1>11, <1>12 DEF c

\* An L2 table nobody had, zeroed and entered at an invalid entry, maps nothing and
\* disturbs no mapping.
LEMMA TableLinkedSound ==
    ASSUME NEW m \in MemType, NEW T \in SUBSET L1Tables, Sound(m, T),
           NEW t \in T, NEW i \in DOMAIN m.l1[t], m.l1[t][i].type = 0,
           NEW x \in L2Units, m.owned[x] = 0,
           NEW m2, m2 = TableLinked(m, t, i, x)
    PROVE  /\ Sound(m2, T)
           /\ i \in Links(m2, t) /\ Under(m2, t, i) = x
           /\ \A s \in T : /\ PagesOf(m2, s) = PagesOf(m, s)
                           /\ Mapped(m2, s) = Mapped(m, s)
                           /\ \A q \in Mapped(m, s) : Entry(m2, s, q) = Entry(m, s, q)
<1>1. /\ m2 \in MemType
      /\ \A w \in Pmm!Units : m2.owned[w] = IF w = x THEN 1 ELSE m.owned[w]
      /\ \A s \in L1Tables : /\ DOMAIN m2.l1[s] = DOMAIN m.l1[s]
                             /\ \A k \in DOMAIN m.l1[s] :
                                   m2.l1[s][k] = IF s = t /\ k = i THEN Coarse(Physical(x))
                                                                   ELSE m.l1[s][k]
      /\ \A y \in L2Units \ {x} : m2.l2[y] = m.l2[y]
      /\ \A j \in L2Indexes : m2.l2[x][j] = Invalid
  BY TableLinkedFields
<1>2. \A s \in T : Links(m2, s) = IF s = t THEN Links(m, s) \cup {i} ELSE Links(m, s)
  BY <1>1, EntryTypes DEF Links
<1>3. i \notin Links(m, t)
  BY DEF Links
<1>4. \A s \in T : \A k \in Links(m, s) : /\ m2.l1[s][k] = m.l1[s][k]
                                          /\ Under(m2, s, k) = Under(m, s, k)
                                          /\ k # i \/ s # t
  BY <1>1, <1>3 DEF Links, Under
<1>5. Under(m2, t, i) = x /\ m2.l1[t][i].base.top = 0
  BY <1>1, EntryTypes DEF Under
<1>6. \A s \in T : \A k \in Links(m, s) :
         Under(m, s, k) \in L2Units \ {x} /\ Under(m, s, k) \in Pmm!Units
  BY LinkTypes, UnitKinds DEF Sound, LinksSound
<1>7. \A y \in L2Units \ {x} : /\ Leaves(m2, y) = Leaves(m, y)
                               /\ \A j : PageAt(m2, y, j) = PageAt(m, y, j)
  BY <1>1 DEF Leaves, PageAt
<1>8. Leaves(m2, x) = {}
  BY <1>1, EntryTypes DEF Leaves
<1>9. x \in Pmm!Units
  BY UnitKinds
<1>10. LinksSound(m2, T)
  <2>1. ASSUME NEW s \in T, NEW k \in Links(m2, s)
        PROVE  m2.l1[s][k].base.top = 0 /\ m2.owned[Under(m2, s, k)] = 1
    <3>1. CASE s = t /\ k = i
      BY <1>1, <1>5, <1>9, <3>1
    <3>2. CASE k \in Links(m, s)
      BY <1>1, <1>4, <1>6, <3>2 DEF Sound, LinksSound
    <3> QED BY <1>2, <2>1, <3>1, <3>2
  <2>2. ASSUME NEW s1 \in T, NEW s2 \in T, NEW k1 \in Links(m2, s1), NEW k2 \in Links(m2, s2),
               Under(m2, s1, k1) = Under(m2, s2, k2)
        PROVE  s1 = s2 /\ k1 = k2
    <3>1. CASE k1 \in Links(m, s1) /\ k2 \in Links(m, s2)
      BY <1>4, <2>2, <3>1 DEF Sound, LinksSound
    <3>2. \A s \in T : \A k \in Links(m2, s) : k \in Links(m, s) \/ (s = t /\ k = i)
      BY <1>2
    <3>3. \A s \in T : \A k \in Links(m, s) : Under(m2, s, k) # x
      BY <1>4, <1>6
    <3>4. CASE k1 \in Links(m, s1) /\ s2 = t /\ k2 = i
      BY <1>5, <2>2, <3>3, <3>4
    <3>5. CASE k2 \in Links(m, s2) /\ s1 = t /\ k1 = i
      BY <1>5, <2>2, <3>3, <3>5
    <3> QED BY <3>1, <3>2, <3>4, <3>5
  <2> QED BY <2>1, <2>2 DEF LinksSound
<1>11. Linked(m2, T) = Linked(m, T) \cup {x}
  BY <1>2, <1>4, <1>5 DEF Linked
<1>12. Linked(m, T) \subseteq L2Units \ {x}
  BY <1>6 DEF Linked
<1>13. LeavesSound(m2, T)
  <2>1. \A y \in Linked(m, T) : \A j \in Leaves(m, y) :
           /\ PageAt(m, y, j) \in Pmm!Units /\ PageAt(m, y, j) # x
           /\ m2.l2[y][j] = m.l2[y][j]
    BY <1>1, <1>12, LeafTypes, UnitKinds
  <2> QED BY <1>1, <1>7, <1>8, <1>11, <1>12, <2>1 DEF Sound, LeavesSound
<1>14. ASSUME NEW s \in T PROVE PagesOf(m2, s) = PagesOf(m, s)
  <2>1. ASSUME NEW k \in Links(m2, s), NEW j \in Leaves(m2, Under(m2, s, k))
        PROVE  k \in Links(m, s) /\ j \in Leaves(m, Under(m, s, k))
               /\ PageAt(m2, Under(m2, s, k), j) = PageAt(m, Under(m, s, k), j)
    BY <1>2, <1>4, <1>5, <1>6, <1>7, <1>8, <2>1
  <2>2. ASSUME NEW k \in Links(m, s), NEW j \in Leaves(m, Under(m, s, k))
        PROVE  k \in Links(m2, s) /\ j \in Leaves(m2, Under(m2, s, k))
               /\ PageAt(m2, Under(m2, s, k), j) = PageAt(m, Under(m, s, k), j)
    BY <1>2, <1>4, <1>6, <1>7, <2>2
  <2> QED BY <2>1, <2>2 DEF PagesOf
<1>15. PagesMapped(m2, T)
  <2>1. \A u \in PageUnits : u \in Pmm!Units /\ u # x
    BY UnitKinds
  <2> QED BY <1>1, <1>14, <2>1 DEF Sound, PagesMapped
<1>16. ASSUME NEW s \in T PROVE Mapped(m2, s) = Mapped(m, s)
  <2>1. ASSUME NEW k \in Links(m2, s), NEW j \in Leaves(m2, Under(m2, s, k))
        PROVE  k \in Links(m, s) /\ j \in Leaves(m, Under(m, s, k))
    BY <1>2, <1>4, <1>5, <1>6, <1>7, <1>8, <2>1
  <2>2. ASSUME NEW k \in Links(m, s), NEW j \in Leaves(m, Under(m, s, k))
        PROVE  k \in Links(m2, s) /\ j \in Leaves(m2, Under(m2, s, k))
    BY <1>2, <1>4, <1>6, <1>7, <2>2
  <2> QED BY <2>1, <2>2 DEF Mapped
<1>17. ASSUME NEW s \in T, NEW q \in Mapped(m, s) PROVE Entry(m2, s, q) = Entry(m, s, q)
  BY <1>1, <1>4, <1>6 DEF Entry, Mapped
<1> QED BY <1>2, <1>5, <1>10, <1>13, <1>14, <1>15, <1>16, <1>17 DEF Sound

-----------------------------------------------------------------------------
(* vm2_allocate_page as a whole.                                           *)

\* From memory m to m2, page p of table t, and nothing else of the tables T, has
\* become mapped, to the page u, which nobody had.
Grown(m, m2, T, t, p, u) ==
    /\ Sound(m2, T)
    /\ u \in PageUnits /\ m.owned[u] = 0
    /\ \A s \in T :
          /\ PagesOf(m2, s) = IF s = t THEN PagesOf(m, t) \cup {u} ELSE PagesOf(m, s)
          /\ Mapped(m2, s) = IF s = t THEN Mapped(m, t) \cup {p} ELSE Mapped(m, s)
          /\ \A q \in Mapped(m, s) : Entry(m2, s, q) = Entry(m, s, q)
    /\ \A w \in L1Units : m2.owned[w] = m.owned[w]
    /\ \A s \in L1Tables : \A k \in DOMAIN m.l1[s] :
          m.l1[s][k].type # 0 \/ s # t \/ k # l1pt_index(p) => m2.l1[s][k] = m.l1[s][k]

\* `case 1` for a linked L2 table.
LEMMA MapInL2Grows ==
    ASSUME NEW m \in MemType, NEW T \in SUBSET L1Tables, Sound(m, T),
           NEW t \in T, NEW p \in Nat, l1pt_index(p) \in Links(m, t),
           NEW o \in MapInL2(m, Pointer(Under(m, t, l1pt_index(p))), p)
    PROVE  /\ o.mem \in MemType
           /\ \/ o.end \in {"fault", "panic"} /\ o.mem = m /\ o.page = NULL
              \/ /\ o.end = "running"
                 /\ \E u \in PageUnits : o.page = Pointer(u) /\ Grown(m, o.mem, T, t, p, u)
<1> DEFINE i == l1pt_index(p)
           j == l2pt_index(p)
           x == Under(m, t, i)
<1>1. /\ t \in L1Tables /\ x \in L2Units /\ j \in L2Indexes /\ p = i * L2Entries + j
  BY LinkTypes, PageSplit
<1>2. CASE o.end \in {"fault", "panic"} /\ o.mem = m /\ o.page = NULL
  BY <1>2
<1>3. CASE /\ o.end = "running"
           /\ m.l2[x][j] = Invalid
           /\ \E u \in PageUnits : /\ m.owned[u] = 0
                                   /\ o.page = Pointer(u)
                                   /\ o.mem = PageMapped(m, x, j, u)
  <2>1. PICK u \in PageUnits : /\ m.owned[u] = 0
                               /\ o.page = Pointer(u)
                               /\ o.mem = PageMapped(m, x, j, u)
    BY <1>3
  <2>2. /\ Sound(o.mem, T)
        /\ \A s \in T : PagesOf(o.mem, s) = IF s = t THEN PagesOf(m, t) \cup {u} ELSE PagesOf(m, s)
        /\ \A s \in T : Mapped(o.mem, s) = IF s = t THEN Mapped(m, t) \cup {p} ELSE Mapped(m, s)
        /\ \A s \in T : \A q \in Mapped(m, s) : Entry(o.mem, s, q) = Entry(m, s, q)
    BY <1>1, <1>3, <2>1, PageMappedSound
  <2>3. /\ o.mem \in MemType
        /\ o.mem.owned = [m.owned EXCEPT ![u] = 1] /\ o.mem.l1 = m.l1
    BY <1>1, <2>1, PageMappedFields
  <2>4. \A w \in L1Units : o.mem.owned[w] = m.owned[w]
    BY <2>3, MemFields, UnitKinds
  <2> QED BY <1>3, <2>1, <2>2, <2>3, <2>4 DEF Grown
<1> QED BY <1>1, <1>2, <1>3, MapInL2Outcomes

\* vm2_allocate_page of a page whose L1 entry is a section changes nothing and
\* returns NULL; otherwise it maps the page to memory nobody had, or it ends the
\* kernel: out of memory, or the page was mapped already.
\* The outcomes of vm2_allocate_page for page p of table t.
Allocated(m, T, t, p, o) ==
    /\ o.mem \in MemType
    /\ \/ o.end \in {"fault", "panic"} /\ o.page = NULL
       \/ /\ o.end = "running" /\ o.page = NULL /\ o.mem = m
          /\ m.l1[t][l1pt_index(p)].type = 2
       \/ /\ o.end = "running" /\ m.l1[t][l1pt_index(p)].type # 2
          /\ \E u \in PageUnits : o.page = Pointer(u) /\ Grown(m, o.mem, T, t, p, u)

\* vm2_allocate_page fails, meets a section, or maps one page and nothing else.
LEMMA AllocateOutcomes ==
    ASSUME NEW m \in MemType, NEW T \in SUBSET L1Tables, Sound(m, T),
           NEW t \in T, NEW p \in Nat, l1pt_index(p) \in DOMAIN m.l1[t],
           NEW o \in vm2_allocate_page(m, t, p)
    PROVE  Allocated(m, T, t, p, o)
<1> SUFFICES /\ o.mem \in MemType
             /\ \/ o.end \in {"fault", "panic"} /\ o.page = NULL
                \/ /\ o.end = "running" /\ o.page = NULL /\ o.mem = m
                   /\ m.l1[t][l1pt_index(p)].type = 2
                \/ /\ o.end = "running" /\ m.l1[t][l1pt_index(p)].type # 2
                   /\ \E u \in PageUnits : o.page = Pointer(u) /\ Grown(m, o.mem, T, t, p, u)
  BY DEF Allocated
<1> DEFINE i == l1pt_index(p)
           entry == m.l1[t][i]
           tables == Candidates(m, "L2PageTable")
           install(u) == [HandOut(m, u) EXCEPT !.l1[t][i] = Coarse(VIRT2PHYS(Pointer(u)))]
<1>1. t \in L1Tables /\ entry.type \in {0, 1, 2}
  BY LinkTypes
<1>2. CASE entry.type = 2
  <2>1. o = Outcome(m, NULL, "running")
    BY <1>2 DEF vm2_allocate_page
  <2> QED BY <1>2, <2>1 DEF Outcome
<1>3. CASE entry.type = 1
  <2>1. i \in Links(m, t)
    BY <1>3 DEF Links
  <2>2. o \in MapInL2(m, find_l2pt(entry), p)
    BY <1>3 DEF vm2_allocate_page
  <2>3. entry.base.top = 0
    BY <2>1 DEF Sound, LinksSound
  <2>4. find_l2pt(entry) = Pointer(Under(m, t, i))
    BY <2>3 DEF find_l2pt, PHYS2VIRT, Pointer, Under
  <2>5. o \in MapInL2(m, Pointer(Under(m, t, i)), p)
    BY <2>2, <2>4
  <2> QED BY <1>3, <2>1, <2>5, MapInL2Grows
<1>4. CASE entry.type = 0
  <2>1. CASE tables = {}
    <3>1. o = Outcome(m, NULL, "fault")
      BY <1>4, <2>1 DEF vm2_allocate_page
    <3> QED BY <3>1 DEF Outcome
  <2>2. CASE tables # {}
    <3>1. PICK x \in tables : o \in MapInL2(install(x), Pointer(x), p)
      BY <1>4, <2>2 DEF vm2_allocate_page
    <3>2. x \in L2Units /\ m.owned[x] = 0
      BY CandidateKinds
    <3>3. VIRT2PHYS(Pointer(x)) = Physical(x)
      BY DEF VIRT2PHYS, Pointer, Physical
    <3> DEFINE m1 == install(x)
    <3>4. m1 = TableLinked(m, t, i, x)
      BY <3>2, <3>3, HandOutTable DEF TableLinked
    <3> HIDE DEF m1
    <3>5. /\ m1 \in MemType
          /\ \A w \in Pmm!Units : m1.owned[w] = IF w = x THEN 1 ELSE m.owned[w]
          /\ \A s \in L1Tables : /\ DOMAIN m1.l1[s] = DOMAIN m.l1[s]
                                 /\ \A k \in DOMAIN m.l1[s] :
                                       m1.l1[s][k] = IF s = t /\ k = i THEN Coarse(Physical(x))
                                                                       ELSE m.l1[s][k]
      BY <1>1, <1>4, <3>2, <3>4, TableLinkedFields
    <3>6. /\ Sound(m1, T)
          /\ i \in Links(m1, t) /\ Under(m1, t, i) = x
          /\ \A s \in T : /\ PagesOf(m1, s) = PagesOf(m, s)
                          /\ Mapped(m1, s) = Mapped(m, s)
                          /\ \A q \in Mapped(m, s) : Entry(m1, s, q) = Entry(m, s, q)
      BY <1>4, <3>2, <3>4, TableLinkedSound
    <3>7. o \in MapInL2(m1, Pointer(Under(m1, t, i)), p)
      BY <3>1, <3>6 DEF m1
    <3>8. /\ o.mem \in MemType
          /\ \/ o.end \in {"fault", "panic"} /\ o.page = NULL
             \/ /\ o.end = "running"
                /\ \E u \in PageUnits : o.page = Pointer(u) /\ Grown(m1, o.mem, T, t, p, u)
      BY <3>5, <3>6, <3>7, MapInL2Grows
    <3>9. ASSUME NEW u \in PageUnits, Grown(m1, o.mem, T, t, p, u) PROVE Grown(m, o.mem, T, t, p, u)
      <4>1. m.owned[u] = 0 /\ \A w \in L1Units : m1.owned[w] = m.owned[w]
        BY <3>2, <3>5, <3>9, UnitKinds DEF Grown
      <4>2. \A s \in L1Tables : \A k \in DOMAIN m.l1[s] :
               m.l1[s][k].type # 0 \/ s # t \/ k # i => m1.l1[s][k] = m.l1[s][k]
        BY <1>4, <3>5
      <4>3. \A s \in L1Tables : \A k \in DOMAIN m.l1[s] :
               m.l1[s][k].type # 0 \/ s # t \/ k # i => o.mem.l1[s][k] = m.l1[s][k]
        BY <3>5, <3>9, <4>2 DEF Grown
      <4>4. \A s \in T :
               /\ PagesOf(o.mem, s) = IF s = t THEN PagesOf(m, t) \cup {u} ELSE PagesOf(m, s)
               /\ Mapped(o.mem, s) = IF s = t THEN Mapped(m, t) \cup {p} ELSE Mapped(m, s)
        BY <3>6, <3>9 DEF Grown
      <4>5. \A s \in T : \A q \in Mapped(m, s) : Entry(o.mem, s, q) = Entry(m, s, q)
        BY <3>6, <3>9 DEF Grown
      <4>6. \A w \in L1Units : o.mem.owned[w] = m.owned[w]
        BY <3>9, <4>1 DEF Grown
      <4>7. Sound(o.mem, T)
        BY <3>9 DEF Grown
      <4> QED BY <4>1, <4>3, <4>4, <4>5, <4>6, <4>7 DEF Grown
    <3> QED BY <1>4, <3>8, <3>9
  <2> QED BY <2>1, <2>2
<1> QED BY <1>1, <1>2, <1>3, <1>4

-----------------------------------------------------------------------------
(* Giving memory back.                                                     *)

\* Pointers tell units apart, and none is NULL.
LEMMA PointerInjective ==
    /\ \A u : Pointer(u).top = 1 /\ Pointer(u).unit = u /\ Pointer(u) # NULL
    /\ \A u, w : Pointer(u) = Pointer(w) => u = w
BY DEF Pointer, NULL

\* Giving back units that are handed out leaves the tables alone.
LEMMA TakeBackFields ==
    ASSUME NEW m \in MemType, NEW as, \A w \in Pmm!Units : Pointer(w) \in as => m.owned[w] = 1,
           NEW m2, m2 = TakeBack(m, as)
    PROVE  /\ m2 \in MemType /\ m2.l1 = m.l1 /\ m2.l2 = m.l2
           /\ \A w \in Pmm!Units : m2.owned[w] = IF Pointer(w) \in as THEN 0 ELSE m.owned[w]
<1>1. /\ m2 = [m EXCEPT !.owned = [w \in Pmm!Units |-> IF Pointer(w) \in as THEN m.owned[w] - 1
                                                                           ELSE m.owned[w]]]
  BY DEF TakeBack
<1>2. /\ m2.owned = [w \in Pmm!Units |-> IF Pointer(w) \in as THEN m.owned[w] - 1 ELSE m.owned[w]]
      /\ m2.l1 = m.l1 /\ m2.l2 = m.l2
      /\ m2 = [owned |-> m2.owned, l1 |-> m.l1, l2 |-> m.l2]
  BY <1>1, MemFields
<1>3. ASSUME NEW w \in Pmm!Units
      PROVE  /\ m2.owned[w] = IF Pointer(w) \in as THEN 0 ELSE m.owned[w]
             /\ m2.owned[w] \in {0, 1}
  <2>1. m.owned[w] \in {0, 1} /\ (Pointer(w) \in as => m.owned[w] = 1)
    BY MemFields
  <2>2. m2.owned[w] = IF Pointer(w) \in as THEN m.owned[w] - 1 ELSE m.owned[w]
    BY <1>2
  <2>3. CASE Pointer(w) \in as
    BY <2>1, <2>2, <2>3
  <2>4. CASE Pointer(w) \notin as
    BY <2>1, <2>2, <2>4
  <2> QED BY <2>3, <2>4
<1>4. m2.owned \in [Pmm!Units -> {0, 1}]
  <2>1. /\ DOMAIN m2.owned = Pmm!Units
        /\ m2.owned = [w \in Pmm!Units |-> m2.owned[w]]
    BY <1>2
  <2> QED BY <1>3, <2>1
<1> QED BY <1>2, <1>3, <1>4, MemFields DEF MemType

\* What does not depend on who owns memory.
LEMMA SameTables ==
    ASSUME NEW m, NEW m2, m2.l1 = m.l1, m2.l2 = m.l2
    PROVE  /\ \A t : /\ Links(m2, t) = Links(m, t)
                     /\ PagesOf(m2, t) = PagesOf(m, t)
                     /\ Mapped(m2, t) = Mapped(m, t)
                     /\ \A p : Entry(m2, t, p) = Entry(m, t, p)
                     /\ \A i : Under(m2, t, i) = Under(m, t, i)
           /\ \A T : Linked(m2, T) = Linked(m, T)
           /\ \A x : Leaves(m2, x) = Leaves(m, x) /\ \A j : PageAt(m2, x, j) = PageAt(m, x, j)
<1>1. \A t : Links(m2, t) = Links(m, t) /\ \A i : Under(m2, t, i) = Under(m, t, i)
  BY DEF Links, Under
<1>2. \A x : Leaves(m2, x) = Leaves(m, x) /\ \A j : PageAt(m2, x, j) = PageAt(m, x, j)
  BY DEF Leaves, PageAt
<1>3. \A t : /\ PagesOf(m2, t) = PagesOf(m, t)
             /\ Mapped(m2, t) = Mapped(m, t)
             /\ \A p : Entry(m2, t, p) = Entry(m, t, p)
  BY <1>1, <1>2 DEF PagesOf, Mapped, Entry
<1>4. \A T : Linked(m2, T) = Linked(m, T)
  BY <1>1 DEF Linked
<1> QED BY <1>1, <1>2, <1>3, <1>4

\* What is left when the address space with the L1 table t is gone.
Closed(m, m2, T, t) ==
    /\ m2 \in MemType /\ m2.l1 = m.l1 /\ m2.l2 = m.l2
    /\ \A w \in L1Units \ {t} : m2.owned[w] = m.owned[w]
    /\ Sound(m2, T \ {t})

\* free_vas gives back an L1 table and the pages it maps: the other tables stay sound.
LEMMA TakeBackSound ==
    ASSUME NEW m \in MemType, NEW T \in SUBSET L1Tables, Sound(m, T),
           NEW t \in T, t \in L1Units, m.owned[t] = 1,
           NEW m2, m2 = TakeBack(m, {Pointer(u) : u \in PagesOf(m, t)} \cup {Pointer(t)})
    PROVE  Closed(m, m2, T, t)
<1> DEFINE as == {Pointer(u) : u \in PagesOf(m, t)} \cup {Pointer(t)}
<1>1. \A w : Pointer(w) \in as <=> w \in PagesOf(m, t) \/ w = t
  BY PointerInjective
<1>2. \A w \in PagesOf(m, t) : w \in PageUnits /\ m.owned[w] = 1
  BY LinkTypes DEF PagesOf, Sound, LeavesSound, Linked
<1>3. \A w \in Pmm!Units : Pointer(w) \in as => m.owned[w] = 1
  BY <1>1, <1>2
<1> HIDE DEF as
<1>4. /\ m2 \in MemType /\ m2.l1 = m.l1 /\ m2.l2 = m.l2
      /\ \A w \in Pmm!Units : m2.owned[w] = IF w \in PagesOf(m, t) \/ w = t THEN 0 ELSE m.owned[w]
  BY <1>1, <1>3, TakeBackFields DEF as
<1>5. \A w \in L1Units \ {t} : m2.owned[w] = m.owned[w]
  BY <1>2, <1>4, UnitKinds
<1>6. /\ \A s : Links(m2, s) = Links(m, s) /\ PagesOf(m2, s) = PagesOf(m, s)
      /\ \A s, i : Under(m2, s, i) = Under(m, s, i)
      /\ \A U : Linked(m2, U) = Linked(m, U)
      /\ \A x : Leaves(m2, x) = Leaves(m, x) /\ \A j : PageAt(m2, x, j) = PageAt(m, x, j)
  <2>1. m2.l1 = m.l1 /\ m2.l2 = m.l2
    BY <1>4
  <2> QED BY ONLY <2>1, SameTables
<1> DEFINE S == T \ {t}
<1>7. LinksSound(m2, S)
  <2>1. \A s \in S : \A i \in Links(m, s) : m2.owned[Under(m, s, i)] = m.owned[Under(m, s, i)]
    BY <1>2, <1>4, LinkTypes, UnitKinds
  <2>2. /\ \A s \in S : s \in T
        /\ \A s \in T : \A i \in Links(m, s) : m.l1[s][i].base.top = 0 /\ m.owned[Under(m, s, i)] = 1
        /\ \A s1, s2 \in T : \A i \in Links(m, s1), k \in Links(m, s2) :
              Under(m, s1, i) = Under(m, s2, k) => s1 = s2 /\ i = k
    BY DEF Sound, LinksSound
  <2>3. \A s \in S : \A i \in Links(m2, s) :
           m2.l1[s][i].base.top = 0 /\ m2.owned[Under(m2, s, i)] = 1
    BY <1>4, <1>6, <2>1, <2>2
  <2>4. \A s1, s2 \in S : \A i \in Links(m2, s1), k \in Links(m2, s2) :
           Under(m2, s1, i) = Under(m2, s2, k) => s1 = s2 /\ i = k
    BY <1>6, <2>2
  <2> HIDE DEF S
  <2> QED BY <2>3, <2>4 DEF LinksSound
<1>8. Linked(m, S) \subseteq Linked(m, T)
  BY DEF Linked
<1>9. ASSUME NEW x \in Linked(m, S), NEW j \in Leaves(m, x)
      PROVE  PageAt(m, x, j) \notin PagesOf(m, t) /\ PageAt(m, x, j) \in PageUnits
  <2>1. x \in L2Units /\ PageAt(m, x, j) \in PageUnits
    BY LeafTypes DEF Linked
  <2>2. PICK s \in S : \E i \in Links(m, s) : x = Under(m, s, i)
    BY DEF Linked
  <2>3. PICK i \in Links(m, s) : x = Under(m, s, i)
    BY <2>2
  <2>4. SUFFICES ASSUME PageAt(m, x, j) \in PagesOf(m, t) PROVE FALSE
    BY <2>1
  <2>5. PICK k \in Links(m, t) : \E l \in Leaves(m, Under(m, t, k)) :
           PageAt(m, x, j) = PageAt(m, Under(m, t, k), l)
    BY <2>4 DEF PagesOf
  <2>6. Under(m, t, k) \in Linked(m, T) /\ x \in Linked(m, T)
    BY <1>8, LinkTypes DEF Linked
  <2>7. x = Under(m, t, k)
    BY <2>5, <2>6 DEF Sound, LeavesSound
  <2> QED BY <2>2, <2>3, <2>7 DEF Sound, LinksSound
<1>10. LeavesSound(m2, S)
  <2>1. \A x \in Linked(m, S) : \A j \in Leaves(m, x) :
           m2.owned[PageAt(m, x, j)] = 1
    <3>1. \A x \in Linked(m, S) : \A j \in Leaves(m, x) : m.owned[PageAt(m, x, j)] = 1
      BY <1>8 DEF Sound, LeavesSound
    <3>2. \A x \in Linked(m, S) : \A j \in Leaves(m, x) :
             PageAt(m, x, j) # t /\ PageAt(m, x, j) \in Pmm!Units
      BY <1>9, UnitKinds
    <3> QED BY <1>4, <1>9, <3>1, <3>2
  <2>2. /\ \A x \in Linked(m, S) : \A j \in Leaves(m, x) : m2.l2[x][j].base.top = 0
        /\ \A x, y \in Linked(m, S) : \A j \in Leaves(m, x), k \in Leaves(m, y) :
              PageAt(m, x, j) = PageAt(m, y, k) => x = y /\ j = k
    <3>1. /\ \A x \in Linked(m, T) : \A j \in Leaves(m, x) : m.l2[x][j].base.top = 0
          /\ \A x, y \in Linked(m, T) : \A j \in Leaves(m, x), k \in Leaves(m, y) :
                PageAt(m, x, j) = PageAt(m, y, k) => x = y /\ j = k
      BY DEF Sound, LeavesSound
    <3> HIDE DEF S
    <3>2. \A x \in Linked(m, S) : x \in Linked(m, T)
      BY <1>8
    <3>3. m2.l2 = m.l2
      BY <1>4
    <3>4. \A x, y \in Linked(m, S) : \A j \in Leaves(m, x), k \in Leaves(m, y) :
             PageAt(m, x, j) = PageAt(m, y, k) => x = y /\ j = k
      BY <3>1, <3>2, Zenon
    <3>5. \A x \in Linked(m, S) : \A j \in Leaves(m, x) : m2.l2[x][j].base.top = 0
      BY <3>1, <3>2, <3>3
    <3> QED BY <3>4, <3>5
  <2> HIDE DEF S
  <2> QED BY <1>6, <2>1, <2>2 DEF LeavesSound
<1>11. PagesMapped(m2, S)
  <2> SUFFICES ASSUME NEW u \in PageUnits, m2.owned[u] = 1 PROVE \E s \in S : u \in PagesOf(m2, s)
    BY DEF PagesMapped
  <2>1. u \notin PagesOf(m, t) /\ m.owned[u] = 1
    BY <1>4, UnitKinds
  <2>2. PICK s \in T : u \in PagesOf(m, s)
    BY <2>1 DEF Sound, PagesMapped
  <2> QED BY <1>6, <2>1, <2>2
<1> QED BY <1>4, <1>5, <1>7, <1>10, <1>11 DEF Sound, Closed

\* From memory m to m2 page p of table t, and nothing else of the tables T, has
\* become unmapped.
Shrunk(m, m2, T, t, p) ==
    /\ m2 \in MemType /\ m2.l1 = m.l1
    /\ Sound(m2, T)
    /\ \A w \in L1Units : m2.owned[w] = m.owned[w]
    /\ \A s \in T : Mapped(m2, s) = IF s = t THEN Mapped(m, t) \ {p} ELSE Mapped(m, s)
    /\ \A s \in T \ {t} : /\ PagesOf(m2, s) = PagesOf(m, s)
                          /\ \A q \in Mapped(m, s) : Entry(m2, s, q) = Entry(m, s, q)

\* vm2_free_page of a mapped page gives its memory back and unmaps it, and only it.
LEMMA FreePageOutcome ==
    ASSUME NEW m \in MemType, NEW T \in SUBSET L1Tables, Sound(m, T),
           NEW t \in T, NEW p \in Mapped(m, t),
           NEW o, o = vm2_free_page(m, t, p)
    PROVE  o.end = "running" /\ Shrunk(m, o.mem, T, t, p)
<1> DEFINE i == l1pt_index(p)
           j == l2pt_index(p)
           x == Under(m, t, i)
           u == PageAt(m, x, j)
<1>1. /\ p \in Nat /\ i \in Links(m, t) /\ j \in Leaves(m, x) /\ j \in L2Indexes
      /\ t \in L1Tables /\ i \in Nat /\ i \in DOMAIN m.l1[t]
  BY PageSplit, LinkTypes DEF Mapped, Links
<1>2. /\ x \in L2Units /\ u \in PageUnits /\ x \in Linked(m, T)
      /\ m.l1[t][i].type = 1 /\ m.l1[t][i].base.top = 0
      /\ m.l2[x][j].base.top = 0 /\ m.owned[u] = 1
  <2>1. x \in L2Units /\ x \in Linked(m, T) /\ m.l1[t][i].type = 1
    BY <1>1, LinkTypes DEF Linked, Links
  <2>2. u \in PageUnits
    BY <1>1, <2>1, LeafTypes
  <2>3. m.l1[t][i].base.top = 0
    BY <1>1 DEF Sound, LinksSound
  <2>4. m.l2[x][j].base.top = 0 /\ m.owned[u] = 1
    BY <1>1, <2>1 DEF Sound, LeavesSound
  <2> QED BY <2>1, <2>2, <2>3, <2>4
<1>3. /\ find_l2pt(m.l1[t][i]).unit = x
      /\ VIRT2PHYS(m.l2[x][j].base) = Pointer(u)
  <2>1. find_l2pt(m.l1[t][i]).unit = x
    BY DEF find_l2pt, PHYS2VIRT, Under
  <2>2. \A a : a.top = 0 => VIRT2PHYS(a) = Pointer(a.unit)
    BY DEF VIRT2PHYS, Pointer
  <2> QED BY <1>2, <2>1, <2>2 DEF PageAt
<1>4. MayFree(m, Pointer(u))
  BY <1>2, PointerInjective, UnitKinds DEF MayFree
<1> DEFINE taken == TakeBack(m, {Pointer(u)})
           m2 == [taken EXCEPT !.l2[x][j] = Invalid]
<1>5. o = Outcome(m2, Pointer(u), "running")
  BY <1>2, <1>3, <1>4 DEF vm2_free_page
<1>6. /\ taken \in MemType /\ taken.l1 = m.l1 /\ taken.l2 = m.l2
      /\ \A w \in Pmm!Units : taken.owned[w] = IF w = u THEN 0 ELSE m.owned[w]
  <2>1. \A w \in Pmm!Units : Pointer(w) \in {Pointer(u)} <=> w = u
    BY PointerInjective
  <2>2. \A w \in Pmm!Units : Pointer(w) \in {Pointer(u)} => m.owned[w] = 1
    BY <1>2, <2>1
  <2> HIDE DEF u
  <2> QED BY <2>1, <2>2, TakeBackFields
<1> HIDE DEF taken
<1>7. /\ m2.owned = taken.owned /\ m2.l1 = m.l1
      /\ m2.l2 = [m.l2 EXCEPT ![x] = [m.l2[x] EXCEPT ![j] = Invalid]]
      /\ m2 = [owned |-> m2.owned, l1 |-> m2.l1, l2 |-> m2.l2]
  <2>1. taken = [owned |-> taken.owned, l1 |-> m.l1, l2 |-> m.l2]
    BY <1>6, MemFields
  <2> HIDE DEF x, i, j, u
  <2> QED BY <2>1
<1>8. o.mem = m2 /\ o.end = "running"
  BY <1>5 DEF Outcome
<1> HIDE DEF m2, x, u, i, j
<1>9. \A y \in L2Units, k \in L2Indexes :
         m2.l2[y][k] = IF y = x /\ k = j THEN Invalid ELSE m.l2[y][k]
  BY <1>1, <1>2, <1>7, MemFields
<1>10. m2.l2 \in [L2Units -> [L2Indexes -> Entries({2}, PageUnits)]]
  BY <1>1, <1>2, <1>7, MemFields, EntryTypes
<1>11. m2 \in MemType
  BY <1>6, <1>7, <1>10, MemFields DEF MemType
<1>12. \A w \in Pmm!Units : m2.owned[w] = IF w = u THEN 0 ELSE m.owned[w]
  BY <1>6, <1>7
<1>13. /\ \A s : Links(m2, s) = Links(m, s)
       /\ \A s, k : Under(m2, s, k) = Under(m, s, k)
       /\ \A U : Linked(m2, U) = Linked(m, U)
  <2>1. \A s : Links(m2, s) = Links(m, s) /\ \A k : Under(m2, s, k) = Under(m, s, k)
    BY <1>7 DEF Links, Under
  <2> QED BY <2>1 DEF Linked
<1>14. /\ \A y \in L2Units : Leaves(m2, y) = IF y = x THEN Leaves(m, x) \ {j} ELSE Leaves(m, y)
       /\ \A y \in L2Units : \A k \in Leaves(m2, y) : m2.l2[y][k] = m.l2[y][k]
  BY <1>9, EntryTypes DEF Leaves
<1>15. \A y \in L2Units : \A k \in Leaves(m2, y) :
          k \in Leaves(m, y) /\ PageAt(m2, y, k) = PageAt(m, y, k) /\ ~(y = x /\ k = j)
  BY <1>14 DEF PageAt
<1>16. \A w \in L1Units : m2.owned[w] = m.owned[w]
  BY <1>2, <1>12, UnitKinds
<1>17. LinksSound(m2, T)
  <2>1. \A s \in T : \A k \in Links(m, s) : Under(m, s, k) \in Pmm!Units /\ Under(m, s, k) # u
    BY <1>2, LinkTypes, UnitKinds
  <2> QED BY <1>7, <1>12, <1>13, <2>1 DEF Sound, LinksSound
<1>18. \A y \in Linked(m, T) : \A k \in Leaves(m, y) :
          y \in L2Units /\ PageAt(m, y, k) \in PageUnits /\ (PageAt(m, y, k) = u => y = x /\ k = j)
  BY <1>1, <1>2, LeafTypes DEF Sound, LeavesSound, Linked, u
<1>19. LeavesSound(m2, T)
  <2>1. \A y \in Linked(m, T) : \A k \in Leaves(m2, y) :
          /\ k \in Leaves(m, y) /\ PageAt(m2, y, k) = PageAt(m, y, k)
          /\ m2.l2[y][k] = m.l2[y][k] /\ PageAt(m, y, k) # u /\ PageAt(m, y, k) \in Pmm!Units
    BY <1>14, <1>15, <1>18, UnitKinds DEF Linked
  <2> QED BY <1>12, <1>13, <2>1 DEF Sound, LeavesSound
<1>20. \A s \in T : \A k \in Links(m, s) :
          Under(m, s, k) \in Linked(m, T) /\ (Under(m, s, k) = x => s = t /\ k = i)
  BY <1>1, LinkTypes DEF Sound, LinksSound, Linked, x
<1>21. ASSUME NEW s \in T
       PROVE  \A w \in PageUnits : w # u => (w \in PagesOf(m2, s) <=> w \in PagesOf(m, s))
  <2>1. \A k \in Links(m, s) : \A l \in Leaves(m, Under(m, s, k)) : PageAt(m, Under(m, s, k), l) # u =>
           l \in Leaves(m2, Under(m, s, k)) /\ PageAt(m2, Under(m, s, k), l) = PageAt(m, Under(m, s, k), l)
    BY <1>14, <1>15, <1>18, <1>20 DEF u
  <2>2. \A k \in Links(m, s) : \A l \in Leaves(m2, Under(m, s, k)) :
           l \in Leaves(m, Under(m, s, k)) /\ PageAt(m2, Under(m, s, k), l) = PageAt(m, Under(m, s, k), l)
    BY <1>15, <1>18, <1>20 DEF Linked
  <2> QED BY <1>13, <2>1, <2>2 DEF PagesOf
<1>22. PagesMapped(m2, T)
  <2> SUFFICES ASSUME NEW w \in PageUnits, m2.owned[w] = 1 PROVE \E s \in T : w \in PagesOf(m2, s)
    BY DEF PagesMapped
  <2>1. w # u /\ m.owned[w] = 1
    BY <1>12, UnitKinds
  <2> QED BY <1>21, <2>1 DEF Sound, PagesMapped
<1>23. ASSUME NEW s \in T \ {t}, NEW k \in Links(m, s)
       PROVE  /\ Under(m, s, k) \in L2Units
              /\ Leaves(m2, Under(m, s, k)) = Leaves(m, Under(m, s, k))
              /\ \A l \in L2Indexes : m2.l2[Under(m, s, k)][l] = m.l2[Under(m, s, k)][l]
  BY <1>9, <1>14, <1>20, <1>23 DEF Linked
<1>24. ASSUME NEW s \in T \ {t}
       PROVE  /\ PagesOf(m2, s) = PagesOf(m, s)
              /\ Mapped(m2, s) = Mapped(m, s)
              /\ \A q \in Mapped(m, s) : Entry(m2, s, q) = Entry(m, s, q)
  <2>1. \A k \in Links(m, s) : \A l \in Leaves(m, Under(m, s, k)) :
           PageAt(m2, Under(m, s, k), l) = PageAt(m, Under(m, s, k), l)
    BY <1>23 DEF PageAt, Leaves
  <2>2. PagesOf(m2, s) = PagesOf(m, s)
    BY <1>13, <1>23, <2>1 DEF PagesOf
  <2>3. Mapped(m2, s) = Mapped(m, s)
    BY <1>13, <1>23 DEF Mapped
  <2>4. \A q \in Mapped(m, s) : Entry(m2, s, q) = Entry(m, s, q)
    BY <1>13, <1>23 DEF Mapped, Entry, Leaves
  <2> QED BY <2>2, <2>3, <2>4
<1>25. Mapped(m2, t) = Mapped(m, t) \ {p}
  <2> DEFINE R == 0 .. (MmioBase + 1) * L2Entries - 1
  <2>1. \A q \in R : q \in Nat /\ l2pt_index(q) \in L2Indexes
    BY PageSplit
  <2>2. \A q \in R : l1pt_index(q) = i /\ l2pt_index(q) = j => q = p
    BY <1>1, <2>1, PageSplit DEF i, j
  <2>3. p \in R /\ l1pt_index(p) = i /\ l2pt_index(p) = j
    BY DEF Mapped, i, j
  <2> HIDE DEF R
  <2>4. \A q \in R : l1pt_index(q) \in Links(m, t) =>
           (l2pt_index(q) \in Leaves(m2, Under(m, t, l1pt_index(q)))
              <=> l2pt_index(q) \in Leaves(m, Under(m, t, l1pt_index(q))) /\ q # p)
    <3> SUFFICES ASSUME NEW q \in R, l1pt_index(q) \in Links(m, t)
                 PROVE  l2pt_index(q) \in Leaves(m2, Under(m, t, l1pt_index(q)))
                          <=> l2pt_index(q) \in Leaves(m, Under(m, t, l1pt_index(q))) /\ q # p
      OBVIOUS
    <3>1. Under(m, t, l1pt_index(q)) \in L2Units
      BY <1>20 DEF Linked
    <3>2. CASE Under(m, t, l1pt_index(q)) = x
      BY <1>14, <1>20, <2>2, <2>3, <3>1, <3>2
    <3>3. CASE Under(m, t, l1pt_index(q)) # x
      <4>1. q # p
        BY <2>3, <3>3 DEF x
      <4> QED BY <1>14, <3>1, <3>3, <4>1
    <3> QED BY <3>2, <3>3
  <2> QED BY <1>13, <2>4 DEF Mapped, R
<1> QED BY <1>7, <1>8, <1>11, <1>16, <1>17, <1>19, <1>22, <1>24, <1>25 DEF Sound, Shrunk

-----------------------------------------------------------------------------
(* A new L1 table, and the kernel's table during boot.                     *)

\* From memory m to m2 the empty table t has joined the tables T.
Opened(m, m2, T, t) ==
    /\ m2 \in MemType
    /\ \A w \in Pmm!Units : m2.owned[w] = IF w = t THEN 1 ELSE m.owned[w]
    /\ \A s \in L1Tables \ {t} : m2.l1[s] = m.l1[s]
    /\ Sound(m2, T \cup {t})
    /\ PagesOf(m2, t) = {}
    /\ \A s \in T : /\ PagesOf(m2, s) = PagesOf(m, s)
                    /\ Mapped(m2, s) = Mapped(m, s)
                    /\ \A q \in Mapped(m, s) : Entry(m2, s, q) = Entry(m, s, q)

\* create_vas gets a table nobody had, and it is empty whatever it held before.
LEMMA NewTableSound ==
    ASSUME NEW m \in MemType, NEW T \in SUBSET L1Tables, Sound(m, T),
           NEW t \in L1Units \ T, m.owned[t] = 0,
           NEW m2, m2 = HandOut(m, t)
    PROVE  Opened(m, m2, T, t)
<1> DEFINE empty == [i \in UserIndexes |-> Invalid]
           S == T \cup {t}
<1>1. t \in Pmm!Units /\ t \notin L2Units /\ t \notin PageUnits /\ t \in L1Tables
      /\ t # kernell1PageTable
  BY UnitKinds DEF L1Tables
<1>2. m2 = [owned |-> [m.owned EXCEPT ![t] = @ + 1], l1 |-> [m.l1 EXCEPT ![t] = empty], l2 |-> m.l2]
  BY <1>1 DEF HandOut
<1>3. [m.owned EXCEPT ![t] = @ + 1] = [m.owned EXCEPT ![t] = 1]
  BY <1>1, MemFields
<1> HIDE DEF empty
<1>4. /\ m2.owned = [m.owned EXCEPT ![t] = 1] /\ m2.l1 = [m.l1 EXCEPT ![t] = empty]
      /\ m2.l2 = m.l2 /\ m2 = [owned |-> m2.owned, l1 |-> m2.l1, l2 |-> m2.l2]
  BY <1>2, <1>3
<1>5. empty \in UserTable
  BY EntryTypes DEF empty, UserTable
<1>6. \A s \in L1Tables : m2.l1[s] = IF s = t THEN empty ELSE m.l1[s]
  BY <1>4, MemFields
<1>7. m2 \in MemType
  <2>1. m2.owned \in [Pmm!Units -> {0, 1}]
    BY <1>1, <1>4, MemFields
  <2>2. m2.l1 \in [L1Tables -> UserTable \cup KernelTable]
    BY <1>1, <1>4, <1>5, MemFields
  <2>3. m2.l1[kernell1PageTable] \in KernelTable
    BY <1>1, <1>6, MemFields DEF L1Tables
  <2>4. \A s \in L1Units : m2.l1[s] \in UserTable
    BY <1>5, <1>6, MemFields DEF L1Tables
  <2> QED BY <1>4, <2>1, <2>2, <2>3, <2>4, MemFields DEF MemType
<1>8. \A w \in Pmm!Units : m2.owned[w] = IF w = t THEN 1 ELSE m.owned[w]
  BY <1>4, MemFields
<1>9. Links(m2, t) = {}
  <2>1. \A i \in UserIndexes : empty[i].type = 0
    BY EntryTypes DEF empty
  <2>2. DOMAIN empty = UserIndexes
    BY DEF empty
  <2>3. m2.l1[t] = empty
    BY <1>1, <1>6
  <2> QED BY <2>1, <2>2, <2>3 DEF Links
<1>10. \A s \in T : Links(m2, s) = Links(m, s) /\ \A i : Under(m2, s, i) = Under(m, s, i)
  BY <1>6 DEF Links, Under
<1>11. \A x : Leaves(m2, x) = Leaves(m, x) /\ \A j : PageAt(m2, x, j) = PageAt(m, x, j)
  BY <1>4 DEF Leaves, PageAt
<1>12. Linked(m2, S) = Linked(m, T)
  BY <1>9, <1>10 DEF Linked
<1>13. LinksSound(m2, S)
  <2>1. \A s \in T : \A i \in Links(m, s) : /\ m2.l1[s][i] = m.l1[s][i]
                                            /\ m2.owned[Under(m, s, i)] = m.owned[Under(m, s, i)]
    BY <1>1, <1>6, <1>8, LinkTypes, UnitKinds
  <2>2. \A s \in T : \A i \in Links(m2, s) :
           m2.l1[s][i].base.top = 0 /\ m2.owned[Under(m2, s, i)] = 1
    BY <1>10, <2>1 DEF Sound, LinksSound
  <2>3. \A s1, s2 \in T : \A i \in Links(m2, s1), k \in Links(m2, s2) :
           Under(m2, s1, i) = Under(m2, s2, k) => s1 = s2 /\ i = k
    BY <1>10 DEF Sound, LinksSound
  <2> QED BY <1>9, <2>2, <2>3 DEF LinksSound
<1>14. LeavesSound(m2, S)
  <2>1. \A x \in Linked(m, T) : \A j \in Leaves(m, x) :
           PageAt(m, x, j) \in Pmm!Units /\ PageAt(m, x, j) # t
    BY <1>1, LeafTypes, UnitKinds DEF Linked
  <2> HIDE DEF S
  <2>2. /\ \A x \in Linked(m, T) : \A j \in Leaves(m, x) :
              m2.l2[x][j].base.top = 0 /\ m2.owned[PageAt(m, x, j)] = 1
        /\ \A x, y \in Linked(m, T) : \A j \in Leaves(m, x), k \in Leaves(m, y) :
              PageAt(m, x, j) = PageAt(m, y, k) => x = y /\ j = k
    BY <1>4, <1>8, <2>1 DEF Sound, LeavesSound
  <2> QED BY <1>11, <1>12, <2>2 DEF LeavesSound
<1>15. \A s \in T : /\ PagesOf(m2, s) = PagesOf(m, s)
                    /\ Mapped(m2, s) = Mapped(m, s)
                    /\ \A q \in Mapped(m, s) : Entry(m2, s, q) = Entry(m, s, q)
  BY <1>4, <1>10, <1>11 DEF PagesOf, Mapped, Entry
<1>16. PagesOf(m2, t) = {}
  BY <1>9 DEF PagesOf
<1>17. PagesMapped(m2, S)
  <2>1. \A u \in PageUnits : u \in Pmm!Units /\ u # t
    BY <1>1, UnitKinds
  <2> QED BY <1>8, <1>15, <2>1 DEF Sound, PagesMapped
<1> QED BY <1>6, <1>7, <1>8, <1>13, <1>14, <1>15, <1>16, <1>17 DEF Sound, Opened

WithKernelTable(m, table) == [m EXCEPT !.l1[kernell1PageTable] = table]

\* The kernel's table is rewritten with sections and invalid entries only.
LEMMA KernelTableReplaced ==
    ASSUME NEW m \in MemType, NEW table \in KernelTable,
           NEW m2, m2 = WithKernelTable(m, table)
    PROVE  /\ m2 \in MemType /\ m2.owned = m.owned /\ m2.l1[kernell1PageTable] = table
<1>1. /\ m2.owned = m.owned /\ m2.l1 = [m.l1 EXCEPT ![kernell1PageTable] = table]
      /\ m2.l2 = m.l2 /\ m2 = [owned |-> m2.owned, l1 |-> m2.l1, l2 |-> m2.l2]
  BY MemFields DEF WithKernelTable
<1>2. kernell1PageTable \in L1Tables /\ kernell1PageTable \notin L1Units
  BY UnitKinds DEF L1Tables
<1>3. m2.l1 \in [L1Tables -> UserTable \cup KernelTable] /\ m2.l1[kernell1PageTable] = table
  BY <1>1, <1>2, MemFields
<1>4. \A s \in L1Units : m2.l1[s] \in UserTable
  BY <1>1, <1>2, MemFields DEF L1Tables
<1> QED BY <1>1, <1>3, <1>4, MemFields DEF MemType

\* Before anything is handed out.
LEMMA EmptySound ==
    ASSUME NEW m \in MemType, \A u \in Pmm!Units : m.owned[u] = 0,
           Links(m, kernell1PageTable) = {}
    PROVE  /\ Sound(m, {kernell1PageTable})
           /\ Mapped(m, kernell1PageTable) = {}
BY UnitKinds DEF Sound, LinksSound, LeavesSound, PagesMapped, Linked, Mapped

-----------------------------------------------------------------------------
(* The invariant and the actions.                                          *)

\* A step keeps what the tables of surviving address spaces map.
Kept ==
    Alive' => \A v \in TableHolders : v \in Live' =>
                 /\ vas'[v].l1PageTable = vas[v].l1PageTable
                 /\ \A p \in Mapped(mem, vas[v].l1PageTable.unit) :
                       /\ p \in Mapped(mem', vas[v].l1PageTable.unit)
                       /\ Entry(mem', vas[v].l1PageTable.unit, p) =
                             Entry(mem, vas[v].l1PageTable.unit, p)

\* The tables of live address spaces are L1 tables other than the kernel's.
LEMMA HolderTables ==
    ASSUME VasTypeOK
    PROVE  /\ LiveTables \in SUBSET L1Tables
           /\ kernell1PageTable \in LiveTables
           /\ \A v \in TableHolders : /\ vas[v].l1PageTable.unit \in L1Units
                                      /\ vas[v].l1PageTable = Pointer(vas[v].l1PageTable.unit)
                                      /\ vas[v].l1PageTable.unit \in LiveTables
           /\ \A t \in LiveTables : t # kernell1PageTable =>
                 t \in L1Units /\ \E v \in TableHolders : t = vas[v].l1PageTable.unit
           /\ Live = {} => LiveTables = {kernell1PageTable} /\ TableHolders = {}
<1>1. \A v \in TableHolders : v \in Vas /\ vas[v].l1PageTable \in {Pointer(u) : u \in L1Units}
  BY DEF VasTypeOK, TableHolders, Live
<1>2. \A v \in TableHolders : /\ vas[v].l1PageTable.unit \in L1Units
                              /\ vas[v].l1PageTable = Pointer(vas[v].l1PageTable.unit)
  BY <1>1, PointerInjective
<1>3. LiveTables = {kernell1PageTable} \cup {vas[v].l1PageTable.unit : v \in TableHolders}
  BY DEF LiveTables, TableHolders
<1>4. Live = {} => TableHolders = {}
  BY DEF TableHolders
<1> QED BY <1>2, <1>3, <1>4 DEF L1Tables

\* The tables of the live address spaces depend on vas only.
LEMMA SameVas ==
    ASSUME vas' = vas
    PROVE  Live' = Live /\ TableHolders' = TableHolders /\ LiveTables' = LiveTables
BY DEF Live, TableHolders, LiveTables

\* Once the kernel has ended only types are left to keep.
LEMMA Ended ==
    ASSUME StrongTypeOK', stage' \in {"fault", "panic"}
    PROVE  MemoryInv' /\ Kept
BY DEF MemoryInv, NothingYet, Booting, PeripheralsMapped, WindowMapped, HeapLaidOut, Alive, Kept

\* When startup.s is done nothing is handed out.
LEMMA InitMemoryInv == Init => MemoryInv
<1> SUFFICES ASSUME Init PROVE MemoryInv
  OBVIOUS
<1> DEFINE kernel == [i \in KernelIndexes |-> IF i \in {0, KernelBase} THEN Section(0) ELSE Invalid]
           user == [i \in UserIndexes |-> Invalid]
<1>1. kernel \in KernelTable /\ user \in UserTable
  BY EntryTypes DEF KernelTable, UserTable
<1> HIDE DEF kernel, user
<1>2. /\ mem = [owned |-> mem.owned, l1 |-> mem.l1, l2 |-> mem.l2]
      /\ mem.owned = [u \in Pmm!Units |-> 0]
      /\ mem.l1 = [t \in L1Tables |-> IF t = kernell1PageTable THEN kernel ELSE user]
      /\ mem.l2 = [t \in L2Units |-> [j \in L2Indexes |-> Invalid]]
  BY DEF Init, VmInit, L1Tables, kernel, user
<1>3. mem \in MemType /\ mem.l1[kernell1PageTable] = kernel
  <2>1. mem.owned \in [Pmm!Units -> {0, 1}]
    BY <1>2
  <2>2. mem.l1 \in [L1Tables -> UserTable \cup KernelTable]
    BY <1>1, <1>2
  <2>3. mem.l2 \in [L2Units -> [L2Indexes -> Entries({2}, PageUnits)]]
    BY <1>2, EntryTypes
  <2>4. mem.l1[kernell1PageTable] = kernel /\ \A t \in L1Units : mem.l1[t] = user
    BY <1>2, UnitKinds DEF L1Tables
  <2> QED BY <1>1, <1>2, <2>1, <2>2, <2>3, <2>4 DEF MemType
<1>4. AsidTypeOK
  <2>1. 0 \in Asids /\ 0 \in 0 .. IterationCount - 1
    BY AsidAssumption DEF Asids
  <2>2. curr \in Asids /\ allocated_ids \in [Asids -> 0 .. IterationCount - 1]
    BY <2>1 DEF Init, AsidInit
  <2>3. tlb_everything_allocated \in BOOLEAN
    BY Zenon DEF Init, AsidInit
  <2> QED BY <2>2, <2>3 DEF AsidTypeOK
<1>5. VasTypeOK
  <2>1. 0 \in Asids /\ 0 \in 0 .. IterationCount - 1
    BY AsidAssumption DEF Asids
  <2>2. NoVas \in [state : {"none", "live", "freed"},
                   tlbDescriptor : [asid : Asids, cache_iteration : 0 .. IterationCount - 1],
                   l1PageTable : {Pointer(u) : u \in L1Units} \cup {NULL},
                   l2tables : {{}},
                   pages : SUBSET {Pointer(u) : u \in PageUnits}]
    BY <2>1 DEF NoVas
  <2> QED BY <2>1, <2>2 DEF Init, VasTypeOK, L1Tables
<1>6. stage = "chipset" /\ heap_end = 0 /\ mmio_current_top = MmioBase
  BY DEF Init, VmInit
<1>7. StrongTypeOK
  BY <1>3, <1>4, <1>5, <1>6, Sizes DEF StrongTypeOK, Stages
<1>8. Links(mem, kernell1PageTable) = {} /\ mem.l1[kernell1PageTable][MmioBase] = Invalid
  <2>1. DOMAIN kernel = KernelIndexes /\ \A i \in KernelIndexes : kernel[i].type # 1
    BY EntryTypes DEF kernel
  <2>2. kernel[MmioBase] = Invalid
    BY Sizes DEF kernel, KernelIndexes
  <2> QED BY <1>3, <2>1, <2>2 DEF Links
<1>9. Live = {}
  BY DEF Init, Live, NoVas
<1>10. \A u \in Pmm!Units : mem.owned[u] = 0
  BY <1>2
<1>11. LiveTables = {kernell1PageTable} /\ TableHolders = {}
  BY <1>5, <1>9, HolderTables
<1>12. Sound(mem, LiveTables)
  BY <1>3, <1>8, <1>10, <1>11, EmptySound
<1> QED BY <1>6, <1>7, <1>8, <1>9, <1>10, <1>11, <1>12
       DEF MemoryInv, NothingYet, PeripheralsMapped, WindowMapped, HeapLaidOut, TablesHeld, PagesListed

\* What the kernel's own actions leave alone.
LEMMA KernelFrame ==
    ASSUME StrongTypeOK, UNCHANGED <<asidvars, vas, contextid, current>>,
           ttbr0' \in {ttbr0, NULL}, tlb' \in {tlb, {}},
           mem' \in MemType, mmio_current_top' \in HeapBase .. MmioBase,
           heap_end' \in Nat, stage' \in Stages
    PROVE  StrongTypeOK'
<1>1. VasTypeOK'
  BY DEF StrongTypeOK, VasTypeOK
<1>2. AsidTypeOK'
  BY DEF StrongTypeOK, AsidTypeOK, asidvars
<1> QED BY <1>1, <1>2 DEF StrongTypeOK

\* Booting, nothing is handed out and no address space lives.
LEMMA BootedInv ==
    ASSUME MemoryInv, Booting, stage' \in {"vm", "vectors"}, StrongTypeOK', vas' = vas,
           mem'.owned = mem.owned, Links(mem', kernell1PageTable) = {},
           mem'.l1[kernell1PageTable][MmioBase] = Invalid, heap_end' = heap_end,
           PeripheralsMapped', WindowMapped'
    PROVE  MemoryInv' /\ Kept
<1>1. /\ \A u \in Pmm!Units : mem'.owned[u] = 0
      /\ Live' = {} /\ heap_end' = 0
  BY SameVas DEF MemoryInv, NothingYet
<1>2. /\ mem' \in MemType /\ VasTypeOK'
  BY DEF StrongTypeOK
<1>3. LiveTables' = {kernell1PageTable} /\ TableHolders' = {}
  <2>1. VasTypeOK /\ Live = {}
    BY DEF MemoryInv, StrongTypeOK, NothingYet
  <2> QED BY <2>1, HolderTables, SameVas
<1>4. Sound(mem', LiveTables')
  BY <1>1, <1>2, <1>3, EmptySound
<1>5. (TablesHeld /\ PagesListed /\ NothingYet /\ HeapLaidOut)' /\ stage' # "corrupt"
  BY <1>1, <1>3 DEF TablesHeld, PagesListed, NothingYet, HeapLaidOut, Booting
<1>6. Kept
  BY <1>1 DEF Kept
<1>7. MemoryInv'
  BY <1>4, <1>5 DEF MemoryInv
<1> QED BY <1>6, <1>7

\* bcm2836_init enters the peripherals below MmioBase.
LEMMA MapPeripheralsInv ==
    ASSUME MemoryInv, bcm2836_init, UNCHANGED <<asidvars, vas, contextid, current>>,
           ttbr0' \in {ttbr0, NULL}, tlb' \in {tlb, {}}
    PROVE  MemoryInv' /\ Kept
<1> DEFINE t == mem.l1[kernell1PageTable]
           n1 == Peripherals[1][2]
           n2 == Peripherals[2][2]
           a1 == Peripherals[1][1]
           a2 == Peripherals[2][1]
           top1 == MmioBase - n1
           top2 == top1 - n2
           one == vm2_map_peripheral(t, MmioBase, a1, n1)
           two == vm2_map_peripheral(one, top1, a2, n2)
<1>1. /\ n1 \in Nat \ {0} /\ n2 \in Nat \ {0} /\ a1 \in Nat /\ a2 \in Nat
      /\ HeapBase + n1 + n2 <= MmioBase /\ MmioBase \in Nat /\ HeapBase \in Nat \ {0}
  BY PeripheralsAssumption, Sizes
<1>2. mmio_current_top = MmioBase /\ Booting /\ stage = "chipset"
  BY DEF bcm2836_init, MemoryInv, NothingYet, Booting
<1>3. /\ mem' = WithKernelTable(mem, two)
      /\ mmio_current_top' = top2 /\ stage' = "vm" /\ heap_end' = heap_end
  BY <1>2, Zenon DEF bcm2836_init, WithKernelTable
<1>4. mem \in MemType /\ t \in KernelTable
  BY MemFields DEF MemoryInv, StrongTypeOK
<1>5. /\ top1 \in Nat /\ top2 \in Nat /\ HeapBase <= top2 /\ top2 < top1 /\ top1 < MmioBase
      /\ top1 - n2 = top2 /\ MmioBase - n1 = top1
      /\ top2 + n2 = top1 /\ top1 + n1 = MmioBase
  BY <1>1
<1> HIDE DEF n1, n2, a1, a2, top1, top2, t
<1>6. \A i \in KernelIndexes :
         one[i] = IF i \in top1 .. MmioBase - 1 THEN Section(a1 + (i - top1)) ELSE t[i]
  BY <1>5 DEF vm2_map_peripheral
<1>7. /\ two = [i \in KernelIndexes |-> two[i]]
      /\ \A i \in KernelIndexes :
            two[i] = IF i \in top2 .. top1 - 1 THEN Section(a2 + (i - top2)) ELSE one[i]
  BY <1>5 DEF vm2_map_peripheral
<1> HIDE DEF one, two
<1>8. \A i \in KernelIndexes : i \in Nat
  BY <1>1 DEF KernelIndexes
<1>9. \A i \in KernelIndexes : two[i] \in Entries({1}, L2Units) \cup {Section(n) : n \in Nat}
  <2> SUFFICES ASSUME NEW i \in KernelIndexes
               PROVE  two[i] \in Entries({1}, L2Units) \cup {Section(n) : n \in Nat}
    OBVIOUS
  <2>1. CASE i \in top2 .. top1 - 1
    <3>1. a2 + (i - top2) \in Nat
      BY <1>1, <1>5, <2>1
    <3> QED BY <1>7, <2>1, <3>1
  <2>2. CASE i \notin top2 .. top1 - 1 /\ i \in top1 .. MmioBase - 1
    <3>1. a1 + (i - top1) \in Nat
      BY <1>1, <1>5, <2>2
    <3> QED BY <1>6, <1>7, <2>2, <3>1
  <2>3. CASE i \notin top2 .. top1 - 1 /\ i \notin top1 .. MmioBase - 1
    BY <1>4, <1>6, <1>7, <2>3 DEF KernelTable
  <2> QED BY <2>1, <2>2, <2>3
<1>10. two \in KernelTable
  BY <1>7, <1>9 DEF KernelTable
<1>11. mem' \in MemType /\ mem'.owned = mem.owned /\ mem'.l1[kernell1PageTable] = two
  BY <1>3, <1>4, <1>10, KernelTableReplaced
<1>12. Links(mem', kernell1PageTable) = {} /\ two[MmioBase] = Invalid
  <2>1. \A i \in KernelIndexes : t[i].type # 1
    BY <1>2, <1>4 DEF MemoryInv, NothingYet, Links, t, KernelTable
  <2>2. \A i \in KernelIndexes : two[i].type # 1
    BY <1>6, <1>7, <2>1, EntryTypes
  <2>3. MmioBase \in KernelIndexes /\ t[MmioBase] = Invalid
    BY <1>1, <1>2 DEF MemoryInv, NothingYet, KernelIndexes, t
  <2>4. two[MmioBase] = Invalid
    BY <1>1, <1>5, <1>6, <1>7, <2>3
  <2> QED BY <1>7, <1>11, <2>2, <2>4 DEF Links
<1>13. PeripheralsMapped'
  <2>1. \A i \in top2 .. MmioBase - 1 : i \in KernelIndexes
    BY <1>1, <1>5 DEF KernelIndexes
  <2>2. \A i \in top2 .. MmioBase - 1 : two[i].type = 2
    BY <1>1, <1>5, <1>6, <1>7, <2>1, EntryTypes
  <2>3. ASSUME NEW k \in 0 .. n1 - 1
        PROVE  \E i \in top2 .. MmioBase - 1 : two[i] = Section(a1 + k)
    <3>1. top1 + k \in top2 .. MmioBase - 1 /\ top1 + k \in top1 .. MmioBase - 1
          /\ top1 + k \notin top2 .. top1 - 1 /\ (top1 + k) - top1 = k
      BY <1>1, <1>5
    <3>2. two[top1 + k] = Section(a1 + k)
      BY <1>6, <1>7, <2>1, <3>1
    <3> QED BY <3>1, <3>2
  <2>4. ASSUME NEW k \in 0 .. n2 - 1
        PROVE  \E i \in top2 .. MmioBase - 1 : two[i] = Section(a2 + k)
    <3>1. top2 + k \in top2 .. MmioBase - 1 /\ top2 + k \in top2 .. top1 - 1
          /\ (top2 + k) - top2 = k
      BY <1>1, <1>5
    <3>2. two[top2 + k] = Section(a2 + k)
      BY <1>7, <2>1, <3>1
    <3> QED BY <3>1, <3>2
  <2>5. \A n \in {1, 2} : \A k \in 0 .. Peripherals[n][2] - 1 :
           \E i \in top2 .. MmioBase - 1 : two[i] = Section(Peripherals[n][1] + k)
    BY <2>3, <2>4 DEF n1, n2, a1, a2
  <2>6. /\ mmio_current_top' < MmioBase
        /\ \A i \in mmio_current_top' .. MmioBase - 1 : mem'.l1[kernell1PageTable][i].type = 2
    <3>1. top2 < MmioBase
      BY <1>1, <1>5
    <3> QED BY <1>3, <1>11, <2>2, <3>1
  <2>7. \A n \in {1, 2} : \A k \in 0 .. Peripherals[n][2] - 1 :
           \E i \in mmio_current_top' .. MmioBase - 1 :
              mem'.l1[kernell1PageTable][i] = Section(Peripherals[n][1] + k)
    BY <1>3, <1>11, <2>5
  <2> QED BY <2>6, <2>7 DEF PeripheralsMapped
<1>14. WindowMapped' /\ stage' \in {"vm", "vectors"}
  BY <1>3 DEF WindowMapped
<1>15. StrongTypeOK'
  <2>1. heap_end' \in Nat /\ stage' \in Stages /\ StrongTypeOK
    BY <1>3 DEF MemoryInv, StrongTypeOK, Stages
  <2>2. mmio_current_top' \in HeapBase .. MmioBase
    BY <1>1, <1>3, <1>5
  <2> QED BY <1>11, <2>1, <2>2, KernelFrame
<1> QED BY <1>2, <1>3, <1>11, <1>12, <1>13, <1>14, <1>15, BootedInv

\* vm2_start maps RAM and drops the identity mapping.
LEMMA StartInv ==
    ASSUME MemoryInv, vm2_start, UNCHANGED <<asidvars, vas, contextid, current>>,
           ttbr0' \in {ttbr0, NULL}, tlb' \in {tlb, {}}
    PROVE  MemoryInv' /\ Kept
<1> DEFINE t == mem.l1[kernell1PageTable]
           Window == KernelBase .. KernelBase + RamMebibytes - 1
           new == [i \in KernelIndexes |-> IF i = 0 THEN Invalid
                                           ELSE IF i \in Window THEN Section(i - KernelBase) ELSE t[i]]
<1>1. Booting /\ stage = "vm" /\ mem \in MemType /\ t \in KernelTable
  BY MemFields DEF MemoryInv, StrongTypeOK, vm2_start, Booting
<1>2. /\ mem' = WithKernelTable(mem, new)
      /\ mmio_current_top' = mmio_current_top /\ stage' = "vectors" /\ heap_end' = heap_end
  BY DEF vm2_start, WithKernelTable
<1>3. /\ KernelBase \in Nat \ {0} /\ RamMebibytes \in Nat \ {0} /\ MmioBase \in Nat
      /\ HeapBase \in Nat /\ KernelBase + RamMebibytes <= HeapBase /\ HeapBase < MmioBase
      /\ mmio_current_top \in HeapBase .. MmioBase
  BY Sizes DEF MemoryInv, StrongTypeOK
<1> HIDE DEF t
<1>4. \A i \in KernelIndexes : new[i] \in Entries({1}, L2Units) \cup {Section(n) : n \in Nat}
  <2> SUFFICES ASSUME NEW i \in KernelIndexes
               PROVE  new[i] \in Entries({1}, L2Units) \cup {Section(n) : n \in Nat}
    OBVIOUS
  <2>1. CASE i = 0
    BY <2>1, EntryTypes
  <2>2. CASE i # 0 /\ i \in Window
    <3>1. i - KernelBase \in Nat
      BY <1>3, <2>2
    <3> QED BY <2>2, <3>1
  <2>3. CASE i # 0 /\ i \notin Window
    BY <1>1, <2>3 DEF KernelTable
  <2> QED BY <2>1, <2>2, <2>3
<1>5. new \in KernelTable
  BY <1>4 DEF KernelTable
<1>6. \A i \in KernelIndexes : /\ i = 0 => new[i] = Invalid
                               /\ i # 0 /\ i \in Window => new[i] = Section(i - KernelBase)
                               /\ i # 0 /\ i \notin Window => new[i] = t[i]
  OBVIOUS
<1>7. DOMAIN new = KernelIndexes
  OBVIOUS
<1> HIDE DEF new
<1>8. mem' \in MemType /\ mem'.owned = mem.owned /\ mem'.l1[kernell1PageTable] = new
  BY <1>1, <1>2, <1>5, KernelTableReplaced
<1>9. \A i \in KernelIndexes : i >= HeapBase => new[i] = t[i]
  BY <1>3, <1>6
<1>10. Links(mem', kernell1PageTable) = {} /\ new[MmioBase] = Invalid
  <2>1. \A i \in KernelIndexes : t[i].type # 1
    BY <1>1 DEF MemoryInv, NothingYet, Links, t, KernelTable
  <2>2. \A i \in KernelIndexes : new[i].type # 1
    BY <1>6, <2>1, EntryTypes
  <2>3. MmioBase \in KernelIndexes /\ t[MmioBase] = Invalid
    BY <1>1, <1>3 DEF MemoryInv, NothingYet, KernelIndexes, t
  <2>4. new[MmioBase] = Invalid
    BY <1>3, <1>9, <2>3
  <2>5. Links(mem', kernell1PageTable) = {}
    BY <1>7, <1>8, <2>2 DEF Links
  <2> QED BY <2>4, <2>5
<1>11. PeripheralsMapped'
  <2>1. \A i \in mmio_current_top .. MmioBase - 1 : i \in KernelIndexes /\ i >= HeapBase
    BY <1>3 DEF KernelIndexes
  <2>2. \A i \in mmio_current_top .. MmioBase - 1 : new[i] = t[i]
    BY <1>9, <2>1
  <2>3. /\ mmio_current_top < MmioBase
        /\ \A i \in mmio_current_top .. MmioBase - 1 : t[i].type = 2
        /\ \A n \in {1, 2} : \A k \in 0 .. Peripherals[n][2] - 1 :
              \E i \in mmio_current_top .. MmioBase - 1 : t[i] = Section(Peripherals[n][1] + k)
    BY <1>1 DEF MemoryInv, PeripheralsMapped, t
  <2>4. /\ \A i \in mmio_current_top .. MmioBase - 1 : new[i].type = 2
        /\ \A n \in {1, 2} : \A k \in 0 .. Peripherals[n][2] - 1 :
              \E i \in mmio_current_top .. MmioBase - 1 : new[i] = Section(Peripherals[n][1] + k)
    BY <2>2, <2>3
  <2> QED BY <1>2, <1>8, <2>3, <2>4 DEF PeripheralsMapped
<1>12. WindowMapped'
  <2>1. 0 \in KernelIndexes
    BY <1>3 DEF KernelIndexes
  <2>2. ASSUME NEW i \in 0 .. RamMebibytes - 1 PROVE new[KernelBase + i] = Section(i)
    <3>1. KernelBase + i \in KernelIndexes /\ KernelBase + i # 0 /\ KernelBase + i \in Window
          /\ (KernelBase + i) - KernelBase = i
      BY <1>3 DEF KernelIndexes
    <3> QED BY <1>6, <3>1
  <2> QED BY <1>2, <1>6, <1>8, <2>1, <2>2 DEF WindowMapped
<1>13. StrongTypeOK' /\ stage' \in {"vm", "vectors"}
  <2>1. heap_end' \in Nat /\ stage' \in Stages /\ StrongTypeOK
    BY <1>2 DEF MemoryInv, StrongTypeOK, Stages
  <2> QED BY <1>2, <1>3, <1>8, <2>1, KernelFrame
<1> QED BY <1>1, <1>2, <1>8, <1>10, <1>11, <1>12, <1>13, BootedInv

\* The kernel's table and those of address spaces are different tables.
LEMMA HolderNotKernel ==
    ASSUME VasTypeOK
    PROVE  \A v \in TableHolders : /\ vas[v].l1PageTable.unit \in LiveTables \ {kernell1PageTable}
                                   /\ vas[v].l1PageTable.unit \in L1Units
                                   /\ vas[v].l1PageTable.unit \in Pmm!Units
BY HolderTables, UnitKinds

\* The kernel maps a page of its heap or the vector page.
LEMMA KernelGrownInv ==
    ASSUME MemoryInv, stage \in {"vectors", "heap", "running"}, vas' = vas,
           StrongTypeOK', mmio_current_top' = mmio_current_top,
           stage' \in {"heap", "running"}, stage' = "heap" => stage # "running",
           NEW p \in Nat, l1pt_index(p) \in HeapBase .. MmioBase,
           NEW u \in PageUnits, Grown(mem, mem', LiveTables, kernell1PageTable, p, u),
           HeapLaidOut'
    PROVE  MemoryInv' /\ Kept
<1> DEFINE k == kernell1PageTable
<1>1. mem \in MemType /\ VasTypeOK /\ Sound(mem', LiveTables)
  BY DEF MemoryInv, StrongTypeOK, Grown
<1>2. Live' = Live /\ TableHolders' = TableHolders /\ LiveTables' = LiveTables
  BY SameVas
<1>3. /\ \A s \in LiveTables \ {k} :
            /\ PagesOf(mem', s) = PagesOf(mem, s) /\ Mapped(mem', s) = Mapped(mem, s)
            /\ \A q \in Mapped(mem, s) : Entry(mem', s, q) = Entry(mem, s, q)
      /\ \A w \in L1Units : mem'.owned[w] = mem.owned[w]
  BY DEF Grown
<1>4. /\ k \in L1Tables /\ DOMAIN mem.l1[k] = KernelIndexes
      /\ \A i \in KernelIndexes : mem.l1[k][i].type # 0 \/ i # l1pt_index(p) =>
            mem'.l1[k][i] = mem.l1[k][i]
  <2>1. k \in L1Tables /\ DOMAIN mem.l1[k] = KernelIndexes
    BY <1>1, LinkTypes DEF L1Tables
  <2> QED BY <2>1 DEF Grown
<1>5. NothingYet' /\ stage' # "corrupt"
  <2>1. stage' = "heap" => Live' = {}
    BY <1>2 DEF MemoryInv, NothingYet, Booting
  <2> QED BY <2>1 DEF NothingYet, Booting
<1>6. PeripheralsMapped'
  <2>1. /\ mmio_current_top < MmioBase
        /\ \A i \in mmio_current_top .. MmioBase - 1 : mem.l1[k][i].type = 2
        /\ \A n \in {1, 2} : \A j \in 0 .. Peripherals[n][2] - 1 :
              \E i \in mmio_current_top .. MmioBase - 1 : mem.l1[k][i] = Section(Peripherals[n][1] + j)
    BY DEF MemoryInv, PeripheralsMapped
  <2>2. \A i \in mmio_current_top .. MmioBase - 1 : i \in KernelIndexes
    BY Sizes DEF MemoryInv, StrongTypeOK, KernelIndexes
  <2>3. \A i \in mmio_current_top .. MmioBase - 1 : mem'.l1[k][i] = mem.l1[k][i]
    BY <1>4, <2>1, <2>2
  <2>4. \A i \in mmio_current_top .. MmioBase - 1 : mem'.l1[k][i].type = 2
    BY <2>1, <2>3
  <2>5. \A n \in {1, 2} : \A j \in 0 .. Peripherals[n][2] - 1 :
           \E i \in mmio_current_top .. MmioBase - 1 : mem'.l1[k][i] = Section(Peripherals[n][1] + j)
    BY <2>1, <2>3
  <2> QED BY <2>1, <2>4, <2>5 DEF PeripheralsMapped
<1>7. WindowMapped'
  <2>1. /\ mem.l1[k][0] = Invalid
        /\ \A i \in 0 .. RamMebibytes - 1 : mem.l1[k][KernelBase + i] = Section(i)
    BY DEF MemoryInv, WindowMapped
  <2>2. 0 \in KernelIndexes /\ 0 # l1pt_index(p)
    BY Sizes DEF KernelIndexes
  <2>3. \A i \in 0 .. RamMebibytes - 1 : KernelBase + i \in KernelIndexes /\ KernelBase + i # l1pt_index(p)
    BY Sizes DEF KernelIndexes
  <2> QED BY <1>4, <2>1, <2>2, <2>3 DEF WindowMapped
<1>8. \A v \in TableHolders : vas[v].l1PageTable.unit \in LiveTables \ {k}
                              /\ vas[v].l1PageTable.unit \in L1Units
  BY <1>1, HolderNotKernel
<1>9. TablesHeld' /\ PagesListed'
  <2>1. TablesHeld /\ PagesListed
    BY DEF MemoryInv, Alive
  <2>2. TablesHeld'
    BY <1>2, <1>3, <1>8, <2>1 DEF TablesHeld
  <2>3. ASSUME NEW v \in Live, vas[v].l1PageTable # NULL
        PROVE  PagesOf(mem', vas[v].l1PageTable.unit) = PagesOf(mem, vas[v].l1PageTable.unit)
    BY <1>3, <1>8, <2>3 DEF TableHolders
  <2>4. PagesListed'
    BY <1>2, <2>1, <2>3 DEF PagesListed
  <2> QED BY <2>2, <2>4
<1>10. Kept
  BY <1>3, <1>8 DEF Kept
<1>11. MemoryInv'
  BY <1>1, <1>2, <1>5, <1>6, <1>7, <1>9 DEF MemoryInv
<1> QED BY <1>10, <1>11

\* Where heap_end points: below the peripherals, or at the first of them.
LEMMA HeapEndIndex ==
    ASSUME MemoryInv, stage \in {"heap", "running"}
    PROVE  /\ heap_end \in Nat
           /\ l1pt_index(heap_end) \in HeapBase .. MmioBase
           /\ l1pt_index(heap_end) \in DOMAIN mem.l1[kernell1PageTable]
           /\ mem.l1[kernell1PageTable][l1pt_index(heap_end)].type # 2 =>
                 heap_end + 1 <= mmio_current_top * L2Entries
           /\ mmio_current_top * L2Entries \in Nat
           /\ mmio_current_top * L2Entries < VectorPage
           /\ HeapBase * L2Entries \in Nat
           /\ VectorPage \in Nat
<1> DEFINE top == mmio_current_top
           i == l1pt_index(heap_end)
<1>1. /\ heap_end \in Nat /\ top \in Nat /\ HeapBase \in Nat /\ MmioBase \in Nat /\ L2Entries \in Nat \ {0}
      /\ HeapBase <= top /\ top < MmioBase
      /\ heap_end >= HeapBase * L2Entries /\ heap_end <= top * L2Entries
      /\ \A k \in top .. MmioBase - 1 : mem.l1[kernell1PageTable][k].type = 2
  BY Sizes DEF MemoryInv, StrongTypeOK, HeapLaidOut, PeripheralsMapped
<1>2. /\ top * L2Entries \in Nat /\ HeapBase * L2Entries \in Nat /\ MmioBase * L2Entries \in Nat
      /\ top * L2Entries + L2Entries <= MmioBase * L2Entries
  BY <1>1, IndexOrder
<1>3. heap_end < MmioBase * L2Entries
  BY <1>1, <1>2
<1>4. i \in Nat /\ i >= HeapBase /\ i < MmioBase
  BY <1>1, <1>3, IndexBounds, PageSplit
<1>5. heap_end = top * L2Entries => i = top
  <2>1. 0 \in L2Indexes
    BY <1>1 DEF L2Indexes
  <2>2. l1pt_index(top * L2Entries + 0) = top
    BY <1>1, <2>1, PageJoin
  <2> QED BY <1>2, <2>2
<1>6. heap_end = top * L2Entries => mem.l1[kernell1PageTable][i].type = 2
  BY <1>1, <1>4, <1>5
<1>7. heap_end # top * L2Entries => heap_end + 1 <= top * L2Entries
  BY <1>1, <1>2
<1>8. i \in DOMAIN mem.l1[kernell1PageTable]
  <2>1. DOMAIN mem.l1[kernell1PageTable] = KernelIndexes
    BY LinkTypes DEF MemoryInv, StrongTypeOK, L1Tables
  <2> QED BY <1>1, <1>4, <2>1 DEF KernelIndexes
<1>9. top * L2Entries < VectorPage /\ VectorPage \in Nat
  BY <1>1, <1>2 DEF VectorPage
<1> QED BY <1>1, <1>2, <1>4, <1>6, <1>7, <1>8, <1>9

\* Allocating the page at heap_end, for init_heap and for expand.
LEMMA HeapPageOutcomes ==
    ASSUME MemoryInv, stage \in {"heap", "running"},
           NEW o \in vm2_allocate_page(mem, kernell1PageTable, heap_end)
    PROVE  /\ o.mem \in MemType
           /\ \/ o.end \in {"fault", "panic"} /\ o.page = NULL
              \/ o.end = "running" /\ o.page = NULL /\ o.mem = mem
              \/ /\ o.end = "running" /\ o.page # NULL
                 /\ heap_end + 1 <= mmio_current_top * L2Entries
                 /\ Mapped(o.mem, kernell1PageTable) =
                       (HeapBase * L2Entries .. heap_end) \cup {VectorPage}
                 /\ \E u \in PageUnits :
                       Grown(mem, o.mem, LiveTables, kernell1PageTable, heap_end, u)
<1> DEFINE k == kernell1PageTable
<1>1. /\ mem \in MemType /\ Sound(mem, LiveTables) /\ LiveTables \in SUBSET L1Tables /\ k \in LiveTables
  BY HolderTables DEF MemoryInv, StrongTypeOK, Alive
<1>2. /\ heap_end \in Nat /\ l1pt_index(heap_end) \in DOMAIN mem.l1[k]
      /\ mem.l1[k][l1pt_index(heap_end)].type # 2 => heap_end + 1 <= mmio_current_top * L2Entries
      /\ HeapBase * L2Entries \in Nat
  BY HeapEndIndex
<1>3. /\ o.mem \in MemType
      /\ \/ o.end \in {"fault", "panic"} /\ o.page = NULL
         \/ /\ o.end = "running" /\ o.page = NULL /\ o.mem = mem
         \/ /\ o.end = "running" /\ mem.l1[k][l1pt_index(heap_end)].type # 2
            /\ \E u \in PageUnits : o.page = Pointer(u) /\ Grown(mem, o.mem, LiveTables, k, heap_end, u)
  <2>1. Allocated(mem, LiveTables, k, heap_end, o)
    BY <1>1, <1>2, AllocateOutcomes
  <2> QED BY <2>1 DEF Allocated
<1>4. CASE /\ o.end = "running" /\ mem.l1[k][l1pt_index(heap_end)].type # 2
           /\ \E u \in PageUnits : o.page = Pointer(u) /\ Grown(mem, o.mem, LiveTables, k, heap_end, u)
  <2>1. PICK u \in PageUnits : o.page = Pointer(u) /\ Grown(mem, o.mem, LiveTables, k, heap_end, u)
    BY <1>4
  <2>2. Mapped(o.mem, k) = Mapped(mem, k) \cup {heap_end}
    BY <1>1, <2>1 DEF Grown
  <2>3. Mapped(mem, k) = (HeapBase * L2Entries .. heap_end - 1) \cup {VectorPage}
        /\ heap_end >= HeapBase * L2Entries
    BY DEF MemoryInv, HeapLaidOut
  <2>4. (HeapBase * L2Entries .. heap_end - 1) \cup {heap_end} = HeapBase * L2Entries .. heap_end
    BY <1>2, <2>3
  <2>5. Mapped(o.mem, k) = (HeapBase * L2Entries .. heap_end) \cup {VectorPage}
    BY <2>2, <2>3, <2>4
  <2> QED BY <1>2, <1>3, <1>4, <2>1, <2>5, PointerInjective
<1> QED BY <1>3, <1>4

\* init_vector_table maps the vector page, the kernel's first.
LEMMA VectorTableInv ==
    ASSUME MemoryInv, init_vector_table, UNCHANGED <<asidvars, vas, contextid, current>>,
           ttbr0' \in {ttbr0, NULL}, tlb' \in {tlb, {}}
    PROVE  MemoryInv' /\ Kept
<1> DEFINE k == kernell1PageTable
<1>1. /\ stage = "vectors" /\ Booting /\ Live = {} /\ Alive
      /\ mem \in MemType /\ VasTypeOK /\ mmio_current_top \in HeapBase .. MmioBase
  BY DEF init_vector_table, Booting, Alive, MemoryInv, StrongTypeOK, NothingYet
<1>2. LiveTables = {k} /\ LiveTables \in SUBSET L1Tables
  BY <1>1, HolderTables
<1>3. Sound(mem, LiveTables) /\ Mapped(mem, k) = {} /\ mem.l1[k][MmioBase] = Invalid
  BY <1>1, <1>2, EmptySound DEF MemoryInv, NothingYet
<1>4. VectorPage \in Nat /\ l1pt_index(VectorPage) = MmioBase
  <2>1. 0 \in L2Indexes /\ MmioBase \in Nat
    BY Sizes DEF L2Indexes
  <2>2. MmioBase * L2Entries \in Nat /\ l1pt_index(MmioBase * L2Entries + 0) = MmioBase
    BY <2>1, PageJoin, IndexOrder
  <2> QED BY <2>2 DEF VectorPage
<1>5. MmioBase \in KernelIndexes /\ MmioBase \in HeapBase .. MmioBase /\ DOMAIN mem.l1[k] = KernelIndexes
  BY <1>1, Sizes, LinkTypes DEF KernelIndexes, L1Tables
<1>6. PICK o \in vm2_allocate_page(mem, k, VectorPage) :
         /\ mem' = o.mem
         /\ stage' = IF o.end = "running" THEN "heap" ELSE o.end
  BY DEF init_vector_table
<1>7. heap_end' = HeapBase * L2Entries /\ mmio_current_top' = mmio_current_top
  BY DEF init_vector_table
<1>8. mem.l1[k][l1pt_index(VectorPage)].type # 2
  BY <1>3, <1>4, EntryTypes
<1>9. /\ o.mem \in MemType
      /\ \/ o.end \in {"fault", "panic"} /\ o.page = NULL
         \/ /\ o.end = "running"
            /\ \E u \in PageUnits : o.page = Pointer(u) /\ Grown(mem, o.mem, LiveTables, k, VectorPage, u)
  <2>1. Allocated(mem, LiveTables, k, VectorPage, o)
    BY <1>1, <1>2, <1>3, <1>4, <1>5, <1>6, AllocateOutcomes
  <2> QED BY <1>8, <2>1 DEF Allocated
<1>10. HeapBase * L2Entries \in Nat /\ HeapBase * L2Entries <= mmio_current_top * L2Entries
  <2>1. HeapBase \in Nat /\ mmio_current_top \in Nat /\ HeapBase <= mmio_current_top
    BY <1>1, Sizes
  <2> QED BY <2>1, IndexOrder
<1>11. StrongTypeOK'
  <2>1. stage' \in Stages
    BY <1>6, <1>9 DEF Stages
  <2>2. StrongTypeOK
    BY DEF MemoryInv
  <2> QED BY <1>1, <1>6, <1>7, <1>9, <1>10, <2>1, <2>2, KernelFrame
<1>12. CASE o.end \in {"fault", "panic"}
  BY <1>6, <1>11, <1>12, Ended
<1>13. CASE /\ o.end = "running"
            /\ \E u \in PageUnits : o.page = Pointer(u) /\ Grown(mem, o.mem, LiveTables, k, VectorPage, u)
  <2>1. PICK u \in PageUnits : Grown(mem, mem', LiveTables, k, VectorPage, u)
    BY <1>6, <1>13
  <2>2. Mapped(mem', k) = {VectorPage}
    BY <1>2, <1>3, <2>1 DEF Grown
  <2>3. HeapBase * L2Entries .. heap_end' - 1 = {}
    BY <1>7, <1>10
  <2>4. HeapLaidOut'
    <3>1. Mapped(mem', k) = (HeapBase * L2Entries .. heap_end' - 1) \cup {VectorPage}
      BY <2>2, <2>3
    <3>2. heap_end' >= HeapBase * L2Entries /\ heap_end' <= mmio_current_top' * L2Entries
      BY <1>7, <1>10
    <3> QED BY <3>1, <3>2 DEF HeapLaidOut, VectorPage
  <2>5. stage' = "heap"
    BY <1>6, <1>13
  <2> QED BY <1>1, <1>4, <1>5, <1>7, <1>11, <2>1, <2>4, <2>5, KernelGrownInv
<1> QED BY <1>9, <1>12, <1>13

\* A step that leaves memory and what vas2 structs say of it alone.
LEMMA MemoryUntouched ==
    ASSUME MemoryInv, UNCHANGED vmvars, StrongTypeOK',
           \A v \in Vas : /\ vas'[v].state = vas[v].state
                          /\ vas'[v].l1PageTable = vas[v].l1PageTable
                          /\ vas'[v].pages = vas[v].pages
    PROVE  MemoryInv' /\ Kept
<1>1. mem' = mem /\ mmio_current_top' = mmio_current_top /\ heap_end' = heap_end /\ stage' = stage
  BY DEF vmvars
<1>2. Live' = Live
  BY DEF Live
<1>3. TableHolders' = TableHolders /\ \A v \in Live : v \in Vas
  BY <1>2 DEF TableHolders, Live
<1>4. \A v \in TableHolders : vas'[v].l1PageTable = vas[v].l1PageTable
  BY <1>3 DEF TableHolders
<1>5. LiveTables' = LiveTables
  <2>1. LiveTables = {kernell1PageTable} \cup {vas[v].l1PageTable.unit : v \in TableHolders}
    BY DEF LiveTables, TableHolders
  <2>2. LiveTables' = {kernell1PageTable} \cup {vas'[v].l1PageTable.unit : v \in TableHolders'}
    BY DEF LiveTables, TableHolders
  <2> QED BY <1>3, <1>4, <2>1, <2>2
<1>6. NothingYet' /\ PeripheralsMapped' /\ WindowMapped' /\ HeapLaidOut' /\ stage' # "corrupt"
  BY <1>1, <1>2 DEF MemoryInv, NothingYet, PeripheralsMapped, WindowMapped, HeapLaidOut, Booting
<1>7. Alive' <=> Alive
  BY <1>1 DEF Alive
<1>8. ASSUME Alive PROVE Sound(mem, LiveTables)' /\ TablesHeld' /\ PagesListed'
  <2>1. Sound(mem, LiveTables) /\ TablesHeld /\ PagesListed
    BY <1>8 DEF MemoryInv
  <2>2. Sound(mem', LiveTables')
    BY <1>1, <1>5, <2>1
  <2>3. TablesHeld'
    BY <1>1, <1>3, <1>4, <2>1 DEF TablesHeld
  <2>4. PagesListed'
    BY <1>1, <1>2, <1>3, <2>1 DEF PagesListed
  <2> QED BY <2>2, <2>3, <2>4
<1>9. MemoryInv'
  BY <1>6, <1>7, <1>8 DEF MemoryInv
<1>10. Kept
  BY <1>1, <1>4 DEF Kept
<1> QED BY <1>9, <1>10

\* init_heap maps the page at the end of the heap.
LEMMA InitHeapPageInv ==
    ASSUME MemoryInv, InitHeapPage, UNCHANGED <<asidvars, vas, contextid, current>>,
           ttbr0' \in {ttbr0, NULL}, tlb' \in {tlb, {}}
    PROVE  MemoryInv' /\ Kept
<1> DEFINE k == kernell1PageTable
<1>1. /\ stage = "heap" /\ heap_end' = heap_end + 1 /\ mmio_current_top' = mmio_current_top
      /\ StrongTypeOK /\ mmio_current_top \in HeapBase .. MmioBase
  BY DEF InitHeapPage, MemoryInv, StrongTypeOK
<1>2. PICK o \in vm2_allocate_page(mem, k, heap_end) :
         /\ mem' = o.mem
         /\ stage' = IF o.end # "running" THEN o.end
                     ELSE IF o.page = NULL THEN "panic"
                     ELSE IF heap_end + 1 < HeapInitEnd THEN "heap" ELSE "running"
  BY DEF InitHeapPage
<1>3. /\ heap_end \in Nat /\ l1pt_index(heap_end) \in HeapBase .. MmioBase
      /\ HeapBase * L2Entries \in Nat /\ heap_end >= HeapBase * L2Entries
  BY <1>1, HeapEndIndex DEF MemoryInv, HeapLaidOut
<1>4. /\ o.mem \in MemType
      /\ \/ o.end \in {"fault", "panic"} /\ o.page = NULL
         \/ o.end = "running" /\ o.page = NULL /\ o.mem = mem
         \/ /\ o.end = "running" /\ o.page # NULL
            /\ heap_end + 1 <= mmio_current_top * L2Entries
            /\ Mapped(o.mem, k) = (HeapBase * L2Entries .. heap_end) \cup {VectorPage}
            /\ \E u \in PageUnits : Grown(mem, o.mem, LiveTables, k, heap_end, u)
  BY <1>1, HeapPageOutcomes
<1>5. StrongTypeOK'
  <2>1. stage' \in Stages
    BY <1>2, <1>4 DEF Stages
  <2>2. heap_end' \in Nat /\ mem' \in MemType
    BY <1>1, <1>2, <1>3, <1>4
  <2> QED BY <1>1, <2>1, <2>2, KernelFrame
<1>6. CASE o.end # "running" \/ o.page = NULL
  <2>1. stage' \in {"fault", "panic"}
    BY <1>2, <1>4, <1>6
  <2> QED BY <1>5, <2>1, Ended
<1>7. CASE /\ o.end = "running" /\ o.page # NULL
           /\ heap_end + 1 <= mmio_current_top * L2Entries
           /\ Mapped(o.mem, k) = (HeapBase * L2Entries .. heap_end) \cup {VectorPage}
           /\ \E u \in PageUnits : Grown(mem, o.mem, LiveTables, k, heap_end, u)
  <2>1. PICK u \in PageUnits : Grown(mem, mem', LiveTables, k, heap_end, u)
    BY <1>2, <1>7
  <2>2. HeapLaidOut'
    <3>1. heap_end' - 1 = heap_end /\ heap_end' >= HeapBase * L2Entries
          /\ heap_end' <= mmio_current_top' * L2Entries
      BY <1>1, <1>3, <1>7
    <3>2. Mapped(mem', k) = (HeapBase * L2Entries .. heap_end' - 1) \cup {VectorPage}
      BY <1>2, <1>7, <3>1
    <3> QED BY <3>1, <3>2 DEF HeapLaidOut, VectorPage
  <2>3. stage' \in {"heap", "running"}
    BY <1>2, <1>7
  <2> QED BY <1>1, <1>3, <1>5, <2>1, <2>2, <2>3, KernelGrownInv
<1> QED BY <1>4, <1>6, <1>7

\* So does expand, unless it has met the peripherals.
LEMMA ExpandInv ==
    ASSUME MemoryInv, expand, UNCHANGED <<asidvars, vas, contextid, current>>,
           ttbr0' \in {ttbr0, NULL}, tlb' \in {tlb, {}}
    PROVE  MemoryInv' /\ Kept
<1> DEFINE k == kernell1PageTable
<1>1. /\ stage = "running" /\ mmio_current_top' = mmio_current_top
      /\ StrongTypeOK /\ mmio_current_top \in HeapBase .. MmioBase
  BY DEF expand, MemoryInv, StrongTypeOK
<1>2. PICK o \in vm2_allocate_page(mem, k, heap_end) :
         /\ mem' = o.mem /\ stage' = o.end
         /\ heap_end' = IF o.page = NULL THEN heap_end ELSE heap_end + 1
  BY DEF expand
<1>3. /\ heap_end \in Nat /\ l1pt_index(heap_end) \in HeapBase .. MmioBase
      /\ HeapBase * L2Entries \in Nat /\ heap_end >= HeapBase * L2Entries
  BY <1>1, HeapEndIndex DEF MemoryInv, HeapLaidOut
<1>4. /\ o.mem \in MemType
      /\ \/ o.end \in {"fault", "panic"} /\ o.page = NULL
         \/ o.end = "running" /\ o.page = NULL /\ o.mem = mem
         \/ /\ o.end = "running" /\ o.page # NULL
            /\ heap_end + 1 <= mmio_current_top * L2Entries
            /\ Mapped(o.mem, k) = (HeapBase * L2Entries .. heap_end) \cup {VectorPage}
            /\ \E u \in PageUnits : Grown(mem, o.mem, LiveTables, k, heap_end, u)
  BY <1>1, HeapPageOutcomes
<1>5. StrongTypeOK'
  <2>1. stage' \in Stages
    BY <1>2, <1>4 DEF Stages
  <2>2. heap_end' \in Nat /\ mem' \in MemType
    BY <1>1, <1>2, <1>3, <1>4
  <2> QED BY <1>1, <2>1, <2>2, KernelFrame
<1>6. CASE o.end \in {"fault", "panic"}
  BY <1>2, <1>5, <1>6, Ended
<1>7. CASE o.end = "running" /\ o.page = NULL /\ o.mem = mem
  <2>1. UNCHANGED vmvars
    BY <1>1, <1>2, <1>7 DEF vmvars
  <2> QED BY <1>5, <2>1, MemoryUntouched
<1>8. CASE /\ o.end = "running" /\ o.page # NULL
           /\ heap_end + 1 <= mmio_current_top * L2Entries
           /\ Mapped(o.mem, k) = (HeapBase * L2Entries .. heap_end) \cup {VectorPage}
           /\ \E u \in PageUnits : Grown(mem, o.mem, LiveTables, k, heap_end, u)
  <2>1. PICK u \in PageUnits : Grown(mem, mem', LiveTables, k, heap_end, u)
    BY <1>2, <1>8
  <2>2. HeapLaidOut'
    <3>1. heap_end' - 1 = heap_end /\ heap_end' >= HeapBase * L2Entries
          /\ heap_end' <= mmio_current_top' * L2Entries
      BY <1>1, <1>2, <1>3, <1>8
    <3>2. Mapped(mem', k) = (HeapBase * L2Entries .. heap_end' - 1) \cup {VectorPage}
      BY <1>2, <1>8, <3>1
    <3> QED BY <3>1, <3>2 DEF HeapLaidOut, VectorPage
  <2>3. stage' \in {"heap", "running"} /\ stage' # "heap"
    BY <1>2, <1>8
  <2> QED BY <1>1, <1>3, <1>5, <2>1, <2>2, <2>3, KernelGrownInv
<1> QED BY <1>4, <1>6, <1>7, <1>8

\* contract unmaps the last page of the heap and gives it back.
LEMMA ContractInv ==
    ASSUME MemoryInv, contract, UNCHANGED <<asidvars, vas, contextid, current>>,
           ttbr0' \in {ttbr0, NULL}, tlb' \in {tlb, {}}
    PROVE  MemoryInv' /\ Kept
<1> DEFINE k == kernell1PageTable
           p == heap_end - 1
           o == vm2_free_page(mem, k, p)
<1>1. /\ stage = "running" /\ heap_end > HeapInitEnd /\ mem' = o.mem /\ stage' = o.end
      /\ heap_end' = p /\ mmio_current_top' = mmio_current_top
  BY DEF contract
<1>2. /\ mem \in MemType /\ VasTypeOK /\ Sound(mem, LiveTables) /\ TablesHeld /\ PagesListed
      /\ StrongTypeOK /\ mmio_current_top \in HeapBase .. MmioBase
      /\ Mapped(mem, k) = (HeapBase * L2Entries .. heap_end - 1) \cup {VectorPage}
      /\ heap_end <= mmio_current_top * L2Entries
  BY <1>1 DEF MemoryInv, StrongTypeOK, Alive, HeapLaidOut
<1>3. /\ heap_end \in Nat /\ HeapBase * L2Entries \in Nat
      /\ mmio_current_top * L2Entries \in Nat
      /\ mmio_current_top * L2Entries < VectorPage /\ VectorPage \in Nat
  BY <1>1, HeapEndIndex
<1>4. /\ p \in Nat /\ p >= HeapBase * L2Entries /\ p \in Mapped(mem, k)
      /\ p # VectorPage /\ p <= mmio_current_top * L2Entries
  <2>1. heap_end > HeapBase * L2Entries + 1 + HeapInitPages /\ HeapInitPages \in Nat
    BY <1>1, Sizes DEF HeapInitEnd, HeapStart
  <2> QED BY <1>2, <1>3, <2>1
<1>5. LiveTables \in SUBSET L1Tables /\ k \in LiveTables
  BY <1>2, HolderTables
<1> HIDE DEF o, p
<1>6. /\ o.end = "running" /\ o.mem \in MemType /\ o.mem.l1 = mem.l1
      /\ Sound(o.mem, LiveTables)
      /\ \A w \in L1Units : o.mem.owned[w] = mem.owned[w]
      /\ \A s \in LiveTables : Mapped(o.mem, s) = IF s = k THEN Mapped(mem, k) \ {p} ELSE Mapped(mem, s)
      /\ \A s \in LiveTables \ {k} : /\ PagesOf(o.mem, s) = PagesOf(mem, s)
                                     /\ \A q \in Mapped(mem, s) : Entry(o.mem, s, q) = Entry(mem, s, q)
  <2>1. o = vm2_free_page(mem, k, p)
    BY DEF o
  <2>2. /\ mem \in MemType /\ LiveTables \in SUBSET L1Tables /\ Sound(mem, LiveTables)
        /\ k \in LiveTables /\ p \in Mapped(mem, k)
    BY <1>2, <1>4, <1>5
  <2> HIDE DEF k
  <2>3. o.end = "running" /\ Shrunk(mem, o.mem, LiveTables, k, p)
    BY <2>1, <2>2, FreePageOutcome
  <2> QED BY <2>3 DEF Shrunk
<1>7. Live' = Live /\ TableHolders' = TableHolders /\ LiveTables' = LiveTables
  BY SameVas
<1>8. StrongTypeOK'
  <2>1. stage' \in Stages /\ mem' \in MemType /\ heap_end' \in Nat
    BY <1>1, <1>4, <1>6 DEF Stages
  <2> QED BY <1>1, <1>2, <2>1, KernelFrame
<1>9. HeapLaidOut'
  <2>1. Mapped(mem', k) = ((HeapBase * L2Entries .. heap_end - 1) \cup {VectorPage}) \ {p}
    BY <1>1, <1>2, <1>5, <1>6
  <2>2. (HeapBase * L2Entries .. heap_end - 1) \ {p} = HeapBase * L2Entries .. p - 1
    BY <1>3, <1>4 DEF p
  <2>3. Mapped(mem', k) = (HeapBase * L2Entries .. p - 1) \cup {VectorPage}
    BY <1>4, <2>1, <2>2
  <2> QED BY <1>1, <1>4, <2>3 DEF HeapLaidOut, VectorPage
<1>10. stage' = "running" /\ mem'.l1 = mem.l1
  BY <1>1, <1>6
<1>11. NothingYet' /\ PeripheralsMapped' /\ WindowMapped' /\ stage' # "corrupt"
  BY <1>1, <1>10 DEF MemoryInv, NothingYet, PeripheralsMapped, WindowMapped, Booting
<1>12. \A v \in TableHolders : vas[v].l1PageTable.unit \in LiveTables \ {k}
                               /\ vas[v].l1PageTable.unit \in L1Units
  BY <1>2, HolderNotKernel
<1>13. TablesHeld'
  BY <1>1, <1>2, <1>6, <1>7, <1>12 DEF TablesHeld
<1>14. PagesListed'
  <2>1. ASSUME NEW v \in Live, vas[v].l1PageTable # NULL
        PROVE  PagesOf(mem', vas[v].l1PageTable.unit) = PagesOf(mem, vas[v].l1PageTable.unit)
    BY <1>1, <1>6, <1>12, <2>1 DEF TableHolders
  <2> QED BY <1>2, <1>7, <2>1 DEF PagesListed
<1>15. Kept
  <2>1. \A v \in TableHolders : \A q \in Mapped(mem, vas[v].l1PageTable.unit) :
           /\ q \in Mapped(mem', vas[v].l1PageTable.unit)
           /\ Entry(mem', vas[v].l1PageTable.unit, q) = Entry(mem, vas[v].l1PageTable.unit, q)
    BY <1>1, <1>6, <1>12
  <2> QED BY <2>1 DEF Kept
<1>16. MemoryInv'
  BY <1>1, <1>6, <1>7, <1>8, <1>9, <1>11, <1>13, <1>14 DEF MemoryInv
<1> QED BY <1>15, <1>16

\* The kernel's own steps.
LEMMA KernelInv ==
    ASSUME MemoryInv, Kernel
    PROVE  MemoryInv' /\ Kept
<1>1. /\ VmNext /\ UNCHANGED <<asidvars, vas, contextid, current>>
      /\ ttbr0' \in {ttbr0, NULL} /\ tlb' \in {tlb, {}}
  BY DEF Kernel
<1> QED BY <1>1, MapPeripheralsInv, StartInv, VectorTableInv, InitHeapPageInv, ExpandInv, ContractInv
       DEF VmNext

-----------------------------------------------------------------------------
(* vas2.c.                                                                 *)

Struct == [state : {"none", "live", "freed"},
           tlbDescriptor : [asid : Asids, cache_iteration : 0 .. IterationCount - 1],
           l1PageTable : {Pointer(u) : u \in L1Units} \cup {NULL},
           l2tables : {{}},
           pages : SUBSET {Pointer(u) : u \in PageUnits}]

\* Numbers that wrap around stay in range.
LEMMA Wraps ==
    ASSUME AsidTypeOK, NEW a \in Asids
    PROVE  NextIteration(a) \in 0 .. IterationCount - 1 /\ (a + 1) % AsidCount \in Asids
<1>1. allocated_ids[a] \in Nat /\ a \in Nat
  BY AsidAssumption DEF AsidTypeOK, Asids
<1>2. \A n \in Nat \ {0} : \A i \in Nat : (i + 1) % n \in 0 .. n - 1
  OBVIOUS
<1> QED BY <1>1, <1>2, AsidAssumption DEF NextIteration, Asids

\* asid_request_descriptor and asid_check_and_update keep the allocator's types.
LEMMA AsidTypeKept ==
    ASSUME AsidTypeOK
    PROVE  /\ RequestedDescriptor \in [asid : Asids, cache_iteration : 0 .. IterationCount - 1]
           /\ asid_request_descriptor => AsidTypeOK'
           /\ \A d \in [asid : Asids, cache_iteration : 0 .. IterationCount - 1] :
                 /\ UpdatedDescriptor(d) \in [asid : Asids, cache_iteration : 0 .. IterationCount - 1]
                 /\ UpdatedDescriptor(d).asid = d.asid
                 /\ asid_check_and_update(d) => AsidTypeOK'
<1>1. curr \in Asids /\ allocated_ids \in [Asids -> 0 .. IterationCount - 1]
      /\ tlb_everything_allocated \in BOOLEAN
  BY DEF AsidTypeOK
<1>2. \A a \in Asids : NextIteration(a) \in 0 .. IterationCount - 1 /\ (a + 1) % AsidCount \in Asids
  BY Wraps
<1>3. RequestedDescriptor \in [asid : Asids, cache_iteration : 0 .. IterationCount - 1]
  BY <1>1, <1>2 DEF RequestedDescriptor
<1>4. ASSUME asid_request_descriptor PROVE AsidTypeOK'
  <2>1. curr' \in Asids /\ allocated_ids' \in [Asids -> 0 .. IterationCount - 1]
    BY <1>1, <1>2, <1>4 DEF asid_request_descriptor
  <2>2. tlb_everything_allocated' \in BOOLEAN
    BY <1>4, Zenon DEF asid_request_descriptor
  <2> QED BY <2>1, <2>2 DEF AsidTypeOK
<1>5. ASSUME NEW d \in [asid : Asids, cache_iteration : 0 .. IterationCount - 1]
      PROVE  /\ UpdatedDescriptor(d) \in [asid : Asids, cache_iteration : 0 .. IterationCount - 1]
             /\ UpdatedDescriptor(d).asid = d.asid
             /\ asid_check_and_update(d) => AsidTypeOK'
  <2>1. d.asid \in Asids /\ NextIteration(d.asid) \in 0 .. IterationCount - 1
    BY <1>2
  <2>2. /\ UpdatedDescriptor(d) \in [asid : Asids, cache_iteration : 0 .. IterationCount - 1]
        /\ UpdatedDescriptor(d).asid = d.asid
    BY <2>1 DEF UpdatedDescriptor
  <2>3. ASSUME asid_check_and_update(d) PROVE AsidTypeOK'
    <3>1. allocated_ids' \in [Asids -> 0 .. IterationCount - 1]
      BY <1>1, <2>1, <2>3 DEF asid_check_and_update
    <3>2. curr' = curr /\ tlb_everything_allocated' = tlb_everything_allocated
      BY <2>3 DEF asid_check_and_update
    <3> QED BY <1>1, <3>1, <3>2 DEF AsidTypeOK
  <2> QED BY <2>2, <2>3
<1> QED BY <1>3, <1>4, <1>5

\* What the MMU does when a process runs or is switched to.
LEMMA SwitchInv ==
    ASSUME MemoryInv, NEW v \in Vas, switch_to_vas(v)
    PROVE  MemoryInv' /\ Kept
<1> DEFINE d == vas[v].tlbDescriptor
<1>1. /\ vas \in [Vas -> Struct] /\ AsidTypeOK /\ StrongTypeOK /\ VasTypeOK
  BY DEF MemoryInv, StrongTypeOK, VasTypeOK, Struct
<1>2. /\ asid_check_and_update(d) /\ UNCHANGED vmvars
      /\ vas' = [vas EXCEPT ![v].tlbDescriptor = UpdatedDescriptor(d)]
      /\ tlb' \subseteq tlb /\ contextid' = d.asid
      /\ ttbr0' = vas[v].l1PageTable /\ current' = v
  BY DEF switch_to_vas, asid_set
<1>3. d \in [asid : Asids, cache_iteration : 0 .. IterationCount - 1]
  BY <1>1 DEF Struct
<1>4. /\ AsidTypeOK'
      /\ UpdatedDescriptor(d) \in [asid : Asids, cache_iteration : 0 .. IterationCount - 1]
  BY <1>1, <1>2, <1>3, AsidTypeKept
<1>5. /\ vas' \in [Vas -> Struct]
      /\ \A w \in Vas : /\ vas'[w].state = vas[w].state
                        /\ vas'[w].l1PageTable = vas[w].l1PageTable
                        /\ vas'[w].pages = vas[w].pages
  <2> HIDE DEF d
  <2> QED BY <1>1, <1>2, <1>4 DEF Struct
<1>6. ttbr0' \in [top : {0, 1}, unit : L1Tables] \cup {NULL}
  BY <1>1, <1>2 DEF Struct, Pointer, L1Tables
<1>7. VasTypeOK'
  BY <1>1, <1>2, <1>3, <1>5, <1>6 DEF VasTypeOK, Struct
<1>8. StrongTypeOK'
  BY <1>1, <1>2, <1>4, <1>7 DEF StrongTypeOK, vmvars
<1> QED BY <1>2, <1>5, <1>8, MemoryUntouched

\* A process runs: the TLB alone changes.
LEMMA RunUserInv ==
    ASSUME MemoryInv, RunUser
    PROVE  MemoryInv' /\ Kept
<1>1. /\ UNCHANGED <<vmvars, asidvars, vas, ttbr0, contextid, current>>
      /\ tlb' = tlb \cup {<<contextid, current>>} /\ current \in Vas
  BY DEF RunUser, Live
<1>2. StrongTypeOK /\ VasTypeOK
  BY DEF MemoryInv, StrongTypeOK
<1>3. VasTypeOK'
  BY <1>1, <1>2 DEF VasTypeOK
<1>4. StrongTypeOK'
  BY <1>1, <1>2, <1>3 DEF StrongTypeOK, AsidTypeOK, vmvars, asidvars
<1> QED BY <1>1, <1>4, MemoryUntouched DEF vmvars

\* What the actions of vas2.c leave alone.
LEMMA VasFrame ==
    ASSUME StrongTypeOK, mem' \in MemType, stage' \in Stages, vas' \in [Vas -> Struct], AsidTypeOK',
           UNCHANGED <<mmio_current_top, heap_end, ttbr0, contextid, current, tlb>>
    PROVE  StrongTypeOK'
<1>1. VasTypeOK'
  BY DEF StrongTypeOK, VasTypeOK, Struct
<1> QED BY <1>1 DEF StrongTypeOK

\* Steps after which the kernel's table maps what it mapped.
LEMMA KernelKept ==
    ASSUME MemoryInv, stage = "running", stage' = "running",
           UNCHANGED <<mmio_current_top, heap_end>>,
           mem'.l1[kernell1PageTable] = mem.l1[kernell1PageTable],
           Mapped(mem', kernell1PageTable) = Mapped(mem, kernell1PageTable)
    PROVE  (NothingYet /\ PeripheralsMapped /\ WindowMapped /\ HeapLaidOut)' /\ stage' # "corrupt"
BY DEF MemoryInv, NothingYet, PeripheralsMapped, WindowMapped, HeapLaidOut, Booting, VectorPage

\* What MemoryInv says while the kernel runs, as the steps of vas2.c use it.
LEMMA RunningFacts ==
    ASSUME MemoryInv, stage = "running"
    PROVE  /\ StrongTypeOK /\ mem \in MemType /\ VasTypeOK /\ AsidTypeOK /\ vas \in [Vas -> Struct]
           /\ Sound(mem, LiveTables) /\ TablesHeld /\ PagesListed /\ Alive
           /\ LiveTables \in SUBSET L1Tables /\ kernell1PageTable \in LiveTables
           /\ \A v \in TableHolders : /\ vas[v].l1PageTable.unit \in LiveTables \ {kernell1PageTable}
                                      /\ vas[v].l1PageTable.unit \in L1Units
                                      /\ vas[v].l1PageTable.unit \in Pmm!Units
                                      /\ vas[v].l1PageTable = Pointer(vas[v].l1PageTable.unit)
           /\ LiveTables = {kernell1PageTable} \cup {vas[w].l1PageTable.unit : w \in TableHolders}
<1>1. /\ StrongTypeOK /\ mem \in MemType /\ VasTypeOK /\ AsidTypeOK /\ vas \in [Vas -> Struct]
      /\ Sound(mem, LiveTables) /\ TablesHeld /\ PagesListed /\ Alive
  BY DEF MemoryInv, StrongTypeOK, VasTypeOK, Struct, Alive
<1>2. LiveTables = {kernell1PageTable} \cup {vas[w].l1PageTable.unit : w \in TableHolders}
  BY DEF LiveTables, TableHolders
<1> QED BY <1>1, <1>2, HolderTables, HolderNotKernel

\* create_vas when there is no L1 table to have.
LEMMA CreateWithoutTableInv ==
    ASSUME MemoryInv, stage = "running", NEW v \in Vas, vas[v].state = "none",
           NEW desc \in [asid : Asids, cache_iteration : 0 .. IterationCount - 1], AsidTypeOK',
           vas' = [vas EXCEPT ![v] = [state |-> "live", tlbDescriptor |-> desc, l1PageTable |-> NULL,
                                      l2tables |-> {}, pages |-> {}]],
           UNCHANGED <<vmvars, ttbr0, contextid, current, tlb>>
    PROVE  MemoryInv' /\ Kept
<1> DEFINE new == [state |-> "live", tlbDescriptor |-> desc, l1PageTable |-> NULL,
                   l2tables |-> {}, pages |-> {}]
<1>1. /\ StrongTypeOK /\ mem \in MemType /\ vas \in [Vas -> Struct]
      /\ Sound(mem, LiveTables) /\ TablesHeld /\ PagesListed
      /\ LiveTables = {kernell1PageTable} \cup {vas[w].l1PageTable.unit : w \in TableHolders}
  BY RunningFacts
<1>2. mem' = mem /\ stage' = stage /\ UNCHANGED <<mmio_current_top, heap_end>>
  BY DEF vmvars
<1>3. new \in Struct /\ new.state = "live" /\ new.l1PageTable = NULL /\ new.pages = {}
  BY DEF Struct
<1> HIDE DEF new
<1>4. /\ vas' \in [Vas -> Struct] /\ vas'[v] = new
      /\ \A w \in Vas \ {v} : vas'[w] = vas[w]
  BY <1>1, <1>3 DEF new
<1>5. Live' = Live \cup {v} /\ v \notin Live /\ Live \subseteq Vas
  BY <1>3, <1>4 DEF Live
<1>6. TableHolders' = TableHolders /\ \A w \in TableHolders : vas'[w] = vas[w] /\ w # v
  BY <1>3, <1>4, <1>5 DEF TableHolders
<1>7. LiveTables' = LiveTables
  <2>1. LiveTables' = {kernell1PageTable} \cup {vas'[w].l1PageTable.unit : w \in TableHolders'}
    BY DEF LiveTables, TableHolders
  <2> QED BY <1>1, <1>6, <2>1
<1>8. StrongTypeOK'
  BY <1>1, <1>2, <1>4, VasFrame DEF StrongTypeOK
<1>9. (NothingYet /\ PeripheralsMapped /\ WindowMapped /\ HeapLaidOut)' /\ stage' # "corrupt"
  BY <1>2, KernelKept
<1>10. TablesHeld'
  BY <1>1, <1>2, <1>6 DEF TablesHeld
<1>11. PagesListed'
  BY <1>1, <1>2, <1>3, <1>4, <1>5 DEF PagesListed
<1>12. Sound(mem, LiveTables)'
  BY <1>1, <1>2, <1>7
<1>13. MemoryInv'
  BY <1>8, <1>9, <1>10, <1>11, <1>12 DEF MemoryInv
<1>14. Kept
  BY <1>2, <1>6 DEF Kept
<1> QED BY <1>13, <1>14

\* create_vas with an L1 table.
LEMMA CreateWithTableInv ==
    ASSUME MemoryInv, stage = "running", NEW v \in Vas, vas[v].state = "none",
           NEW desc \in [asid : Asids, cache_iteration : 0 .. IterationCount - 1], AsidTypeOK',
           NEW t \in L1Units, mem.owned[t] = 0, mem' = HandOut(mem, t),
           vas' = [vas EXCEPT ![v] = [state |-> "live", tlbDescriptor |-> desc,
                                      l1PageTable |-> Pointer(t), l2tables |-> {}, pages |-> {}]],
           UNCHANGED <<stage, mmio_current_top, heap_end, ttbr0, contextid, current, tlb>>
    PROVE  MemoryInv' /\ Kept
<1> DEFINE new == [state |-> "live", tlbDescriptor |-> desc, l1PageTable |-> Pointer(t),
                   l2tables |-> {}, pages |-> {}]
           k == kernell1PageTable
<1>1. /\ StrongTypeOK /\ mem \in MemType /\ vas \in [Vas -> Struct]
      /\ Sound(mem, LiveTables) /\ TablesHeld /\ PagesListed
      /\ LiveTables \in SUBSET L1Tables /\ k \in LiveTables
      /\ LiveTables = {k} \cup {vas[w].l1PageTable.unit : w \in TableHolders}
      /\ \A w \in TableHolders : /\ vas[w].l1PageTable.unit \in LiveTables \ {k}
                                 /\ vas[w].l1PageTable.unit \in L1Units
                                 /\ vas[w].l1PageTable.unit \in Pmm!Units
                                 /\ vas[w].l1PageTable = Pointer(vas[w].l1PageTable.unit)
  BY RunningFacts
<1>2. t \notin LiveTables /\ t # k /\ t \in Pmm!Units
  BY <1>1, UnitKinds DEF TablesHeld
<1>3. /\ mem' \in MemType
      /\ \A w \in Pmm!Units : mem'.owned[w] = IF w = t THEN 1 ELSE mem.owned[w]
      /\ \A s \in L1Tables \ {t} : mem'.l1[s] = mem.l1[s]
      /\ Sound(mem', LiveTables \cup {t})
      /\ PagesOf(mem', t) = {}
      /\ \A s \in LiveTables : /\ PagesOf(mem', s) = PagesOf(mem, s)
                               /\ Mapped(mem', s) = Mapped(mem, s)
                               /\ \A q \in Mapped(mem, s) : Entry(mem', s, q) = Entry(mem, s, q)
  <2>1. Opened(mem, mem', LiveTables, t)
    BY <1>1, <1>2, NewTableSound
  <2> QED BY <2>1 DEF Opened
<1>4. /\ new \in Struct /\ new.state = "live" /\ new.l1PageTable = Pointer(t)
      /\ new.pages = {} /\ Pointer(t) # NULL /\ Pointer(t).unit = t
  BY PointerInjective DEF Struct
<1> HIDE DEF new
<1>5. /\ vas' \in [Vas -> Struct] /\ vas'[v] = new
      /\ \A w \in Vas \ {v} : vas'[w] = vas[w]
  BY <1>1, <1>4 DEF new
<1>6. Live' = Live \cup {v} /\ v \notin Live /\ Live \subseteq Vas
  BY <1>4, <1>5 DEF Live
<1>7. TableHolders' = TableHolders \cup {v} /\ \A w \in TableHolders : vas'[w] = vas[w] /\ w # v
  BY <1>4, <1>5, <1>6 DEF TableHolders
<1>8. LiveTables' = LiveTables \cup {t}
  <2>1. LiveTables' = {k} \cup {vas'[w].l1PageTable.unit : w \in TableHolders'}
    BY DEF LiveTables, TableHolders
  <2>2. {vas'[w].l1PageTable.unit : w \in TableHolders'} = {vas[w].l1PageTable.unit : w \in TableHolders} \cup {t}
    BY <1>4, <1>5, <1>7
  <2> QED BY <1>1, <2>1, <2>2
<1>9. StrongTypeOK'
  BY <1>1, <1>3, <1>5, VasFrame DEF StrongTypeOK
<1>10. (NothingYet /\ PeripheralsMapped /\ WindowMapped /\ HeapLaidOut)' /\ stage' # "corrupt"
  BY <1>1, <1>2, <1>3, KernelKept
<1>11. TablesHeld'
  <2>1. \A w \in TableHolders' : mem'.owned[vas'[w].l1PageTable.unit] = 1
    BY <1>1, <1>2, <1>3, <1>4, <1>5, <1>7 DEF TablesHeld
  <2>2. \A w \in TableHolders : vas'[w].l1PageTable # Pointer(t)
    BY <1>1, <1>2, <1>4, <1>7
  <2>3. \A w, x \in TableHolders' : vas'[w].l1PageTable = vas'[x].l1PageTable => w = x
    BY <1>1, <1>4, <1>5, <1>7, <2>2 DEF TablesHeld
  <2> QED BY <2>1, <2>3 DEF TablesHeld
<1>12. PagesListed'
  <2>1. ASSUME NEW w \in Live'
        PROVE  vas'[w].pages = IF vas'[w].l1PageTable = NULL THEN {}
                               ELSE {Pointer(u) : u \in PagesOf(mem', vas'[w].l1PageTable.unit)}
    <3>1. CASE w = v
      BY <1>3, <1>4, <1>5, <3>1
    <3>2. CASE w # v
      <4>1. w \in Live /\ vas'[w] = vas[w]
        BY <1>5, <1>6, <3>2
      <4>2. vas[w].l1PageTable # NULL =>
               PagesOf(mem', vas[w].l1PageTable.unit) = PagesOf(mem, vas[w].l1PageTable.unit)
        BY <1>1, <1>3, <4>1 DEF TableHolders
      <4> QED BY <1>1, <4>1, <4>2 DEF PagesListed
    <3> QED BY <3>1, <3>2
  <2> QED BY <2>1 DEF PagesListed
<1>13. Sound(mem, LiveTables)'
  BY <1>3, <1>8
<1>14. MemoryInv'
  BY <1>9, <1>10, <1>11, <1>12, <1>13 DEF MemoryInv
<1>15. Kept
  BY <1>1, <1>3, <1>7 DEF Kept
<1> QED BY <1>14, <1>15

\* create_vas, with an L1 table or without.
LEMMA CreateInv ==
    ASSUME MemoryInv, NEW v \in Vas, create_vas(v)
    PROVE  MemoryInv' /\ Kept
<1>1. /\ stage = "running" /\ vas[v].state = "none" /\ asid_request_descriptor
      /\ UNCHANGED <<mmio_current_top, heap_end, stage, ttbr0, contextid, current, tlb>>
  BY DEF create_vas
<1>2. AsidTypeOK' /\ RequestedDescriptor \in [asid : Asids, cache_iteration : 0 .. IterationCount - 1]
  BY <1>1, RunningFacts, AsidTypeKept
<1>3. CASE /\ vas' = [vas EXCEPT ![v] = [state |-> "live", tlbDescriptor |-> RequestedDescriptor,
                                         l1PageTable |-> NULL, l2tables |-> {}, pages |-> {}]]
           /\ UNCHANGED mem
  <2>1. UNCHANGED <<vmvars, ttbr0, contextid, current, tlb>>
    BY <1>1, <1>3 DEF vmvars
  <2> QED BY <1>1, <1>2, <1>3, <2>1, CreateWithoutTableInv
<1>4. CASE \E t \in Candidates(mem, "L1PageTable") :
             /\ vas' = [vas EXCEPT ![v] = [state |-> "live", tlbDescriptor |-> RequestedDescriptor,
                                           l1PageTable |-> Pointer(t), l2tables |-> {}, pages |-> {}]]
             /\ mem' = HandOut(mem, t)
  <2>1. PICK t \in Candidates(mem, "L1PageTable") :
             /\ vas' = [vas EXCEPT ![v] = [state |-> "live", tlbDescriptor |-> RequestedDescriptor,
                                           l1PageTable |-> Pointer(t), l2tables |-> {}, pages |-> {}]]
             /\ mem' = HandOut(mem, t)
    BY <1>4
  <2>2. t \in L1Units /\ mem.owned[t] = 0
    BY <1>1, <2>1, RunningFacts, CandidateKinds
  <2> QED BY <1>1, <1>2, <2>1, <2>2, CreateWithTableInv
<1> QED BY <1>3, <1>4 DEF create_vas

\* free_vas, whatever happened to memory: the address space is gone.
LEMMA FreedInv ==
    ASSUME MemoryInv, stage = "running", NEW v \in Live,
           vas' = [vas EXCEPT ![v] = [NoVas EXCEPT !.state = "freed"]],
           UNCHANGED <<stage, mmio_current_top, heap_end, asidvars, ttbr0, contextid, current, tlb>>,
           mem' \in MemType, mem'.l1 = mem.l1, mem'.l2 = mem.l2,
           \A w \in TableHolders \ {v} :
              mem'.owned[vas[w].l1PageTable.unit] = mem.owned[vas[w].l1PageTable.unit],
           Sound(mem', IF v \in TableHolders THEN LiveTables \ {vas[v].l1PageTable.unit} ELSE LiveTables)
    PROVE  MemoryInv' /\ Kept
<1> DEFINE gone == [NoVas EXCEPT !.state = "freed"]
           k == kernell1PageTable
<1>1. /\ StrongTypeOK /\ mem \in MemType /\ vas \in [Vas -> Struct] /\ AsidTypeOK
      /\ TablesHeld /\ PagesListed
      /\ LiveTables = {k} \cup {vas[w].l1PageTable.unit : w \in TableHolders}
      /\ \A w \in TableHolders : /\ vas[w].l1PageTable.unit \in LiveTables \ {k}
                                 /\ vas[w].l1PageTable = Pointer(vas[w].l1PageTable.unit)
  BY RunningFacts
<1>2. gone \in Struct /\ gone.state = "freed" /\ v \in Vas
  BY AsidAssumption DEF NoVas, Struct, Asids, Live
<1> HIDE DEF gone
<1>3. /\ vas' \in [Vas -> Struct] /\ vas'[v] = gone
      /\ \A w \in Vas \ {v} : vas'[w] = vas[w]
  BY <1>1, <1>2 DEF gone
<1>4. Live' = Live \ {v} /\ Live \subseteq Vas
  BY <1>2, <1>3 DEF Live
<1>5. TableHolders' = TableHolders \ {v} /\ \A w \in TableHolders' : vas'[w] = vas[w]
  BY <1>3, <1>4 DEF TableHolders
<1>6. LiveTables' = IF v \in TableHolders THEN LiveTables \ {vas[v].l1PageTable.unit} ELSE LiveTables
  <2>1. LiveTables' = {k} \cup {vas'[w].l1PageTable.unit : w \in TableHolders'}
    BY DEF LiveTables, TableHolders
  <2>2. LiveTables' = {k} \cup {vas[w].l1PageTable.unit : w \in TableHolders \ {v}}
    BY <1>5, <2>1
  <2>3. \A w \in TableHolders : vas[w].l1PageTable.unit # k
    BY <1>1
  <2>4. \A w, x \in TableHolders : vas[w].l1PageTable.unit = vas[x].l1PageTable.unit => w = x
    BY <1>1 DEF TablesHeld
  <2>5. CASE v \in TableHolders
    BY <1>1, <2>2, <2>3, <2>4, <2>5
  <2>6. CASE v \notin TableHolders
    BY <1>1, <2>2, <2>6
  <2> QED BY <2>5, <2>6
<1>7. /\ \A t : PagesOf(mem', t) = PagesOf(mem, t) /\ Mapped(mem', t) = Mapped(mem, t)
      /\ \A t, p : Entry(mem', t, p) = Entry(mem, t, p)
  BY SameTables
<1>8. StrongTypeOK'
  <2>1. AsidTypeOK'
    BY <1>1 DEF AsidTypeOK, asidvars
  <2> QED BY <1>1, <1>3, <2>1, VasFrame DEF StrongTypeOK
<1>9. (NothingYet /\ PeripheralsMapped /\ WindowMapped /\ HeapLaidOut)' /\ stage' # "corrupt"
  BY <1>7, KernelKept
<1>10. TablesHeld'
  BY <1>1, <1>5 DEF TablesHeld
<1>11. PagesListed'
  <2>1. ASSUME NEW w \in Live'
        PROVE  vas'[w].pages = IF vas'[w].l1PageTable = NULL THEN {}
                               ELSE {Pointer(u) : u \in PagesOf(mem', vas'[w].l1PageTable.unit)}
    <3>1. w \in Live /\ vas'[w] = vas[w]
      BY <1>3, <1>4
    <3>2. PagesOf(mem', vas[w].l1PageTable.unit) = PagesOf(mem, vas[w].l1PageTable.unit)
      BY <1>7
    <3> QED BY <1>1, <3>1, <3>2 DEF PagesListed
  <2> QED BY <2>1 DEF PagesListed
<1>12. Sound(mem', LiveTables')
  BY <1>6
<1>13. MemoryInv'
  BY <1>8, <1>9, <1>10, <1>11, <1>12 DEF MemoryInv
<1>14. Kept
  <2>1. \A w \in TableHolders : w \in Live' => vas'[w] = vas[w]
    BY <1>3, <1>4
  <2> QED BY <1>7, <2>1 DEF Kept
<1> QED BY <1>13, <1>14

\* free_vas gives back what it has on its list, all of which is handed out.
LEMMA FreeInv ==
    ASSUME MemoryInv, NEW v \in Vas, free_vas(v)
    PROVE  MemoryInv' /\ Kept
<1> DEFINE freed == vas[v].l2tables \cup vas[v].pages \cup ({vas[v].l1PageTable} \ {NULL})
           k == kernell1PageTable
<1>1. /\ stage = "running" /\ v \in Live
      /\ IF \A a \in freed : MayFree(mem, a)
         THEN mem' = TakeBack(mem, freed) /\ UNCHANGED stage
         ELSE stage' = "corrupt" /\ UNCHANGED mem
      /\ vas' = [vas EXCEPT ![v] = [NoVas EXCEPT !.state = "freed"]]
      /\ UNCHANGED <<mmio_current_top, heap_end, asidvars, ttbr0, contextid, current, tlb>>
  BY DEF free_vas
<1>2. /\ mem \in MemType /\ vas \in [Vas -> Struct]
      /\ Sound(mem, LiveTables) /\ TablesHeld /\ PagesListed
      /\ LiveTables \in SUBSET L1Tables
      /\ \A w \in TableHolders : /\ vas[w].l1PageTable.unit \in LiveTables \ {k}
                                 /\ vas[w].l1PageTable.unit \in L1Units
                                 /\ vas[w].l1PageTable.unit \in Pmm!Units
                                 /\ vas[w].l1PageTable = Pointer(vas[w].l1PageTable.unit)
  BY <1>1, RunningFacts
<1>3. vas[v].l2tables = {}
  BY <1>2 DEF Struct
<1>4. CASE v \notin TableHolders
  <2>1. vas[v].l1PageTable = NULL /\ vas[v].pages = {}
    BY <1>1, <1>2, <1>4 DEF TableHolders, PagesListed
  <2>2. freed = {}
    BY <1>3, <2>1
  <2>3. mem' = TakeBack(mem, {}) /\ UNCHANGED stage
    BY <1>1, <2>2
  <2>4. /\ mem' \in MemType /\ mem'.l1 = mem.l1 /\ mem'.l2 = mem.l2
        /\ \A w \in Pmm!Units : mem'.owned[w] = mem.owned[w]
    <3>1. \A w \in Pmm!Units : Pointer(w) \in {} => mem.owned[w] = 1
      OBVIOUS
    <3> QED BY <1>2, <2>3, <3>1, TakeBackFields
  <2>5. mem' = mem
    <3>1. mem'.owned = mem.owned
      BY <1>2, <2>4, MemFields
    <3>2. /\ mem = [owned |-> mem.owned, l1 |-> mem.l1, l2 |-> mem.l2]
          /\ mem' = [owned |-> mem'.owned, l1 |-> mem'.l1, l2 |-> mem'.l2]
      BY <1>2, <2>4, MemFields
    <3> QED BY <2>4, <3>1, <3>2
  <2>6. Sound(mem', IF v \in TableHolders THEN LiveTables \ {vas[v].l1PageTable.unit} ELSE LiveTables)
    BY <1>2, <1>4, <2>5
  <2> QED BY <1>1, <2>3, <2>4, <2>5, <2>6, FreedInv
<1>5. CASE v \in TableHolders
  <2> DEFINE t == vas[v].l1PageTable.unit
             as == {Pointer(u) : u \in PagesOf(mem, t)} \cup {Pointer(t)}
  <2>1. /\ t \in LiveTables /\ t \in L1Units /\ t \in Pmm!Units /\ vas[v].l1PageTable = Pointer(t)
        /\ Pointer(t) # NULL /\ mem.owned[t] = 1
    BY <1>2, <1>5, PointerInjective DEF TablesHeld
  <2>2. vas[v].pages = {Pointer(u) : u \in PagesOf(mem, t)}
    BY <1>1, <1>2, <2>1 DEF PagesListed
  <2>3. freed = as
    BY <1>3, <2>1, <2>2
  <2> HIDE DEF t
  <2>4. \A u \in PagesOf(mem, t) : u \in PageUnits /\ mem.owned[u] = 1
    <3>1. t \in L1Tables
      BY <1>2, <2>1
    <3> QED BY <1>2, <2>1, <3>1, LinkTypes DEF PagesOf, Sound, LeavesSound, Linked
  <2>5. \A a \in as : MayFree(mem, a)
    BY <2>1, <2>4, UnitKinds, PointerInjective DEF MayFree
  <2>6. mem' = TakeBack(mem, as) /\ UNCHANGED stage
    <3> HIDE DEF as, freed
    <3> QED BY <1>1, <2>3, <2>5
  <2>7. /\ mem' \in MemType /\ mem'.l1 = mem.l1 /\ mem'.l2 = mem.l2
        /\ \A w \in L1Units \ {t} : mem'.owned[w] = mem.owned[w]
        /\ Sound(mem', LiveTables \ {t})
    <3> DEFINE L == LiveTables
    <3>1. /\ mem \in MemType /\ L \in SUBSET L1Tables /\ Sound(mem, L)
          /\ t \in L /\ t \in L1Units /\ mem.owned[t] = 1
      BY <1>2, <2>1
    <3>2. mem' = TakeBack(mem, {Pointer(u) : u \in PagesOf(mem, t)} \cup {Pointer(t)})
      BY <2>6
    <3> HIDE DEF L
    <3>3. Closed(mem, mem', L, t)
      BY ONLY <3>1, <3>2, TakeBackSound
    <3> QED BY <3>3 DEF Closed, L
  <2>8. \A w \in TableHolders \ {v} :
           mem'.owned[vas[w].l1PageTable.unit] = mem.owned[vas[w].l1PageTable.unit]
    <3>1. \A w \in TableHolders \ {v} : vas[w].l1PageTable.unit # t /\ vas[w].l1PageTable.unit \in L1Units
      BY <1>2, <1>5, <2>1 DEF TablesHeld
    <3> QED BY <2>7, <3>1
  <2>9. Sound(mem', IF v \in TableHolders THEN LiveTables \ {vas[v].l1PageTable.unit} ELSE LiveTables)
    BY <1>5, <2>7 DEF t
  <2> QED BY <1>1, <2>6, <2>7, <2>8, <2>9, FreedInv
<1> QED BY <1>4, <1>5

\* allocate_page maps a page below KernelBase and puts it on the list.
LEMMA AllocateInv ==
    ASSUME MemoryInv, NEW v \in Vas, NEW p \in UserPages, allocate_page(v, p)
    PROVE  MemoryInv' /\ Kept
<1> DEFINE k == kernell1PageTable
           t == vas[v].l1PageTable.unit
<1>1. /\ stage = "running" /\ v \in Live
      /\ UNCHANGED <<mmio_current_top, heap_end, asidvars, ttbr0, contextid, current, tlb>>
  BY DEF allocate_page
<1>2. /\ StrongTypeOK /\ mem \in MemType /\ vas \in [Vas -> Struct] /\ AsidTypeOK
      /\ Sound(mem, LiveTables) /\ TablesHeld /\ PagesListed
      /\ LiveTables \in SUBSET L1Tables /\ k \in LiveTables
      /\ LiveTables = {k} \cup {vas[w].l1PageTable.unit : w \in TableHolders}
      /\ \A w \in TableHolders : /\ vas[w].l1PageTable.unit \in LiveTables \ {k}
                                 /\ vas[w].l1PageTable.unit \in L1Units
                                 /\ vas[w].l1PageTable = Pointer(vas[w].l1PageTable.unit)
  BY <1>1, RunningFacts
<1>3. AsidTypeOK'
  BY <1>1, <1>2 DEF AsidTypeOK, asidvars
<1>4. CASE vas[v].l1PageTable = NULL
  <2>1. stage' = "fault" /\ UNCHANGED <<mem, vas>>
    BY <1>4 DEF allocate_page
  <2>2. StrongTypeOK'
    BY <1>1, <1>2, <1>3, <2>1, VasFrame DEF Stages
  <2> QED BY <2>1, <2>2, Ended
<1>5. CASE vas[v].l1PageTable # NULL
  <2>1. PICK o \in vm2_allocate_page(mem, t, p) :
           /\ mem' = o.mem /\ stage' = o.end
           /\ vas' = IF o.end = "running" THEN [vas EXCEPT ![v].pages = @ \cup {o.page}] ELSE vas
    BY <1>5 DEF allocate_page
  <2>2. v \in TableHolders /\ t \in LiveTables \ {k} /\ t \in L1Units /\ t \in L1Tables
    BY <1>1, <1>2, <1>5 DEF TableHolders
  <2>3. p \in Nat /\ l1pt_index(p) \in UserIndexes
    <3>1. p \in Nat /\ p < KernelBase * L2Entries
      BY UserPagesAssumption, Sizes, IndexOrder
    <3>2. KernelBase \in Nat
      BY Sizes
    <3>3. l1pt_index(p) \in Nat /\ l1pt_index(p) < KernelBase
      BY <3>1, <3>2, PageSplit, IndexBounds
    <3> QED BY <3>1, <3>2, <3>3 DEF UserIndexes
  <2>4. DOMAIN mem.l1[t] = UserIndexes /\ mem.l1[t][l1pt_index(p)].type # 2
    BY <1>2, <2>2, <2>3, LinkTypes
  <2> HIDE DEF t
  <2>5. /\ o.mem \in MemType
        /\ \/ o.end \in {"fault", "panic"} /\ o.page = NULL
           \/ /\ o.end = "running"
              /\ \E u \in PageUnits : o.page = Pointer(u) /\ Grown(mem, o.mem, LiveTables, t, p, u)
    <3> DEFINE L == LiveTables
    <3>1. /\ mem \in MemType /\ L \in SUBSET L1Tables /\ Sound(mem, L)
          /\ t \in L /\ p \in Nat /\ l1pt_index(p) \in DOMAIN mem.l1[t]
          /\ o \in vm2_allocate_page(mem, t, p)
      BY <1>2, <2>1, <2>2, <2>3, <2>4 DEF t
    <3> HIDE DEF L
    <3>2. Allocated(mem, L, t, p, o)
      BY ONLY <3>1, AllocateOutcomes
    <3> QED BY <2>4, <3>2 DEF Allocated, L
  <2>6. CASE o.end \in {"fault", "panic"}
    <3>1. vas' = vas /\ stage' \in Stages /\ stage' \in {"fault", "panic"}
      BY <2>1, <2>6 DEF Stages
    <3>2. StrongTypeOK'
      BY <1>1, <1>2, <1>3, <2>1, <2>5, <3>1, VasFrame
    <3> QED BY <3>1, <3>2, Ended
  <2>7. CASE /\ o.end = "running"
             /\ \E u \in PageUnits : o.page = Pointer(u) /\ Grown(mem, o.mem, LiveTables, t, p, u)
    <3>1. PICK u \in PageUnits : o.page = Pointer(u) /\ Grown(mem, mem', LiveTables, t, p, u)
      BY <2>1, <2>7
    <3>2. /\ stage' = "running" /\ mem' \in MemType /\ stage' \in Stages
          /\ vas' = [vas EXCEPT ![v].pages = @ \cup {Pointer(u)}]
      BY <2>1, <2>5, <2>7, <3>1 DEF Stages
    <3>3. /\ vas' \in [Vas -> Struct]
          /\ vas'[v].pages = vas[v].pages \cup {Pointer(u)}
          /\ \A w \in Vas \ {v} : vas'[w] = vas[w]
          /\ \A w \in Vas : vas'[w].state = vas[w].state /\ vas'[w].l1PageTable = vas[w].l1PageTable
      <4> DEFINE s == [vas[v] EXCEPT !.pages = @ \cup {Pointer(u)}]
      <4>1. vas \in [Vas -> Struct] /\ v \in Vas /\ vas[v] \in Struct
        BY <1>2
      <4>2. /\ s \in Struct /\ s.pages = vas[v].pages \cup {Pointer(u)}
            /\ s.state = vas[v].state /\ s.l1PageTable = vas[v].l1PageTable
        BY <4>1 DEF Struct
      <4>3. vas' = [vas EXCEPT ![v] = s]
        BY <3>2
      <4> HIDE DEF s
      <4> QED BY ONLY <4>1, <4>2, <4>3
    <3>4. /\ Sound(mem', LiveTables)
          /\ \A s \in LiveTables :
                /\ PagesOf(mem', s) = IF s = t THEN PagesOf(mem, t) \cup {u} ELSE PagesOf(mem, s)
                /\ Mapped(mem', s) = IF s = t THEN Mapped(mem, t) \cup {p} ELSE Mapped(mem, s)
                /\ \A q \in Mapped(mem, s) : Entry(mem', s, q) = Entry(mem, s, q)
          /\ \A w \in L1Units : mem'.owned[w] = mem.owned[w]
      BY <3>1 DEF Grown
    <3>5. mem'.l1[k] = mem.l1[k]
      <4>1. k \in L1Tables /\ k # t
        BY <1>2, <2>2
      <4>2. \A i \in DOMAIN mem.l1[k] : mem'.l1[k][i] = mem.l1[k][i]
        BY <3>1, <4>1 DEF Grown
      <4>3. mem.l1[k] \in KernelTable /\ mem'.l1[k] \in KernelTable
        BY <1>2, <3>2, MemFields
      <4> QED BY <4>2, <4>3 DEF KernelTable
    <3>6. Live' = Live /\ Live \subseteq Vas
      BY <3>3 DEF Live
    <3>7. TableHolders' = TableHolders /\ \A w \in TableHolders : vas'[w].l1PageTable = vas[w].l1PageTable
      BY <3>3, <3>6 DEF TableHolders
    <3>8. LiveTables' = LiveTables
      <4>1. LiveTables' = {k} \cup {vas'[w].l1PageTable.unit : w \in TableHolders'}
        BY DEF LiveTables, TableHolders
      <4> QED BY <1>2, <3>7, <4>1
    <3>9. StrongTypeOK'
      BY <1>1, <1>2, <1>3, <3>2, <3>3, VasFrame
    <3>10. (NothingYet /\ PeripheralsMapped /\ WindowMapped /\ HeapLaidOut)' /\ stage' # "corrupt"
      BY <1>1, <1>2, <2>2, <3>2, <3>4, <3>5, KernelKept
    <3>11. TablesHeld'
      BY <1>2, <3>4, <3>7 DEF TablesHeld
    <3>12. PagesListed'
      <4>1. ASSUME NEW w \in Live
            PROVE  vas'[w].pages = IF vas'[w].l1PageTable = NULL THEN {}
                                   ELSE {Pointer(x) : x \in PagesOf(mem', vas'[w].l1PageTable.unit)}
        <5>1. CASE w = v
          <6>1. vas[v].pages = {Pointer(x) : x \in PagesOf(mem, t)}
            BY <1>1, <1>2, <1>5 DEF PagesListed, t
          <6>2. PagesOf(mem', t) = PagesOf(mem, t) \cup {u}
            BY <2>2, <3>4
          <6>3. vas'[v].pages = {Pointer(x) : x \in PagesOf(mem', t)}
            BY <3>3, <6>1, <6>2
          <6> QED BY <1>5, <3>3, <5>1, <6>3 DEF t
        <5>2. CASE w # v
          <6>1. w \in Vas /\ vas'[w] = vas[w]
            BY <3>3, <3>6, <5>2
          <6>2. vas[w].l1PageTable # NULL =>
                   /\ vas[w].l1PageTable.unit \in LiveTables
                   /\ vas[w].l1PageTable.unit # t
            BY <1>2, <2>2, <5>2 DEF TableHolders, TablesHeld, t
          <6> QED BY <1>2, <3>4, <6>1, <6>2 DEF PagesListed
        <5> QED BY <5>1, <5>2
      <4> QED BY <3>6, <4>1 DEF PagesListed
    <3>13. Sound(mem', LiveTables')
      BY <3>4, <3>8
    <3>14. MemoryInv'
      BY <3>9, <3>10, <3>11, <3>12, <3>13 DEF MemoryInv
    <3>15. Kept
      BY <1>2, <3>4, <3>7 DEF Kept
    <3> QED BY <3>14, <3>15
  <2> QED BY <2>5, <2>6, <2>7
<1> QED BY <1>4, <1>5

\* Every step keeps the invariant and what living address spaces have mapped.
LEMMA NextMemoryInv ==
    ASSUME MemoryInv, [Next]_vars
    PROVE  MemoryInv' /\ Kept
<1>1. CASE Kernel
  BY <1>1, KernelInv
<1>2. CASE \E v \in Vas : create_vas(v)
  BY <1>2, CreateInv
<1>3. CASE \E v \in Vas : free_vas(v)
  BY <1>3, FreeInv
<1>4. CASE \E v \in Vas : \E p \in UserPages : allocate_page(v, p)
  BY <1>4, AllocateInv
<1>5. CASE RunUser
  BY <1>5, RunUserInv
<1>6. CASE \E v \in Vas : switch_to_vas(v)
  BY <1>6, SwitchInv
<1>7. CASE UNCHANGED vars
  <2>1. UNCHANGED <<vmvars, asidvars, vas, ttbr0, contextid, current, tlb>>
    BY <1>7 DEF vars, uservars
  <2>2. StrongTypeOK'
    BY <2>1 DEF MemoryInv, StrongTypeOK, AsidTypeOK, VasTypeOK, vmvars, asidvars
  <2> QED BY <2>1, <2>2, MemoryUntouched
<1> QED BY <1>1, <1>2, <1>3, <1>4, <1>5, <1>6, <1>7 DEF Next, MemoryNext

-----------------------------------------------------------------------------
(* What the inductive invariant says of what the MMU finds.                *)

\* The pages that the MMU finds are the valid entries of linked tables.
MmuAgrees ==
    /\ \A t : MappedPages(t) = Mapped(mem, t)
    /\ \A t, p : Translate(t, p) = Entry(mem, t, p)

\* Both views of the tables agree.
LEMMA MmuView == MmuAgrees
<1>1. ASSUME NEW t PROVE MappedPages(t) = Mapped(mem, t)
  <2> DEFINE P == 0 .. (MmioBase + 1) * L2Entries - 1
  <2>1. \A p \in P : p \in Nat
    BY Sizes, IndexOrder
  <2>2. \A p \in P : l2pt_index(p) \in L2Indexes
    BY <2>1, PageSplit
  <2> HIDE DEF P
  <2>3. MappedPages(t) = {p \in P : /\ l1pt_index(p) \in DOMAIN mem.l1[t]
                                    /\ mem.l1[t][l1pt_index(p)].type = 1
                                    /\ mem.l2[mem.l1[t][l1pt_index(p)].base.unit][l2pt_index(p)].type # 0}
    BY DEF MappedPages, P
  <2>4. Mapped(mem, t) = {p \in P : /\ l1pt_index(p) \in Links(mem, t)
                                    /\ l2pt_index(p) \in Leaves(mem, Under(mem, t, l1pt_index(p)))}
    BY DEF Mapped, P
  <2> QED BY <2>2, <2>3, <2>4 DEF Links, Leaves, Under
<1>2. \A t, p : Translate(t, p) = Entry(mem, t, p)
  BY DEF Translate, Entry, Under
<1> QED BY <1>1, <1>2 DEF MmuAgrees

\* The memory that a table maps is the memory of its pages.
LEMMA PagesOfMapped ==
    ASSUME NEW m \in MemType, NEW t \in L1Tables
    PROVE  /\ PagesOf(m, t) = {Entry(m, t, p).unit : p \in Mapped(m, t)}
           /\ \A p \in Mapped(m, t) : /\ p \in Nat
                                      /\ l1pt_index(p) \in Links(m, t)
                                      /\ l2pt_index(p) \in Leaves(m, Under(m, t, l1pt_index(p)))
                                      /\ Entry(m, t, p).unit =
                                            PageAt(m, Under(m, t, l1pt_index(p)), l2pt_index(p))
                                      /\ Entry(m, t, p).unit \in PageUnits
<1>1. \A p \in 0 .. (MmioBase + 1) * L2Entries - 1 : p \in Nat
  BY Sizes, IndexOrder
<1>2. ASSUME NEW p \in Mapped(m, t)
      PROVE  /\ p \in Nat
             /\ l1pt_index(p) \in Links(m, t)
             /\ l2pt_index(p) \in Leaves(m, Under(m, t, l1pt_index(p)))
             /\ Entry(m, t, p).unit = PageAt(m, Under(m, t, l1pt_index(p)), l2pt_index(p))
             /\ Entry(m, t, p).unit \in PageUnits
  <2>1. /\ p \in Nat /\ l1pt_index(p) \in Links(m, t)
        /\ l2pt_index(p) \in Leaves(m, Under(m, t, l1pt_index(p)))
    BY <1>1 DEF Mapped
  <2>2. Under(m, t, l1pt_index(p)) \in L2Units
    BY <2>1, LinkTypes
  <2>3. Entry(m, t, p).unit = PageAt(m, Under(m, t, l1pt_index(p)), l2pt_index(p))
    BY DEF Entry, PageAt
  <2> QED BY <2>1, <2>2, <2>3, LeafTypes
<1>3. ASSUME NEW u \in PagesOf(m, t) PROVE \E p \in Mapped(m, t) : u = Entry(m, t, p).unit
  <2>1. PICK i \in Links(m, t) : \E j \in Leaves(m, Under(m, t, i)) : u = PageAt(m, Under(m, t, i), j)
    BY DEF PagesOf
  <2>2. PICK j \in Leaves(m, Under(m, t, i)) : u = PageAt(m, Under(m, t, i), j)
    BY <2>1
  <2>3. i \in KernelIndexes /\ i \in Nat /\ j \in L2Indexes
    BY LinkTypes DEF Leaves
  <2> DEFINE p == i * L2Entries + j
  <2>4. p \in 0 .. (MmioBase + 1) * L2Entries - 1 /\ l1pt_index(p) = i /\ l2pt_index(p) = j
    BY <2>3, PageJoin, PageInRange
  <2> HIDE DEF p
  <2>5. p \in Mapped(m, t)
    BY <2>4 DEF Mapped
  <2>6. u = Entry(m, t, p).unit
    BY <2>2, <2>4 DEF Entry, PageAt
  <2> QED BY <2>5, <2>6
<1>4. ASSUME NEW p \in Mapped(m, t) PROVE Entry(m, t, p).unit \in PagesOf(m, t)
  <2>1. /\ l1pt_index(p) \in Links(m, t)
        /\ l2pt_index(p) \in Leaves(m, Under(m, t, l1pt_index(p)))
        /\ Entry(m, t, p).unit = PageAt(m, Under(m, t, l1pt_index(p)), l2pt_index(p))
        /\ Entry(m, t, p).unit \in PageUnits
    BY <1>2
  <2> QED BY <2>1 DEF PagesOf
<1>5. PagesOf(m, t) = {Entry(m, t, p).unit : p \in Mapped(m, t)}
  BY <1>3, <1>4
<1> QED BY <1>2, <1>5

\* MemoryInv implies the type invariant.
LEMMA InvTypeOK == MemoryInv => TypeOK
<1> SUFFICES ASSUME MemoryInv PROVE TypeOK
  OBVIOUS
<1>1. /\ mem \in MemType /\ mmio_current_top \in HeapBase .. MmioBase /\ heap_end \in Nat
      /\ stage \in Stages /\ AsidTypeOK /\ VasTypeOK
  BY DEF MemoryInv, StrongTypeOK
<1>2. VmTypeOK
  <2>1. mem.owned \in [Pmm!Units -> Nat]
    BY <1>1, MemFields
  <2>2. \A t \in L1Units : \A i \in UserIndexes : mem.l1[t][i] \in Entries({1}, L2Units)
    BY <1>1 DEF MemType, UserTable
  <2>3. ASSUME NEW i \in KernelIndexes
        PROVE  LET entry == mem.l1[kernell1PageTable][i]
               IN \/ entry \in Entries({1}, L2Units)
                  \/ entry = Section(entry.base.unit[2])
    <3>1. mem.l1[kernell1PageTable][i] \in Entries({1}, L2Units) \cup {Section(n) : n \in Nat}
      BY <1>1 DEF MemType, KernelTable
    <3>2. \A n \in Nat : Section(n).base.unit[2] = n
      BY DEF Section
    <3> QED BY <3>1, <3>2
  <2>4. mem.l2 \in [L2Units -> [L2Indexes -> Entries({2}, PageUnits)]]
    BY <1>1, MemFields
  <2>5. mmio_current_top \in KernelIndexes
    BY <1>1, Sizes DEF KernelIndexes
  <2> QED BY <1>1, <2>1, <2>2, <2>3, <2>4, <2>5 DEF VmTypeOK
<1>3. \A v \in Vas :
         /\ vas[v].state \in {"none", "live", "freed"}
         /\ vas[v].tlbDescriptor \in [asid : Asids, cache_iteration : 0 .. IterationCount - 1]
         /\ vas[v].l1PageTable \in {Pointer(u) : u \in L1Units} \cup {NULL}
         /\ vas[v].l2tables \subseteq {Pointer(u) : u \in L2Units}
         /\ vas[v].pages \subseteq {Pointer(u) : u \in PageUnits}
  BY <1>1 DEF VasTypeOK
<1>4. /\ ttbr0 \in [top : {0, 1}, unit : {kernell1PageTable} \cup L1Units] \cup {NULL}
      /\ contextid \in Asids /\ current \in Vas \cup {Nobody} /\ tlb \subseteq Asids \X Vas
  BY <1>1 DEF VasTypeOK, L1Tables
<1> QED BY <1>1, <1>2, <1>3, <1>4 DEF TypeOK

\* What the tables of live address spaces and the kernel refer to is handed out,
\* once for each reference.
LEMMA InvTables ==
    ASSUME MemoryInv, Alive
    PROVE  NoDanglingMappings /\ NoSharedMemory
<1> DEFINE L == LiveTables
<1>1. /\ mem \in MemType /\ L \in SUBSET L1Tables /\ LinksSound(mem, L) /\ LeavesSound(mem, L)
      /\ TablesHeld /\ L = {kernell1PageTable} \cup {vas[v].l1PageTable.unit : v \in TableHolders}
  <2>1. mem \in MemType /\ VasTypeOK /\ Sound(mem, L) /\ TablesHeld
    BY DEF MemoryInv, StrongTypeOK
  <2> QED BY <2>1, HolderTables DEF Sound, LiveTables, TableHolders
<1>2. \A t \in L : t # kernell1PageTable => mem.owned[t] = 1
  BY <1>1 DEF TablesHeld
<1> HIDE DEF L
<1>3. ASSUME NEW t \in L
      PROVE  /\ CoarseEntries(t) = {mem.l1[t][i] : i \in Links(mem, t)}
             /\ TablesOf(t) = {Under(mem, t, i) : i \in Links(mem, t)}
  BY DEF CoarseEntries, TablesOf, Links, Under
<1>4. ASSUME NEW t \in L, NEW p \in Mapped(mem, t)
      PROVE  /\ p \in Nat /\ l1pt_index(p) \in Links(mem, t)
             /\ l2pt_index(p) \in Leaves(mem, Under(mem, t, l1pt_index(p)))
             /\ Under(mem, t, l1pt_index(p)) \in Linked(mem, L)
             /\ Entry(mem, t, p).unit = PageAt(mem, Under(mem, t, l1pt_index(p)), l2pt_index(p))
  <2>1. t \in L1Tables
    BY <1>1
  <2>2. /\ p \in Nat /\ l1pt_index(p) \in Links(mem, t)
        /\ l2pt_index(p) \in Leaves(mem, Under(mem, t, l1pt_index(p)))
        /\ Entry(mem, t, p).unit = PageAt(mem, Under(mem, t, l1pt_index(p)), l2pt_index(p))
    BY <1>1, <2>1, PagesOfMapped
  <2>3. Under(mem, t, l1pt_index(p)) \in L2Units
    BY <1>1, <2>1, <2>2, LinkTypes
  <2> QED BY <2>2, <2>3 DEF Linked
<1>5. ASSUME NEW s \in L, NEW t \in L, NEW p \in Mapped(mem, s), NEW q \in Mapped(mem, t),
             Entry(mem, s, p).unit = Entry(mem, t, q).unit
      PROVE  s = t /\ p = q
  <2> DEFINE i == l1pt_index(p)
             j == l2pt_index(p)
             k == l1pt_index(q)
             l == l2pt_index(q)
  <2>1. /\ p \in Nat /\ i \in Links(mem, s) /\ j \in Leaves(mem, Under(mem, s, i))
        /\ Under(mem, s, i) \in Linked(mem, L)
        /\ Entry(mem, s, p).unit = PageAt(mem, Under(mem, s, i), j)
    BY <1>4
  <2>2. /\ q \in Nat /\ k \in Links(mem, t) /\ l \in Leaves(mem, Under(mem, t, k))
        /\ Under(mem, t, k) \in Linked(mem, L)
        /\ Entry(mem, t, q).unit = PageAt(mem, Under(mem, t, k), l)
    BY <1>4
  <2>3. p = i * L2Entries + j /\ q = k * L2Entries + l
    BY <2>1, <2>2, PageSplit
  <2> HIDE DEF i, j, k, l
  <2>4. PageAt(mem, Under(mem, s, i), j) = PageAt(mem, Under(mem, t, k), l)
    BY <1>5, <2>1, <2>2
  <2>5. Under(mem, s, i) = Under(mem, t, k) /\ j = l
    BY <1>1, <2>1, <2>2, <2>4 DEF LeavesSound
  <2>6. s = t /\ i = k
    BY <1>1, <2>1, <2>2, <2>5 DEF LinksSound
  <2> QED BY <2>3, <2>5, <2>6
<1>6. ASSUME NEW t \in L PROVE TableSound(t)
  <2>1. \A entry \in CoarseEntries(t) : entry.base.top = 0 /\ mem.owned[entry.base.unit] = 1
    BY <1>1, <1>3 DEF LinksSound, Under
  <2>2. ASSUME NEW p \in Mapped(mem, t)
        PROVE  Entry(mem, t, p).top = 0 /\ mem.owned[Entry(mem, t, p).unit] = 1
    <3>1. /\ l2pt_index(p) \in Leaves(mem, Under(mem, t, l1pt_index(p)))
          /\ Under(mem, t, l1pt_index(p)) \in Linked(mem, L)
          /\ Entry(mem, t, p).unit = PageAt(mem, Under(mem, t, l1pt_index(p)), l2pt_index(p))
      BY <1>4
    <3> QED BY <1>1, <3>1 DEF LeavesSound, Entry
  <2>3. \A p, q \in Mapped(mem, t) : Entry(mem, t, p) = Entry(mem, t, q) => p = q
    BY <1>5
  <2>4. /\ MappedPages(t) = Mapped(mem, t)
        /\ \A p : Translate(t, p) = Entry(mem, t, p)
    BY MmuView DEF MmuAgrees
  <2> QED BY <2>1, <2>2, <2>3, <2>4 DEF TableSound
<1>7. NoDanglingMappings
  BY <1>2, <1>6 DEF NoDanglingMappings, L
<1>8. ASSUME NEW s \in L, NEW t \in L, s # t
      PROVE  /\ TablesOf(s) \cap TablesOf(t) = {}
             /\ \A p \in MappedPages(s), q \in MappedPages(t) : Translate(s, p).unit # Translate(t, q).unit
  <2>1. TablesOf(s) \cap TablesOf(t) = {}
    BY <1>1, <1>3, <1>8 DEF LinksSound
  <2>2. \A p \in Mapped(mem, s), q \in Mapped(mem, t) : Entry(mem, s, p).unit # Entry(mem, t, q).unit
    BY <1>5, <1>8
  <2> QED BY <2>1, <2>2, MmuView DEF MmuAgrees
<1>9. NoSharedMemory
  BY <1>8 DEF NoSharedMemory, L
<1> QED BY <1>7, <1>9

\* MemoryInv implies that the page tables are sound.
LEMMA InvMappingsSound == MemoryInv => MappingsSound
<1> SUFFICES ASSUME MemoryInv PROVE MappingsSound
  OBVIOUS
<1>1. NoDanglingMappings /\ NoSharedMemory
  BY InvTables DEF NoDanglingMappings, NoSharedMemory
<1>2. HeapMapped
  BY MmuView DEF MmuAgrees, MemoryInv, HeapLaidOut, HeapMapped
<1>3. KernelWindowIntact
  <2>1. SUFFICES ASSUME stage \in {"vectors", "heap", "running"}
                 PROVE  LET t == mem.l1[kernell1PageTable]
                        IN /\ t[0] = Invalid
                           /\ \A i \in 0 .. RamMebibytes - 1 : t[KernelBase + i] = Section(i)
                           /\ \A n \in {1, 2} : \A k \in 0 .. Peripherals[n][2] - 1 :
                                 \E i \in mmio_current_top .. MmioBase - 1 :
                                    t[i] = Section(Peripherals[n][1] + k)
                           /\ heap_end <= mmio_current_top * L2Entries
    BY DEF KernelWindowIntact
  <2>2. heap_end <= mmio_current_top * L2Entries
    <3>1. CASE stage = "vectors"
      <4>1. heap_end = 0
        BY <3>1 DEF MemoryInv, NothingYet, Booting
      <4>2. mmio_current_top \in Nat
        BY Sizes DEF MemoryInv, StrongTypeOK
      <4>3. mmio_current_top * L2Entries \in Nat
        BY <4>2, IndexOrder
      <4> QED BY <4>1, <4>3
    <3>2. CASE stage \in {"heap", "running"}
      BY <3>2 DEF MemoryInv, HeapLaidOut
    <3> QED BY <2>1, <3>1, <3>2
  <2>3. WindowMapped /\ PeripheralsMapped
    BY DEF MemoryInv
  <2> QED BY <2>1, <2>2, <2>3 DEF WindowMapped, PeripheralsMapped
<1> QED BY <1>1, <1>2, <1>3 DEF MappingsSound

\* Every page that is handed out is found on a list or in the kernel's table.
LEMMA InvMemoryAccounted == MemoryInv => MemoryAccounted
<1> SUFFICES ASSUME MemoryInv, Alive PROVE PagesAccounted
  BY DEF MemoryAccounted, NoInvalidFree, MemoryInv, PagesAccounted
<1> DEFINE L == LiveTables
           k == kernell1PageTable
           unit(v) == vas[v].l1PageTable.unit
<1>1. /\ mem \in MemType /\ L \in SUBSET L1Tables /\ LeavesSound(mem, L) /\ PagesMapped(mem, L)
      /\ PagesListed /\ L = {k} \cup {unit(v) : v \in TableHolders}
      /\ \A v \in TableHolders : unit(v) \in L1Tables /\ unit(v) \in L
  <2>1. mem \in MemType /\ VasTypeOK /\ Sound(mem, L) /\ PagesListed
    BY DEF MemoryInv, StrongTypeOK
  <2> QED BY <2>1, HolderTables DEF Sound, LiveTables, TableHolders
<1>2. \A t \in L : PagesOf(mem, t) = {Translate(t, p).unit : p \in MappedPages(t)}
  BY <1>1, PagesOfMapped, MmuView DEF MmuAgrees
<1>3. ASSUME NEW v \in Live
      PROVE  vas[v].pages = IF vas[v].l1PageTable = NULL THEN {}
                            ELSE LET t == vas[v].l1PageTable.unit
                                 IN {Pointer(Translate(t, p).unit) : p \in MappedPages(t)}
  <2>1. CASE vas[v].l1PageTable = NULL
    BY <1>1, <2>1 DEF PagesListed
  <2>2. CASE vas[v].l1PageTable # NULL
    <3>1. v \in TableHolders
      BY <2>2 DEF TableHolders
    <3>2. vas[v].pages = {Pointer(u) : u \in PagesOf(mem, unit(v))}
      BY <1>1, <2>2 DEF PagesListed
    <3>3. PagesOf(mem, unit(v)) = {Translate(unit(v), p).unit : p \in MappedPages(unit(v))}
      BY <1>1, <1>2, <3>1
    <3> QED BY <2>2, <3>2, <3>3
  <2> QED BY <2>1, <2>2
<1>4. ASSUME NEW v \in Live
      PROVE  {a.unit : a \in vas[v].pages} = IF v \in TableHolders THEN PagesOf(mem, unit(v)) ELSE {}
  <2>1. CASE v \in TableHolders
    <3>1. vas[v].pages = {Pointer(u) : u \in PagesOf(mem, unit(v))}
      BY <1>1, <2>1 DEF PagesListed, TableHolders
    <3> QED BY <2>1, <3>1, PointerInjective
  <2>2. CASE v \notin TableHolders
    BY <1>1, <2>2 DEF PagesListed, TableHolders
  <2> QED BY <2>1, <2>2
<1>5. \A t \in L : \A u \in PagesOf(mem, t) : u \in PageUnits /\ mem.owned[u] = 1
  <2> SUFFICES ASSUME NEW t \in L, NEW u \in PagesOf(mem, t) PROVE u \in PageUnits /\ mem.owned[u] = 1
    OBVIOUS
  <2>1. PICK i \in Links(mem, t) : \E j \in Leaves(mem, Under(mem, t, i)) : u = PageAt(mem, Under(mem, t, i), j)
    BY DEF PagesOf
  <2>2. Under(mem, t, i) \in Linked(mem, L)
    BY <1>1, LinkTypes DEF Linked
  <2>3. u \in PageUnits
    BY DEF PagesOf
  <2> QED BY <1>1, <2>1, <2>2, <2>3 DEF LeavesSound
<1>6. \A u \in PageUnits : mem.owned[u] \in {0, 1}
  BY <1>1, MemFields, UnitKinds
<1>7. \A u \in PageUnits : mem.owned[u] > 0 <=> \E t \in L : u \in PagesOf(mem, t)
  BY <1>1, <1>5, <1>6 DEF PagesMapped
<1> DEFINE listed == UNION {{a.unit : a \in vas[v].pages} : v \in Live}
<1>8. \A u : u \in listed <=> \E v \in TableHolders : u \in PagesOf(mem, unit(v))
  <2>1. TableHolders \subseteq Live
    BY DEF TableHolders
  <2>2. \A u : u \in listed <=> \E v \in Live : u \in {a.unit : a \in vas[v].pages}
    OBVIOUS
  <2> HIDE DEF listed
  <2> QED BY <1>4, <2>1, <2>2
<1>9. {u \in PageUnits : mem.owned[u] > 0} = PagesOf(mem, k) \cup listed
  <2> HIDE DEF listed, unit
  <2>1. \A u : u \in PagesOf(mem, k) \cup listed <=> \E t \in L : u \in PagesOf(mem, t)
    BY <1>1, <1>8
  <2> QED BY <1>5, <1>7, <2>1
<1>10. PagesOf(mem, k) = {Translate(k, p).unit : p \in MappedPages(k)}
  BY <1>1, <1>2
<1> QED BY <1>3, <1>9, <1>10 DEF PagesAccounted

-----------------------------------------------------------------------------
(* ASIDs, as long as not all of them have been given away.                 *)

AsidOf(v) == vas[v].tlbDescriptor.asid

\* The ASIDs from curr on are fresh: no live address space and no translation in
\* the TLB has one. Below curr an ASID belongs to one live address space, and what
\* the TLB holds under it is that address space's.
AsidsFresh ==
    ~tlb_everything_allocated =>
        /\ \A v \in Live : AsidOf(v) < curr
        /\ \A v, w \in Live : AsidOf(v) = AsidOf(w) => v = w
        /\ \A e \in tlb : e[1] < curr
        /\ \A e \in tlb : \A v \in Live : e[1] = AsidOf(v) => e[2] = v
        /\ \A e, f \in tlb : e[1] = f[1] => e[2] = f[2]
        /\ current \in Live => contextid = AsidOf(current)

\* The process on the processor has been created.
CurrentExists == current = Nobody \/ (current \in Vas /\ vas[current].state # "none")

IsolationInv == CurrentExists /\ AsidsFresh

\* A step that neither gives ASIDs away nor caches translations.
LEMMA AsidsFrame ==
    ASSUME AsidsFresh, UNCHANGED <<asidvars, contextid, current>>,
           tlb' \subseteq tlb, Live' \subseteq Live,
           \A v \in Live' : vas'[v].tlbDescriptor = vas[v].tlbDescriptor
    PROVE  AsidsFresh'
<1>1. tlb_everything_allocated' = tlb_everything_allocated /\ curr' = curr
  BY DEF asidvars
<1>2. \A v \in Live' : AsidOf(v)' = AsidOf(v) /\ v \in Live
  BY DEF AsidOf
<1> SUFFICES ASSUME ~tlb_everything_allocated'
             PROVE  /\ \A v \in Live' : AsidOf(v)' < curr'
                    /\ \A v, w \in Live' : AsidOf(v)' = AsidOf(w)' => v = w
                    /\ \A e \in tlb' : e[1] < curr'
                    /\ \A e \in tlb' : \A v \in Live' : e[1] = AsidOf(v)' => e[2] = v
                    /\ \A e, f \in tlb' : e[1] = f[1] => e[2] = f[2]
                    /\ current' \in Live' => contextid' = vas'[current'].tlbDescriptor.asid
  BY DEF AsidsFresh, AsidOf
<1>3. ~tlb_everything_allocated
  BY <1>1
<1>4. current' \in Live' => contextid' = vas'[current'].tlbDescriptor.asid
  BY <1>3 DEF AsidsFresh, AsidOf
<1>5. /\ \A v \in Live' : AsidOf(v)' < curr'
      /\ \A v, w \in Live' : AsidOf(v)' = AsidOf(w)' => v = w
  BY <1>1, <1>2, <1>3 DEF AsidsFresh
<1>6. /\ \A e \in tlb' : e[1] < curr'
      /\ \A e \in tlb' : \A v \in Live' : e[1] = AsidOf(v)' => e[2] = v
      /\ \A e, f \in tlb' : e[1] = f[1] => e[2] = f[2]
  BY <1>1, <1>2, <1>3 DEF AsidsFresh
<1> QED BY <1>4, <1>5, <1>6

\* The address space that is created is the only one with ASID curr.
LEMMA CreateAsidsFresh ==
    ASSUME MemoryInv, CurrentExists, AsidsFresh, NEW v \in Vas, create_vas(v)
    PROVE  AsidsFresh'
<1>1. /\ vas \in [Vas -> Struct] /\ curr \in Asids /\ tlb_everything_allocated \in BOOLEAN
      /\ AsidCount \in Nat \ {0} /\ tlb \subseteq Asids \X Vas
      /\ current \in Vas \cup {Nobody}
  BY AsidAssumption DEF MemoryInv, StrongTypeOK, VasTypeOK, Struct, AsidTypeOK
<1>2. /\ asid_request_descriptor /\ UNCHANGED <<contextid, current, tlb>>
      /\ vas[v].state = "none"
  BY DEF create_vas
<1>3. PICK l1pt : vas' = [vas EXCEPT ![v] = [state |-> "live", tlbDescriptor |-> RequestedDescriptor,
                                             l1PageTable |-> l1pt, l2tables |-> {}, pages |-> {}]]
  BY DEF create_vas
<1>4. /\ vas'[v].state = "live" /\ AsidOf(v)' = curr
      /\ \A w \in Vas \ {v} : vas'[w] = vas[w]
  BY <1>1, <1>3 DEF RequestedDescriptor, AsidOf
<1>5. /\ Live' = Live \cup {v} /\ v \notin Live /\ Live \subseteq Vas
      /\ \A w \in Live : AsidOf(w)' = AsidOf(w)
  BY <1>2, <1>4 DEF Live, AsidOf
<1> SUFFICES ASSUME ~tlb_everything_allocated' PROVE AsidsFresh'
  BY DEF AsidsFresh
<1>6. ~tlb_everything_allocated /\ curr # AsidCount - 1
  BY <1>2 DEF asid_request_descriptor
<1>7. curr' = curr + 1 /\ curr \in Nat
  BY <1>1, <1>2, <1>6 DEF asid_request_descriptor, Asids
<1>8. /\ \A w \in Live : AsidOf(w) \in Nat
      /\ \A e \in tlb : e[1] \in Nat
  BY <1>1, <1>5 DEF Struct, Asids, AsidOf
<1>9. /\ \A w \in Live : AsidOf(w) < curr
      /\ \A e \in tlb : e[1] < curr
      /\ \A w, x \in Live : AsidOf(w) = AsidOf(x) => w = x
      /\ \A e \in tlb : \A w \in Live : e[1] = AsidOf(w) => e[2] = w
      /\ \A e, f \in tlb : e[1] = f[1] => e[2] = f[2]
      /\ current \in Live => contextid = AsidOf(current)
  BY <1>6 DEF AsidsFresh
<1>10. /\ \A w \in Live' : AsidOf(w)' < curr'
       /\ \A e \in tlb' : e[1] < curr'
  BY <1>2, <1>4, <1>5, <1>7, <1>8, <1>9
<1>11. \A w, x \in Live' : AsidOf(w)' = AsidOf(x)' => w = x
  BY <1>4, <1>5, <1>7, <1>8, <1>9
<1>12. \A e \in tlb' : \A w \in Live' : e[1] = AsidOf(w)' => e[2] = w
  BY <1>2, <1>4, <1>5, <1>7, <1>8, <1>9
<1>13. \A e, f \in tlb' : e[1] = f[1] => e[2] = f[2]
  BY <1>2, <1>9
<1>14. current' \in Live' => contextid' = vas'[current'].tlbDescriptor.asid
  <2>1. SUFFICES ASSUME current \in Live \cup {v} PROVE contextid = vas'[current].tlbDescriptor.asid
    BY <1>2, <1>5
  <2>2. CASE current \in Live
    BY <1>5, <1>9, <2>2 DEF AsidOf
  <2>3. current # v
    BY <1>2, VasAssumption DEF CurrentExists
  <2> QED BY <2>1, <2>2, <2>3
<1> QED BY <1>10, <1>11, <1>12, <1>13, <1>14 DEF AsidsFresh, AsidOf

\* switch_to_vas puts the ASID of the address space in the context id register.
LEMMA SwitchAsidsFresh ==
    ASSUME MemoryInv, AsidsFresh, NEW v \in Vas, switch_to_vas(v)
    PROVE  AsidsFresh'
<1> DEFINE d == vas[v].tlbDescriptor
<1>1. vas \in [Vas -> Struct]
  BY DEF MemoryInv, StrongTypeOK, VasTypeOK, Struct
<1>2. /\ v \in Live /\ current' = v /\ contextid' = AsidOf(v)
      /\ curr' = curr /\ tlb_everything_allocated' = tlb_everything_allocated
      /\ tlb' \subseteq tlb
      /\ vas' = [vas EXCEPT ![v].tlbDescriptor = UpdatedDescriptor(d)]
  BY DEF switch_to_vas, asid_check_and_update, asid_set, AsidOf
<1>3. UpdatedDescriptor(d).asid = d.asid
  BY DEF UpdatedDescriptor
<1>4. /\ \A w \in Vas : vas'[w].state = vas[w].state /\ AsidOf(w)' = AsidOf(w)
  BY <1>1, <1>2, <1>3 DEF AsidOf, Struct
<1>5. Live' = Live /\ Live \subseteq Vas
  BY <1>4 DEF Live
<1>6. current' \in Live' => contextid' = vas'[current'].tlbDescriptor.asid
  BY <1>2, <1>4 DEF AsidOf
<1> SUFFICES ASSUME ~tlb_everything_allocated' PROVE AsidsFresh'
  BY DEF AsidsFresh
<1>7. ~tlb_everything_allocated
  BY <1>2
<1>8. /\ \A w \in Live' : AsidOf(w)' < curr'
      /\ \A w, x \in Live' : AsidOf(w)' = AsidOf(x)' => w = x
  BY <1>2, <1>4, <1>5, <1>7 DEF AsidsFresh
<1>9. /\ \A e \in tlb' : e[1] < curr'
      /\ \A e \in tlb' : \A w \in Live' : e[1] = AsidOf(w)' => e[2] = w
      /\ \A e, f \in tlb' : e[1] = f[1] => e[2] = f[2]
  BY <1>2, <1>4, <1>5, <1>7 DEF AsidsFresh
<1> QED BY <1>6, <1>8, <1>9 DEF AsidsFresh, AsidOf

\* What the MMU caches belongs to the address space whose ASID is current.
LEMMA RunUserAsidsFresh ==
    ASSUME AsidsFresh, RunUser
    PROVE  AsidsFresh'
<1>1. /\ current \in Live /\ tlb' = tlb \cup {<<contextid, current>>}
      /\ curr' = curr /\ tlb_everything_allocated' = tlb_everything_allocated
      /\ vas' = vas /\ contextid' = contextid /\ current' = current
  BY DEF RunUser, asidvars
<1>2. Live' = Live /\ \A w : AsidOf(w)' = AsidOf(w)
  BY <1>1 DEF Live, AsidOf
<1> SUFFICES ASSUME ~tlb_everything_allocated' PROVE AsidsFresh'
  BY DEF AsidsFresh
<1>3. /\ \A w \in Live : AsidOf(w) < curr
      /\ \A e \in tlb : e[1] < curr
      /\ \A w, x \in Live : AsidOf(w) = AsidOf(x) => w = x
      /\ \A e \in tlb : \A w \in Live : e[1] = AsidOf(w) => e[2] = w
      /\ \A e, f \in tlb : e[1] = f[1] => e[2] = f[2]
      /\ contextid = AsidOf(current)
  BY <1>1 DEF AsidsFresh
<1> DEFINE new == <<contextid, current>>
<1>4. new[1] = AsidOf(current) /\ new[2] = current /\ tlb' = tlb \cup {new}
  BY <1>1, <1>3
<1> HIDE DEF new
<1>5. \A e \in tlb' : e[1] < curr
  BY <1>1, <1>3, <1>4
<1>6. \A e \in tlb' : \A w \in Live : e[1] = AsidOf(w) => e[2] = w
  BY <1>1, <1>3, <1>4
<1>7. \A e, f \in tlb' : e[1] = f[1] => e[2] = f[2]
  BY <1>1, <1>3, <1>4
<1> QED BY <1>1, <1>2, <1>3, <1>5, <1>6, <1>7 DEF AsidsFresh, AsidOf

\* An address space that was created is never again one that was not.
LEMMA CurrentKept ==
    ASSUME CurrentExists, current' = current,
           \A w \in Vas : vas[w].state # "none" => vas'[w].state # "none"
    PROVE  CurrentExists'
<1>1. CASE current = Nobody
  BY <1>1 DEF CurrentExists
<1>2. CASE current \in Vas /\ vas[current].state # "none"
  <2>1. vas'[current].state # "none"
    BY <1>2
  <2>2. vas'[current'].state # "none" /\ current' \in Vas
    BY <1>2, <2>1
  <2> QED BY <2>2 DEF CurrentExists
<1> QED BY <1>1, <1>2 DEF CurrentExists

\* Every step keeps ASIDs apart.
LEMMA NextIsolationInv ==
    ASSUME MemoryInv, IsolationInv, [Next]_vars
    PROVE  IsolationInv'
<1>1. vas \in [Vas -> Struct] /\ CurrentExists /\ AsidsFresh
  BY DEF MemoryInv, StrongTypeOK, VasTypeOK, Struct, IsolationInv
<1>2. CASE Kernel \/ UNCHANGED vars
  <2>1. UNCHANGED <<asidvars, vas, contextid, current>> /\ tlb' \subseteq tlb
    BY <1>2 DEF Kernel, vars, uservars
  <2> QED BY <1>1, <2>1, AsidsFrame DEF IsolationInv, CurrentExists, Live
<1>3. ASSUME NEW v \in Vas, create_vas(v) PROVE IsolationInv'
  <2>1. \A w \in Vas : vas[w].state # "none" => vas'[w].state # "none"
    BY <1>1, <1>3 DEF create_vas
  <2>2. current' = current
    BY <1>3 DEF create_vas
  <2>3. CurrentExists'
    BY <1>1, <2>1, <2>2, CurrentKept
  <2> QED BY <1>1, <1>3, <2>3, CreateAsidsFresh DEF IsolationInv
<1>4. ASSUME NEW v \in Vas, free_vas(v) PROVE IsolationInv'
  <2>1. /\ vas' = [vas EXCEPT ![v] = [NoVas EXCEPT !.state = "freed"]]
        /\ UNCHANGED <<asidvars, contextid, current, tlb>>
    BY <1>4 DEF free_vas
  <2>2. vas'[v].state = "freed" /\ \A w \in Vas \ {v} : vas'[w] = vas[w]
    BY <1>1, <2>1 DEF NoVas
  <2>3. Live' \subseteq Live /\ \A w \in Live' : vas'[w] = vas[w]
    BY <2>2 DEF Live
  <2>4. CurrentExists'
    BY <1>1, <2>1, <2>2 DEF CurrentExists
  <2> QED BY <1>1, <2>1, <2>3, <2>4, AsidsFrame DEF IsolationInv
<1>5. ASSUME NEW v \in Vas, NEW p \in UserPages, allocate_page(v, p) PROVE IsolationInv'
  <2>1. UNCHANGED <<asidvars, contextid, current, tlb>>
    BY <1>5 DEF allocate_page
  <2>2. \A w \in Vas : /\ vas'[w].state = vas[w].state
                       /\ vas'[w].tlbDescriptor = vas[w].tlbDescriptor
    <3>1. vas' = vas \/ \E a : vas' = [vas EXCEPT ![v].pages = @ \cup {a}]
      BY <1>5 DEF allocate_page
    <3> QED BY <1>1, <3>1 DEF Struct
  <2>3. CurrentExists'
    BY <1>1, <2>1, <2>2, CurrentKept
  <2>4. Live' = Live /\ Live \subseteq Vas
    BY <2>2 DEF Live
  <2> QED BY <1>1, <2>1, <2>2, <2>3, <2>4, AsidsFrame DEF IsolationInv
<1>6. CASE RunUser
  <2>1. CurrentExists'
    BY <1>1, <1>6 DEF CurrentExists, RunUser
  <2> QED BY <1>1, <1>6, <2>1, RunUserAsidsFresh DEF IsolationInv
<1>7. ASSUME NEW v \in Vas, switch_to_vas(v) PROVE IsolationInv'
  <2>1. current' = v /\ vas[v].state = "live"
    BY <1>7 DEF switch_to_vas, Live
  <2>2. vas'[v].state = vas[v].state
    BY <1>1, <1>7 DEF switch_to_vas, Struct
  <2>3. CurrentExists'
    BY <2>1, <2>2 DEF CurrentExists
  <2> QED BY <1>1, <1>7, <2>3, SwitchAsidsFresh DEF IsolationInv
<1> QED BY <1>2, <1>3, <1>4, <1>5, <1>6, <1>7 DEF Next, MemoryNext

\* At first the TLB is empty and no address space exists.
LEMMA InitIsolationInv == Init => IsolationInv
<1> SUFFICES ASSUME Init PROVE IsolationInv
  OBVIOUS
<1>1. Live = {}
  BY DEF Init, Live, NoVas
<1>2. tlb = {} /\ current = Nobody
  BY DEF Init
<1> QED BY <1>1, <1>2 DEF IsolationInv, CurrentExists, AsidsFresh

-----------------------------------------------------------------------------
(* The theorems.                                                           *)

\* Whatever address spaces are created, switched to and freed, and however the
\* kernel heap grows and shrinks, MemoryInv holds.
THEOREM MemoryInvariant == Spec => []MemoryInv
<1>1. MemoryInv /\ [Next]_vars => MemoryInv'
  BY NextMemoryInv
<1> QED BY InitMemoryInv, <1>1, PTL DEF Spec

\* Every variable keeps the type its C declaration gives it, tables and the vas2
\* structs included.
THEOREM TypeCorrect == Spec => []TypeOK
<1>1. MemoryInv => TypeOK
  BY InvTypeOK
<1> QED BY MemoryInvariant, <1>1, PTL

\* No table that the MMU may be pointed at refers to memory that was given back, no
\* two tables share memory, the heap is mapped up to its end without holes, and the
\* kernel keeps the window PHYS2VIRT needs and its peripherals, through create_vas,
\* allocate_page, free_vas, expand and contract.
THEOREM MappingsAlwaysSound == Spec => []MappingsSound
<1>1. MemoryInv => MappingsSound
  BY InvMappingsSound
<1> QED BY MemoryInvariant, <1>1, PTL

\* free_vas, contract and vm2_free_page only give back what was handed out, and
\* every page handed out is on the list of a live address space or mapped by the
\* kernel: free_vas leaks no page.
THEOREM MemoryAlwaysAccounted == Spec => []MemoryAccounted
<1>1. MemoryInv => MemoryAccounted
  BY InvMemoryAccounted
<1> QED BY MemoryInvariant, <1>1, PTL

\* No step of another address space or of the kernel heap changes what a living
\* address space has mapped.
THEOREM MappingsAreStable == Spec => MappingsStable
<1> DEFINE Stable ==
       Alive' => \A v \in Live \cap Live' :
          vas[v].l1PageTable # NULL =>
             LET t == vas[v].l1PageTable.unit
             IN /\ vas'[v].l1PageTable = vas[v].l1PageTable
                /\ \A p \in MappedPages(t) :
                      p \in MappedPages(t)' /\ Translate(t, p)' = Translate(t, p)
<1>1. MemoryInv /\ [Next]_vars => Stable
  <2> SUFFICES ASSUME MemoryInv, [Next]_vars, Alive', NEW v \in Live \cap Live', vas[v].l1PageTable # NULL
               PROVE  LET t == vas[v].l1PageTable.unit
                      IN /\ vas'[v].l1PageTable = vas[v].l1PageTable
                         /\ \A p \in MappedPages(t) :
                               p \in MappedPages(t)' /\ Translate(t, p)' = Translate(t, p)
    OBVIOUS
  <2>1. Kept
    BY NextMemoryInv
  <2>2. v \in TableHolders /\ v \in Live'
    BY DEF TableHolders
  <2>3. /\ vas'[v].l1PageTable = vas[v].l1PageTable
        /\ \A p \in Mapped(mem, vas[v].l1PageTable.unit) :
              /\ p \in Mapped(mem', vas[v].l1PageTable.unit)
              /\ Entry(mem', vas[v].l1PageTable.unit, p) = Entry(mem, vas[v].l1PageTable.unit, p)
    BY <2>1, <2>2 DEF Kept
  <2>4. MmuAgrees /\ MmuAgrees'
    BY MmuView, PTL
  <2> QED BY <2>3, <2>4 DEF MmuAgrees
<1> QED BY MemoryInvariant, <1>1, PTL DEF Spec, MappingsStable

\* As long as not all ASIDs have been given away, translations that the TLB holds
\* under one ASID belong to one address space: no flush is needed, as
\* asid_allocator.h says.
THEOREM Isolation == Spec => []IsolatedBeforeReuse
<1>1. MemoryInv /\ IsolationInv /\ [Next]_vars => IsolationInv'
  BY NextIsolationInv
<1>2. IsolationInv => IsolatedBeforeReuse
  BY DEF IsolationInv, AsidsFresh, IsolatedBeforeReuse
<1> QED BY MemoryInvariant, InitIsolationInv, <1>1, <1>2, PTL DEF Spec

\* The system while no process is scheduled is a part of the system.
THEOREM MemorySpecIsPart == MemorySpec => Spec
<1>1. [MemoryNext]_vars => [Next]_vars
  BY DEF Next
<1> QED BY <1>1, PTL DEF MemorySpec, Spec

=============================================================================
