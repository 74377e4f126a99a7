# A TLA+ verification of course_os

`course_os` is a small ARM kernel (Raspberry Pi 2, bcm2836) with a user libc beside it. This
directory holds TLA+ models of its parts, TLC configurations that check them on small instances, and
TLAPS proofs of what makes the memory managers, the address spaces, the priority queue, the timer,
the file system, the boot sequence, the SD card driver and parts of user space correct, for every
instance.
All paths below are relative to `src/kernel/src/` of the repository unless they say
otherwise.

## 1. The system

| Component | Source | State | Operations | What makes it correct |
|---|---|---|---|---|
| Physical memory manager (PMM) | `vm/pmm.c`, `pmm.h` | four intrusive doubly linked lists of `MemorySliceInfo` (unused, allocated, two partially free lists), the sliceinfos themselves, stored in the memory they describe | `pmm_init`, allocate/free of L1 tables, L2 tables, pages | nothing handed out twice or lost, MMIO never handed out, the pointer arithmetic finds the right sliceinfo |
| Virtual memory manager (VM) | `vm/vm2.c` | L1 and L2 page tables, `mmio_current_top` | `vm2_start`, `vm2_map_peripheral`, `vm2_allocate_page`, `vm2_free_page` | tables refer to memory that is theirs, no page mapped twice |
| ASID allocator | `vm/asid_allocator.c` | `curr`, `allocated_ids[256]`, `tlb_everything_allocated` | request a descriptor, check and update one at a context switch | the TLB never serves one process the translations of another |
| Virtual address spaces (VAS) | `vm/vas2.c` | `struct vas2`: descriptor, L1 table, lists of L2 tables and pages | create, switch to, free, allocate a page | isolation; everything given back on free |
| Kernel heap | `allocator/*.c`, `klibc/alloc.c` | chunks with headers and footers, nine bins, the wilderness, `heap->end` | `heap_alloc`, `heap_free`, `expand`, `contract`, `krealloc` | chunks tile the heap, bins hold exactly the holes, blocks never overlap |
| Timer | `drivers/chipset/bcm2836/timer.c` | priority queue of `ScheduledTimer`, compare register, interrupt mask | schedule once/periodic, deschedule, interrupt handler | every due timer runs, none early, none is leaked or used after it was freed |
| Priority queue | `ds/priority_queue.c` | array heap, back pointers `__index` | enqueue, dequeue, remove, peek | heap order; the back pointers are right |
| Containers | `ds/vp_array_list.c`, `ds/vp_singly_linked_list.c`, `ds/u8_array_list.c`, `ds/bpf/HashMap.c`, `ds/qstr.c` | arrays with length and capacity, links, buckets, a remembered hash | push, pop, resize, insert, remove, find, compare | what a sequence, a set or a map would do |
| VFS and tmpfs | `fs/*.c`, `fs/tmpfs/tmpfs.c` | the table of filesystems, inodes with reference counts, directory entries, open files with positions | register, create, look up, open, close, read, write, free | reads return what was written; everything made is reachable and is freed |
| SD card driver | `drivers/mmci/mmci.c` | controller registers | `init_sd`, transmit and receive a block, clear | a block that was answered for has been moved, whole and unmixed |
| Exceptions, system calls | `common/interrupt.c` | vector page | handlers, `software_interrupt_handler` | handlers find what they need; a program that aborts comes to an end |
| Boot | `common/startup.s`, `memory.s`, `stacks.s`, `start.c`, `hardwareinfo.c`, `drivers/chipset/chipset.c` | first page table, stacks, detected memory size, the function table `chipset` | boot sequence | every component is up before it is used |
| klibc | `klibc/*.c` | the place of `os_strtok` | string, memory and number functions, `os_vsnprintf`, `panic` | what their C namesakes do; never beyond the buffer |
| UART | `drivers/chipset/bcm2836/uart.c` | the address of the registers | put a character | printing finds its device |
| User space | `src/user` | `stdout` with its buffer, `__environ`, `libc.auxv` | process start, system call wrappers, `fwrite`, `exit`, `memcpy`, `memset`, `memchr` | bytes leave in order and once, and which losses show |

How they interact: `start()` maps the peripherals, starts the VM, which starts the PMM,
then takes pages from it for the exception vectors and for the kernel heap. From then on
everything that is dynamic lives on the heap (`kmalloc`), which itself grows by asking the
VM for pages. A VAS takes its tables and pages from the same PMM, an ASID from the ASID
allocator, and is installed on the MMU by writing TTBR0 and the context id. The timer is
the only source of asynchrony: its interrupt handler runs callbacks and frees heap memory
while other code is anywhere.

What is hard here: memory that is reused as something else part by part; pointer
arithmetic at bucket boundaries and around a reserved region; bytes and 32-bit words that
wrap; stale page table and TLB entries; interrupts between two statements of the allocator,
of the queue or of the boot sequence; failures in the middle of a function; a device and a
`writev` that do part of what they are asked for. `PROJECT.json` lists these hazards line by
line.

## 2. Modules

| Module | Role |
|---|---|
| `UnitAllocator` | abstract specification of what the PMM promises |
| `Pmm` | `vm/pmm.c`, its properties, its inductive invariant |
| `PmmProofs` | TLAPS proofs about `Pmm`, including that it implements `UnitAllocator` |
| `Vm` | `vm/vm2.c` and its callers in the kernel: boot, vector page, heap growth |
| `Asid` | `vm/asid_allocator.c` |
| `AddressSpaces` | `vm/vas2.c`, composing `Vm`, `Asid`, `UnitAllocator` and the TLB |
| `AddressSpacesProofs` | TLAPS proofs about `AddressSpaces` and the two modules it is made of |
| `Prq` | `ds/priority_queue.c` as operators on the queue's memory |
| `PrqProofs` | lemmas about those operators: an iteration, a whole loop, a whole operation |
| `MinQueue` | abstract specification of what the priority queue promises |
| `PriorityQueue` | the priority queue as a state machine, its properties, its inductive invariant |
| `Timer` | `drivers/chipset/bcm2836/timer.c` over `Prq`, with the counter and the interrupt |
| `QueueProofs` | TLAPS proofs about `PriorityQueue`, including that it implements `MinQueue`, and about `Timer`, from the operations of `PrqProofs` |
| `Heap` | `allocator/*.c` and `klibc/alloc.c`, with a timer interrupt that uses the same heap |
| `HeapProofs` | TLAPS proofs about `Heap` |
| `Tmpfs` | `fs/vfs.c`, `inode.c`, `file.c`, `tmpfs/tmpfs.c` and the lookup of `path.c` |
| `TmpfsProofs` | TLAPS proofs about `Tmpfs` |
| `HashMap` | `ds/bpf/HashMap.c` |
| `ArrayLists`, `LinkedList` | `ds/u8_array_list.c` and `ds/vp_array_list.c`; `ds/vp_singly_linked_list.c` |
| `Path`, `Qstr` | the operations of `fs/path.c` that change a path, over `ArrayLists`; `ds/qstr.c` |
| `Strings`, `Printf` | `klibc/string.c` and `klibc/klibc.c`; `klibc/printf.c` |
| `Library` | the seven modules above it, each as a part of its own |
| `LibraryProofs` | TLAPS proofs about three parts of `Library`: `ArrayLists`, `LinkedList`, `Path` |
| `Boot` | `_Reset` to the end of `start()`: memory detection, stacks, order of initialisation, exceptions |
| `Mmci` | `drivers/mmci/mmci.c` against a controller with its own pace |
| `Syscalls` | the wrappers of `user/libc` and what they find in r0, data aborts, `hello.c` |
| `Stdio` | `fwrite`, `__stdio_write`, `exit` and `__stdio_exit` of `user/libc` |
| `UserMem` | `memcpy`, `memset`, `memchr` and `wcrtomb` of `user/libc` |
| `Process` | `__libc_start_main`, `__syscall_ret`, `strerror` |
| `Machine` | the six modules above it, each as a part of its own |
| `MachineProofs` | TLAPS proofs about five parts of `Machine`: `Boot`, `Mmci`, `Stdio`, `UserMem`, `Process` |
| `MCPmm`, `MCAddressSpaces`, `MCPriorityQueue`, `MCTimer`, `MCHeap`, `MCTmpfs`, `MCLibrary`, `MCMachine` | TLC instances |

Operators whose comment starts with "Mutant:" are altered copies of the definition that
follows them. They belong to no specification; substituting one must make a property fail.

### Pmm

A slice is its number counted from `physicalMemoryManager.start`; a sliceinfo is named by
the slice it describes, so `next`, `prev` and the list heads are slice numbers or `NULL`.

| Variable | Code |
|---|---|
| `ll.head`, `ll.next`, `ll.prev` | the four heads, `MemorySliceInfo.next` and `.prev` |
| `type`, `filled` | the bit fields of `MemorySliceInfo` (`filled` as the set of its one bits) |
| `infoAt[b, x]` | `.slice` of element `x` of the `bucketinfo` array in slice `b` |
| `boot` | the locals `i`, `infoindex`, `currentslice` of `pmm_init` |
| `status` | booting, ready, or how the kernel ended: `fault` is a NULL dereference, `panic` a `FATAL` |
| `held` | ghost: how often each unit (kind, slice, part) is in a client's hands |

One iteration of the loop of `pmm_init` is one action (`IndexSlice`, or
`IndexSliceAndOpenBucket` when it also calls `pmm_new_sliceinfo_slice`). The functions for
L2 tables and for pages are the same code with another list, another mask and another
number of parts, and are one action each with the kind as parameter. The reserved bit is
not a variable: the lookup returns an error exactly for slices in `Reserved`. Clients free
only what they hold; nothing in the kernel frees anything else. Memory is zero before
`pmm_init` writes it, an assumption the code makes too: it never clears `prev`, `filled`
and `reserved` of a fresh sliceinfo.

Assumptions: the reserved slices are the last ones (the peripherals start at 0x3F000000 and
reach the end of what `detect_memory` can report) and slice 0 is not reserved; slices have
at least two parts.

### Vm, Asid, AddressSpaces

Memory comes from `UnitAllocator`, which `Pmm` is proved to implement; among the units it
could hand out, `Candidates` keeps to the choice `pmm.c` makes (the first free part of a
partially used slice before an unused slice). Which of the unused slices is taken does not
matter, since they are interchangeable: the model fixes one.

`KERNEL_VIRTUAL_OFFSET` is 2^31, so in 32-bit arithmetic `PHYS2VIRT` and `VIRT2PHYS` both
flip the top bit of an address. An address is therefore a top bit and the unit that the
rest of it leads to. This is what it takes to see that `vm2_free_page`, which applies
`VIRT2PHYS` to a physical address, frees the right page.

| Variable | Code |
|---|---|
| `mem.owned`, `mem.l1`, `mem.l2` | what the PMM has handed out; the contents of all L1 and L2 tables, also of those that were freed |
| `mmio_current_top`, `heap_end` | the static of `vm2_map_peripheral`; `heap->end`, as a page |
| `stage` | how far `start()` got; `running`; or `fault`, `panic`, `corrupt` (a free of something not handed out) |
| `curr`, `allocated_ids`, `tlb_everything_allocated` | the globals of `asid_allocator.c` |
| `vas` | `struct vas2`, and whether it was created or freed |
| `ttbr0`, `contextid` | the two registers `switch_to_vas` writes |
| `current` | ghost: the address space last switched to |
| `tlb` | external: whose translations the TLB may hold under which ASID |

`vm2_allocate_page` is an operator that returns its possible outcomes, since four callers
use it (`init_vector_table`, `init_heap`, `expand`, `allocate_page`) and each goes on
differently. Left out: permission bits, and remapping an L2 entry, which no caller asks for.
Address spaces have no caller in the kernel yet (`vas2.c` says "This should just be used in
a scheduler"), so the model calls the four functions in any order on address spaces that
exist. `MemorySpec` leaves out context switches; no guard or assignment of the other
actions depends on them.

### Prq, PriorityQueue

`queue` is the `prq_handle` (`heap`, `count`, `size`) and the two fields of every node that the
queue uses (`index` for `__index`, `priority`). `heap[0]` exists and is never used, as in the
code. What `kmalloc` returns is not cleared; a node that was never in a queue is marked by
index 0, and `prq_remove` is not called for such a node (its `__index` is undefined).

`PriorityQueue` has one action per loop iteration: `prq_enqueue`, `prq_dequeue` and
`prq_remove` go as far as their loop, `pc` says which loop runs, `idx` is its local, `start` the
position `prq_remove` gives to both loops. `ShiftUp` and `ShiftDown` are iterations, the other
loop actions what comes after. That makes the state between two iterations visible, which the
invariant needs; the queue has no concurrency of its own. `returned` is what the last
operation returned. Clients do not enqueue a node that is queued.

The operators `prq_shift_up` and `prq_shift_down` of `Prq` are all iterations at once, for
`Timer`, where an operation inside a critical section is one step.

### Timer

| Variable | Code |
|---|---|
| `q` | `scheduled_timers` |
| `data` | the `ScheduledTimer` of each node: `scheduled_count`, `periodic_delay` |
| `allocated` | the timers that were allocated and not freed (a `ScheduledTimer` and its `prq_node` are allocated and freed together) |
| `cntpct`, `cval`, `masked` | the registers CNTPCT and CNTP_CVAL, the mask bit of CNTP_CTL |
| `irq` | whether the handler runs, its `current_count`, and the timer whose callback runs |
| `call` | the call of the driver in which the thread is |
| `status` | running, or which assertion failed: `rejected` in `schedule_timer`, `panic` in the handler |
| `due` | ghost: the count before which the timer must not run, computed without wrapping |
| `emptied` | ghost: the callback of a periodic timer has taken the last timer out of the queue, and none was scheduled since |
| `preempted` | ghost: an interrupt came where the thread's `deschedule_timer` cannot bear one |

`Tick` is the hardware. The interrupt is a level (`Pending`) and comes at any moment between
two steps of the thread; the handler itself is not interrupted, but the counter goes on, and
its callbacks may call the driver (`CallbackSchedules`, `CallbackDeschedules`), each in one step,
since interrupts are masked meanwhile.
`schedule_timer` is two steps of the thread, up to the critical section and the critical
section. `Word` stands for 2^32 and is at least 2, `INT32_MAX` follows from it.

`bcm2836_deschedule_timer` has no critical section, so that the thread's call is five steps:
`prq_remove` up to the back pointer of the last node (`DescheduleBegins`), the two writes to the
array (`DescheduleUnlinks`), the loops (`DescheduleShrinks`), the two `kfree`s with `prq_peek`
(`DescheduleFrees`), and the use of what that returned (`DescheduleReturns`). The handler may run
between any two. Inside `prq_remove`, and between `prq_peek` and the use of its answer, it finds or
leaves what the code does not expect: `preempted` records that it came there. What follows is
without meaning, since the array may hold NULL and freed nodes, and every property but that of
`timer_preempted` says nothing of it; the constraint `Intact` ends the run there, which hides
nothing, as `preempted` is never reset.

Clients deschedule only timers that are in the queue, and the heap never runs out. A callback may
take the last timer out of the queue while the handler has a periodic one to put back: the
interrupt then stays masked with a timer in the queue (`timer_masked`). `emptied` records it, and
lateness and liveness are promised without it.

### Heap

An address is a number of bytes from the start of the heap. `heap.node` and `heap.foot` are the
headers and footers that have been written, as functions whose domains are the addresses where
that was done: a read elsewhere is a read of memory that nobody wrote and makes `status`
`undefined`. This is what it takes to see that `expand` moves `heap->end` without writing a
footer there, and what the next `get_wilderness` does about it. `heap.bins` are the sorted
lists of `llist.c`; sizes of headers and footers are those of the 32-bit build.

A call of the thread is cut where the heap is between two writes that belong together:
`AllocFind` (the search and the removal from the bin), `AllocSplit`, `AllocTake` (the header,
`expand` or `contract`); `FreeStart`, `FreeCoalesce`, `FreeRelease`. `ReallocSame` is the
`krealloc` that changes nothing. `IrqAlloc` and `IrqFree` are whole calls made by the timer
interrupt, at any of these places: the allocator masks nothing. `torn` records that one ran
inside a call of the thread; bins, tags and blocks are promised only for heaps that are not
torn, since nothing protects the others. `UndefinedOnlyAfter` says what must have happened
before unwritten memory is used at all.

### Tmpfs

An inode and its directory entry are made together and are one node. A name is a sequence of
letters, because the lookup compares a component with a name over the length of the component
only. Every `kmalloc` and `krealloc` behind a registration, the root, a creation, an open or a write
may fail, in the four ways the code has for it: it returns NULL with `err` still OK, since the tests
of `tmpfs.c:57`, `:83` and `:105` are the wrong way round (`NotAllocated`); it fails behind the inode
and leaves what the code leaves; it goes on with an array that is NULL (`null`: the entries of a
directory are lost with it); or it writes through the NULL, and that is the end of the behaviour
(`NullWrite`). `ret` is what the caller gets.
A file's `array` is longer than its `length` and keeps what was there, `file_position` belongs
to the handle, and counts are computed modulo `Word`, which is what a read behind the end needs.
`content` is what the writes asked for, `cut` the files that a write from an earlier position
has made shorter (`length = position` in `tmpfs_write_file`). The filesystems are registered before
the root is made; nothing else keeps them apart from the files.

### Library and its parts

These parts share no state, so a behaviour belongs to one of them (`part`) and their states add
up instead of multiplying. Each keeps the contents as the code lays them out and, as a
ghost, what a map, a sequence or a text would hold.

* `HashMap`: the product of the hash and the multiplier is a constant function (`Shuffled`), of
  which the code uses the upper bits. Growing and allocating may fail.
* `ArrayLists`: the block, the length and the capacity apart from each other, so that writing
  behind the block, freeing an element that is still listed, or losing one are outcomes.
* `LinkedList`: links by address, and an iterator.
* `Path`: over `ArrayLists`, bytes behind the length included, which `path_parent` reads: `behind`
  says that a slash lay there, and `PathsCut` what `path_parent` does then, which is nothing.
* `Qstr`: djb2 over a small word, so that hashes collide and 0 is taken.
* `Strings`: one action per function on every string up to a length, the `uint32_t` that `strcmp`
  and `strncmp` return included; `os_strtok` with two callers that take turns on its static variable.
* `Printf`: one directive per step into buffers that end anywhere in it.

### Machine and its parts

As in `Library`, the parts share no state.

* `Boot`: `r0` and `r3` are the registers of `detect_memory`; the memory of the board is any of
  a set of sizes. Then one step per call of `start()`. Between any two an exception may come (it
  prints, or panics) and, as soon as it is unmasked, an interrupt. What printing needs is the
  function pointer and the address of the UART.
* `Mmci`: the controller and the card are external. They take words from the FIFO and put
  words into it at their own pace and may report an error; the driver's loops are steps. The
  commands of a transfer come in two halves, between which the controller goes on:
  `sd_transmit` tells the card the address before `push_bytes` empties the FIFO, `sd_receive` empties
  it first. `disturbed` and `spoiled` record a word that was lost or that moved in between.
* `Syscalls`: every wrapper with every argument of a small set, what it refuses itself and what it
  returns; `hello.c` statement by statement, with its two stores through what `malloc` returned.
  `software_interrupt_handler` is an `interrupt("SWI")` function (`interrupt.h:71`): its answer
  never arrives, and a wrapper reads its own first argument in r0 (`svc`).
* `Stdio`: `writev` takes any part of the two pieces it is offered, or fails. A byte
  is the number of its `fwrite` and its place in it. A process has one thread, as nothing in the
  repository starts a second; `exit` writes what the buffer still holds and looks at no result.
* `UserMem`: a store of a byte or of a word is a step or one of a few of the same block of the
  code, for every alignment of both pointers.
* `Process`: the image on the stack (arguments, environment, auxiliary vector) is external;
  nothing in the repository loads a program.

## 3. Runs

Two runs assume fairness. `timer` (`FairSpec`): weak fairness of `Tick` (the counter is
hardware and does not stop), of `Handler` (an interrupt that stays asserted is delivered, since
the kernel runs with interrupts enabled, and callbacks return) and of `Thread` (a thread in the
middle of a call goes on). Nothing is assumed of clients: whether anybody schedules or deschedules
is open. The counter ends at `MaxCount`, so the property speaks of timers whose time, and one
longest period after it, lies before that. `machine`: weak fairness of the next step of the boot
sequence and of the next statement of `hello.c`, since the core goes on executing; nothing is
assumed of the SD card controller or of `writev`.

Deadlock is not checked except in `prq`: elsewhere a client may stop calling, the bounded
counter ends, a function has returned, and a faulted or panicked kernel stops.

A property is a conjunction of named parts where several facts are about the same state: the
module says in a comment what each part means.

| Run | Instance | Shows |
|---|---|---|
| `pmm` | 11 slices, 3 sliceinfos per bucket, 3 L2 tables or 2 pages per slice, slices 7 to 10 reserved; 8,405 states | lists well formed (`ListsConsistent`), no slice lost (`NoSliceLost`), nothing handed out twice (`NoDoubleHandout`), lookups right (`LookupFindsSliceinfo`), `UnitAllocator` implemented (`ImplementsAllocator`) |
| `address_spaces` | boot, then 2 address spaces, 3 user pages in 2 L2 tables, 5 slices, a heap that can grow by one page and then meets the peripherals; 182900 states | tables never dangle or overlap, heap and kernel window stay mapped (`MappingsSound`), pages never leak and nothing else is freed (`MemoryAccounted`), a mapping is not changed by others (`MappingsStable`) |
| `asid` | 4 address spaces, 3 ASIDs, 4 iterations; 9975 states | `IsolatedBeforeReuse` |
| `prq` | 6 nodes, 2 priorities, initial capacity 2; 96276 states | `HeapOrdered`, `BackPointers`, `RoomForNext`, `MinQueue` implemented (`ImplementsMinQueue`) |
| `timer` | 2 timers, delays 2 and 11, of which the second wraps around (`Word` is 10), counter up to 5, which is behind INT32_MAX; 232262 states | no timer leaked, lost or used after free (`TimersSound`); none runs early that did not wrap, and a late one waits less than one period (`ServedInTime`); every one is served or descheduled (`EveryTimerRuns`) |
| `heap` | a heap of 208 bytes and one page of 64, sizes 8 and 40, 3 pointers of the thread, 1 of the interrupt; 250156 states | chunks tile the heap, bins hold the holes, blocks are disjoint (`HeapConsistent`), the smallest hole is taken (`BestFit`), unwritten memory is used only where the code forgets a footer (`UndefinedOnlyAfter`) |
| `fs` | 2 names of which one starts with the other, 3 nodes, 2 handles, 2 bytes, counts 1 and 2, 3 bytes written; 777,495 states | `TreeConsistent`, `FilesHoldWrites`, `LookupFinds` |
| `library` | 3 keys in a map of 2 to 8 buckets, lists of up to 5, paths of up to 6, strings of up to 4 characters, formats of up to 2 directives; 230,059 states | `MapSound`, `ListsHoldElements`, `PathsCut`, `TextRead`, `Printed` |
| `machine` | memories of 2 to 70 with the MMIO region at 60, blocks of 3 words through a FIFO of 2, 3 calls of `fwrite` into a buffer of 2, copies of up to 100 bytes at every alignment, stack images listed in `MCMachine`; 476,827 states | `BootSafe`, `TransferSound`, `StreamKept`, `BytesRight`, `ProcessStarts`, and that boot and `hello.c` end (`EachEnds`) |
| `free_vas_leak`, `timer_preempted`, `timer_masked` | as above, or with the counter up to 8 | expected violations, see below |

The bounds make the interesting cases happen: four buckets, so that the correction of the
lookup matters, a bucketinfo slice is itself inside a bucket, and one has to be placed while
the loop of `pmm_init` is inside the reserved region; slices of both kinds that
fill up, become partial and become unused again; all slices in use; an L1 table that is
reused by a second address space; a heap that reaches the peripherals; one ASID more
requested than exists; a heap of three levels whose array grows twice; a removed node that is
replaced by a smaller and by a larger one; timers that fall due between the two halves of
`schedule_timer`, inside `deschedule_timer`, during the handler and behind a periodic timer; a
counter that passes
`INT32_MAX`; a heap that splits, merges on both sides, expands and fails to expand, with an
interrupt in every gap; one file shortened under another handle; an allocation that fails behind
each of the others; a name that starts with another; a map that grows twice, with colliding hashes; memory that ends before, inside and
behind the MMIO region; a FIFO that is full and one that runs empty; every cut `writev` can make;
every alignment of source and target, with every block size `memcpy` and `memset` have.

### What the code does differently from what it says

Each of these is a run in which TLC finds the counterexample:

* `free_vas_leak`: `vm2_allocate_page` always clears `*created_l2pt`, so `free_vas` never
  frees an L2 table.
* `timer_preempted`: an interrupt inside `bcm2836_deschedule_timer` leaves a freed timer in the
  queue.
* `timer_masked`: a periodic callback that deschedules the last queued timer masks the interrupt, and
  the handler puts the periodic timer back without unmasking it. `timer.c:146` has it masked "until
  one is added again".

The models also contain the following, which no run singles out.

Memory:

* With no slice left, `pmm_allocate_page` and `pmm_allocate_l2_pagetable` dereference NULL
  (`vm/pmm.c:247`); `vm2.h` promises NULL to the caller.
* `SliceinfoLocation` (`vm/pmm.c:113`): in the reserved region the bucketinfo of a bucket is not
  in the last slice of the previous one. Only lookups of reserved slices are affected.
* `create_vas` ignores `tlb_everything_allocated`: the first switch to an address space with a
  reused ASID does not flush. `switch_to_vas` (`vm/vas2.c:30`) writes the kernel virtual address
  of the table to TTBR0.
* `init_heap` clears the first bin nine times (`allocator/mem_alloc.c:31`); `Heap` assumes the
  others are zero. `expand` writes no footer at the new end, so the next `get_wilderness` reads
  what was there. For the same reason a wilderness never exceeds `MAX_WILDERNESS`, and `contract`
  is never called. A chunk is lost when `expand` fails. Freeing the first
  chunk merges nothing.

Timer and queue:

* Removing a node twice takes the back pointer of the last node away (`priority_queue.c:108`).
* A periodic timer keeps its old count as priority (`timer.c:138`), so the handler may leave a
  due timer behind it; `ServedInTime` says for how long. The assertion at `timer.c:137` fails
  when the counter passes `INT32_MAX`. A delay of more than 2^32 ticks wraps (`timer.c:163`).
  A handle is an address, and is used again (`timer.c:172`).

Containers and files:

* `vpa_resize` skips the first pointer it cuts off, may call `freeFunc` on one that is listed and
  reallocates bytes where it means pointers. `vpsll_remove` of the head leaks the link.
* `hashmap__clear` leaves a pointer to freed buckets. After `HASHMAP_APPEND` and a growth
  `hashmap__find` need not answer the value inserted last, as `HashMap.h:82` says it does.
* `tmpfs_write_file` sets the length to the position behind the write: a write in the middle cuts
  the file, whatever `tmpfs.c:151` says of its length. A lookup takes the first entry whose name starts
  with the component. When the `kmalloc` of a creation or an open fails, the caller gets NULL and OK
  (`tmpfs.c:57`); the other allocations are not tested at all.
* `path_parent` of the empty path gives `.` where `path.h:36` and `:40` say `/`. It leaves the slash at
  which it cut right behind the path, where the next call begins to look (`path.c:120`): the second
  call in a row changes nothing. `qstr_eq_null_terminated`, the "normal" comparison of `qstr.h:30`,
  accepts a string that only starts with the Qstr.

klibc:

* `strcmp` and `strncmp` return a `uint32_t` (`string.c:37`): never less than 0, so that only
  equality can be read from them.
* `os_strtok` is called re-entrant (`klibc.c:102`) and keeps its place in a static variable.
  `katoi` does not return for a string with a digit. `katof` lets its divisor
  overflow. `memcpy` returns a pointer behind the target.
* A `%` at the end of a format is followed by a read behind the terminator. The buffer does not
  overflow, as the comment at `printf.c:75` fears; the text is cut.

Boot, devices and system calls:

* `stacks.s` unmasks interrupts long before they can be handled; the timer asks for none before
  that. `detect_memory` is imprecise when the memory ends just below the region it skips.
* `sd_transmit` does not wait for the controller, and pushes whether or not the FIFO has room: a
  block is lost although the answer is 0, which `mmci.c:147` takes for success. A word of the
  transfer before may get into the block while the FIFO has not been emptied yet (`mmci.c:157`,
  `:243`). `sd_receive` stops when the FIFO is empty for a moment; before `init_sd` a transfer answers
  0 and moves nothing.
* The kernel's answer to a system call never reaches the program: `open` returns the address of its
  path, `malloc(100)` returns 100, and `-1`, which `fs_syscalls.c:6` promises for an error, comes only
  from the wrappers themselves or from a caller that passed it. `write` of user space
  issues the number of `read` (`fs_syscalls.c:63`). A data abort returns behind the faulting
  instruction. `SYSCALL_EXIT` spins. The kernel prints what a program passes to it without arguments
  (`interrupt.c:172`).

User libc:

* `printf` hands its format to the kernel and drops the arguments (`printf.c:13`); `vfprintf` has no
  caller. This kernel has no `writev`: the number of the file, 1, comes back, which `__stdio_write`
  takes for one byte each time. The helper behind `__k_cas` is not provided, and `stdout` takes no
  lock.
* `__fwritex` counts a line as written whose write failed (`fwrite.c:14`). When the write of `exit`
  fails, what earlier calls have counted as written is lost, and nothing tells
  (`__stdio_exit.c:12`).

## 4. Proofs

Every table below is about all values of the constants that satisfy the named assumptions. They
are in the modules that declare the constants, and TLC evaluates them in the runs of those modules.

### Physical memory: `PmmProofs`

For every number of slices, bucket size, number of parts and reserved suffix
(`SizesAssumption`, `ReservedAssumption`):

| Theorem | Statement |
|---|---|
| `InductiveInvariant` | `Spec => []IInv` |
| `TypeCorrect` | `Spec => []TypeOK` |
| `ListsAlwaysConsistent` | `Spec => []ListsConsistent` |
| `NoSliceEverLost` | `Spec => []NoSliceLost` |
| `LookupAlwaysFinds` | `Spec => []LookupFindsSliceinfo` |
| `HandoutsAlwaysDisjoint` | `Spec => []NoDoubleHandout` |
| `RefinesAllocator` | `Spec => ImplementsAllocator` |

`IInv` adds to the properties what makes them inductive: `FilledMatchesHeld` (the free
functions choose the list to unlink from by `filled`), `HandoutsValid` (what is held is
indexed, unreserved and of the slice's type), `BootCursor` (where the loop of `pmm_init`
stands relative to the bucket a lookup will search) and `SearchedSlicesAreBucketinfo` (the
slices that lookups read are never handed out).

The argument has three layers. Lemmas about `push_to_ll`, `pop_from_ll` and
`remove_element_ll` say how each changes `WellLinked` lists, with the list every slice is on
as a parameter. Every allocation is shown to be one `HandOutStep` and every free one
`TakeBackStep`, and these two preserve `IInv` (`HandOutPreserves`, `TakeBackPreserves`), so
the part common to the six functions is proved once. The two loop actions of `pmm_init` are
treated separately, with the arithmetic of buckets in lemmas of its own (`SliceInBucket`,
`LocationInBucket`).

`NoSliceLost` needs more: lists whose neighbours agree may still hold a ring that no head leads
to. `NoRing` says that the slices have ranks that fall along `next`; a pushed slice gets a
rank above all others (`PushAcyclic`), and what is taken out changes no other rank. The walk from
a head then visits every slice of its list: it would otherwise meet as many slices as there are
without meeting one of them (`WalkFinds`).

### Address spaces: `AddressSpacesProofs`

For every layout of virtual memory, number of slices and parts, set of address spaces, set of user
pages and number of ASIDs (`LayoutAssumption`, `PeripheralsAssumption`, `UserPagesAssumption`,
`VasAssumption`, `AsidAssumption`):

| Theorem | Statement |
|---|---|
| `MemoryInvariant` | `Spec => []MemoryInv` |
| `TypeCorrect` | `Spec => []TypeOK` |
| `MappingsAlwaysSound` | `Spec => []MappingsSound` |
| `MemoryAlwaysAccounted` | `Spec => []MemoryAccounted` |
| `MappingsAreStable` | `Spec => MappingsStable` |
| `Isolation` | `Spec => []IsolatedBeforeReuse` |
| `MemorySpecIsPart` | `MemorySpec => Spec`, so the above holds of the specification that the run without context switches checks |

`MemoryInv` has a part for each stage of boot (`NothingYet`, `PeripheralsMapped`, `WindowMapped`,
`HeapLaidOut`) and, from the first address space on, three parts that depend on each other: the
tables of the living refer to memory that is handed out, each to its own (`Sound`), every living
address space has an L1 table of its own (`TablesHeld`), and the pages it lists are those its
table maps (`PagesListed`). Without the last, `free_vas` could give back what another one maps.
What `vm2_allocate_page` and `vm2_free_page` do to the tables is proved as lemmas about memory
alone, for any set of live tables (`AllocateOutcomes`, `MapInL2Grows`, `FreePageOutcome`,
`TakeBackSound`, `NewTableSound`); the actions of boot, the heap and the address spaces cite them.
`MappingsStable` follows from what each action keeps of other tables (`Kept`).

`IsolatedBeforeReuse` has an invariant of its own: until `tlb_everything_allocated`, the ASIDs
from `curr` on are in no living descriptor and no TLB entry, and below `curr` an ASID belongs to one
address space, in the descriptors and in the TLB (`AsidsFresh`); and what runs has been created
(`CurrentExists`).

### Priority queue: `QueueProofs`, `PrqProofs`

For every set of nodes, set of priorities and set of capacities (`NodeAssumption`,
`PriorityAssumption`, `CapacitiesAssumption`):

| Theorem | Statement |
|---|---|
| `Inductive` | `PrqSpec => []IInv` |
| `TypeCorrect` | `PrqSpec => []PrqTypeOK` |
| `HeapOrder` | `PrqSpec => []HeapOrdered` |
| `BackPointersRight` | `PrqSpec => []BackPointers` |
| `AlwaysRoom` | `PrqSpec => []RoomForNext` |
| `Refinement` | `PrqSpec => ImplementsMinQueue` |

`HeapOrdered` only speaks of the states between operations. `IInv` says what holds in between
(`Repair`): while a node goes up, the order may be broken only between it and its parent
(`EnqueueRepair`); while one goes down, only between it and its children (`DownRepair`); in
`prq_remove` it may be broken on both sides until the first swap (`RemoveRepair`). In each case
the children of the disturbed position are in order with its parent (`OrderedAcross`), without
which a swap would break another place. An iteration is proved as a fact about the priorities
alone (`UpStep`, `DownStep`), apart from the bookkeeping of pointers (`SwapKeeps`). What
`prq_dequeue` and `prq_remove` have in common is `TakesOut`, proved once (`TakeOut`).
`BackPointers` is needed for the order: it is why `prq_remove` starts its loops inside the queue.

For `Refinement` the first node must be the lowest of all (`FirstIsLowest`), not only of its
children. A smallest position with a lower priority would have a parent with a lower priority.

`PrqProofs` goes from the iteration to the whole operation, for the `Prq` that `Timer` uses: the
recursive functions behind `prq_shift_up` and `prq_shift_down` exist and unfold (`ShiftUpLoop`,
`ShiftDownLoop`), the loops end in heap order (`ShiftUpEnds`, `ShiftDownOrders`), and
`prq_enqueue`, `prq_dequeue` and `prq_remove` add or take exactly their node and keep `QueueOK`
(`EnqueueAdds`, `DequeueTakes`, `RemoveTakes`, `PeekIsLowest`). These are inductions over the
position. The provers cannot instantiate the library's induction theorems, which take an
operator; the lemmas state the claim as a set of numbers instead and use that a nonempty set of
numbers has a least element (`LeastElement`, `UpTo`, from the library's `WFMin`).

### Timer: `QueueProofs`

For every set of timers and delays, tick rate, width of a word, initial capacity and bound on the
counter (`TimerAssumption`, `NodeAssumption`):

| Theorem | Statement |
|---|---|
| `TimersAlwaysSound` | `Spec => []TimersSound` |
| `AlwaysServedInTime` | `Spec => []ServedInTime` |

`TimerInv` says that the queue is in order (`QueueOK`); that a timer is allocated exactly while it
is queued, in a callback or in a call (`Accounted`); that a priority is older than the count of
its timer by at most one period (`Aged`), which bounds how late a timer may be that waits behind a
periodic one; that only an empty queue is masked, unless a callback emptied it (`MaskedWhenEmpty`);
that outside the handler and between the calls of the thread the compare value is that of the first
timer (`Armed`), and that a thread which is about to set it has peeked at the right one (`Peeked`); and that what a wrapped delay loses is a whole
number of words (`LosesWords`), so that only delays that wrap run early.

`TimerInv` does not hold inside `prq_remove` of the thread. `Halfway` says what does: there is a queue
in order, the one before the call, and what is in memory is that queue after the first or after the
second write (`IndexMoved`, `NotYetShrunk`), with everything else as `TimerInv` has it of that queue
(`Removing`). The steps lead from `TimerInv` into it and, by `RemoveTakes`, out again; an interrupt in
the middle sets `preempted`. What is inductive is `IntactInv`: not preempted implies `TimerInv` or
`Halfway`.

### Kernel heap: `HeapProofs`

For every size of the first heap and of a page, least and greatest wilderness, number of bins,
sizes that are asked for and sets of callers (`HeapAssumption`):

| Theorem | Statement |
|---|---|
| `HeapInvariant` | `Spec => []IInv` |
| `HeapIsConsistent` | `Spec => []HeapConsistent` |
| `HeapUndefinedOnlyAfter` | `Spec => []UndefinedOnlyAfter` |
| `HeapBestFit` | `Spec => BestFit` |

`HeapConsistent` speaks of the states between calls, but a call of the thread is cut into steps,
between which the handler may run. `IInv` therefore says what holds in the middle of one:
`CalmIn` that the chunks lie one behind the other with their footers (`Layout`), that every chunk
in use has one owner but the one that is being freed (`Owners`), and that each bin lists exactly
its holes in the order of their sizes (`BinsKeep`), a chunk found and split or merged but not yet
moved excepted. `TornIn` is what is left when the handler has run inside a call: as much as the
rest of the call needs to stay within headers that exist, which is what `UndefinedOnlyAfter` says.

The lemmas go from the fields of the heap (`WriteNode`, `WriteFoot`, `WriteBin`, `ForgetWrites`)
over the bins (`RemoveFirstPlaces`; `add_node` at the place of the size) and the three
changes of the layout (a chunk is split in two, two neighbours become one, `expand` and `contract`
move the end) to one lemma for each action. `get_bin_index` rests on a recursive logarithm: that it
exists, unfolds and is monotone is an induction over the size (`BinIndex`), and it is why the first
bin with a fit holds the smallest hole of all that fit, which is `BestFit`. The number of bins is
any, so no proof goes through them one by one.

### File system: `TmpfsProofs`

For every set of names and handles, size of allocations, width of a word and bound on nodes and
bytes (`TmpfsAssumption`):

| Theorem | Statement |
|---|---|
| `TreeAlwaysConsistent` | `Spec => []TreeConsistent` |
| `FilesAlwaysHoldWrites` | `Spec => []FilesHoldWrites` |
| `LookupAlwaysFinds` | `Spec => []LookupFinds` |

In `TreeInv`, `Linked` says that entries and `parent` agree, that exactly the root and what has a
parent is listed, and that every set that holds the tree holds the list (`HoldsTree`: the set has
the root and, with a directory, its entries). The last is how "reachable from the root" is stated
without recursion; it grows with a creation because the new node has a listed parent. `Allocated`
accounts for what `vfs_free` frees and what a failed creation leaves. A directory whose array
`krealloc` lost keeps nothing: its entries stay listed and out of the tree (`null`). `FileInv` compares the
bytes below the length with what was asked for, in files that no write has cut, and says that no
handle stands behind the end of those; from it follows that no read goes beyond the array.

`LookupFinds` follows a path that is built from the parents and looked up from the root.
`SmallerParents` (a node was created after its parent) makes both inductions: the recursive
functions for the path and the ancestors of a node exist because a parent has a smaller number, and
the lookup of a path with one more name is one more step from where the shorter path led
(`LookupAppend`). That step finds the node because `HoldsTree` puts it among the entries of its
parent and, under the condition of `LookupFinds`, its name is not the front of a sibling's.

### Library: `LibraryProofs`

For any bytes, pointers and data, any capacity and any size of a pointer (`ArrayListAssumption`),
any finite set of links (`LinkedListAssumption`), and any characters among which are `/` and `.`
(`PathAssumption`):

| Theorem | Statement |
|---|---|
| `ListsAlwaysHoldElements` | `Spec => []ListsHoldElements` |
| `PathsAreCut` | `Spec => []PathsCut` |

The properties say what a list holds; what its operations need is that the block is as large as
the capacity says and that `length` is not beyond it. `Holds(l, s, E)` joins the two: the list `l`
is whole and its first `length` cells are the sequence `s`. Each operation of the byte list has a
lemma from one `Holds` to the next, and the paths, which are byte lists, use the same ones: a cut,
an append, a copy, a list made anew. Where a path is cut depends on where its last slash is, the
largest of a set of positions (`LastSlash`); `Parents` and `Filenames` show that where the code cuts is
where the property says, with the dots and slashes at the end and the slash that may lie behind.

The block of the pointer list may be smaller than its capacity once `vpa_resize` has counted bytes
for pointers, so `VpaInv` has two levels: `VpaGood` always, and `VpaFull` while nothing has been
resized. `VpaGood` also says what lies behind the length, since `freeFunc` may be called on it.

A linked list has no sequence in its state. `SllInv` says that there is one, `IsChain(link, head,
s)`: from the head on the links lead through `s`, without a repetition, to `Null`. The model reads
the list as the loop of the code does, by a walk of a bounded number of steps. `ChainIs` shows that
the walk yields exactly `s`: what it has after `n` steps is the first `n` links, by induction over
`n`; and as `s` repeats nothing it is no longer than the set of links, so that the bound is never
what ends it.

### Machine: `MachineProofs`

`StepOfPart` says that a step changes the variables of one part. For every size of memory,
region and word (`BootAssumption`), block size, FIFO and number of transfers (`MmciAssumption`),
any size of the buffer, texts and number of calls (`StdioAssumption`), any number of bytes and characters (`UserMemAssumption`), and any image on the
stack, list of errors and width of a word (`ProcessAssumption`):

| Theorem | Statement |
|---|---|
| `BootAlwaysSafe` | `Spec => []BootSafe` |
| `TransfersAlwaysSound` | `Spec => []TransferSound` |
| `WordsDoAsBytes` | `Spec => []BytesRight` |
| `StreamAlwaysKept` | `Spec => []StreamKept` |
| `ProcessAlwaysStarts` | `Spec => []ProcessStarts` |

`BootInv` has the invariant of the search for memory (`SearchInv`: what has been counted responds)
and what is set up at which stage (`SetUpInv`). `MmciInv` accounts for every word of a transfer:
what was pushed is in the FIFO or on the card, what the card gave is in the FIFO or in the buffer,
in order, unless the transfer was disturbed (`WordsOnTheWay`, `CardWritten`). `StdioInv` follows the bytes: what
`writev` has taken, what the running write still has and what the buffer holds make up, in this
order, what the callers have written, as long as no error was met, and are always an ascending
part of it (`OrderInv`); the write that runs has the shape that the loop of `__stdio_write` relies
on, with the first iovec the buffer until it is gone (`WriteInv`, `IovInv`), however `writev` cuts.
`MemInv` says for every place in
`memcpy`, `memset` and `memchr` which bytes are done and how the pointers are aligned: in the
shifted loops of `memcpy` that the word read ahead is the one `s` lies in, and at each tail that
the lower bits of `n` are the bytes still to copy. `EncodedDecodes` reads back what `wcrtomb` wrote.

`ProcessStarts` compares what is read with what was written, and both sides run sequences together:
the auxiliary vector is words behind words, the messages of all errors are one array of characters.
`FlatParts` takes the concatenation apart into its partial ones, each of them the one before with one
sequence behind it. From there two predicates say where things lie: `StackIs`, at which words the
arguments, the environment and each pair of the vector are, and `MessageLies`, between which two
terminators the message of an error is. `PairsBeforeZero` shows that reading by twos from the right word meets the
pairs and nothing else, as far as the first tag of 0; `MessagesSkipped`, that skipping `i` terminators
arrives at the message behind them, as no message has one inside. The answer of a system call is followed
through `__syscall_ret` (`MainLearns`), also where the error is on no list.

### Only model-checked

* `EveryTimerRuns` and `EachEnds`: liveness under fairness is beyond the prover.
* `MapSound` of `Library`: `HashMap` counts entries and rehashes with folds over its buckets, and
  that a rehash loses no entry is an induction over them through an operator (`FoldLeft`)
  about which the library proves nothing.
* `TextRead` and `Printed` of `Library`: their functions, and the properties, convert numbers and walk texts and formats by recursion and by folds; what they compute is
  an induction over data.
* What the three violations show.

## 5. Not modelled, and the plan

Not modelled, and why:

* `vfprintf.c` and `frexp`: nothing calls them. User `printf` is a system call, and `out` would not
  return (`vfprintf.c:163`).
* The lock of `exit` and `a_swap`: nothing starts a second thread in a process.
* `rand` of `klibc`: its shifts are tied to words of 32 bits.
* The registers of the UART, `bcm2836_uart_on_message` (empty) and semihosting: device I/O.
* `fiq_handler` and `reserved_handler`: nothing raises them.
* The other atomics, which nothing calls (`a_fetch_add`), and `__lockfile` (compiled out).
* Headers that only declare (`elf.h`, `math.h`, `alltypes.h`, `bits/syscall.h`), generated
  tables, and `create_file` of `file.c`, which is empty.
* The allocations of the timer and of `create_vas` failing, a `krealloc` of the priority queue and of
  the lists of an address space failing: nothing handles it, and NULL is written through or an assertion fails.
* Instruction-level boot code other than the search for memory, the stacks and the page table;
  cache maintenance.

What could follow is a proof about `HashMap` for any number of entries and capacities, from lemmas
about the folds it uses.
