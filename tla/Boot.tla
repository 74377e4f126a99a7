-------------------------------- MODULE Boot --------------------------------
(***************************************************************************)
(* From _Reset to the end of start(): common/memory.s finds the size of    *)
(* the memory, then every part of the kernel is started in its order,      *)
(* while exceptions and interrupts may come in between. What printing      *)
(* needs, the function pointers of `chipset`, is set up on the way.        *)
(***************************************************************************)
EXTENDS Integers

CONSTANTS Ram,                      \* the sizes of the memory that may be there
          WordSize,                 \* bytes that str and ldr access
          FirstStep,                \* 0x10000000
          MaxMemory,                \* max_memory_size
          RegionStart, RegionEnd,   \* the one pair of mmio_regions
          Board                     \* what detect_boardtype may find

ASSUME BootAssumption ==
    /\ Ram \subseteq Nat /\ FirstStep \in Nat \ {0} /\ WordSize \in Nat \ {0}
    /\ MaxMemory \in Nat /\ RegionStart \in Nat /\ RegionEnd \in Nat
    /\ RegionStart < RegionEnd /\ RegionEnd <= MaxMemory

VARIABLES ram,       \* the size of the memory
          r0, r3,    \* the registers of detect_memory
          skipped,   \* ghost: the search has been moved over the region in vain
          board,
          stage,     \* the call that comes next, running, or halted by panic
          masked,    \* interrupts are disabled on the core
          vectors,   \* where an exception goes: low, or to the handlers
          chipset,   \* uart_putc and handle_irq of the ChipsetInterface
          uart,      \* BCM2836_UART0_ADDRESS is set
          heap,      \* init_heap has run
          timers,    \* scheduled_timers exists
          signal,    \* the timer: off, masked or unmasked
          fault      \* none, null_call, or unhandled: an interrupt nothing awaits

bootvars == <<ram, r0, r3, skipped, board, stage, masked, vectors, chipset, uart,
              heap, timers, signal, fault>>
detectvars == <<ram, r0, r3, skipped>>
machinevars == <<masked, vectors, chipset, uart, heap, timers, signal>>

BootInit(rams, boards) ==
    /\ ram \in rams
    /\ r0 = 0 /\ r3 = FirstStep /\ skipped = FALSE
    /\ board \in boards
    /\ stage = "detect_memory"
    /\ masked = TRUE
    /\ vectors = "low"
    /\ chipset = [uart_putc |-> "stub", handle_irq |-> "NULL"]
    /\ uart = FALSE /\ heap = FALSE /\ timers = FALSE
    /\ signal = "off"
    /\ fault = "none"

Running == stage # "halted" /\ fault = "none"

\* 42, written at an address, is read there again.
Responds(a) == a + WordSize <= ram

NotThere(a) ==
    /\ r0' = a - r3
    /\ r3' = r3 \div 2

\* One round of detect_memory_loop.
detect_memory ==
    LET a == r0 + r3
        forbidden == RegionStart <= a /\ a < RegionEnd
        at == IF forbidden THEN RegionEnd ELSE a IN
    /\ Running /\ stage = "detect_memory"
    /\ IF Responds(at)
       THEN /\ r0' = at
            /\ stage' = IF at < MaxMemory THEN "detect_memory" ELSE "mmu"
            /\ UNCHANGED <<r3, skipped>>
       ELSE /\ NotThere(at)
            /\ stage' = IF r3' = 0 THEN "mmu" ELSE "detect_memory"
            /\ skipped' = (skipped \/ forbidden)
    /\ UNCHANGED <<ram, board, machinevars, fault>>

\* The caches and the TLB are invalidated and the MMU is turned on over the table
\* that maps the kernel twice.
EnableMmu ==
    /\ Running /\ stage = "mmu"
    /\ stage' = "stacks"
    /\ UNCHANGED <<detectvars, board, machinevars, fault>>

\* Writing the mode into CPSR_c clears the mask bits with it.
stacks ==
    /\ Running /\ stage = "stacks"
    /\ masked' = FALSE
    /\ stage' = "init_hardwareinfo"
    /\ UNCHANGED <<detectvars, board, vectors, chipset, uart, heap, timers, signal, fault>>

\* What chipset.uart_putc needs; bcm2836_uart_putc writes through the address.
Output(c, u) ==
    fault' = IF c.uart_putc = "NULL" \/ (c.uart_putc = "bcm2836" /\ ~u)
             THEN "null_call" ELSE fault

kprintf == Output(chipset, uart)

\* It prints before it masks.
disable_interrupt == kprintf /\ masked' = TRUE

panic ==
    /\ disable_interrupt
    /\ stage' = "halted"
    /\ UNCHANGED <<vectors, chipset, uart, heap, timers, signal>>

\* Only the Raspberry Pi Two is known to the switch.
init_hardwareinfo ==
    /\ Running /\ stage = "init_hardwareinfo"
    /\ \/ /\ board = "RaspBerryPiTwo"
          /\ stage' = "init_chipset" /\ UNCHANGED <<machinevars, fault>>
       \/ /\ board # "RaspBerryPiTwo"
          /\ panic
    /\ UNCHANGED <<detectvars, board>>

\* memset, then bcm2836_init sets every field and the addresses of the UARTs; a
\* board that is not known panics with all pointers NULL.
init_chipset ==
    /\ Running /\ stage = "init_chipset"
    /\ IF board = "RaspBerryPiTwo"
       THEN /\ chipset' = [uart_putc |-> "bcm2836", handle_irq |-> "bcm2836"]
            /\ uart' = TRUE
            /\ stage' = "vm2_start" /\ UNCHANGED masked
       ELSE /\ chipset' = [uart_putc |-> "NULL", handle_irq |-> "NULL"]
            /\ stage' = "halted" /\ masked' = TRUE
            /\ UNCHANGED uart
    /\ Output(chipset', uart')
    /\ UNCHANGED <<detectvars, board, vectors, heap, timers, signal>>

\* print_hardwareinfo and vm2_start.
vm2_start ==
    /\ Running /\ stage = "vm2_start"
    /\ stage' = "init_vector_table"
    /\ kprintf
    /\ UNCHANGED <<detectvars, board, machinevars>>

init_vector_table ==
    /\ Running /\ stage = "init_vector_table"
    /\ vectors' = "handlers"
    /\ stage' = "init_heap"
    /\ UNCHANGED <<detectvars, board, masked, chipset, uart, heap, timers, signal, fault>>

init_heap ==
    /\ Running /\ stage = "init_heap"
    /\ heap' = TRUE
    /\ stage' = "splash"
    /\ kprintf
    /\ UNCHANGED <<detectvars, board, masked, vectors, chipset, uart, timers, signal>>

splash ==
    /\ Running /\ stage = "splash"
    /\ stage' = "enable_interrupt"
    /\ kprintf
    /\ UNCHANGED <<detectvars, board, machinevars>>

\* enable_interrupt(BOTH).
enable_interrupt ==
    /\ Running /\ stage = "enable_interrupt"
    /\ masked' = FALSE
    /\ stage' = "late_init"
    /\ kprintf
    /\ UNCHANGED <<detectvars, board, vectors, chipset, uart, heap, timers, signal>>

\* Mutant: the timer is enabled without a mask.
TimerSignal_unmasked == "unmasked"

\* mask_and_enable_timer.
TimerSignal == "masked"

\* prq_create may find no memory; scheduled_timers is then NULL, after its stores
\* through NULL have gone to the abort handler, which returns behind them.
bcm2836_timer_init ==
    /\ Running /\ stage = "late_init"
    /\ timers' \in {heap, FALSE}
    /\ signal' = TimerSignal
    /\ stage' = "running"
    /\ kprintf
    /\ UNCHANGED <<detectvars, board, masked, vectors, chipset, uart, heap>>

\* A timer is scheduled once the kernel runs: the assertion of prq_enqueue panics
\* when there is no queue, before the timer is unmasked.
Schedule ==
    /\ Running /\ stage = "running"
    /\ \/ /\ timers
          /\ signal' = "unmasked"
          /\ UNCHANGED <<stage, masked, vectors, chipset, uart, heap, timers, fault>>
       \/ /\ ~timers
          /\ panic
    /\ UNCHANGED <<detectvars, board>>

\* irq_handler, chipset.handle_irq, timer_handle_interrupt.
Irq ==
    /\ Running /\ ~masked /\ signal = "unmasked"
    /\ IF vectors = "handlers" /\ chipset.handle_irq # "NULL" /\ timers
       THEN signal' \in {"masked", "unmasked"} /\ kprintf
       ELSE fault' = "unhandled" /\ UNCHANGED signal
    /\ UNCHANGED <<detectvars, board, stage, masked, vectors, chipset, uart, heap,
                   timers>>

\* The handler of an exception that is FATAL, data_abort_handler among them when
\* tests are enabled.
Fatal ==
    /\ Running /\ vectors = "handlers"
    /\ panic
    /\ UNCHANGED <<detectvars, board>>

undef_instruction_handler == Fatal
prefetch_abort_handler == Fatal

BootStep ==
    \/ detect_memory \/ EnableMmu \/ stacks \/ init_hardwareinfo \/ init_chipset \/ vm2_start
    \/ init_vector_table \/ init_heap \/ splash \/ enable_interrupt \/ bcm2836_timer_init

BootNext == BootStep \/ Schedule \/ Irq \/ undef_instruction_handler \/ prefetch_abort_handler

-----------------------------------------------------------------------------
(* What the boot sequence promises.                                        *)

\* detect_memory answers the last address that responds, or stops at the most it
\* looks for, unless memory ends just below the region that it does not touch: it
\* then takes one step back from the end of the region and calls that memory.
DetectedSize ==
    stage # "detect_memory" /\ ~skipped /\ r0 < MaxMemory =>
        /\ r0 + WordSize <= ram \/ r0 = 0
        /\ ram - r0 <= WordSize

\* Nothing is ever printed, and no panic reported, through a function pointer or a
\* UART address that is NULL, whatever the board and wherever it goes wrong.
PrintsSafely == fault # "null_call"

\* An interrupt that is taken finds the vector table, the chipset's handler and
\* the queue of the timers, although the core accepts interrupts from stacks on.
InterruptsHandled == fault # "unhandled"

\* From _Reset on: detect_memory finds the size of the memory, and whatever goes
\* wrong or interrupts at any moment finds what it needs.
BootSafe == DetectedSize /\ PrintsSafely /\ InterruptsHandled

\* The kernel is up or has panicked.
Booted == stage \in {"running", "halted"}
=============================================================================
