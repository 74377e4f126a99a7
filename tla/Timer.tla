------------------------------- MODULE Timer -------------------------------
(***************************************************************************)
(* The timer driver (drivers/chipset/bcm2836/timer.c) over the priority    *)
(* queue, the ARM generic timer and its interrupt.                         *)
(*                                                                         *)
(* A thread of the kernel calls the driver; when the counter reaches the   *)
(* compare value the interrupt handler runs on top of it, with interrupts  *)
(* masked by the processor until it returns. The handler calls the         *)
(* callbacks, which may call the driver too. The counter goes on all the   *)
(* time. A ScheduledTimer and its prq_node are allocated and freed         *)
(* together and are one Node here; its address is the handle.              *)
(***************************************************************************)
EXTENDS Prq

CONSTANTS Delay,       \* the delay_ms that clients ask for
          TicksPerMs,  \* get_frequency() / 1000
          Word,        \* 2^32 in the code
          DEFAULT_COUNT,  \* the capacity that prq_create starts with
          MaxCount     \* bound: the counter stops here

ASSUME TimerAssumption ==
    /\ Delay \subseteq Nat \ {0}
    /\ TicksPerMs \in Nat \ {0}
    /\ Word \in Nat \ {0, 1}
    /\ DEFAULT_COUNT \in Nat \ {0}
    /\ MaxCount \in Nat

VARIABLES q,           \* scheduled_timers
          data,        \* the ScheduledTimer of each node
          allocated,   \* the nodes that are allocated on the heap
          cntpct,      \* the counter CNTPCT
          cval,        \* the compare value CNTP_CVAL
          masked,      \* the mask bit of CNTP_CTL
          irq,         \* the interrupt handler: whether it runs, its
                       \* current_count, and the timer whose callback runs
          call,        \* the call the thread is in
          status,      \* running, or where an assertion failed
          due,         \* ghost: the count before which a timer must not run
          emptied,     \* ghost: the callback of a periodic timer has taken the
                       \* last timer out of the queue, and none was scheduled since
          preempted    \* ghost: an interrupt came where the thread's
                       \* deschedule_timer cannot bear one

clockvars == <<cval, masked>>
ghosts == <<emptied, preempted>>
vars == <<q, data, allocated, cntpct, clockvars, irq, call, status, due, ghosts>>

INT32_MAX == Word \div 2 - 1

NoCall == [op |-> "none", node |-> NULL, end |-> NULL, index |-> 0]
NoIrq == [active |-> FALSE, current_count |-> 0, timer |-> NULL]

NoData == [scheduled_count |-> 0, periodic_delay |-> 0]

\* kfree and prq_free_node: what the memory holds afterwards does not matter.
Free(n) ==
    /\ allocated' = allocated \ {n}
    /\ data' = [data EXCEPT ![n] = NoData]
    /\ due' = [due EXCEPT ![n] = 0]

\* bcm2836_timer_init
Init ==
    /\ q = prq_create_fixed(DEFAULT_COUNT)
    /\ data = [n \in Node |-> NoData]
    /\ allocated = {}
    /\ cntpct = 0
    /\ cval = 0
    /\ masked = TRUE
    /\ irq = NoIrq
    /\ call = NoCall
    /\ status = "running"
    /\ due = [n \in Node |-> 0]
    /\ emptied = FALSE
    /\ preempted = FALSE

\* The thread may start a call.
ThreadIdle == status = "running" /\ ~irq.active /\ call = NoCall

\* A callback is running and may call the driver.
InCallback == status = "running" /\ irq.timer # NULL

\* The counter is hardware: it also advances inside the handler.
Tick ==
    /\ status = "running"
    /\ cntpct < MaxCount
    /\ cntpct' = cntpct + 1
    /\ UNCHANGED <<q, data, allocated, clockvars, irq, call, status, due, ghosts>>

-----------------------------------------------------------------------------
(* schedule_timer                                                          *)

\* A product of two 32-bit numbers, before it is widened.
count_offset(delay_ms) == (TicksPerMs * delay_ms) % Word

\* The assertion that the priority, an int, can hold the count.
Representable(delay_ms) == cntpct + count_offset(delay_ms) <= INT32_MAX

\* Up to the critical section: a new timer in memory.
NewTimer(n, delay_ms, periodic) ==
    /\ n \notin allocated
    /\ Representable(delay_ms)
    /\ allocated' = allocated \cup {n}
    /\ data' = [data EXCEPT ![n] =
                  [scheduled_count |-> cntpct + count_offset(delay_ms),
                   periodic_delay |-> IF periodic THEN count_offset(delay_ms) ELSE 0]]
    /\ due' = [due EXCEPT ![n] = cntpct + TicksPerMs * delay_ms]

\* Set the compare value to the first timer of the queue, or mask the
\* interrupt if there is none.
Rearm(first) ==
    IF first = NULL
    THEN masked' = TRUE /\ UNCHANGED cval
    ELSE cval' = data'[first].scheduled_count /\ UNCHANGED masked

\* Mutant: the compare value is set before the timer is in the queue.
CriticalSection_early_compare(n) ==
    /\ q' = Enqueued(q, n, data'[n].scheduled_count)
    /\ cval' = IF prq_peek(q) = NULL THEN data'[n].scheduled_count
               ELSE data'[prq_peek(q)].scheduled_count
    /\ masked' = FALSE /\ emptied' = FALSE

\* Mutant: the interrupt stays masked.
CriticalSection_no_unmask(n) ==
    /\ q' = Enqueued(q, n, data'[n].scheduled_count)
    /\ cval' = data'[prq_peek(q')].scheduled_count
    /\ emptied' = FALSE
    /\ UNCHANGED masked

\* The critical section: no timer interrupt is delivered inside it.
CriticalSection(n) ==
    /\ q' = Enqueued(q, n, data'[n].scheduled_count)
    /\ cval' = data'[prq_peek(q')].scheduled_count
    /\ masked' = FALSE /\ emptied' = FALSE

\* The thread calls bcm2836_schedule_timer_once or _periodic.
ScheduleBegins(n, delay_ms, periodic) ==
    /\ ThreadIdle
    /\ NewTimer(n, delay_ms, periodic)
    /\ call' = [NoCall EXCEPT !.op = "schedule", !.node = n]
    /\ UNCHANGED <<q, cntpct, clockvars, irq, status, ghosts>>

\* Interrupts may have been handled and the counter may have passed the
\* scheduled count by now.
ScheduleReturns ==
    /\ status = "running" /\ ~irq.active
    /\ call.op = "schedule"
    /\ call' = NoCall
    /\ UNCHANGED <<data, allocated, cntpct, irq, status, due, preempted>>
    /\ CriticalSection(call.node)

\* A callback calls it: interrupts are masked, so nothing comes between.
CallbackSchedules(n, delay_ms, periodic) ==
    /\ InCallback
    /\ NewTimer(n, delay_ms, periodic)
    /\ CriticalSection(n)
    /\ UNCHANGED <<cntpct, irq, call, status, preempted>>

\* The assertion of schedule_timer fails.
ScheduleRejected(delay_ms) ==
    /\ ThreadIdle \/ InCallback
    /\ ~Representable(delay_ms)
    /\ status' = "rejected"
    /\ UNCHANGED <<q, data, allocated, cntpct, clockvars, irq, call, due, ghosts>>

-----------------------------------------------------------------------------
(* bcm2836_deschedule_timer. The handle is that of a scheduled timer.      *)

\* A callback calls it: interrupts are masked, so nothing comes between. The
\* queue may now be empty while the handler has a periodic timer to put back.
CallbackDeschedules(n) ==
    /\ InCallback
    /\ n \in Members(q)
    /\ q' = Removed(q, n)
    /\ Free(n)
    /\ Rearm(prq_peek(q'))
    /\ emptied' = (emptied \/ (Members(q) = {n} /\ data[irq.timer].periodic_delay # 0))
    /\ UNCHANGED <<cntpct, irq, call, status, preempted>>

\* The thread calls it. There is no critical section, so the handler may run
\* between any two of the steps that follow.
Resumes(op) == status = "running" /\ ~irq.active /\ call.op = op

\* prq_remove reads the last node and gives it the index of the removed one.
DescheduleBegins(n) ==
    /\ ThreadIdle
    /\ n \in Members(q)
    /\ LET end == q.heap[q.count]
       IN /\ q' = [q EXCEPT !.index[end] = q.index[n]]
          /\ call' = [op |-> "unlink", node |-> n, end |-> end, index |-> q.index[n]]
    /\ UNCHANGED <<data, allocated, cntpct, clockvars, irq, status, due, ghosts>>

DescheduleUnlinks ==
    /\ Resumes("unlink")
    /\ q' = [q EXCEPT !.index[call.node] = -1,
                      !.heap = [@ EXCEPT ![call.index] = call.end, ![q.count + 1] = NULL]]
    /\ call' = [call EXCEPT !.op = "shrink"]
    /\ UNCHANGED <<data, allocated, cntpct, clockvars, irq, status, due, ghosts>>

\* The count is decremented, below 0 when the handler has emptied the queue in the
\* meantime, and both loops run; the second ends at once when there is no child.
DescheduleShrinks ==
    /\ Resumes("shrink")
    /\ LET up == prq_shift_up([q EXCEPT !.count = @ - 1], call.index)
       IN q' = IF up.count < 0 THEN up ELSE prq_shift_down(up, call.index)
    /\ call' = [NoCall EXCEPT !.op = "free", !.node = call.node]
    /\ UNCHANGED <<data, allocated, cntpct, clockvars, irq, status, due, ghosts>>

\* Both kfrees and prq_peek.
DescheduleFrees ==
    /\ Resumes("free")
    /\ Free(call.node)
    /\ call' = [NoCall EXCEPT !.op = "rearm", !.end = prq_peek(q)]
    /\ UNCHANGED <<q, cntpct, clockvars, irq, status, ghosts>>

DescheduleReturns ==
    /\ Resumes("rearm")
    /\ call' = NoCall
    /\ UNCHANGED <<q, data, allocated, cntpct, irq, status, due, ghosts>>
    /\ Rearm(call.end)

\* Inside prq_remove, or between prq_peek and the use of what it returned.
Unprotected == call.op \in {"unlink", "shrink", "rearm"}

-----------------------------------------------------------------------------
(* timer_handle_interrupt                                                  *)

\* The timer's output: a level, not an edge.
Pending == ~masked /\ cntpct >= cval

InterruptArrives ==
    /\ status = "running" /\ ~irq.active
    /\ Pending
    /\ irq' = [NoIrq EXCEPT !.active = TRUE, !.current_count = cntpct]
    /\ preempted' = (preempted \/ Unprotected)
    /\ UNCHANGED <<q, data, allocated, cntpct, clockvars, call, status, due, emptied>>

\* The loop's condition.
FirstIsDue ==
    /\ prq_peek(q) # NULL
    /\ data[prq_peek(q)].scheduled_count <= irq.current_count

InLoop == status = "running" /\ irq.active /\ irq.timer = NULL

\* An iteration up to the callback.
CallbackBegins ==
    /\ InLoop
    /\ FirstIsDue
    /\ q' = Dequeued(q)
    /\ irq' = [irq EXCEPT !.timer = prq_peek(q)]
    /\ UNCHANGED <<data, allocated, cntpct, clockvars, call, status, due, ghosts>>

\* A timer that is not periodic is freed.
OneShotReturns ==
    /\ InCallback
    /\ data[irq.timer].periodic_delay = 0
    /\ Free(irq.timer)
    /\ irq' = [irq EXCEPT !.timer = NULL]
    /\ UNCHANGED <<q, cntpct, clockvars, call, status, ghosts>>

\* Mutant: the timer is not put back.
PeriodicReturns_forgotten ==
    /\ InCallback
    /\ data[irq.timer].periodic_delay # 0
    /\ irq' = [irq EXCEPT !.timer = NULL]
    /\ UNCHANGED <<q, data, allocated, cntpct, clockvars, call, status, due, ghosts>>

\* A periodic timer is put back, with the count that has just passed as its
\* priority.
PeriodicReturns ==
    /\ InCallback
    /\ data[irq.timer].periodic_delay # 0
    /\ data[irq.timer].scheduled_count <= INT32_MAX
    /\ LET n == irq.timer
           scheduled_count == data[n].scheduled_count
           next == scheduled_count + data[n].periodic_delay
       IN /\ data' = [data EXCEPT ![n].scheduled_count = next]
          /\ due' = [due EXCEPT ![n] = next]
          /\ q' = Enqueued(q, n, scheduled_count)
    /\ irq' = [irq EXCEPT !.timer = NULL]
    /\ UNCHANGED <<allocated, cntpct, clockvars, call, status, ghosts>>

\* The assertion in the handler fails.
PeriodicPanics ==
    /\ InCallback
    /\ data[irq.timer].periodic_delay # 0
    /\ data[irq.timer].scheduled_count > INT32_MAX
    /\ status' = "panic"
    /\ UNCHANGED <<q, data, allocated, cntpct, clockvars, irq, call, due, ghosts>>

InterruptReturns ==
    /\ InLoop
    /\ ~FirstIsDue
    /\ irq' = NoIrq
    /\ UNCHANGED <<q, data, allocated, cntpct, call, status, due, ghosts>>
    /\ Rearm(prq_peek(q))

Handler ==
    \/ InterruptArrives
    \/ CallbackBegins
    \/ OneShotReturns
    \/ PeriodicReturns
    \/ PeriodicPanics
    \/ InterruptReturns

Clients ==
    \/ \E n \in Node, d \in Delay, p \in BOOLEAN :
          ScheduleBegins(n, d, p) \/ CallbackSchedules(n, d, p)
    \/ \E d \in Delay : ScheduleRejected(d)
    \/ \E n \in Node : DescheduleBegins(n) \/ CallbackDeschedules(n)

\* A call of the thread that has begun.
Thread ==
    \/ ScheduleReturns
    \/ DescheduleUnlinks
    \/ DescheduleShrinks
    \/ DescheduleFrees
    \/ DescheduleReturns

Next == Tick \/ Handler \/ Clients \/ Thread

Spec == Init /\ [][Next]_vars

\* The counter is hardware, an asserted interrupt is delivered, the handler
\* and a call that has begun go on.
FairSpec == Spec /\ WF_vars(Tick) /\ WF_vars(Handler) /\ WF_vars(Thread)

-----------------------------------------------------------------------------
(* Properties                                                              *)

Counts == 0 .. MaxCount + Word

\* The type invariant. A priority is an int that is not negative, the array has
\* room for the next timer, and no index leaves it.
TypeOK ==
    /\ q.size \in Nat /\ q.count \in 0 .. q.size - 2
    /\ q.heap \in [0 .. q.size - 1 -> Node \cup {NULL}]
    /\ q.index \in [Node -> -1 .. q.size] /\ q.priority \in [Node -> 0 .. INT32_MAX]
    /\ data \in [Node -> [scheduled_count : Counts, periodic_delay : 0 .. Word - 1]]
    /\ allocated \subseteq Node
    /\ cntpct \in 0 .. MaxCount /\ cval \in Counts /\ masked \in BOOLEAN
    /\ irq \in [active : BOOLEAN, current_count : 0 .. MaxCount, timer : Node \cup {NULL}]
    /\ call.op \in {"none", "schedule", "unlink", "shrink", "free", "rearm"}
    /\ call.node \in Node \cup {NULL}
    /\ status \in {"running", "rejected", "panic"}

\* Outside prq_remove, every timer that is allocated is in exactly one place (the
\* queue, a callback, a call that has not queued it yet or is about to free it), and
\* nothing freed is in any: the handler and the clients neither leak a timer nor
\* touch one after kfree.
TimersAccounted ==
    LET places == <<Members(q), {irq.timer} \ {NULL}, {call.node} \ {NULL}>>
    IN call.op \notin {"unlink", "shrink"} =>
         /\ allocated = UNION {places[i] : i \in 1 .. 3}
         /\ \A i, j \in 1 .. 3 : i # j => places[i] \cap places[j] = {}
         /\ \A i, j \in 1 .. q.count : q.heap[i] = q.heap[j] => i = j

\* When no interrupt is handled or pending and the thread is not in the middle of
\* deschedule_timer, a timer in the queue that should have run already is held up by a
\* periodic timer, and for less than the period of that one. (The priority of a
\* periodic timer is one period old, which puts it in front of timers that are due
\* before it.) The exception is a queue that a callback emptied under a periodic
\* timer: the timer interrupt then stays masked (MaskedUntilAdded).
LatenessBounded ==
    /\ status = "running" /\ ~irq.active /\ ~Pending
    /\ call.op \in {"none", "schedule"}
    /\ ~emptied
    => \A n \in Members(q) : data[n].scheduled_count <= cntpct =>
          \E m \in Members(q) : cntpct < data[n].scheduled_count + data[m].periodic_delay

\* No callback runs before the delay that was asked for has passed, unless the
\* delay takes more ticks than 32 bits count, and then it is a whole number of
\* 2^32 ticks that schedule_timer loses.
NeverEarly ==
    irq.timer # NULL =>
        LET n == irq.timer
        IN  /\ irq.current_count >= data[n].scheduled_count
            /\ due[n] >= data[n].scheduled_count
            /\ (due[n] - data[n].scheduled_count) % Word = 0

\* The handler and the clients keep every timer in one place, and the variables
\* keep their types: a priority never leaves the range of an int. All of this until an
\* interrupt comes into the thread's deschedule_timer (NoDanglingTimers).
TimersSound == ~preempted => TypeOK /\ TimersAccounted

\* A timer runs neither before its time, unless its delay wrapped around, nor long
\* after it: what timer_handle_interrupt leaves behind waits less than a period.
ServedInTime == ~preempted => LatenessBounded /\ NeverEarly

LongestPeriod == CHOOSE d \in {count_offset(d) : d \in Delay} :
                     \A e \in Delay : count_offset(e) <= d

\* Every scheduled timer leaves the queue, to run or because it is descheduled,
\* if the counter goes on for long enough after its time, no assertion fails, no
\* callback empties the queue under a periodic timer, and no interrupt comes into the
\* thread's deschedule_timer.
EveryTimerRuns ==
    \A n \in Node :
        n \in Members(q) /\ data[n].scheduled_count + LongestPeriod <= MaxCount
            ~> n \notin Members(q) \/ status # "running" \/ emptied \/ preempted

\* The queue holds no timer that was freed: what the comment at timer.c:180 on
\* disabling interrupts around the queue is for, and deschedule_timer does not do.
NoDanglingTimers == Members(q) \subseteq allocated

\* "If there are no more scheduled timers in queue, mask interrupts until one is added
\* again" (timer.c:146, 213): once the handler has returned, the timer interrupt is
\* masked only if the queue is empty.
MaskedUntilAdded ==
    ~irq.active /\ call = NoCall /\ ~preempted /\ masked => Members(q) = {}

\* The runs do not follow what an interrupt into the thread's deschedule_timer leaves:
\* the array may hold NULL and freed nodes. Their other properties promise nothing there,
\* and preempted is never reset.
Intact == ~preempted
=============================================================================
