-------------------------------- MODULE Prq --------------------------------
(***************************************************************************)
(* The array heap of ds/priority_queue.c as operators on its memory. Both  *)
(* the priority queue itself (PriorityQueue) and the timer driver (Timer)  *)
(* are built from them.                                                    *)
(*                                                                         *)
(* A queue q is the prq_handle (heap, count, size) together with the       *)
(* fields of the nodes (index, priority). heap[0] is never used.           *)
(***************************************************************************)
EXTENDS Integers

CONSTANTS Node,      \* the prq_nodes
          NULL       \* the null pointer

ASSUME NodeAssumption == NULL \notin Node

\* AMORTIZED_CONSTANT
AMORTIZED_CONSTANT == 2

\* prq_create_fixed. The memory is not cleared: what the array and the nodes
\* (prq_create_node) hold at first stands for anything, and is never read.
\* A node that was never in a queue is the one with index 0.
prq_create_fixed(k) ==
    [heap |-> [i \in 0 .. k |-> NULL], count |-> 0, size |-> k + 1,
     index |-> [n \in Node |-> 0], priority |-> [n \in Node |-> 0]]

\* The nodes in the queue.
Members(q) == {q.heap[i] : i \in 1 .. q.count}

\* The priority of the node at position i.
PriorityAt(q, i) == q.priority[q.heap[i]]

prq_peek(q) == IF q.count > 0 THEN q.heap[1] ELSE NULL

\* Exchange the nodes at positions i and j, and their back pointers.
Swap(q, i, j) ==
    [q EXCEPT !.heap = [@ EXCEPT ![i] = q.heap[j], ![j] = q.heap[i]],
              !.index = [@ EXCEPT ![q.heap[j]] = i, ![q.heap[i]] = j]]

-----------------------------------------------------------------------------
(* The two loops: whether there is another iteration at position i, where  *)
(* it goes on, and what the last one leaves.                               *)

SmallerThanParent(q, i) == i > 1 /\ PriorityAt(q, i) < PriorityAt(q, i \div 2)

\* The child with the lower priority, the left one if they are equal.
SmallerChild(q, i) ==
    IF 2 * i < q.count /\ PriorityAt(q, 2 * i) > PriorityAt(q, 2 * i + 1)
    THEN 2 * i + 1 ELSE 2 * i

LargerThanChild(q, i) ==
    2 * i <= q.count /\ PriorityAt(q, SmallerChild(q, i)) < PriorityAt(q, i)

\* All iterations of __prq_shift_up from position i. Each one halves i, so
\* there are fewer than i of them.
prq_shift_up(q, i) ==
    LET after[k \in 0 .. i] ==
            IF k = 0 THEN [q |-> q, idx |-> i]
            ELSE LET s == after[k - 1]
                 IN IF SmallerThanParent(s.q, s.idx)
                    THEN [q |-> Swap(s.q, s.idx, s.idx \div 2), idx |-> s.idx \div 2]
                    ELSE s
    IN after[i].q

\* All iterations of __prq_shift_down from position i. Each one doubles i.
prq_shift_down(q, i) ==
    LET after[k \in 0 .. q.count] ==
            IF k = 0 THEN [q |-> q, idx |-> i]
            ELSE LET s == after[k - 1]
                     c == SmallerChild(s.q, s.idx)
                 IN IF LargerThanChild(s.q, s.idx)
                    THEN [q |-> Swap(s.q, s.idx, c), idx |-> c]
                    ELSE s
    IN after[q.count].q

-----------------------------------------------------------------------------
(* What the operations do around the loops.                                *)

\* Mutant: no growth until the array is overfull.
prq_amortize_late(q) ==
    IF q.count = q.size
    THEN [q EXCEPT !.size = AMORTIZED_CONSTANT * @,
                   !.heap = [i \in 0 .. AMORTIZED_CONSTANT * q.size - 1 |->
                                IF i < q.size THEN q.heap[i] ELSE NULL]]
    ELSE q

\* The end of prq_enqueue and __prq_amortize: the array always has room for
\* one more node. krealloc keeps the contents.
prq_amortize(q) ==
    IF q.count + 1 = q.size
    THEN [q EXCEPT !.size = AMORTIZED_CONSTANT * @,
                   !.heap = [i \in 0 .. AMORTIZED_CONSTANT * q.size - 1 |->
                                IF i < q.size THEN q.heap[i] ELSE NULL]]
    ELSE q

\* prq_enqueue before it shifts: the node, with the priority that the caller
\* has written to it, goes to the end.
AppendNode(q, n, p) ==
    [q EXCEPT !.heap[q.count + 1] = n, !.count = @ + 1,
              !.index[n] = q.count + 1, !.priority[n] = p]

\* Mutant: the back pointer of the moved node is not updated.
Unlink_stale_index(q, n) ==
    [q EXCEPT !.index = [@ EXCEPT ![n] = -1],
              !.heap = [@ EXCEPT ![q.index[n]] = q.heap[q.count], ![q.count + 1] = NULL],
              !.count = @ - 1]

\* prq_remove before it shifts, for a node whose __index is not -1: the last
\* node takes its place.
Unlink(q, n) ==
    [q EXCEPT !.index = [@ EXCEPT ![q.heap[q.count]] = q.index[n], ![n] = -1],
              !.heap = [@ EXCEPT ![q.index[n]] = q.heap[q.count], ![q.count + 1] = NULL],
              !.count = @ - 1]

\* prq_remove of a node whose __index is -1 returns early, after it has
\* overwritten the __index of the last node.
UnlinkUnqueued(q) == [q EXCEPT !.index[q.heap[q.count]] = -1]

\* prq_dequeue before it shifts: the last node becomes the first.
UnlinkFirst(q) ==
    [q EXCEPT !.index = [@ EXCEPT ![q.heap[q.count]] = 1, ![q.heap[1]] = -1],
              !.heap = [@ EXCEPT ![1] = q.heap[q.count], ![q.count] = NULL],
              !.count = @ - 1]

-----------------------------------------------------------------------------
(* Whole operations, for callers that nothing interrupts.                  *)

\* prq_enqueue of node n with priority p.
Enqueued(q, n, p) == prq_amortize(prq_shift_up(AppendNode(q, n, p), q.count + 1))

\* The queue after prq_dequeue; what it returns is prq_peek(q).
Dequeued(q) == prq_shift_down(UnlinkFirst(q), 1)

\* prq_remove of a node whose __index is right.
Removed(q, n) == prq_shift_down(prq_shift_up(Unlink(q, n), q.index[n]), q.index[n])
=============================================================================
