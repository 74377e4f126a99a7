--------------------------- MODULE PriorityQueue ---------------------------
(***************************************************************************)
(* ds/priority_queue.c: one queue and its clients. An iteration of one of  *)
(* the two loops is an action; no operation starts while another one runs. *)
(***************************************************************************)
EXTENDS Prq

CONSTANTS Priority,    \* the priorities that clients give
          Capacities   \* the arguments of prq_create_fixed (10 in prq_create)

ASSUME PriorityAssumption == Priority \subseteq Int
ASSUME CapacitiesAssumption == Capacities \subseteq Nat \ {0}

VARIABLES queue,       \* the handle and the nodes
          pc,          \* which loop is running
          idx,         \* the loop's position
          start,       \* the position prq_remove gives to both loops
          returned     \* what the last operation returned

prqvars == <<queue, pc, idx, start, returned>>

PrqInit ==
    /\ \E k \in Capacities : queue = prq_create_fixed(k)
    /\ pc = "idle"
    /\ idx = 0
    /\ start = 0
    /\ returned = NULL

-----------------------------------------------------------------------------
(* The operations up to their loops                                        *)

\* A node is put into the queue once at a time.
prq_enqueue(n, p) ==
    /\ pc = "idle"
    /\ n \notin Members(queue)
    /\ queue' = AppendNode(queue, n, p)
    /\ idx' = queue.count + 1
    /\ pc' = "enqueue_up"
    /\ returned' = NULL
    /\ UNCHANGED start

\* Mutant: returns the last node.
prq_dequeue_last ==
    /\ pc = "idle"
    /\ queue.count > 0
    /\ queue' = [queue EXCEPT !.count = @ - 1, !.index[queue.heap[queue.count]] = -1]
    /\ returned' = queue.heap[queue.count]
    /\ UNCHANGED <<pc, idx, start>>

\* Mutant: an empty queue is not recognised.
prq_dequeue_unchecked ==
    /\ pc = "idle"
    /\ queue' = UnlinkFirst(queue)
    /\ idx' = 1
    /\ pc' = "down"
    /\ returned' = queue.heap[1]
    /\ UNCHANGED start

prq_dequeue ==
    /\ pc = "idle"
    /\ queue.count > 0
    /\ queue' = UnlinkFirst(queue)
    /\ idx' = 1
    /\ pc' = "down"
    /\ returned' = queue.heap[1]
    /\ UNCHANGED start

\* prq_remove of a node that is or was in the queue, perhaps twice as in
\* test_prq_5. A node with no __index makes it return early.
prq_remove(n) ==
    /\ pc = "idle"
    /\ queue.count > 0
    /\ queue.index[n] # 0
    /\ returned' = NULL
    /\ \/ /\ queue.index[n] = -1
          /\ queue' = UnlinkUnqueued(queue)
          /\ UNCHANGED <<pc, idx, start>>
       \/ /\ queue.index[n] # -1
          /\ queue' = Unlink(queue, n)
          /\ idx' = queue.index[n]
          /\ start' = queue.index[n]
          /\ pc' = "remove_up"

\* The early returns of prq_dequeue and prq_remove for an empty queue.
EmptyReturns ==
    /\ pc = "idle"
    /\ queue.count = 0
    /\ returned' = NULL
    /\ UNCHANGED <<queue, pc, idx, start>>

\* prq_free asserts that the queue is empty; prq_create_fixed makes the next.
Recreate(k) ==
    /\ pc = "idle"
    /\ queue.count = 0
    /\ queue' = [prq_create_fixed(k) EXCEPT !.index = queue.index, !.priority = queue.priority]
    /\ returned' = NULL
    /\ UNCHANGED <<pc, idx, start>>

-----------------------------------------------------------------------------
(* The loops                                                               *)

\* The operation is over, its locals are gone.
Return == pc' = "idle" /\ idx' = 0 /\ start' = 0

ShiftUp ==
    /\ pc \in {"enqueue_up", "remove_up"}
    /\ SmallerThanParent(queue, idx)
    /\ queue' = Swap(queue, idx, idx \div 2)
    /\ idx' = idx \div 2
    /\ UNCHANGED <<pc, start, returned>>

EnqueueReturns ==
    /\ pc = "enqueue_up"
    /\ ~SmallerThanParent(queue, idx)
    /\ queue' = prq_amortize(queue)
    /\ Return
    /\ UNCHANGED returned

\* Mutant: prq_remove only shifts up.
RemoveShiftsDown_not ==
    /\ pc = "remove_up"
    /\ ~SmallerThanParent(queue, idx)
    /\ Return
    /\ UNCHANGED <<queue, returned>>

\* prq_remove goes on with __prq_shift_down from the position it began at.
RemoveShiftsDown ==
    /\ pc = "remove_up"
    /\ ~SmallerThanParent(queue, idx)
    /\ idx' = start
    /\ pc' = "down"
    /\ UNCHANGED <<queue, start, returned>>

ShiftDown ==
    /\ pc = "down"
    /\ LargerThanChild(queue, idx)
    /\ queue' = Swap(queue, idx, SmallerChild(queue, idx))
    /\ idx' = SmallerChild(queue, idx)
    /\ UNCHANGED <<pc, start, returned>>

ShiftDownReturns ==
    /\ pc = "down"
    /\ ~LargerThanChild(queue, idx)
    /\ Return
    /\ UNCHANGED <<queue, returned>>

Loops == ShiftUp \/ EnqueueReturns \/ RemoveShiftsDown \/ ShiftDown \/ ShiftDownReturns

PrqNext ==
    \/ \E n \in Node, p \in Priority : prq_enqueue(n, p)
    \/ prq_dequeue
    \/ \E n \in Node : prq_remove(n)
    \/ EmptyReturns
    \/ \E k \in Capacities : Recreate(k)
    \/ Loops

PrqSpec == PrqInit /\ [][PrqNext]_prqvars

-----------------------------------------------------------------------------
(* Properties                                                              *)

\* The type invariant. The array is as large as the handle says.
PrqTypeOK ==
    /\ queue = [heap |-> queue.heap, count |-> queue.count, size |-> queue.size,
            index |-> queue.index, priority |-> queue.priority]
    /\ queue.heap \in [0 .. queue.size - 1 -> Node \cup {NULL}]
    /\ queue.count \in Nat
    /\ queue.size \in Nat \ {0}
    /\ queue.index \in [Node -> Int]
    /\ queue.priority \in [Node -> Int]
    /\ pc \in {"idle", "enqueue_up", "remove_up", "down"}
    /\ idx \in Nat
    /\ start \in Nat
    /\ returned \in Node \cup {NULL}

\* Between operations no node has a higher priority value than its children:
\* the loops of prq_enqueue, prq_dequeue and prq_remove repair the heap at the
\* only position that they can have disturbed.
HeapOrdered ==
    pc = "idle" => \A i \in 2 .. queue.count : PriorityAt(queue, i \div 2) <= PriorityAt(queue, i)

\* prq_remove unlinks the right node: an __index is never a wrong position,
\* though a queued node may have lost its own: prq_remove of a node that is not
\* queued takes it from the last one. No node is queued twice.
BackPointers ==
    /\ \A i \in 1 .. queue.count : queue.heap[i] \in Node /\ queue.index[queue.heap[i]] \in {i, -1}
    /\ \A i, j \in 1 .. queue.count : queue.heap[i] = queue.heap[j] => i = j
    /\ \A n \in Node : queue.index[n] \in {0, -1} \/ n \in Members(queue)

\* Between operations the array has room for the next node (prq_enqueue) and
\* for the zero that prq_remove writes behind the last one.
RoomForNext == pc = "idle" => queue.count + 1 < queue.size

\* The promise of priority_queue.h.
M == INSTANCE MinQueue WITH
        Item <- Node, None <- NULL,
        queued <- [n \in Members(queue) |-> queue.priority[n]]

\* The array heap implements a queue that gives back a node of the lowest
\* priority first, and loses and invents none.
ImplementsMinQueue == M!Spec

-----------------------------------------------------------------------------
(* The inductive invariant: where the heap may be out of order while an    *)
(* operation repairs it.                                                   *)

\* Heap order between position k and its parent.
Ordered(k) == PriorityAt(queue, k \div 2) <= PriorityAt(queue, k)

\* Heap order between the children of position i and the parent of i, so that
\* the node at i can be exchanged with either.
OrderedAcross(i) ==
    i > 1 => \A k \in 2 .. queue.count : k \div 2 = i => PriorityAt(queue, i \div 2) <= PriorityAt(queue, k)

EnqueueRepair ==
    /\ idx \in 1 .. queue.count
    /\ \A k \in 2 .. queue.count : k # idx => Ordered(k)
    /\ OrderedAcross(idx)

\* When the last node itself was removed, the loops start behind the end.
RemoveRepair ==
    /\ start \in 1 .. queue.count + 1
    /\ idx \in 1 .. start
    /\ \A k \in 2 .. queue.count : k # idx /\ (k \div 2 = idx => idx # start) => Ordered(k)
    /\ OrderedAcross(idx)
    /\ queue.heap[start] \in Node
    /\ start = queue.count + 1 => ~SmallerThanParent(queue, start) /\ idx = start

DownRepair ==
    /\ idx \in Nat \ {0}
    /\ \A k \in 2 .. queue.count : k \div 2 # idx => Ordered(k)
    /\ OrderedAcross(idx)

Repair ==
    /\ pc = "idle" => \A k \in 2 .. queue.count : Ordered(k)
    /\ pc = "enqueue_up" => EnqueueRepair
    /\ pc = "remove_up" => RemoveRepair
    /\ pc = "down" => DownRepair

\* Only prq_enqueue may use the last place of the array, before it grows.
Room == IF pc = "enqueue_up" THEN queue.count < queue.size ELSE queue.count + 1 < queue.size

\* PrqTypeOK, the order, the back pointers and the room depend on each other: the
\* steps of prq_remove stay inside the queue because of BackPointers.
IInv == PrqTypeOK /\ BackPointers /\ Room /\ Repair
=============================================================================
