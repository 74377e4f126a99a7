----------------------------- MODULE QueueProofs -----------------------------
(***************************************************************************)
(* The theorems about the two state machines over Prq. PriorityQueue, one  *)
(* iteration of a loop at a time, for every set of nodes, priorities and   *)
(* capacities: its invariant IInv is shown to be inductive with one lemma  *)
(* per action. Timer, from what prq_enqueue, prq_dequeue and prq_remove do *)
(* to a queue (PrqProofs), for any number of timers: no timer is lost,     *)
(* leaked or touched after it was freed, none runs before its time, and    *)
(* what is late waits for less than a period.                              *)
(***************************************************************************)
EXTENDS PriorityQueue, Timer, PrqProofs

\* The queue that prq_create_fixed makes is empty and satisfies IInv.
LEMMA InitEstablishes == PrqInit => IInv
<1> SUFFICES ASSUME PrqInit PROVE IInv
  OBVIOUS
<1>1. PICK k \in Capacities : queue = prq_create_fixed(k)
  BY DEF PrqInit
<1>2. k \in Nat \ {0}
  BY CapacitiesAssumption
<1>3. /\ queue.heap = [i \in 0 .. k |-> NULL] /\ queue.count = 0 /\ queue.size = k + 1
      /\ queue.index = [n \in Node |-> 0] /\ queue.priority = [n \in Node |-> 0]
  BY <1>1 DEF prq_create_fixed
<1>4. PrqTypeOK
  BY <1>1, <1>2, <1>3 DEF PrqTypeOK, prq_create_fixed, PrqInit
<1>5. BackPointers
  BY <1>3 DEF BackPointers, Members
<1>6. Room
  BY <1>2, <1>3 DEF Room, PrqInit
<1>7. Repair
  BY <1>3 DEF Repair, Ordered, PrqInit
<1> QED
  BY <1>4, <1>5, <1>6, <1>7 DEF IInv

\* What Swap leaves: the two nodes and their back pointers are exchanged.
LEMMA SwapShape ==
    ASSUME PrqTypeOK, NEW i \in 0 .. queue.size - 1, NEW j \in 0 .. queue.size - 1, i # j,
           queue.heap[i] \in Node, queue.heap[j] \in Node, queue.heap[i] # queue.heap[j],
           queue' = Swap(queue, i, j)
    PROVE  /\ queue' = [heap |-> queue'.heap, count |-> queue'.count, size |-> queue'.size,
                    index |-> queue'.index, priority |-> queue'.priority]
           /\ queue'.count = queue.count /\ queue'.size = queue.size /\ queue'.priority = queue.priority
           /\ queue'.heap \in [0 .. queue.size - 1 -> Node \cup {NULL}]
           /\ queue'.index \in [Node -> Int]
           /\ queue'.heap[i] = queue.heap[j] /\ queue'.heap[j] = queue.heap[i]
           /\ \A k \in 0 .. queue.size - 1 : k # i /\ k # j => queue'.heap[k] = queue.heap[k]
           /\ queue'.index[queue.heap[i]] = j /\ queue'.index[queue.heap[j]] = i
           /\ \A n \in Node : n # queue.heap[i] /\ n # queue.heap[j] => queue'.index[n] = queue.index[n]
<1>1. /\ queue'.heap = [queue.heap EXCEPT ![i] = queue.heap[j], ![j] = queue.heap[i]]
      /\ queue'.index = [queue.index EXCEPT ![queue.heap[j]] = i, ![queue.heap[i]] = j]
      /\ queue'.count = queue.count /\ queue'.size = queue.size /\ queue'.priority = queue.priority
      /\ queue' = [heap |-> queue'.heap, count |-> queue'.count, size |-> queue'.size,
               index |-> queue'.index, priority |-> queue'.priority]
  BY DEF PrqTypeOK, Swap
<1>2. /\ queue.heap \in [0 .. queue.size - 1 -> Node \cup {NULL}]
      /\ queue.index \in [Node -> Int]
      /\ i \in Int /\ j \in Int
  BY DEF PrqTypeOK
<1>3. /\ queue'.heap \in [0 .. queue.size - 1 -> Node \cup {NULL}]
      /\ queue'.heap[i] = queue.heap[j] /\ queue'.heap[j] = queue.heap[i]
      /\ \A k \in 0 .. queue.size - 1 : k # i /\ k # j => queue'.heap[k] = queue.heap[k]
  BY <1>1, <1>2
<1>4. /\ queue'.index \in [Node -> Int]
      /\ queue'.index[queue.heap[i]] = j /\ queue'.index[queue.heap[j]] = i
      /\ \A n \in Node : n # queue.heap[i] /\ n # queue.heap[j] => queue'.index[n] = queue.index[n]
  BY <1>1, <1>2
<1> QED
  BY <1>1, <1>3, <1>4

\* Positions in use are inside the array and hold nodes with priorities.
LEMMA InsideArray ==
    ASSUME IInv
    PROVE  /\ queue.count \in Nat /\ queue.size \in Nat /\ queue.count < queue.size
           /\ \A i \in 1 .. queue.count : /\ i \in 0 .. queue.size - 1
                                      /\ queue.heap[i] \in Node
                                      /\ PriorityAt(queue, i) \in Int
<1>1. queue.count \in Nat /\ queue.size \in Nat /\ queue.priority \in [Node -> Int]
  BY DEF IInv, PrqTypeOK
<1>2. queue.count < queue.size
  BY <1>1 DEF IInv, Room
<1>3. \A i \in 1 .. queue.count : queue.heap[i] \in Node
  BY DEF IInv, BackPointers
<1> QED
  BY <1>1, <1>2, <1>3 DEF PriorityAt

\* A swap of two positions in use exchanges their priorities and keeps the type
\* of the queue, the back pointers and the room.
LEMMA SwapKeeps ==
    ASSUME IInv, NEW i \in 1 .. queue.count, NEW j \in 1 .. queue.count, i # j,
           queue' = Swap(queue, i, j), pc' = pc, idx' \in Nat, start' = start, returned' = returned
    PROVE  /\ PrqTypeOK' /\ BackPointers' /\ Room'
           /\ queue'.count = queue.count
           /\ PriorityAt(queue', i) = PriorityAt(queue, j) /\ PriorityAt(queue', j) = PriorityAt(queue, i)
           /\ \A k \in 1 .. queue.count : k # i /\ k # j => PriorityAt(queue', k) = PriorityAt(queue, k)
           /\ \A k \in 1 .. queue.count : queue'.heap[k] \in Node
<1>1. /\ PrqTypeOK /\ BackPointers /\ Room
      /\ i \in Int /\ j \in Int
  BY DEF IInv
<1>2. /\ i \in 0 .. queue.size - 1 /\ j \in 0 .. queue.size - 1
      /\ queue.heap[i] \in Node /\ queue.heap[j] \in Node /\ queue.heap[i] # queue.heap[j]
  BY InsideArray, <1>1 DEF BackPointers
<1>3. /\ queue' = [heap |-> queue'.heap, count |-> queue'.count, size |-> queue'.size,
               index |-> queue'.index, priority |-> queue'.priority]
      /\ queue'.count = queue.count /\ queue'.size = queue.size /\ queue'.priority = queue.priority
      /\ queue'.heap \in [0 .. queue.size - 1 -> Node \cup {NULL}]
      /\ queue'.index \in [Node -> Int]
      /\ queue'.heap[i] = queue.heap[j] /\ queue'.heap[j] = queue.heap[i]
      /\ \A k \in 0 .. queue.size - 1 : k # i /\ k # j => queue'.heap[k] = queue.heap[k]
      /\ queue'.index[queue.heap[i]] = j /\ queue'.index[queue.heap[j]] = i
      /\ \A n \in Node : n # queue.heap[i] /\ n # queue.heap[j] => queue'.index[n] = queue.index[n]
  BY <1>1, <1>2, SwapShape
<1>4. PrqTypeOK'
  BY <1>1, <1>3 DEF PrqTypeOK
<1>5. /\ \A k \in 1 .. queue.count : k \in 0 .. queue.size - 1 /\ queue.heap[k] \in Node
      /\ \A k \in 1 .. queue.count : queue'.heap[k] \in Node
      /\ \A k \in 1 .. queue.count : k # i /\ k # j => queue'.heap[k] = queue.heap[k]
  BY <1>2, <1>3, InsideArray
<1>6. BackPointers'
  <2>1. \A k \in 1 .. queue.count : queue'.index[queue'.heap[k]] \in {k, -1}
    BY <1>1, <1>2, <1>3, <1>5 DEF BackPointers
  <2>2. \A k, l \in 1 .. queue.count : queue'.heap[k] = queue'.heap[l] => k = l
    BY <1>1, <1>2, <1>3, <1>5 DEF BackPointers
  <2>3. Members(queue)' = Members(queue)
    <3>1. \A k \in 1 .. queue.count : queue'.heap[k] \in Members(queue)
      BY <1>3, <1>5 DEF Members
    <3>2. \A k \in 1 .. queue.count : \E l \in 1 .. queue.count : queue'.heap[l] = queue.heap[k]
      BY <1>3, <1>5
    <3>3. Members(queue)' = {queue'.heap[l] : l \in 1 .. queue.count}
      BY <1>3 DEF Members
    <3>4. Members(queue) = {queue.heap[l] : l \in 1 .. queue.count}
      BY DEF Members
    <3> QED
      BY <3>1, <3>2, <3>3, <3>4
  <2>4. \A n \in Node : queue'.index[n] \in {0, -1} \/ n \in Members(queue)'
    <3>1. queue.heap[i] \in Members(queue) /\ queue.heap[j] \in Members(queue)
      BY DEF Members
    <3>2. \A n \in Node : queue.index[n] \in {0, -1} \/ n \in Members(queue)
      BY <1>1 DEF BackPointers
    <3> QED
      BY <1>3, <2>3, <3>1, <3>2
  <2> QED
    BY <1>3, <1>5, <2>1, <2>2, <2>4 DEF BackPointers
<1>7. Room'
  BY <1>1, <1>3 DEF Room
<1> QED
  BY <1>3, <1>4, <1>5, <1>6, <1>7 DEF PriorityAt

-----------------------------------------------------------------------------
(* The actions                                                             *)

\* An iteration of __prq_shift_up preserves the invariant.
LEMMA ShiftUpPreserves ==
    ASSUME IInv, ShiftUp
    PROVE  IInv'
<1> DEFINE p == idx \div 2
           n == queue.count
           f == Priorities(queue)
           g == Priorities(queue')
           h == Parents(n)
<1>1. /\ n \in Nat /\ idx \in Nat /\ idx > 1 /\ start \in Nat
      /\ PriorityAt(queue, idx) < PriorityAt(queue, p)
      /\ queue' = Swap(queue, idx, p) /\ idx' = p /\ pc' = pc /\ start' = start
      /\ returned' = returned
      /\ pc \in {"enqueue_up", "remove_up"}
  BY DEF IInv, PrqTypeOK, ShiftUp, SmallerThanParent
<1>2. p \in 1 .. idx - 1
  BY <1>1, Halves
<1>3. /\ idx \in 2 .. n
      /\ \A k \in 2 .. n : k # idx /\ k \div 2 # idx => Ordered(k)
      /\ OrderedAcross(idx)
      /\ pc = "remove_up" => start \in 1 .. n /\ idx \in 1 .. start
  <2>1. CASE pc = "enqueue_up"
    BY <1>1, <2>1 DEF IInv, Repair, EnqueueRepair
  <2>2. CASE pc = "remove_up"
    <3>1. RemoveRepair
      BY <2>2 DEF IInv, Repair
    <3>2. start # n + 1
      BY <3>1, <1>1 DEF RemoveRepair, ShiftUp
    <3> QED
      BY <3>1, <3>2, <1>1 DEF RemoveRepair
  <2> QED
    BY <1>1, <2>1, <2>2
<1>4. p \in 1 .. n /\ p # idx /\ p \in Nat /\ idx \in 1 .. n
  BY <1>1, <1>2, <1>3
<1>5. /\ PrqTypeOK' /\ BackPointers' /\ Room'
      /\ queue'.count = n
      /\ PriorityAt(queue', idx) = PriorityAt(queue, p) /\ PriorityAt(queue', p) = PriorityAt(queue, idx)
      /\ \A k \in 1 .. n : k # idx /\ k # p => PriorityAt(queue', k) = PriorityAt(queue, k)
      /\ \A k \in 1 .. n : queue'.heap[k] \in Node
  BY <1>1, <1>4, SwapKeeps
<1>6. /\ \A k \in 1 .. n : f[k] = PriorityAt(queue, k) /\ g[k] = PriorityAt(queue', k)
      /\ f \in [1 .. n -> Int]
  BY <1>5, InsideArray DEF Priorities
<1>7. g \in [1 .. n -> Int]
  <2>1. \A k \in 1 .. n : PriorityAt(queue', k) \in Int
    BY <1>4, <1>5, InsideArray
  <2> QED
    BY <1>5, <2>1 DEF Priorities
<1>8. h \in [2 .. n -> 1 .. n] /\ \A k \in 2 .. n : h[k] = k \div 2 /\ h[k] < k
  BY <1>1, ParentsType
<1> HIDE DEF f, g, h
<1>9. /\ \A k \in 2 .. n : k # p => g[h[k]] <= g[k]
      /\ p > 1 => \A k \in 2 .. n : h[k] = p => g[h[p]] <= g[k]
  <2>1. p = h[idx] /\ f[idx] < f[p]
    BY <1>1, <1>3, <1>4, <1>6, <1>8
  <2>2. \A k \in 2 .. n : k # idx /\ h[k] # idx => f[h[k]] <= f[k]
    <3>1. \A k \in 2 .. n : k \in 1 .. n /\ h[k] \in 1 .. n /\ h[k] = k \div 2
      BY <1>1, <1>8
    <3>2. ASSUME NEW k \in 2 .. n, k # idx, h[k] # idx PROVE f[h[k]] <= f[k]
      BY <1>3, <1>6, <3>1, <3>2 DEF Ordered
    <3> QED
      BY <3>2
  <2>3. \A k \in 2 .. n : h[k] = idx => f[p] <= f[k]
    BY <1>1, <1>3, <1>4, <1>6, <1>8 DEF OrderedAcross
  <2>4. g[idx] = f[p] /\ g[p] = f[idx] /\ \A k \in 1 .. n : k # idx /\ k # p => g[k] = f[k]
    BY <1>4, <1>5, <1>6
  <2>5. /\ n \in Nat /\ f \in [1 .. n -> Int] /\ g \in [1 .. n -> Int]
        /\ h \in [2 .. n -> 1 .. n] /\ \A k \in 2 .. n : h[k] < k
        /\ idx \in 2 .. n /\ p \in 1 .. n
    BY <1>1, <1>3, <1>4, <1>6, <1>7, <1>8
  <2>6. MovesUp(n, f, g, h, idx, p)
    BY <2>1, <2>2, <2>3, <2>4, <2>5 DEF MovesUp
  <2>7. OnlyAbove(n, g, h, p)
    BY <2>6, UpStep
  <2> QED
    BY <2>7 DEF OnlyAbove
<1>10. \A k \in 2 .. n : k # p => PriorityAt(queue', k \div 2) <= PriorityAt(queue', k)
  BY <1>6, <1>8, <1>9
<1>11. p > 1 => \A k \in 2 .. n : k \div 2 = p => PriorityAt(queue', p \div 2) <= PriorityAt(queue', k)
  <2>1. p > 1 => p \in 2 .. n
    BY <1>4
  <2> QED
    BY <1>6, <1>8, <1>9, <2>1
<1>12. Repair'
  <2>1. CASE pc = "enqueue_up"
    BY <1>1, <1>4, <1>5, <1>10, <1>11, <2>1
       DEF Repair, EnqueueRepair, Ordered, OrderedAcross
  <2>2. CASE pc = "remove_up"
    <3>1. p \in 1 .. start /\ p # start
      BY <1>2, <1>3, <2>2
    <3>2. queue'.heap[start] \in Node /\ start \in 1 .. n
      BY <1>3, <1>5, <2>2
    <3> QED
      BY <1>1, <1>3, <1>5, <1>10, <1>11, <2>2, <3>1, <3>2
         DEF Repair, RemoveRepair, Ordered, OrderedAcross
  <2> QED
    BY <1>1, <2>1, <2>2
<1> QED
  BY <1>5, <1>12 DEF IInv

\* SmallerChild is a child, and none is smaller.
LEMMA SmallerChildIsSmaller ==
    ASSUME IInv, idx \in Nat \ {0}, 2 * idx <= queue.count
    PROVE  /\ SmallerChild(queue, idx) \in 2 .. queue.count
           /\ SmallerChild(queue, idx) \div 2 = idx
           /\ \A k \in 2 .. queue.count : k \div 2 = idx =>
                  PriorityAt(queue, SmallerChild(queue, idx)) <= PriorityAt(queue, k)
<1> DEFINE c == SmallerChild(queue, idx)
<1>1. queue.count \in Nat /\ \A i \in 1 .. queue.count : PriorityAt(queue, i) \in Int
  BY InsideArray
<1>2. (2 * idx) \div 2 = idx /\ (2 * idx + 1) \div 2 = idx
  BY HalfOfChild
<1>3. c \in {2 * idx, 2 * idx + 1} /\ c \in 2 .. queue.count
  BY <1>1 DEF SmallerChild
<1>4. ASSUME NEW k \in 2 .. queue.count, k \div 2 = idx
      PROVE  PriorityAt(queue, c) <= PriorityAt(queue, k)
  <2>1. k = 2 * idx \/ k = 2 * idx + 1
    BY <1>4, Halves
  <2>2. /\ 2 * idx \in 1 .. queue.count /\ PriorityAt(queue, 2 * idx) \in Int
        /\ PriorityAt(queue, k) \in Int
    BY <1>1
  <2>3. CASE 2 * idx < queue.count
    <3>1. PriorityAt(queue, 2 * idx + 1) \in Int
      BY <1>1, <2>3
    <3>2. CASE PriorityAt(queue, 2 * idx) > PriorityAt(queue, 2 * idx + 1)
      <4>1. c = 2 * idx + 1
        BY <2>3, <3>2 DEF SmallerChild
      <4> HIDE DEF c
      <4> QED
        BY <2>1, <2>2, <3>1, <3>2, <4>1
    <3>3. CASE ~(PriorityAt(queue, 2 * idx) > PriorityAt(queue, 2 * idx + 1))
      <4>1. c = 2 * idx
        BY <2>3, <3>3 DEF SmallerChild
      <4> HIDE DEF c
      <4> QED
        BY <2>1, <2>2, <3>1, <3>3, <4>1
    <3> QED
      BY <3>2, <3>3
  <2>4. CASE ~(2 * idx < queue.count)
    <3>1. k = 2 * idx /\ c = 2 * idx
      BY <1>1, <2>1, <2>4 DEF SmallerChild
    <3> HIDE DEF c
    <3> QED
      BY <2>2, <3>1
  <2> QED
    BY <2>3, <2>4
<1> QED
  BY <1>2, <1>3, <1>4

\* An iteration of __prq_shift_down preserves the invariant.
LEMMA ShiftDownPreserves ==
    ASSUME IInv, ShiftDown
    PROVE  IInv'
<1> DEFINE c == SmallerChild(queue, idx)
           n == queue.count
           f == Priorities(queue)
           g == Priorities(queue')
           h == Parents(n)
<1>1. /\ n \in Nat /\ pc = "down" /\ 2 * idx <= n
      /\ PriorityAt(queue, c) < PriorityAt(queue, idx)
      /\ queue' = Swap(queue, idx, c) /\ idx' = c /\ pc' = pc /\ start' = start
      /\ returned' = returned
  BY DEF IInv, PrqTypeOK, ShiftDown, LargerThanChild
<1>2. /\ idx \in Nat \ {0}
      /\ \A k \in 2 .. n : k \div 2 # idx => Ordered(k)
      /\ OrderedAcross(idx)
  BY <1>1 DEF IInv, Repair, DownRepair
<1>3. /\ c \in 2 .. n /\ c \div 2 = idx
      /\ \A k \in 2 .. n : k \div 2 = idx => PriorityAt(queue, c) <= PriorityAt(queue, k)
  BY <1>1, <1>2, SmallerChildIsSmaller
<1> HIDE DEF c
<1>4. idx \in 1 .. n /\ c \in 1 .. n /\ c # idx /\ c \in Nat
  BY <1>1, <1>2, <1>3
<1>5. /\ PrqTypeOK' /\ BackPointers' /\ Room'
      /\ queue'.count = n
      /\ PriorityAt(queue', idx) = PriorityAt(queue, c) /\ PriorityAt(queue', c) = PriorityAt(queue, idx)
      /\ \A k \in 1 .. n : k # idx /\ k # c => PriorityAt(queue', k) = PriorityAt(queue, k)
  BY <1>1, <1>4, SwapKeeps
<1>6. /\ \A k \in 1 .. n : f[k] = PriorityAt(queue, k) /\ g[k] = PriorityAt(queue', k)
      /\ f \in [1 .. n -> Int]
  BY <1>5, InsideArray DEF Priorities
<1>7. g \in [1 .. n -> Int]
  <2>1. \A k \in 1 .. n : PriorityAt(queue', k) \in Int
    BY <1>4, <1>5, InsideArray
  <2> QED
    BY <1>5, <2>1 DEF Priorities
<1>8. h \in [2 .. n -> 1 .. n] /\ \A k \in 2 .. n : h[k] = k \div 2 /\ h[k] < k
  BY <1>1, ParentsType
<1> HIDE DEF f, g, h
<1>9. \A k \in 2 .. n : k \in 1 .. n /\ h[k] \in 1 .. n
  BY <1>1, <1>8
<1>10. OnlyBelow(n, g, h, c)
  <2>1. h[c] = idx /\ f[c] < f[idx]
    BY <1>1, <1>3, <1>4, <1>6, <1>8
  <2>2. \A k \in 2 .. n : h[k] = idx => f[c] <= f[k]
    BY <1>3, <1>4, <1>6, <1>8, <1>9
  <2>3. ASSUME NEW k \in 2 .. n, h[k] # idx PROVE f[h[k]] <= f[k]
    BY <1>2, <1>6, <1>8, <1>9, <2>3 DEF Ordered
  <2>4. ASSUME idx > 1 PROVE f[h[idx]] <= f[c]
    <3>1. idx \in 2 .. n
      BY <1>4, <2>4
    <3>2. PriorityAt(queue, idx \div 2) <= PriorityAt(queue, c)
      BY <1>2, <1>3, <2>4 DEF OrderedAcross
    <3> QED
      BY <1>4, <1>6, <1>8, <1>9, <3>1, <3>2
  <2>5. g[idx] = f[c] /\ g[c] = f[idx] /\ \A k \in 1 .. n : k # idx /\ k # c => g[k] = f[k]
    BY <1>4, <1>5, <1>6
  <2>6. MovesDown(n, f, g, h, idx, c)
    BY <1>1, <1>3, <1>4, <1>6, <1>7, <1>8, <2>1, <2>2, <2>3, <2>4, <2>5 DEF MovesDown
  <2> QED
    BY <2>6, DownStep
<1>11. /\ \A k \in 2 .. n : k \div 2 # c => PriorityAt(queue', k \div 2) <= PriorityAt(queue', k)
       /\ \A k \in 2 .. n : k \div 2 = c => PriorityAt(queue', c \div 2) <= PriorityAt(queue', k)
  <2>1. ASSUME NEW k \in 2 .. n PROVE k \div 2 # c => g[k \div 2] <= g[k]
    BY <1>8, <1>10 DEF OnlyBelow
  <2>2. ASSUME NEW k \in 2 .. n PROVE k \div 2 = c => g[c \div 2] <= g[k]
    BY <1>3, <1>8, <1>10 DEF OnlyBelow
  <2>3. \A k \in 2 .. n : k \div 2 \in 1 .. n
    BY <1>8, <1>9
  <2> QED
    BY <1>3, <1>6, <1>9, <2>1, <2>2, <2>3
<1>12. Repair'
  BY <1>1, <1>3, <1>4, <1>5, <1>11 DEF Repair, DownRepair, Ordered, OrderedAcross
<1> QED
  BY <1>5, <1>12 DEF IInv

\* The end of __prq_shift_down: the one place that could be out of order is not.
LEMMA ShiftDownReturnsPreserves ==
    ASSUME IInv, ShiftDownReturns
    PROVE  IInv'
<1>1. /\ queue' = queue /\ pc' = "idle" /\ idx' = 0 /\ start' = 0 /\ returned' = returned
      /\ pc = "down" /\ ~LargerThanChild(queue, idx)
  BY DEF ShiftDownReturns, Return
<1>2. PrqTypeOK' /\ BackPointers' /\ Room'
  BY <1>1 DEF IInv, PrqTypeOK, BackPointers, Members, Room
<1>3. queue.count \in Nat /\ \A i \in 1 .. queue.count : PriorityAt(queue, i) \in Int
  BY InsideArray
<1>4. idx \in Nat \ {0} /\ \A k \in 2 .. queue.count : k \div 2 # idx => Ordered(k)
  BY <1>1 DEF IInv, Repair, DownRepair
<1>5. ASSUME NEW k \in 2 .. queue.count, k \div 2 = idx PROVE Ordered(k)
  <2>1. 2 * idx <= queue.count /\ idx \in 1 .. queue.count
    BY <1>3, <1>4, <1>5, Halves
  <2>2. ~(PriorityAt(queue, SmallerChild(queue, idx)) < PriorityAt(queue, idx))
    BY <1>1, <2>1 DEF LargerThanChild
  <2>3. /\ SmallerChild(queue, idx) \in 2 .. queue.count
        /\ PriorityAt(queue, SmallerChild(queue, idx)) <= PriorityAt(queue, k)
    BY <1>4, <1>5, <2>1, SmallerChildIsSmaller
  <2>4. /\ PriorityAt(queue, SmallerChild(queue, idx)) \in Int /\ PriorityAt(queue, idx) \in Int
        /\ PriorityAt(queue, k) \in Int
    BY <1>3, <2>1, <2>3
  <2> QED
    BY <1>5, <2>2, <2>3, <2>4 DEF Ordered
<1>6. Repair'
  BY <1>1, <1>4, <1>5 DEF Repair, Ordered
<1> QED
  BY <1>2, <1>6 DEF IInv

\* prq_remove goes from the first loop to the second.
LEMMA RemoveShiftsDownPreserves ==
    ASSUME IInv, RemoveShiftsDown
    PROVE  IInv'
<1>1. /\ queue' = queue /\ pc' = "down" /\ idx' = start /\ start' = start /\ returned' = returned
      /\ pc = "remove_up" /\ ~SmallerThanParent(queue, idx)
  BY DEF RemoveShiftsDown
<1>2. PrqTypeOK' /\ BackPointers' /\ Room'
  BY <1>1 DEF IInv, PrqTypeOK, BackPointers, Members, Room
<1>3. queue.count \in Nat /\ \A i \in 1 .. queue.count : PriorityAt(queue, i) \in Int
  BY InsideArray
<1>4. RemoveRepair
  BY <1>1 DEF IInv, Repair
<1>5. start \in Nat \ {0} /\ idx \in Nat \ {0}
  BY <1>3, <1>4 DEF RemoveRepair
<1>6. idx \in 2 .. queue.count => Ordered(idx)
  <2>1. ASSUME idx \in 2 .. queue.count PROVE Ordered(idx)
    <3>1. idx \in 1 .. queue.count /\ idx \div 2 \in 1 .. queue.count
      BY <1>3, <2>1
    <3> QED
      BY <1>1, <1>3, <2>1, <3>1 DEF SmallerThanParent, Ordered
  <2> QED
    BY <2>1
<1>7. \A k \in 2 .. queue.count : k \div 2 # start => Ordered(k)
  BY <1>4, <1>6 DEF RemoveRepair
<1>8. OrderedAcross(start)
  <2>1. CASE idx = start
    BY <1>4, <2>1 DEF RemoveRepair
  <2>2. CASE idx # start
    <3>1. \A k \in 2 .. queue.count : Ordered(k)
      BY <1>4, <1>6, <2>2 DEF RemoveRepair
    <3>2. ASSUME NEW k \in 2 .. queue.count, start > 1, k \div 2 = start
          PROVE  PriorityAt(queue, start \div 2) <= PriorityAt(queue, k)
      <4>1. start \in 2 .. queue.count /\ start \div 2 \in 1 .. queue.count
        BY <1>3, <1>5, <3>2
      <4>2. /\ PriorityAt(queue, start \div 2) <= PriorityAt(queue, start)
            /\ PriorityAt(queue, start) <= PriorityAt(queue, k)
        BY <3>1, <3>2, <4>1 DEF Ordered
      <4>3. /\ PriorityAt(queue, start \div 2) \in Int /\ PriorityAt(queue, start) \in Int
            /\ PriorityAt(queue, k) \in Int
        BY <1>3, <4>1
      <4> QED
        BY <4>2, <4>3
    <3> QED
      BY <3>2 DEF OrderedAcross
  <2> QED
    BY <2>1, <2>2
<1>9. Repair'
  BY <1>1, <1>5, <1>7, <1>8 DEF Repair, DownRepair, Ordered, OrderedAcross
<1> QED
  BY <1>2, <1>9 DEF IInv

\* The end of prq_enqueue: the queue is in order and the array grows if the next
\* node would not fit.
LEMMA EnqueueReturnsPreserves ==
    ASSUME IInv, EnqueueReturns
    PROVE  IInv'
<1> DEFINE grown == [i \in 0 .. 2 * queue.size - 1 |-> IF i < queue.size THEN queue.heap[i] ELSE NULL]
<1>1. /\ queue' = prq_amortize(queue) /\ pc' = "idle" /\ idx' = 0 /\ start' = 0
      /\ returned' = returned
      /\ pc = "enqueue_up" /\ ~SmallerThanParent(queue, idx)
  BY DEF EnqueueReturns, Return
<1>2. PrqTypeOK /\ BackPointers /\ queue.count < queue.size
  BY <1>1 DEF IInv, Room
<1>3. queue.count \in Nat /\ \A i \in 1 .. queue.count : PriorityAt(queue, i) \in Int
  BY InsideArray
<1>4. \A k \in 2 .. queue.count : Ordered(k)
  <2>1. EnqueueRepair
    BY <1>1 DEF IInv, Repair
  <2>2. ASSUME idx \in 2 .. queue.count PROVE Ordered(idx)
    <3>1. idx \in 1 .. queue.count /\ idx \div 2 \in 1 .. queue.count
      BY <1>3, <2>2
    <3> QED
      BY <1>1, <1>3, <2>2, <3>1 DEF SmallerThanParent, Ordered
  <2> QED
    BY <2>1, <2>2 DEF EnqueueRepair
<1>5. /\ queue' = [heap |-> queue'.heap, count |-> queue'.count, size |-> queue'.size,
               index |-> queue'.index, priority |-> queue'.priority]
      /\ queue'.count = queue.count /\ queue'.index = queue.index /\ queue'.priority = queue.priority
      /\ \/ queue'.size = queue.size /\ queue'.heap = queue.heap /\ queue.count + 1 # queue.size
         \/ queue'.size = 2 * queue.size /\ queue'.heap = grown
  BY <1>1, <1>2 DEF PrqTypeOK, prq_amortize, AMORTIZED_CONSTANT
<1>6. /\ queue'.size \in Nat \ {0} /\ queue.count + 1 < queue'.size
      /\ queue'.heap \in [0 .. queue'.size - 1 -> Node \cup {NULL}]
      /\ \A i \in 0 .. queue.size - 1 : queue'.heap[i] = queue.heap[i]
  <2>1. /\ queue.size \in Nat \ {0} /\ queue.count \in Nat
        /\ queue.heap \in [0 .. queue.size - 1 -> Node \cup {NULL}]
    BY <1>2 DEF PrqTypeOK
  <2>2. CASE queue'.size = queue.size /\ queue'.heap = queue.heap /\ queue.count + 1 # queue.size
    BY <1>2, <2>1, <2>2
  <2>3. CASE queue'.size = 2 * queue.size /\ queue'.heap = grown
    <3>1. grown \in [0 .. 2 * queue.size - 1 -> Node \cup {NULL}]
      BY <2>1
    <3>2. \A i \in 0 .. queue.size - 1 : grown[i] = queue.heap[i]
      BY <2>1
    <3> HIDE DEF grown
    <3> QED
      BY <1>2, <2>1, <2>3, <3>1, <3>2
  <2> QED
    BY <1>5, <2>2, <2>3
<1>7. \A i \in 1 .. queue.count : queue'.heap[i] = queue.heap[i]
  BY <1>6, InsideArray
<1>8. PrqTypeOK'
  BY <1>1, <1>2, <1>5, <1>6 DEF PrqTypeOK
<1>9. BackPointers'
  <2>1. Members(queue)' = Members(queue)
    BY <1>5, <1>7 DEF Members
  <2> QED
    BY <1>2, <1>5, <1>7, <2>1 DEF BackPointers
<1>10. Room'
  BY <1>1, <1>5, <1>6 DEF Room
<1>11. Repair'
  <2>1. \A k \in 2 .. queue.count : k \in 1 .. queue.count /\ k \div 2 \in 1 .. queue.count
    BY <1>3
  <2>2. \A k \in 2 .. queue.count : PriorityAt(queue', k \div 2) <= PriorityAt(queue', k)
    BY <1>4, <1>5, <1>7, <2>1 DEF Ordered, PriorityAt
  <2> QED
    BY <1>1, <1>5, <2>2 DEF Repair, Ordered
<1> QED
  BY <1>8, <1>9, <1>10, <1>11 DEF IInv

\* prq_enqueue puts a node that is not queued behind the last one.
LEMMA EnqueuePreserves ==
    ASSUME IInv, NEW n \in Node, NEW p \in Priority, prq_enqueue(n, p)
    PROVE  IInv'
<1> DEFINE e == queue.count + 1
<1>1. /\ PrqTypeOK /\ BackPointers /\ n \notin Members(queue) /\ p \in Int
      /\ queue' = AppendNode(queue, n, p) /\ pc' = "enqueue_up" /\ idx' = e /\ start' = start
      /\ returned' = NULL /\ pc = "idle"
  BY PriorityAssumption DEF IInv, prq_enqueue
<1>2. /\ queue.count \in Nat /\ queue.size \in Nat /\ e \in 0 .. queue.size - 1 /\ e \in Nat
      /\ \A k \in 2 .. queue.count : Ordered(k)
      /\ \A i \in 1 .. queue.count : /\ i \in 0 .. queue.size - 1 /\ queue.heap[i] \in Node
                                 /\ PriorityAt(queue, i) \in Int
      /\ e < queue.size
  BY <1>1, InsideArray DEF IInv, Room, Repair
<1>3. /\ queue' = [heap |-> queue'.heap, count |-> queue'.count, size |-> queue'.size,
               index |-> queue'.index, priority |-> queue'.priority]
      /\ queue'.count = e /\ queue'.size = queue.size
      /\ queue'.heap = [queue.heap EXCEPT ![e] = n]
      /\ queue'.index = [queue.index EXCEPT ![n] = e]
      /\ queue'.priority = [queue.priority EXCEPT ![n] = p]
  BY <1>1 DEF PrqTypeOK, AppendNode
<1>4. /\ queue.heap \in [0 .. queue.size - 1 -> Node \cup {NULL}]
      /\ queue.index \in [Node -> Int] /\ queue.priority \in [Node -> Int]
  BY <1>1 DEF PrqTypeOK
<1>5. /\ queue'.heap \in [0 .. queue.size - 1 -> Node \cup {NULL}]
      /\ queue'.heap[e] = n /\ \A i \in 1 .. queue.count : queue'.heap[i] = queue.heap[i]
  BY <1>2, <1>3, <1>4
<1>6. /\ queue'.index \in [Node -> Int] /\ queue'.priority \in [Node -> Int]
      /\ queue'.index[n] = e
      /\ \A m \in Node : m # n => queue'.index[m] = queue.index[m] /\ queue'.priority[m] = queue.priority[m]
  BY <1>1, <1>2, <1>3, <1>4
<1>7. \A i \in 1 .. queue.count : queue.heap[i] # n
  BY <1>1 DEF Members
<1>8. PrqTypeOK'
  BY <1>1, <1>2, <1>3, <1>5, <1>6 DEF PrqTypeOK
<1>9. \A i \in 1 .. e : i = e \/ i \in 1 .. queue.count
  BY <1>2
<1>10. BackPointers'
  <2>1. \A i \in 1 .. e : queue'.heap[i] \in Node /\ queue'.index[queue'.heap[i]] \in {i, -1}
    <3>1. ASSUME NEW i \in 1 .. queue.count
          PROVE  queue'.heap[i] \in Node /\ queue'.index[queue'.heap[i]] \in {i, -1}
      <4>1. queue'.heap[i] = queue.heap[i] /\ queue.heap[i] \in Node /\ queue.heap[i] # n
        BY <1>2, <1>5, <1>7
      <4>2. queue.index[queue.heap[i]] \in {i, -1}
        BY <1>1 DEF BackPointers
      <4> QED
        BY <1>6, <4>1, <4>2
    <3>2. queue'.heap[e] \in Node /\ queue'.index[queue'.heap[e]] \in {e, -1}
      BY <1>5, <1>6
    <3> QED
      BY <1>9, <3>1, <3>2
  <2>2. \A i, j \in 1 .. e : queue'.heap[i] = queue'.heap[j] => i = j
    BY <1>1, <1>5, <1>7, <1>9 DEF BackPointers
  <2>3. \A m \in Node : queue'.index[m] \in {0, -1} \/ m \in Members(queue)'
    <3>1. n \in Members(queue)' /\ \A m \in Members(queue) : m \in Members(queue)'
      BY <1>2, <1>3, <1>5 DEF Members
    <3>2. \A m \in Node : queue.index[m] \in {0, -1} \/ m \in Members(queue)
      BY <1>1 DEF BackPointers
    <3> QED
      BY <1>6, <3>1, <3>2
  <2> QED
    BY <1>3, <2>1, <2>2, <2>3 DEF BackPointers
<1>11. Room'
  BY <1>1, <1>2, <1>3 DEF Room
<1>12. Repair'
  <2>1. \A i \in 1 .. queue.count : PriorityAt(queue', i) = PriorityAt(queue, i)
    BY <1>2, <1>5, <1>6, <1>7 DEF PriorityAt
  <2>2. \A k \in 2 .. e : k # e => k \in 2 .. queue.count /\ k \in 1 .. queue.count /\ k \div 2 \in 1 .. queue.count
    BY <1>2
  <2>3. \A k \in 2 .. e : k # e => PriorityAt(queue', k \div 2) <= PriorityAt(queue', k)
    BY <1>2, <2>1, <2>2 DEF Ordered
  <2>4. \A k \in 2 .. e : k \div 2 # e
    BY <1>2
  <2>5. e \in 1 .. e
    BY <1>2
  <2> QED
    BY <1>1, <1>3, <2>3, <2>4, <2>5 DEF Repair, EnqueueRepair, Ordered, OrderedAcross
<1> QED
  BY <1>8, <1>10, <1>11, <1>12 DEF IInv

-----------------------------------------------------------------------------
(* Taking a node out: the last node takes its place.                       *)

\* What UnlinkFirst and Unlink have in common: the node at position i leaves the
\* queue and the last one goes to i.
TakesOut(i) ==
    /\ pc = "idle" /\ queue.count > 0 /\ i \in 1 .. queue.count
    /\ queue' = [heap |-> queue'.heap, count |-> queue'.count, size |-> queue'.size,
             index |-> queue'.index, priority |-> queue'.priority]
    /\ queue'.count = queue.count - 1 /\ queue'.size = queue.size /\ queue'.priority = queue.priority
    /\ queue'.heap \in [0 .. queue.size - 1 -> Node \cup {NULL}]
    /\ i # queue.count => queue'.heap[i] = queue.heap[queue.count]
    /\ \A k \in 1 .. queue.count - 1 : k # i => queue'.heap[k] = queue.heap[k]
    /\ queue'.index \in [Node -> Int] /\ queue'.index[queue.heap[i]] = -1
    /\ queue.heap[queue.count] # queue.heap[i] => queue'.index[queue.heap[queue.count]] = i
    /\ \A m \in Node : m # queue.heap[i] /\ m # queue.heap[queue.count] => queue'.index[m] = queue.index[m]
    /\ pc' # "enqueue_up" /\ pc' \in {"remove_up", "down"} /\ idx' = i /\ start' \in Nat
    /\ returned' \in Node \cup {NULL}

\* The queue stays well formed, and only the priority at i changes.
LEMMA TakeOut ==
    ASSUME IInv, NEW i, TakesOut(i)
    PROVE  /\ PrqTypeOK' /\ BackPointers' /\ Room'
           /\ \A k \in 1 .. queue.count - 1 : k # i => PriorityAt(queue', k) = PriorityAt(queue, k)
<1> DEFINE c == queue.count
           gone == queue.heap[i]
           end == queue.heap[c]
<1>1. PrqTypeOK /\ BackPointers /\ c \in Nat /\ c > 0 /\ queue.size \in Nat /\ c + 1 < queue.size
  BY InsideArray DEF IInv, Room, TakesOut
<1>2. /\ i \in 1 .. c /\ i \in Int /\ c \in 1 .. c
      /\ gone \in Node /\ end \in Node
      /\ \A k \in 1 .. c : queue.heap[k] \in Node
  <2>1. i \in 1 .. c
    BY DEF TakesOut
  <2>2. i \in Int /\ c \in 1 .. c
    BY <1>1, <2>1
  <2>3. \A k \in 1 .. c : queue.heap[k] \in Node
    BY InsideArray
  <2> QED BY <2>1, <2>2, <2>3
<1>3. \A k, l \in 1 .. c : queue.heap[k] = queue.heap[l] => k = l
  BY <1>1 DEF BackPointers
<1>4. /\ \A k \in 1 .. c : k # i => queue.heap[k] # gone
      /\ \A k \in 1 .. c - 1 : queue.heap[k] # end /\ k \in 1 .. c
      /\ i # c => gone # end
      /\ \A k \in 1 .. c : k = c \/ k \in 1 .. c - 1
  BY <1>1, <1>2, <1>3
<1>5. gone # end => i # c
  OBVIOUS
<1>6. /\ queue'.count = c - 1 /\ queue'.size = queue.size /\ queue'.priority = queue.priority
      /\ i # c => queue'.heap[i] = end
      /\ \A k \in 1 .. c - 1 : k # i => queue'.heap[k] = queue.heap[k]
      /\ queue'.index[gone] = -1
      /\ end # gone => queue'.index[end] = i
      /\ \A m \in Node : m # gone /\ m # end => queue'.index[m] = queue.index[m]
  BY DEF TakesOut
<1>7. PrqTypeOK'
  <2>1. /\ queue.size \in Nat \ {0} /\ queue.priority \in [Node -> Int]
    BY <1>1 DEF PrqTypeOK
  <2>2. queue'.count \in Nat /\ idx' \in Nat
    BY <1>1, <1>2, <1>6 DEF TakesOut
  <2> QED
    BY <2>1, <2>2 DEF PrqTypeOK, TakesOut
<1>8. \A k \in 1 .. c - 1 : k # i => PriorityAt(queue', k) = PriorityAt(queue, k)
  BY <1>6 DEF PriorityAt
<1> HIDE DEF gone, end
<1>9. BackPointers'
  <2>1. ASSUME NEW k \in 1 .. c - 1
        PROVE  queue'.heap[k] \in Node /\ queue'.index[queue'.heap[k]] \in {k, -1}
    <3>1. CASE k = i
      <4>1. i # c
        BY <1>1, <3>1
      <4> QED
        BY <1>2, <1>4, <1>6, <3>1, <4>1
    <3>2. CASE k # i
      <4>1. /\ queue'.heap[k] = queue.heap[k] /\ queue.heap[k] \in Node
            /\ queue.heap[k] # gone /\ queue.heap[k] # end
        BY <1>2, <1>4, <1>6, <3>2
      <4>2. queue.index[queue.heap[k]] \in {k, -1}
        BY <1>1, <1>4 DEF BackPointers
      <4> QED
        BY <1>6, <4>1, <4>2
    <3> QED
      BY <3>1, <3>2
  <2>2. ASSUME NEW k \in 1 .. c - 1, NEW l \in 1 .. c - 1, queue'.heap[k] = queue'.heap[l]
        PROVE  k = l
    <3>1. \A j \in 1 .. c - 1 : j # i => queue'.heap[j] # end
      BY <1>4, <1>6
    <3>2. i \in 1 .. c - 1 => i # c
      BY <1>1
    <3>3. CASE k = i \/ l = i
      BY <1>6, <2>2, <3>1, <3>2, <3>3
    <3>4. CASE k # i /\ l # i
      BY <1>3, <1>4, <1>6, <2>2, <3>4
    <3> QED
      BY <3>3, <3>4
  <2>3. ASSUME NEW m \in Node PROVE queue'.index[m] \in {0, -1} \/ m \in Members(queue)'
    <3>1. CASE m = gone
      BY <1>6, <3>1
    <3>2. CASE m # gone /\ m = end
      <4>1. i # c
        BY <1>5, <3>2
      <4>2. i \in 1 .. queue'.count /\ queue'.heap[i] = m
        BY <1>1, <1>2, <1>6, <3>2, <4>1
      <4> QED
        BY <4>2 DEF Members
    <3>3. CASE m # gone /\ m # end /\ queue.index[m] \notin {0, -1}
      <4>1. m \in Members(queue)
        BY <1>1, <3>3 DEF BackPointers
      <4>2. PICK k \in 1 .. c : queue.heap[k] = m
        BY <4>1 DEF Members
      <4>3. k # i /\ k # c
        BY <3>3, <4>2 DEF gone, end
      <4>4. k \in 1 .. c - 1 /\ queue'.heap[k] = m
        BY <1>4, <1>6, <4>2, <4>3
      <4>5. k \in 1 .. queue'.count
        BY <1>6, <4>4
      <4> QED
        BY <4>4, <4>5 DEF Members
    <3>4. CASE m # gone /\ m # end /\ queue.index[m] \in {0, -1}
      BY <1>6, <3>4
    <3> QED
      BY <3>1, <3>2, <3>3, <3>4
  <2> QED
    BY <1>6, <2>1, <2>2, <2>3 DEF BackPointers
<1>10. Room'
  BY <1>1, <1>6 DEF Room, TakesOut
<1> QED
  BY <1>7, <1>8, <1>9, <1>10

\* prq_dequeue puts the last node in the first place.
LEMMA DequeuePreserves ==
    ASSUME IInv, prq_dequeue
    PROVE  IInv' /\ TakesOut(1)
<1> DEFINE c == queue.count
           top == queue.heap[1]
           end == queue.heap[c]
<1>1. /\ PrqTypeOK /\ c > 0
      /\ queue' = UnlinkFirst(queue) /\ pc' = "down" /\ idx' = 1 /\ start' = start
      /\ returned' = top /\ pc = "idle" /\ start \in Nat
  BY DEF IInv, prq_dequeue, PrqTypeOK
<1>2. /\ c \in Nat /\ queue.size \in Nat /\ c < queue.size
      /\ \A k \in 2 .. c : Ordered(k)
  BY <1>1, InsideArray DEF IInv, Repair
<1>3. /\ 1 \in 1 .. c /\ c \in 1 .. c /\ top \in Node /\ end \in Node
      /\ 1 \in 0 .. queue.size - 1 /\ c \in 0 .. queue.size - 1 /\ 1 \in Int /\ -1 \in Int
      /\ end \in Node \cup {NULL} /\ NULL \in Node \cup {NULL}
  BY <1>1, <1>2, InsideArray
<1>4. /\ queue' = [heap |-> queue'.heap, count |-> queue'.count, size |-> queue'.size,
               index |-> queue'.index, priority |-> queue'.priority]
      /\ queue'.count = c - 1 /\ queue'.size = queue.size /\ queue'.priority = queue.priority
      /\ queue'.heap = [queue.heap EXCEPT ![1] = end, ![c] = NULL]
      /\ queue'.index = [queue.index EXCEPT ![end] = 1, ![top] = -1]
  BY <1>1 DEF PrqTypeOK, UnlinkFirst
<1>5. /\ queue.heap \in [0 .. queue.size - 1 -> Node \cup {NULL}]
      /\ queue.index \in [Node -> Int]
  BY <1>1 DEF PrqTypeOK
<1>6. /\ queue'.heap \in [0 .. queue.size - 1 -> Node \cup {NULL}] /\ (1 # c => queue'.heap[1] = end)
      /\ \A k \in 0 .. queue.size - 1 : k # 1 /\ k # c => queue'.heap[k] = queue.heap[k]
  <2> DEFINE S == 0 .. queue.size - 1
             T == Node \cup {NULL}
  <2>1. Updated(S, T, queue.heap, 1, end, c, NULL, queue'.heap)
    BY <1>3, <1>4, <1>5 DEF Updated
  <2> HIDE DEF S, T, end
  <2>2. /\ queue'.heap \in [S -> T] /\ (1 # c => queue'.heap[1] = end)
        /\ \A k \in S : k # 1 /\ k # c => queue'.heap[k] = queue.heap[k]
    BY <2>1, TwoUpdates
  <2> QED
    BY <2>2 DEF S, T
<1>7. /\ queue'.index \in [Node -> Int] /\ queue'.index[top] = -1 /\ (end # top => queue'.index[end] = 1)
      /\ \A m \in Node : m # end /\ m # top => queue'.index[m] = queue.index[m]
  <2>1. Updated(Node, Int, queue.index, end, 1, top, -1, queue'.index)
    BY <1>3, <1>4, <1>5 DEF Updated
  <2> QED
    BY <1>3, <2>1, TwoUpdates
<1>8. \A k \in 1 .. c - 1 : k # c /\ k \in 0 .. queue.size - 1
  BY <1>2
<1>9. TakesOut(1)
  BY <1>1, <1>3, <1>4, <1>6, <1>7, <1>8 DEF TakesOut
<1>10. /\ PrqTypeOK' /\ BackPointers' /\ Room'
       /\ \A k \in 1 .. c - 1 : k # 1 => PriorityAt(queue', k) = PriorityAt(queue, k)
  BY <1>9, TakeOut
<1>11. Repair'
  <2>1. \A k \in 2 .. c - 1 : k \div 2 # 1 =>
            /\ k \in 2 .. c /\ k \in 1 .. c - 1 /\ k # 1
            /\ k \div 2 \in 1 .. c - 1
    BY <1>2
  <2>2. \A k \in 2 .. c - 1 : k \div 2 # 1 => PriorityAt(queue', k \div 2) <= PriorityAt(queue', k)
    BY <1>2, <1>10, <2>1 DEF Ordered
  <2> QED
    BY <1>1, <1>4, <2>2 DEF Repair, DownRepair, Ordered, OrderedAcross
<1> QED
  BY <1>9, <1>10, <1>11 DEF IInv

\* prq_remove of a node without an __index takes the __index of the last node.
LEMMA RemoveUnqueuedPreserves ==
    ASSUME IInv, NEW n \in Node, prq_remove(n), queue.index[n] = -1
    PROVE  IInv'
<1> DEFINE end == queue.heap[queue.count]
<1>1. /\ queue' = UnlinkUnqueued(queue) /\ UNCHANGED <<pc, idx, start>> /\ returned' = NULL
      /\ queue.count > 0 /\ PrqTypeOK /\ BackPointers /\ pc = "idle"
  BY DEF prq_remove, IInv
<1>2. queue.count \in Nat /\ end \in Node /\ queue.index \in [Node -> Int]
  <2>1. queue.count \in 1 .. queue.count
    BY <1>1, InsideArray
  <2> QED
    BY <1>1, <2>1, InsideArray DEF PrqTypeOK
<1>3. /\ queue' = [heap |-> queue'.heap, count |-> queue'.count, size |-> queue'.size,
               index |-> queue'.index, priority |-> queue'.priority]
      /\ queue'.count = queue.count /\ queue'.size = queue.size /\ queue'.priority = queue.priority
      /\ queue'.heap = queue.heap /\ queue'.index = [queue.index EXCEPT ![end] = -1]
  BY <1>1 DEF PrqTypeOK, UnlinkUnqueued
<1> HIDE DEF end
<1>4. /\ queue'.index \in [Node -> Int]
      /\ \A m \in Node : queue'.index[m] = -1 \/ queue'.index[m] = queue.index[m]
  BY <1>2, <1>3
<1>5. PrqTypeOK'
  BY <1>1, <1>3, <1>4 DEF PrqTypeOK
<1>6. BackPointers'
  <2>1. Members(queue)' = Members(queue)
    BY <1>3 DEF Members
  <2>2. \A i \in 1 .. queue.count : queue'.index[queue.heap[i]] \in {i, -1}
    BY <1>1, <1>4 DEF BackPointers
  <2>3. \A m \in Node : queue'.index[m] \in {0, -1} \/ m \in Members(queue)
    BY <1>1, <1>4 DEF BackPointers
  <2> QED
    BY <1>1, <1>3, <2>1, <2>2, <2>3 DEF BackPointers
<1>7. Room'
  BY <1>1, <1>3 DEF Room, IInv
<1>8. Repair'
  BY <1>1, <1>3 DEF Repair, Ordered, PriorityAt, IInv
<1> QED
  BY <1>5, <1>6, <1>7, <1>8 DEF IInv

\* prq_remove of a queued node: its __index is its position, and the order is
\* only disturbed above and below that position.
LEMMA RemoveQueuedPreserves ==
    ASSUME IInv, NEW n \in Node, prq_remove(n), queue.index[n] # -1
    PROVE  IInv' /\ TakesOut(queue.index[n]) /\ queue.heap[queue.index[n]] = n
<1> DEFINE c == queue.count
           i == queue.index[n]
           end == queue.heap[c]
<1>1. /\ PrqTypeOK /\ BackPointers /\ c > 0
      /\ queue' = Unlink(queue, n) /\ pc' = "remove_up" /\ idx' = i /\ start' = i
      /\ returned' = NULL /\ pc = "idle" /\ i # 0
  BY DEF IInv, prq_remove
<1>2. /\ c \in Nat /\ queue.size \in Nat /\ c + 1 < queue.size
      /\ \A k \in 2 .. c : Ordered(k)
      /\ \A k \in 1 .. c : PriorityAt(queue, k) \in Int
  BY <1>1, InsideArray DEF IInv, Repair, Room
<1>3. i \in 1 .. c /\ queue.heap[i] = n
  <2>1. n \in Members(queue)
    BY <1>1 DEF BackPointers
  <2>2. PICK k \in 1 .. c : queue.heap[k] = n
    BY <2>1 DEF Members
  <2>3. queue.index[queue.heap[k]] \in {k, -1}
    BY <1>1, <2>2 DEF BackPointers
  <2> QED
    BY <2>2, <2>3
<1>4. /\ c \in 1 .. c /\ end \in Node
      /\ i \in 0 .. queue.size - 1 /\ c + 1 \in 0 .. queue.size - 1 /\ c \in 0 .. queue.size - 1
      /\ i # c + 1 /\ i \in Int /\ i \in Nat /\ c # c + 1 /\ -1 \in Int
      /\ end \in Node \cup {NULL} /\ NULL \in Node \cup {NULL}
  BY <1>1, <1>2, <1>3, InsideArray
<1>5. /\ queue' = [heap |-> queue'.heap, count |-> queue'.count, size |-> queue'.size,
               index |-> queue'.index, priority |-> queue'.priority]
      /\ queue'.count = c - 1 /\ queue'.size = queue.size /\ queue'.priority = queue.priority
      /\ queue'.heap = [queue.heap EXCEPT ![i] = end, ![c + 1] = NULL]
      /\ queue'.index = [queue.index EXCEPT ![end] = i, ![n] = -1]
  BY <1>1 DEF PrqTypeOK, Unlink
<1>6. /\ queue.heap \in [0 .. queue.size - 1 -> Node \cup {NULL}]
      /\ queue.index \in [Node -> Int]
  BY <1>1 DEF PrqTypeOK
<1> HIDE DEF i
<1>7. /\ queue'.heap \in [0 .. queue.size - 1 -> Node \cup {NULL}] /\ queue'.heap[i] = end
      /\ \A k \in 0 .. queue.size - 1 : k # i /\ k # c + 1 => queue'.heap[k] = queue.heap[k]
  <2> DEFINE S == 0 .. queue.size - 1
             T == Node \cup {NULL}
  <2>1. Updated(S, T, queue.heap, i, end, c + 1, NULL, queue'.heap)
    BY <1>4, <1>5, <1>6 DEF Updated
  <2> HIDE DEF S, T, end
  <2>2. /\ queue'.heap \in [S -> T] /\ (i # c + 1 => queue'.heap[i] = end)
        /\ \A k \in S : k # i /\ k # c + 1 => queue'.heap[k] = queue.heap[k]
    BY <2>1, TwoUpdates
  <2> QED
    BY <1>4, <2>2 DEF S, T
<1>8. /\ queue'.index \in [Node -> Int] /\ queue'.index[n] = -1 /\ (end # n => queue'.index[end] = i)
      /\ \A m \in Node : m # end /\ m # n => queue'.index[m] = queue.index[m]
  <2>1. Updated(Node, Int, queue.index, end, i, n, -1, queue'.index)
    BY <1>4, <1>5, <1>6 DEF Updated
  <2> QED
    BY <1>4, <2>1, TwoUpdates
<1>9. \A k \in 1 .. c - 1 : k # c + 1 /\ k \in 0 .. queue.size - 1 /\ k \in 1 .. c
  BY <1>2
<1>10. TakesOut(i)
  BY <1>1, <1>3, <1>4, <1>5, <1>7, <1>8, <1>9 DEF TakesOut
<1>11. /\ PrqTypeOK' /\ BackPointers' /\ Room'
       /\ \A k \in 1 .. c - 1 : k # i => PriorityAt(queue', k) = PriorityAt(queue, k)
  BY <1>10, TakeOut
<1>12. \A k \in 2 .. c : /\ k \div 2 \in 1 .. c - 1 /\ k \in 1 .. c /\ k \div 2 \in 1 .. c
                         /\ k \div 2 # k
  BY <1>2
<1>13. \A k \in 2 .. c - 1 : k \in 2 .. c /\ k \in 1 .. c - 1
  BY <1>2
<1>14. RemoveRepair'
  <2>1. i \in 1 .. (c - 1) + 1 /\ i \in 1 .. i
    BY <1>2, <1>3
  <2>2. \A k \in 2 .. c - 1 : k # i /\ k \div 2 # i => PriorityAt(queue', k \div 2) <= PriorityAt(queue', k)
    BY <1>2, <1>11, <1>12, <1>13 DEF Ordered
  <2>3. ASSUME i > 1, NEW k \in 2 .. c - 1, k \div 2 = i
        PROVE  PriorityAt(queue', i \div 2) <= PriorityAt(queue', k)
    <3>1. i \in 2 .. c
      BY <1>3, <2>3
    <3>2. /\ PriorityAt(queue, i \div 2) <= PriorityAt(queue, i)
          /\ PriorityAt(queue, i) <= PriorityAt(queue, k)
      BY <1>2, <1>13, <2>3, <3>1 DEF Ordered
    <3>3. /\ PriorityAt(queue, i \div 2) \in Int /\ PriorityAt(queue, i) \in Int
          /\ PriorityAt(queue, k) \in Int
      BY <1>2, <1>12, <1>13, <3>1
    <3>4. PriorityAt(queue, i \div 2) <= PriorityAt(queue, k)
      BY <3>2, <3>3, LeqTransitive
    <3>5. /\ PriorityAt(queue', i \div 2) = PriorityAt(queue, i \div 2)
          /\ PriorityAt(queue', k) = PriorityAt(queue, k)
      BY <1>11, <1>12, <1>13, <2>3, <3>1
    <3> QED
      BY <3>4, <3>5
  <2>4. ASSUME i = (c - 1) + 1 PROVE ~SmallerThanParent(queue', i)
    <3>1. i = c
      BY <1>2, <2>4
    <3>2. PriorityAt(queue', c) = PriorityAt(queue, c)
      BY <1>5, <1>7, <3>1 DEF PriorityAt
    <3>3. ASSUME c > 1 PROVE ~(PriorityAt(queue', c) < PriorityAt(queue', c \div 2))
      <4>1. c \in 2 .. c
        BY <1>2, <3>3
      <4>2. PriorityAt(queue', c \div 2) = PriorityAt(queue, c \div 2)
        BY <1>11, <1>12, <3>1, <4>1
      <4>3. PriorityAt(queue, c \div 2) \in Int /\ PriorityAt(queue, c) \in Int
        BY <1>2, <1>12, <4>1
      <4>4. PriorityAt(queue, c \div 2) <= PriorityAt(queue, c)
        BY <1>2, <4>1 DEF Ordered
      <4> QED
        BY <3>2, <4>2, <4>3, <4>4
    <3> QED
      BY <3>1, <3>3 DEF SmallerThanParent
  <2>5. queue'.heap[i] \in Node
    BY <1>4, <1>7
  <2> QED
    BY <1>1, <1>5, <2>1, <2>2, <2>3, <2>4, <2>5
       DEF RemoveRepair, Ordered, OrderedAcross, i
<1>15. Repair'
  BY <1>1, <1>14 DEF Repair
<1> QED
  BY <1>3, <1>10, <1>11, <1>15 DEF IInv, i

\* A new empty queue over the same nodes.
LEMMA RecreatePreserves ==
    ASSUME IInv, NEW k \in Capacities, Recreate(k)
    PROVE  IInv'
<1>1. /\ queue' = [prq_create_fixed(k) EXCEPT !.index = queue.index, !.priority = queue.priority]
      /\ UNCHANGED <<pc, idx, start>> /\ returned' = NULL
      /\ queue.count = 0 /\ PrqTypeOK /\ BackPointers /\ pc = "idle" /\ k \in Nat \ {0}
  BY CapacitiesAssumption DEF Recreate, IInv
<1>2. /\ queue' = [heap |-> queue'.heap, count |-> queue'.count, size |-> queue'.size,
               index |-> queue'.index, priority |-> queue'.priority]
      /\ queue'.heap = [i \in 0 .. k |-> NULL] /\ queue'.count = 0 /\ queue'.size = k + 1
      /\ queue'.index = queue.index /\ queue'.priority = queue.priority
  BY <1>1 DEF prq_create_fixed
<1>3. PrqTypeOK'
  <2>1. /\ queue'.size \in Nat \ {0} /\ queue'.size - 1 = k /\ queue'.count \in Nat
        /\ queue'.heap \in [0 .. k -> Node \cup {NULL}]
    BY <1>1, <1>2
  <2> QED
    BY <1>1, <1>2, <2>1 DEF PrqTypeOK
<1>4. BackPointers'
  <2>1. \A n \in Node : queue.index[n] \in {0, -1}
    BY <1>1 DEF BackPointers, Members
  <2> QED
    BY <1>2, <2>1 DEF BackPointers
<1>5. Room' /\ Repair'
  BY <1>1, <1>2 DEF Room, Repair
<1> QED
  BY <1>3, <1>4, <1>5 DEF IInv

-----------------------------------------------------------------------------
(* The theorems                                                            *)

\* IInv holds in every state: whatever is enqueued, dequeued and removed in
\* which order, each loop of priority_queue.c is disturbed at one place only.
THEOREM Inductive == PrqSpec => []IInv
<1>1. IInv /\ [PrqNext]_prqvars => IInv'
  <2> SUFFICES ASSUME IInv, [PrqNext]_prqvars PROVE IInv'
    OBVIOUS
  <2>1. ASSUME NEW n \in Node, NEW p \in Priority, prq_enqueue(n, p) PROVE IInv'
    BY <2>1, EnqueuePreserves
  <2>2. CASE prq_dequeue
    BY <2>2, DequeuePreserves
  <2>3. ASSUME NEW n \in Node, prq_remove(n) PROVE IInv'
    BY <2>3, RemoveQueuedPreserves, RemoveUnqueuedPreserves
  <2>4. ASSUME NEW k \in Capacities, Recreate(k) PROVE IInv'
    BY <2>4, RecreatePreserves
  <2>5. CASE Loops
    BY <2>5, ShiftUpPreserves, EnqueueReturnsPreserves, RemoveShiftsDownPreserves,
       ShiftDownPreserves, ShiftDownReturnsPreserves DEF Loops
  <2>6. CASE EmptyReturns \/ UNCHANGED prqvars
    <3>1. UNCHANGED <<queue, pc, idx, start>> /\ returned' \in Node \cup {NULL}
      BY <2>6 DEF EmptyReturns, prqvars, IInv, PrqTypeOK
    <3> QED
      BY <3>1 DEF IInv, PrqTypeOK, BackPointers, Members, Room, Repair, EnqueueRepair,
         RemoveRepair, DownRepair, Ordered, OrderedAcross, PriorityAt, SmallerThanParent
  <2> QED
    BY <2>1, <2>2, <2>3, <2>4, <2>5, <2>6 DEF PrqNext
<1> QED
  BY InitEstablishes, <1>1, PTL DEF PrqSpec

\* The array is always as large as the handle says, and the loops of
\* priority_queue.c only index it with numbers.
THEOREM TypeCorrect == PrqSpec => []PrqTypeOK
<1>1. IInv => PrqTypeOK
  BY DEF IInv
<1> QED
  BY Inductive, <1>1, PTL

\* Between operations the array of priority_queue.c is in heap order.
THEOREM HeapOrder == PrqSpec => []HeapOrdered
<1>1. IInv => HeapOrdered
  BY DEF IInv, Repair, Ordered, HeapOrdered
<1> QED
  BY Inductive, <1>1, PTL

\* The __index of a node is never a wrong position, also in the middle of an
\* operation, and no node is queued twice.
THEOREM BackPointersRight == PrqSpec => []BackPointers
<1>1. IInv => BackPointers
  BY DEF IInv
<1> QED
  BY Inductive, <1>1, PTL

\* prq_enqueue and prq_remove never write behind the array.
THEOREM AlwaysRoom == PrqSpec => []RoomForNext
<1>1. IInv => RoomForNext
  BY DEF IInv, Room, RoomForNext
<1> QED
  BY Inductive, <1>1, PTL

-----------------------------------------------------------------------------
(* The array heap implements MinQueue                                      *)

\* A set of positions that is not empty has a smallest one.
LEMMA SmallestPosition ==
    ASSUME NEW T, T \subseteq Nat, T # {}
    PROVE  \E x \in T : \A y \in T : ~(y < x)
<1>1. PICK x \in T : \A y \in T : ~(<<y, x>> \in OpToRel(<, Nat))
  BY NatLessThanWellFounded, WFMin
<1>2. ASSUME NEW y \in T, y < x PROVE FALSE
  <2>1. <<y, x>> \in OpToRel(<, Nat)
    BY <1>2 DEF OpToRel
  <2> QED
    BY <1>1, <2>1
<1> QED
  BY <1>2

\* Between operations the first node has the lowest priority: a smallest
\* position with a lower one would have a parent with a lower one.
LEMMA FirstIsLowest ==
    ASSUME IInv, pc = "idle"
    PROVE  \A i \in 1 .. queue.count : PriorityAt(queue, 1) <= PriorityAt(queue, i)
<1> DEFINE T == {i \in 1 .. queue.count : PriorityAt(queue, i) < PriorityAt(queue, 1)}
<1>1. /\ queue.count \in Nat /\ \A i \in 1 .. queue.count : PriorityAt(queue, i) \in Int
      /\ \A k \in 2 .. queue.count : PriorityAt(queue, k \div 2) <= PriorityAt(queue, k)
  BY InsideArray DEF IInv, Repair, Ordered
<1>2. ASSUME T # {} PROVE FALSE
  <2>1. T \subseteq Nat
    BY <1>1
  <2>2. PICK x \in T : \A y \in T : ~(y < x)
    BY <1>2, <2>1, SmallestPosition
  <2>3. /\ x \in 1 .. queue.count /\ PriorityAt(queue, x) < PriorityAt(queue, 1)
        /\ x \in Nat /\ 1 \in 1 .. queue.count
    BY <1>1
  <2>4. x # 1
    BY <1>1, <2>3
  <2>5. x \in 2 .. queue.count /\ x \div 2 \in 1 .. queue.count /\ x \div 2 < x
    BY <1>1, <2>3, <2>4
  <2>6. /\ PriorityAt(queue, x \div 2) <= PriorityAt(queue, x)
        /\ PriorityAt(queue, x \div 2) \in Int /\ PriorityAt(queue, x) \in Int
        /\ PriorityAt(queue, 1) \in Int
    BY <1>1, <2>3, <2>5
  <2>7. PriorityAt(queue, x \div 2) < PriorityAt(queue, 1)
    BY <2>3, <2>6
  <2>8. x \div 2 \in T
    BY <2>5, <2>7
  <2> QED
    BY <2>2, <2>5, <2>8
<1>3. ASSUME NEW i \in 1 .. queue.count PROVE PriorityAt(queue, 1) <= PriorityAt(queue, i)
  <2>1. 1 \in 1 .. queue.count /\ ~(PriorityAt(queue, i) < PriorityAt(queue, 1))
    BY <1>1, <1>2
  <2> QED
    BY <1>1, <2>1
<1> QED
  BY <1>3

\* A swap moves nodes around in the queue.
LEMMA SwapMembers ==
    ASSUME IInv, NEW i \in 1 .. queue.count, NEW j \in 1 .. queue.count, i # j, queue' = Swap(queue, i, j)
    PROVE  Members(queue') = Members(queue) /\ queue'.priority = queue.priority
<1>1. /\ PrqTypeOK /\ \A k, l \in 1 .. queue.count : queue.heap[k] = queue.heap[l] => k = l
      /\ \A k \in 1 .. queue.count : k \in 0 .. queue.size - 1 /\ queue.heap[k] \in Node
  BY InsideArray DEF IInv, BackPointers
<1>2. /\ i \in 0 .. queue.size - 1 /\ j \in 0 .. queue.size - 1
      /\ queue.heap[i] \in Node /\ queue.heap[j] \in Node /\ queue.heap[i] # queue.heap[j]
  BY <1>1
<1>3. /\ queue'.count = queue.count /\ queue'.priority = queue.priority
      /\ queue'.heap[i] = queue.heap[j] /\ queue'.heap[j] = queue.heap[i]
      /\ \A k \in 0 .. queue.size - 1 : k # i /\ k # j => queue'.heap[k] = queue.heap[k]
  BY <1>1, <1>2, SwapShape
<1>4. \A k \in 1 .. queue.count : /\ \E l \in 1 .. queue.count : queue'.heap[k] = queue.heap[l]
                              /\ \E l \in 1 .. queue.count : queue.heap[k] = queue'.heap[l]
  BY <1>1, <1>3
<1>5. /\ Members(queue') = {queue'.heap[l] : l \in 1 .. queue.count}
      /\ Members(queue) = {queue.heap[l] : l \in 1 .. queue.count}
  BY <1>3 DEF Members
<1>6. Members(queue') \subseteq Members(queue) /\ Members(queue) \subseteq Members(queue')
  BY <1>4, <1>5
<1> QED
  BY <1>3, <1>6

\* Exactly the node at i leaves the queue.
LEMMA TakeOutMembers ==
    ASSUME IInv, NEW i, TakesOut(i)
    PROVE  /\ Members(queue') = Members(queue) \ {queue.heap[i]}
           /\ queue.heap[i] \in Members(queue) /\ queue'.priority = queue.priority
<1> DEFINE c == queue.count
<1>1. /\ c \in Nat /\ c > 0 /\ i \in 1 .. c /\ queue'.count = c - 1
      /\ queue'.priority = queue.priority
      /\ i # c => queue'.heap[i] = queue.heap[c]
      /\ \A k \in 1 .. c - 1 : k # i => queue'.heap[k] = queue.heap[k]
      /\ \A k, l \in 1 .. c : queue.heap[k] = queue.heap[l] => k = l
  BY InsideArray DEF TakesOut, IInv, BackPointers
<1>2. /\ c \in 1 .. c /\ \A k \in 1 .. c - 1 : k \in 1 .. c /\ k # c
      /\ \A k \in 1 .. c : k # c => k \in 1 .. c - 1
  BY <1>1
<1>3. ASSUME NEW k \in 1 .. c - 1
      PROVE  \E l \in 1 .. c : l # i /\ queue'.heap[k] = queue.heap[l]
  <2>1. CASE k = i
    BY <1>1, <1>2, <2>1
  <2>2. CASE k # i
    BY <1>1, <1>2, <2>2
  <2> QED
    BY <2>1, <2>2
<1>4. ASSUME NEW k \in 1 .. c, k # i
      PROVE  \E l \in 1 .. c - 1 : queue.heap[k] = queue'.heap[l]
  <2>1. CASE k = c
    <3>1. i # c /\ i \in 1 .. c - 1
      BY <1>1, <1>2, <1>4, <2>1
    <3> QED
      BY <1>1, <2>1, <3>1
  <2>2. CASE k # c
    BY <1>1, <1>2, <1>4, <2>2
  <2> QED
    BY <2>1, <2>2
<1>5. /\ Members(queue') = {queue'.heap[l] : l \in 1 .. c - 1}
      /\ Members(queue) = {queue.heap[l] : l \in 1 .. c}
  BY <1>1 DEF Members
<1>6. \A l \in 1 .. c : l # i => queue.heap[l] # queue.heap[i]
  BY <1>1
<1>7. Members(queue') \subseteq Members(queue) \ {queue.heap[i]}
  BY <1>3, <1>5, <1>6
<1>8. Members(queue) \ {queue.heap[i]} \subseteq Members(queue')
  BY <1>4, <1>5
<1> QED
  BY <1>1, <1>5, <1>7, <1>8

\* Exactly the node n enters the queue.
LEMMA AppendMembers ==
    ASSUME IInv, NEW n \in Node, NEW p \in Priority, prq_enqueue(n, p)
    PROVE  /\ Members(queue') = Members(queue) \cup {n}
           /\ queue'.priority = [queue.priority EXCEPT ![n] = p]
<1> DEFINE e == queue.count + 1
<1>1. /\ PrqTypeOK /\ queue' = AppendNode(queue, n, p) /\ pc = "idle"
      /\ queue.heap \in [0 .. queue.size - 1 -> Node \cup {NULL}]
      /\ queue.count \in Nat /\ queue.size \in Nat /\ e < queue.size
  BY InsideArray DEF IInv, Room, prq_enqueue, PrqTypeOK
<1>2. /\ queue'.count = e /\ queue'.heap = [queue.heap EXCEPT ![e] = n]
      /\ queue'.priority = [queue.priority EXCEPT ![n] = p]
  BY <1>1 DEF PrqTypeOK, AppendNode
<1>3. /\ queue'.heap[e] = n /\ \A i \in 1 .. queue.count : queue'.heap[i] = queue.heap[i]
      /\ e \in 1 .. e /\ \A i \in 1 .. e : i = e \/ i \in 1 .. queue.count
      /\ \A i \in 1 .. queue.count : i \in 1 .. e
  BY <1>1, <1>2
<1>4. /\ Members(queue') = {queue'.heap[l] : l \in 1 .. e}
      /\ Members(queue) = {queue.heap[l] : l \in 1 .. queue.count}
  BY <1>2 DEF Members
<1> HIDE DEF e
<1>5. Members(queue') \subseteq Members(queue) \cup {n}
  BY <1>3, <1>4
<1>6. n \in Members(queue') /\ Members(queue) \subseteq Members(queue')
  BY <1>3, <1>4
<1> QED
  BY <1>2, <1>5, <1>6

\* Both loops, and the end of each operation, keep the nodes in the queue.
LEMMA LoopsStutter ==
    ASSUME IInv, Loops
    PROVE  Members(queue') = Members(queue) /\ queue'.priority = queue.priority /\ returned' = returned
<1>1. CASE ShiftUp
  <2>1. /\ queue' = Swap(queue, idx, idx \div 2) /\ returned' = returned
        /\ SmallerThanParent(queue, idx) /\ pc \in {"enqueue_up", "remove_up"}
    BY <1>1 DEF ShiftUp
  <2>2. idx \in 1 .. queue.count /\ idx > 1
    <3>1. queue.count \in Nat /\ idx > 1
      BY <2>1, InsideArray DEF SmallerThanParent
    <3>2. CASE pc = "enqueue_up"
      BY <3>1, <3>2 DEF IInv, Repair, EnqueueRepair
    <3>3. CASE pc = "remove_up"
      BY <2>1, <3>1, <3>3 DEF IInv, Repair, RemoveRepair
    <3> QED
      BY <2>1, <3>2, <3>3
  <2>3. idx \div 2 \in 1 .. queue.count /\ idx # idx \div 2
    BY <2>2, InsideArray
  <2> QED
    BY <2>1, <2>2, <2>3, SwapMembers
<1>2. CASE ShiftDown
  <2> DEFINE j == SmallerChild(queue, idx)
  <2>1. /\ queue' = Swap(queue, idx, j) /\ returned' = returned
        /\ 2 * idx <= queue.count /\ queue.count \in Nat /\ idx \in Nat \ {0}
    BY <1>2, InsideArray DEF ShiftDown, LargerThanChild, IInv, Repair, DownRepair
  <2>2. j \in 1 .. queue.count /\ idx # j
    BY <2>1 DEF SmallerChild
  <2>3. idx \in 1 .. queue.count
    BY <2>1
  <2> QED
    BY <2>1, <2>2, <2>3, SwapMembers
<1>3. CASE EnqueueReturns
  <2>1. /\ queue' = prq_amortize(queue) /\ returned' = returned /\ PrqTypeOK
    BY <1>3 DEF EnqueueReturns, IInv
  <2>2. /\ queue'.count = queue.count /\ queue'.priority = queue.priority
        /\ \/ queue'.heap = queue.heap
           \/ queue'.heap = [i \in 0 .. 2 * queue.size - 1 |-> IF i < queue.size THEN queue.heap[i] ELSE NULL]
    BY <2>1 DEF PrqTypeOK, prq_amortize, AMORTIZED_CONSTANT
  <2>3. /\ queue.count \in Nat /\ queue.size \in Nat /\ queue.count < queue.size
    BY InsideArray
  <2>4. \A i \in 1 .. queue.count : queue'.heap[i] = queue.heap[i]
    BY <2>2, <2>3
  <2> QED
    BY <2>1, <2>2, <2>4 DEF Members
<1>4. CASE RemoveShiftsDown \/ ShiftDownReturns
  BY <1>4 DEF RemoveShiftsDown, ShiftDownReturns
<1> QED
  BY <1>1, <1>2, <1>3, <1>4 DEF Loops

\* The priority of every node in a queue.
Queued(r) == [n \in Members(r) |-> r.priority[n]]

\* A step that keeps the nodes in the queue keeps what MinQueue sees.
LEMMA SameQueued ==
    ASSUME Members(queue') = Members(queue), queue'.priority = queue.priority
    PROVE  Queued(queue') = Queued(queue)
  BY DEF Queued

\* priority_queue.c keeps the promise of priority_queue.h: the node that
\* prq_dequeue returns has the lowest priority of all nodes in the queue, and no
\* operation loses or invents a node.
THEOREM Refinement == PrqSpec => ImplementsMinQueue
<1>1. PrqInit => M!Init
  <2> SUFFICES ASSUME PrqInit PROVE M!Init
    OBVIOUS
  <2>1. queue.count = 0 /\ returned = NULL
    BY DEF PrqInit, prq_create_fixed
  <2>2. Members(queue) = {}
    BY <2>1 DEF Members
  <2> QED
    BY <2>1, <2>2 DEF M!Init
<1>2. IInv /\ [PrqNext]_prqvars => [M!Next]_<<Queued(queue), returned>>
  <2> SUFFICES ASSUME IInv, [PrqNext]_prqvars PROVE M!Next \/ (Queued(queue') = Queued(queue) /\ returned' = returned)
    BY DEF Queued
  <2>1. ASSUME NEW n \in Node, NEW p \in Priority, prq_enqueue(n, p) PROVE M!Put(n, p)
    <3>1. /\ n \notin Members(queue) /\ returned' = NULL
          /\ queue.priority \in [Node -> Int] /\ Members(queue) \subseteq Node
      BY <2>1, InsideArray DEF prq_enqueue, IInv, PrqTypeOK, Members
    <3>2. /\ Members(queue') = Members(queue) \cup {n}
          /\ queue'.priority = [queue.priority EXCEPT ![n] = p]
      BY <2>1, AppendMembers
    <3>3. \A m \in Members(queue') : queue'.priority[m] = IF m = n THEN p ELSE queue.priority[m]
      BY <3>1, <3>2
    <3> QED
      BY <3>1, <3>2, <3>3 DEF M!Put
  <2>2. CASE prq_dequeue
    <3>1. TakesOut(1) /\ returned' = queue.heap[1] /\ pc = "idle"
      BY <2>2, DequeuePreserves DEF prq_dequeue
    <3>2. /\ Members(queue') = Members(queue) \ {queue.heap[1]} /\ queue'.priority = queue.priority
          /\ queue.heap[1] \in Members(queue)
      BY <3>1, TakeOutMembers
    <3>3. \A m \in Members(queue) : m \in Node /\ queue.priority[queue.heap[1]] <= queue.priority[m]
      BY <3>1, FirstIsLowest, InsideArray DEF Members, PriorityAt
    <3>4. PICK n \in Node : n = queue.heap[1]
      BY <3>2, <3>3
    <3>5. M!TakeFirst(n)
      BY <3>1, <3>2, <3>3, <3>4 DEF M!TakeFirst, M!TakeOut
    <3> QED
      BY <3>5 DEF M!Next
  <2>3. ASSUME NEW n \in Node, prq_remove(n), queue.index[n] # -1 PROVE M!Cancel(n)
    <3>1. /\ TakesOut(queue.index[n]) /\ queue.heap[queue.index[n]] = n /\ returned' = NULL
      BY <2>3, RemoveQueuedPreserves DEF prq_remove
    <3>2. /\ Members(queue') = Members(queue) \ {n} /\ queue'.priority = queue.priority /\ n \in Members(queue)
      BY <3>1, TakeOutMembers
    <3> QED
      BY <3>1, <3>2 DEF M!Cancel, M!TakeOut
  <2>4. ASSUME NEW n \in Node, prq_remove(n), queue.index[n] = -1
        PROVE  Queued(queue') = Queued(queue) /\ returned' = NULL
    <3>1. queue' = UnlinkUnqueued(queue) /\ returned' = NULL /\ PrqTypeOK
      BY <2>4 DEF prq_remove, IInv
    <3>2. queue'.heap = queue.heap /\ queue'.count = queue.count /\ queue'.priority = queue.priority
      BY <3>1 DEF UnlinkUnqueued, PrqTypeOK
    <3>3. Members(queue') = Members(queue)
      BY <3>2 DEF Members
    <3> QED
      BY <3>1, <3>2, <3>3, SameQueued
  <2>5. ASSUME NEW k \in Capacities, Recreate(k)
        PROVE  Queued(queue') = Queued(queue) /\ returned' = NULL
    <3>1. /\ queue'.count = 0 /\ queue.count = 0 /\ queue'.priority = queue.priority /\ returned' = NULL
      BY <2>5 DEF Recreate, prq_create_fixed
    <3>2. Members(queue') = Members(queue)
      BY <3>1 DEF Members
    <3> QED
      BY <3>1, <3>2, SameQueued
  <2>6. CASE Loops
    BY <2>6, LoopsStutter, SameQueued
  <2>7. CASE EmptyReturns
    BY <2>7 DEF EmptyReturns, M!Next
  <2>8. CASE UNCHANGED prqvars
    BY <2>8 DEF prqvars
  <2> QED
    BY <2>1, <2>2, <2>3, <2>4, <2>5, <2>6, <2>7, <2>8 DEF PrqNext, M!Next, Queued
<1> QED
  BY Inductive, <1>1, <1>2, PTL DEF PrqSpec, ImplementsMinQueue, M!Spec, Queued

-----------------------------------------------------------------------------
(* The timer driver.                                                       *)

-----------------------------------------------------------------------------
(* The inductive invariant.                                                *)

\* The variables outside the queue, and the priorities.
Typed ==
    /\ q.priority \in [Node -> 0 .. INT32_MAX]
    /\ data \in [Node -> [scheduled_count : Counts, periodic_delay : 0 .. Word - 1]]
    /\ cntpct \in 0 .. MaxCount /\ cval \in Counts /\ masked \in BOOLEAN
    /\ irq \in [active : BOOLEAN, current_count : 0 .. MaxCount, timer : Node \cup {NULL}]
    /\ status \in {"running", "rejected", "panic"}
    /\ due \in [Node -> Int]

\* Where the thread and the handler are: a call that has begun has a node, and a
\* callback runs only in the handler.
InProgress ==
    /\ \/ call = NoCall
       \/ \E n \in Node, op \in {"schedule", "free"} : call = [NoCall EXCEPT !.op = op, !.node = n]
       \/ \E m \in Node \cup {NULL} : call = [NoCall EXCEPT !.op = "rearm", !.end = m]
    /\ irq.timer # NULL => irq.active

\* The count of a timer that a call is about to queue is an int.
Fits == call.op = "schedule" => data[call.node].scheduled_count \in 0 .. INT32_MAX

\* TimersAccounted, as sets of nodes.
Accounted ==
    /\ allocated = Members(q) \cup ({irq.timer, call.node} \ {NULL})
    /\ irq.timer \notin Members(q) /\ call.node \notin Members(q)
    /\ irq.timer = call.node => irq.timer = NULL

\* The priority of a timer is its count, or is older by less than or just a period.
Aged ==
    \A n \in Members(q) :
        /\ q.priority[n] <= data[n].scheduled_count
        /\ data[n].scheduled_count <= q.priority[n] + data[n].periodic_delay

\* A timer whose callback runs was due when the handler read the counter.
WasDue == irq.timer # NULL => data[irq.timer].scheduled_count <= irq.current_count

\* Only an empty queue is masked, and nothing will be put back into it.
MaskedWhenEmpty ==
    masked => \/ emptied
              \/ /\ Members(q) = {}
                 /\ irq.timer # NULL => data[irq.timer].periodic_delay = 0

\* Outside the handler the compare value is that of the first timer, unless the thread
\* has removed a timer and has not set the value yet.
Armed ==
    ~irq.active /\ Members(q) # {} /\ call.op \in {"none", "schedule"} =>
        cval = data[prq_peek(q)].scheduled_count

\* The timer that prq_peek has returned to the thread is still the first.
Peeked == call.op = "rearm" => ~irq.active /\ call.end = prq_peek(q)

\* What schedule_timer loses of a delay is a whole number of words.
LosesWords ==
    \A n \in Node : /\ due[n] >= data[n].scheduled_count
                    /\ (due[n] - data[n].scheduled_count) % Word = 0

TimerInv ==
    /\ QueueOK(q)
    /\ Typed
    /\ InProgress
    /\ Fits
    /\ Accounted
    /\ Aged
    /\ WasDue
    /\ MaskedWhenEmpty
    /\ Armed
    /\ Peeked
    /\ LosesWords

\* prq_remove of the thread, after its first and after its second step.
IndexMoved(r, n) == [r EXCEPT !.index = [@ EXCEPT ![r.heap[r.count]] = r.index[n]]]
NotYetShrunk(r, n) ==
    [r EXCEPT !.index = [@ EXCEPT ![r.heap[r.count]] = r.index[n], ![n] = -1],
              !.heap = [@ EXCEPT ![r.index[n]] = r.heap[r.count], ![r.count + 1] = NULL]]

\* The thread is inside prq_remove, and the queue was r when it began.
Removing(r) ==
    /\ QueueOK(r) /\ r.priority \in [Node -> 0 .. INT32_MAX]
    /\ call.node \in Members(r)
    /\ call = [op |-> call.op, node |-> call.node,
                end |-> r.heap[r.count], index |-> r.index[call.node]]
    /\ \/ call.op = "unlink" /\ q = IndexMoved(r, call.node)
       \/ call.op = "shrink" /\ q = NotYetShrunk(r, call.node)
    /\ allocated = Members(r)
    /\ \A n \in Members(r) :
          /\ r.priority[n] <= data[n].scheduled_count
          /\ data[n].scheduled_count <= r.priority[n] + data[n].periodic_delay

\* No interrupt has come while the thread is inside prq_remove.
Halfway ==
    /\ \E r : Removing(r)
    /\ Typed
    /\ ~irq.active /\ irq.timer = NULL
    /\ masked => emptied
    /\ LosesWords

\* The whole invariant. Once an interrupt has come into deschedule_timer it says nothing.
IntactInv == ~preempted => TimerInv \/ Halfway

-----------------------------------------------------------------------------
(* Counts.                                                                 *)

\* What is lost when a product is cut to a word.
LEMMA CutToWord ==
    ASSUME NEW x \in Nat, NEW w \in Nat \ {0}
    PROVE  x % w \in 0 .. w - 1 /\ x % w <= x /\ (x - (x % w)) % w = 0
<1>1. x % w \in 0 .. w - 1
  OBVIOUS
<1>2. x = w * (x \div w) + (x % w) /\ x \div w \in Nat
  OBVIOUS
<1> DEFINE a == x \div w
<1>3. x - (x % w) = w * a /\ a \in Nat
  BY <1>1, <1>2
<1> HIDE DEF a
<1>4. (w * a) % w = 0
  BY <1>3
<1>5. w * a \in Nat
  BY <1>3
<1> QED BY <1>1, <1>3, <1>4, <1>5

\* The offset of a delay that a client asks for.
LEMMA Offsets ==
    ASSUME NEW d \in Delay, NEW now \in Nat
    PROVE  /\ count_offset(d) \in 0 .. Word - 1 /\ count_offset(d) \in Nat
           /\ now + TicksPerMs * d \in Int
           /\ now + TicksPerMs * d >= now + count_offset(d)
           /\ ((now + TicksPerMs * d) - (now + count_offset(d))) % Word = 0
<1> DEFINE x == TicksPerMs * d
           y == count_offset(d)
<1>1. x \in Nat /\ Word \in Nat \ {0}
  BY TimerAssumption
<1>2. y = x % Word
  BY DEF count_offset
<1> HIDE DEF x, y
<1>3. y \in 0 .. Word - 1 /\ y <= x /\ (x - y) % Word = 0
  BY <1>1, <1>2, CutToWord
<1>4. y \in Nat
  BY <1>1, <1>3
<1>5. (now + x) - (now + y) = x - y /\ now + x \in Int /\ now + x >= now + y
  BY <1>1, <1>3, <1>4
<1> QED BY <1>3, <1>4, <1>5 DEF x, y

\* The range of an int.
LEMMA IntRange == INT32_MAX \in Nat /\ INT32_MAX < Word
BY TimerAssumption DEF INT32_MAX

\* A call of schedule_timer that has not reached its critical section.
LEMMA CallFields ==
    ASSUME NEW n
    PROVE  /\ [NoCall EXCEPT !.op = "schedule", !.node = n].op = "schedule"
           /\ [NoCall EXCEPT !.op = "schedule", !.node = n].node = n
           /\ NoCall.op = "none" /\ NoCall.node = NULL
BY DEF NoCall

\* A call of deschedule_timer that is through with prq_remove.
LEMMA LaterCallFields ==
    ASSUME NEW n
    PROVE  /\ [NoCall EXCEPT !.op = "free", !.node = n].op = "free"
           /\ [NoCall EXCEPT !.op = "free", !.node = n].node = n
           /\ [NoCall EXCEPT !.op = "rearm", !.end = n].op = "rearm"
           /\ [NoCall EXCEPT !.op = "rearm", !.end = n].node = NULL
           /\ [NoCall EXCEPT !.op = "rearm", !.end = n].end = n
BY DEF NoCall

\* What the thread is in.
LEMMA CallCases ==
    ASSUME InProgress
    PROVE  /\ call.op \in {"none", "schedule", "free", "rearm"}
           /\ call.node \in Node \cup {NULL}
           /\ call.op = "none" => call = NoCall
           /\ call.op \in {"none", "rearm"} => call.node = NULL
           /\ call.op \in {"schedule", "free"} => call.node \in Node
           /\ call.op = "rearm" => call.end \in Node \cup {NULL}
<1>1. CASE call = NoCall
  BY <1>1, CallFields
<1>2. ASSUME NEW n \in Node, call = [NoCall EXCEPT !.op = "schedule", !.node = n]
      PROVE  call.op = "schedule" /\ call.node = n
  BY <1>2, CallFields
<1>3. ASSUME NEW n \in Node, call = [NoCall EXCEPT !.op = "free", !.node = n]
      PROVE  call.op = "free" /\ call.node = n
  BY <1>3, LaterCallFields
<1>4. ASSUME NEW m \in Node \cup {NULL}, call = [NoCall EXCEPT !.op = "rearm", !.end = m]
      PROVE  call.op = "rearm" /\ call.node = NULL /\ call.end = m
  BY <1>4, LaterCallFields
<1> QED BY <1>1, <1>2, <1>3, <1>4 DEF InProgress

-----------------------------------------------------------------------------
(* The invariant holds at first and implies the properties.                *)

\* bcm2836_timer_init
LEMMA InitTimerInv == Init => TimerInv
<1> SUFFICES ASSUME Init PROVE TimerInv
  OBVIOUS
<1> DEFINE k == DEFAULT_COUNT
           r == prq_create_fixed(k)
<1>1. k \in Nat \ {0} /\ MaxCount \in Nat /\ Word \in Nat \ {0, 1} /\ INT32_MAX \in Nat
  BY TimerAssumption, IntRange
<1>2. q = r
  BY DEF Init
<1>3. /\ r = [heap |-> r.heap, count |-> r.count, size |-> r.size,
              index |-> r.index, priority |-> r.priority]
      /\ r.heap = [i \in 0 .. k |-> NULL] /\ r.count = 0 /\ r.size = k + 1
      /\ r.index = [n \in Node |-> 0] /\ r.priority = [n \in Node |-> 0]
  BY DEF prq_create_fixed
<1> HIDE DEF r
<1>4. QueueOK(r)
  <2>1. 0 .. r.size - 1 = 0 .. k /\ 0 \in -1 .. r.size
    BY <1>1, <1>3
  <2>2. r.heap \in [0 .. r.size - 1 -> Node \cup {NULL}] /\ r.index \in [Node -> -1 .. r.size]
    BY <1>3, <2>1
  <2>3. r.priority \in [Node -> Int] /\ 1 .. r.count = {} /\ 2 .. r.count = {}
    BY <1>3
  <2>4. r.count \in Nat /\ r.size \in Nat /\ r.count < r.size /\ r.count + 1 < r.size
    BY <1>1, <1>3
  <2> QED BY <1>3, <2>2, <2>3, <2>4 DEF QueueOK, WellFormed
<1>5. Members(q) = {}
  BY <1>2, <1>3 DEF Members
<1>6. Typed
  <2>1. 0 \in Counts /\ 0 \in 0 .. Word - 1 /\ 0 \in 0 .. MaxCount /\ 0 \in 0 .. INT32_MAX
    BY <1>1 DEF Counts
  <2>2. q.priority \in [Node -> 0 .. INT32_MAX] /\ due \in [Node -> Int]
    BY <1>2, <1>3, <2>1 DEF Init
  <2>3. data \in [Node -> [scheduled_count : Counts, periodic_delay : 0 .. Word - 1]]
    BY <2>1 DEF Init, NoData
  <2>4. irq \in [active : BOOLEAN, current_count : 0 .. MaxCount, timer : Node \cup {NULL}]
    BY <2>1 DEF Init, NoIrq
  <2> QED BY <2>1, <2>2, <2>3, <2>4 DEF Typed, Init
<1>7. /\ irq.timer = NULL /\ call = NoCall /\ call.node = NULL /\ call.op = "none"
      /\ allocated = {} /\ ~irq.active
  BY DEF Init, NoIrq, NoCall
<1>8. NULL \notin {}
  OBVIOUS
<1>9. LosesWords
  <2>1. (0 - 0) % Word = 0
    BY <1>1
  <2>2. \A n \in Node : due[n] = 0 /\ data[n].scheduled_count = 0
    BY DEF Init, NoData
  <2>3. \A x, y : x = 0 /\ y = 0 => x >= y /\ (x - y) % Word = 0
    BY <2>1
  <2> QED BY <2>2, <2>3 DEF LosesWords
<1> QED BY <1>2, <1>4, <1>5, <1>6, <1>7, <1>9
        DEF TimerInv, InProgress, Fits, Accounted, Aged, WasDue, MaskedWhenEmpty, Armed, Peeked

\* The invariant says that nothing is lost or leaked.
LEMMA InvTimersSound == TimerInv => TypeOK /\ TimersAccounted
<1> SUFFICES ASSUME TimerInv PROVE TypeOK /\ TimersAccounted
  OBVIOUS
<1> USE DEF TimerInv
<1>1. Members(q) \subseteq Node /\ NULL \notin Node
  BY PeekIsLowest, NodeAssumption
<1>2. TypeOK
  <2>1. WellFormed(q) /\ q.count + 1 < q.size
    BY DEF QueueOK
  <2>2. q.size \in Nat /\ q.count \in 0 .. q.size - 2
    BY <2>1 DEF WellFormed
  <2>3. /\ call.op \in {"none", "schedule", "unlink", "shrink", "free", "rearm"}
        /\ call.node \in Node \cup {NULL}
    BY CallCases
  <2>4. irq.timer \in Node \cup {NULL}
    BY DEF Typed
  <2>5. allocated \subseteq Node
    BY <1>1, <2>3, <2>4 DEF Accounted
  <2> QED BY <2>1, <2>2, <2>3, <2>5 DEF TypeOK, WellFormed, Typed
<1>3. TimersAccounted
  <2> DEFINE places == <<Members(q), {irq.timer} \ {NULL}, {call.node} \ {NULL}>>
  <2>1. allocated = UNION {places[i] : i \in 1 .. 3}
    <3>1. {places[i] : i \in 1 .. 3} = {places[1], places[2], places[3]}
      BY 1 .. 3 = {1, 2, 3}
    <3> QED BY <3>1 DEF Accounted
  <2>2. \A i, j \in 1 .. 3 : i # j => places[i] \cap places[j] = {}
    <3>1. /\ places[1] \cap places[2] = {} /\ places[1] \cap places[3] = {}
          /\ places[2] \cap places[3] = {}
      BY <1>1 DEF Accounted
    <3> HIDE DEF places
    <3> QED BY <3>1
  <2>3. \A i, j \in 1 .. q.count : q.heap[i] = q.heap[j] => i = j
    BY Positions DEF QueueOK
  <2> QED BY <2>1, <2>2, <2>3 DEF TimersAccounted
<1> QED BY <1>2, <1>3

\* The compare value is that of the first timer, whose priority is the lowest and
\* not older than one period.
LEMMA InvServedInTime == TimerInv => LatenessBounded /\ NeverEarly
<1> SUFFICES ASSUME TimerInv PROVE LatenessBounded /\ NeverEarly
  OBVIOUS
<1> USE DEF TimerInv
<1>1. ASSUME ~irq.active, ~Pending, call.op \in {"none", "schedule"}, ~emptied,
             NEW n \in Members(q), data[n].scheduled_count <= cntpct
      PROVE  \E m \in Members(q) : cntpct < data[n].scheduled_count + data[m].periodic_delay
  <2> DEFINE m == prq_peek(q)
  <2>1. m \in Members(q) /\ q.priority[m] <= q.priority[n] /\ m \in Node /\ n \in Node
    BY PeekIsLowest
  <2>2. cntpct < data[m].scheduled_count
    <3>1. cntpct < cval
      BY <1>1 DEF Pending, MaskedWhenEmpty, Typed, Counts
    <3> QED BY <1>1, <3>1 DEF Armed
  <2> HIDE DEF m
  <2>3. /\ data[m].scheduled_count <= q.priority[m] + data[m].periodic_delay
        /\ q.priority[n] <= data[n].scheduled_count
    BY <2>1 DEF Aged
  <2>4. /\ data[m].scheduled_count \in Int /\ data[n].scheduled_count \in Int
        /\ data[m].periodic_delay \in Int
    BY <2>1 DEF Typed, Counts
  <2>5. q.priority[m] \in Int /\ q.priority[n] \in Int /\ cntpct \in Int
    BY <2>1 DEF Typed
  <2>6. cntpct < data[n].scheduled_count + data[m].periodic_delay
    BY ONLY <2>1, <2>2, <2>3, <2>4, <2>5
  <2> QED BY <2>1, <2>6
<1>2. NeverEarly
  <2>1. irq.timer # NULL => irq.timer \in Node
    BY DEF Typed
  <2>2. irq.timer # NULL => irq.current_count >= data[irq.timer].scheduled_count
    BY <2>1 DEF WasDue, Typed, Counts
  <2> QED BY <2>1, <2>2 DEF NeverEarly, LosesWords
<1>3. LatenessBounded
  BY <1>1 DEF LatenessBounded
<1> QED BY <1>2, <1>3

-----------------------------------------------------------------------------
(* Steps that leave the queue alone.                                       *)

\* What the invariant says of the nodes.
LEMMA Places ==
    ASSUME TimerInv
    PROVE  /\ Members(q) \subseteq Node /\ NULL \notin Node /\ Members(q) \subseteq allocated
           /\ irq.timer \in Node \cup {NULL} /\ call.node \in Node \cup {NULL}
           /\ irq.timer # NULL => irq.timer \in allocated
           /\ call.node # NULL => call.node \in allocated
           /\ Members(q) # {} => prq_peek(q) \in Members(q)
           /\ prq_peek(q) = NULL <=> Members(q) = {}
<1> USE DEF TimerInv
<1>1. Members(q) \subseteq Node /\ NULL \notin Node
  BY PeekIsLowest, NodeAssumption
<1>2. irq.timer \in Node \cup {NULL}
  BY DEF Typed
<1>3. call.node \in Node \cup {NULL}
  BY CallCases
<1>4. /\ Members(q) # {} => prq_peek(q) \in Members(q)
      /\ prq_peek(q) = NULL <=> Members(q) = {}
  BY PeekIsLowest
<1> QED BY <1>1, <1>2, <1>3, <1>4 DEF Accounted

\* The same state, but for the counter, the status, and a call.
LEMMA TickInv == TimerInv /\ Tick => TimerInv'
<1> SUFFICES ASSUME TimerInv, Tick PROVE TimerInv'
  OBVIOUS
<1> USE DEF TimerInv
<1>1. UNCHANGED <<q, data, allocated, cval, masked, irq, call, status, due, emptied>>
  BY DEF Tick, clockvars, ghosts
<1>2. cntpct' \in 0 .. MaxCount
  BY TimerAssumption DEF Tick, Typed
<1>3. Typed'
  BY <1>1, <1>2 DEF Typed, Counts
<1>4. /\ QueueOK(q)' /\ InProgress' /\ Fits' /\ Accounted' /\ Aged' /\ WasDue' /\ MaskedWhenEmpty'
      /\ Armed' /\ Peeked' /\ LosesWords'
  BY <1>1 DEF InProgress, Fits, Accounted, Aged, WasDue, MaskedWhenEmpty, Armed, Peeked, LosesWords
<1> QED BY <1>3, <1>4

\* An assertion fails.
LEMMA StopsInv ==
    ASSUME TimerInv, status' \in {"rejected", "panic"},
           UNCHANGED <<q, data, allocated, cntpct, clockvars, irq, call, due, ghosts>>
    PROVE  TimerInv'
<1> USE DEF TimerInv
<1>1. UNCHANGED <<q, data, allocated, cntpct, cval, masked, irq, call, due, emptied>>
  BY DEF clockvars, ghosts
<1>2. Typed'
  BY <1>1 DEF Typed, Counts
<1>3. /\ QueueOK(q)' /\ InProgress' /\ Fits' /\ Accounted' /\ Aged' /\ WasDue' /\ MaskedWhenEmpty'
      /\ Armed' /\ Peeked' /\ LosesWords'
  BY <1>1 DEF InProgress, Fits, Accounted, Aged, WasDue, MaskedWhenEmpty, Armed, Peeked, LosesWords
<1> QED BY <1>2, <1>3

\* Nothing happens.
LEMMA StutterTimer == TimerInv /\ UNCHANGED vars => TimerInv'
<1> SUFFICES ASSUME TimerInv, UNCHANGED vars PROVE TimerInv'
  OBVIOUS
<1> USE DEF TimerInv
<1>1. UNCHANGED <<q, data, allocated, cntpct, cval, masked, irq, call, status, due, emptied>>
  BY DEF vars, clockvars, ghosts
<1>2. /\ Typed' /\ QueueOK(q)' /\ InProgress' /\ Fits' /\ Accounted' /\ Aged' /\ WasDue'
      /\ MaskedWhenEmpty' /\ Armed' /\ Peeked' /\ LosesWords'
  BY <1>1 DEF Typed, Counts, InProgress, Fits, Accounted, Aged, WasDue, MaskedWhenEmpty,
              Armed, Peeked, LosesWords
<1> QED BY <1>2

\* A new timer in memory, which no place holds yet.
NewData(n) ==
    /\ n \in Node /\ n \notin allocated
    /\ allocated' = allocated \cup {n}
    /\ data' \in [Node -> [scheduled_count : Counts, periodic_delay : 0 .. Word - 1]]
    /\ due' \in [Node -> Int]
    /\ \A m \in Node : m # n => data'[m] = data[m]
    /\ data'[n].scheduled_count \in 0 .. INT32_MAX
    /\ LosesWords'

\* What schedule_timer writes up to its critical section.
LEMMA NewTimerData ==
    ASSUME TimerInv, NEW n \in Node, NEW d \in Delay, NEW p \in BOOLEAN, NewTimer(n, d, p)
    PROVE  NewData(n)
<1> DEFINE sc == cntpct + count_offset(d)
           pd == IF p THEN count_offset(d) ELSE 0
           du == cntpct + TicksPerMs * d
           R == [scheduled_count : Counts, periodic_delay : 0 .. Word - 1]
<1>1. /\ count_offset(d) \in 0 .. Word - 1 /\ count_offset(d) \in Nat /\ cntpct \in Nat
      /\ cntpct \in 0 .. MaxCount /\ du \in Int /\ du >= sc /\ (du - sc) % Word = 0
  BY Offsets DEF TimerInv, Typed
<1>2. Word \in Nat \ {0, 1} /\ MaxCount \in Nat /\ INT32_MAX \in Nat
  BY TimerAssumption, IntRange
<1>3. sc \in Counts /\ pd \in 0 .. Word - 1 /\ sc \in Nat
  BY <1>1, <1>2 DEF Counts
<1>4. sc <= INT32_MAX
  BY DEF NewTimer, Representable
<1>5. /\ n \notin allocated /\ allocated' = allocated \cup {n}
      /\ data' = [data EXCEPT ![n] = [scheduled_count |-> sc, periodic_delay |-> pd]]
      /\ due' = [due EXCEPT ![n] = du]
  BY DEF NewTimer
<1>6. data \in [Node -> R] /\ due \in [Node -> Int]
  BY DEF TimerInv, Typed
<1>11. du \in Int
  BY <1>1
<1> HIDE DEF sc, pd, du
<1>7. [scheduled_count |-> sc, periodic_delay |-> pd] \in R
  BY <1>3
<1> HIDE DEF R
<1>8. /\ data' \in [Node -> R] /\ due' \in [Node -> Int]
      /\ \A m \in Node : m # n => data'[m] = data[m] /\ due'[m] = due[m]
      /\ data'[n].scheduled_count = sc /\ due'[n] = du
  BY <1>5, <1>6, <1>7, <1>11
<1>9. sc \in 0 .. INT32_MAX
  BY <1>2, <1>3, <1>4
<1>10. LosesWords'
  <2>1. ASSUME NEW m \in Node
        PROVE  /\ due'[m] >= data'[m].scheduled_count
               /\ (due'[m] - data'[m].scheduled_count) % Word = 0
    <3>1. CASE m = n
      BY <1>1, <1>8, <3>1
    <3>2. CASE m # n
      BY <1>8, <3>2 DEF TimerInv, LosesWords
    <3> QED BY <3>1, <3>2
  <2> QED BY <2>1 DEF LosesWords
<1> QED BY <1>5, <1>8, <1>9, <1>10 DEF NewData, R

\* The thread enters schedule_timer.
LEMMA ScheduleBeginsInv ==
    ASSUME TimerInv, NEW n \in Node, NEW d \in Delay, NEW p \in BOOLEAN, ScheduleBegins(n, d, p)
    PROVE  TimerInv'
<1> USE DEF TimerInv
<1>1. /\ UNCHANGED <<q, cntpct, cval, masked, irq, status, emptied>> /\ call = NoCall /\ ~irq.active
      /\ call' = [NoCall EXCEPT !.op = "schedule", !.node = n]
  BY DEF ScheduleBegins, clockvars, ghosts, ThreadIdle
<1>2. NewData(n)
  BY NewTimerData DEF ScheduleBegins
<1>3. /\ call.node = NULL /\ call.op = "none" /\ irq.timer = NULL
      /\ call'.node = n /\ call'.op = "schedule"
  BY <1>1, CallFields DEF InProgress
<1>4. /\ Members(q) \subseteq Node /\ NULL \notin Node /\ Members(q) \subseteq allocated
      /\ (Members(q) # {} => prq_peek(q) \in Members(q))
  BY Places
<1>5. \A m \in Members(q) : data'[m] = data[m]
  BY <1>2, <1>4 DEF NewData
<1>6. Typed'
  BY <1>1, <1>2 DEF Typed, Counts, NewData
<1>7. InProgress' /\ Fits'
  BY <1>1, <1>2, <1>3 DEF InProgress, Fits, NewData
<1>8. Accounted'
  BY <1>1, <1>2, <1>3, <1>4 DEF Accounted, NewData
<1>9. Aged'
  BY <1>1, <1>5 DEF Aged
<1>10. WasDue' /\ MaskedWhenEmpty'
  BY <1>1, <1>3 DEF WasDue, MaskedWhenEmpty
<1>11. Armed' /\ Peeked'
  BY <1>1, <1>3, <1>4, <1>5 DEF Armed, Peeked
<1> QED BY <1>1, <1>2, <1>6, <1>7, <1>8, <1>9, <1>10, <1>11 DEF NewData

\* The interrupt handler begins: no callback runs yet.
LEMMA InterruptArrivesInv == TimerInv /\ InterruptArrives /\ ~preempted' => TimerInv'
<1> SUFFICES ASSUME TimerInv, InterruptArrives, ~preempted' PROVE TimerInv'
  OBVIOUS
<1> USE DEF TimerInv
<1>1. /\ UNCHANGED <<q, data, allocated, cntpct, cval, masked, call, status, due, emptied>>
      /\ call.op # "rearm"
  BY DEF InterruptArrives, clockvars, Unprotected
<1>2. irq' = [active |-> TRUE, current_count |-> cntpct, timer |-> NULL]
  BY DEF InterruptArrives, NoIrq
<1>3. irq.timer = NULL /\ irq'.timer = NULL /\ irq'.active
  <2>1. ~irq.active
    BY DEF InterruptArrives
  <2>2. irq.timer = NULL
    BY <2>1, Zenon DEF InProgress
  <2> QED BY <1>2, <2>2
<1>4. Typed'
  BY <1>1, <1>2 DEF Typed, Counts
<1>5. InProgress' /\ Accounted' /\ WasDue' /\ MaskedWhenEmpty' /\ Armed' /\ Peeked'
  BY <1>1, <1>3 DEF InProgress, Accounted, WasDue, MaskedWhenEmpty, Armed, Peeked
<1>6. QueueOK(q)' /\ Aged' /\ Fits' /\ LosesWords'
  BY <1>1 DEF Aged, Fits, LosesWords
<1> QED BY <1>4, <1>5, <1>6

\* The handler has served what is due, and sets the compare value again.
LEMMA InterruptReturnsInv == TimerInv /\ InterruptReturns => TimerInv'
<1> SUFFICES ASSUME TimerInv, InterruptReturns PROVE TimerInv'
  OBVIOUS
<1> USE DEF TimerInv
<1>1. /\ UNCHANGED <<q, data, allocated, cntpct, call, status, due, emptied>>
      /\ irq.timer = NULL /\ irq.active
  BY DEF InterruptReturns, InLoop, ghosts
<1>2. irq' = NoIrq /\ irq'.timer = NULL /\ irq'.active = FALSE
  BY DEF InterruptReturns, NoIrq
<1>3. IF Members(q) = {} THEN masked' = TRUE /\ cval' = cval
      ELSE cval' = data[prq_peek(q)].scheduled_count /\ masked' = masked
  BY <1>1, Places DEF InterruptReturns, Rearm
<1>4. Typed'
  <2>1. irq' \in [active : BOOLEAN, current_count : 0 .. MaxCount, timer : Node \cup {NULL}]
    BY <1>2, TimerAssumption DEF NoIrq
  <2>2. cval' \in Counts /\ masked' \in BOOLEAN
    <3>1. Members(q) # {} => prq_peek(q) \in Node
      BY Places
    <3>2. cval \in Counts /\ masked \in BOOLEAN
      BY DEF Typed
    <3>3. \A n \in Node : data[n].scheduled_count \in Counts
      BY DEF Typed
    <3> HIDE DEF TimerInv
    <3> QED BY <1>3, <3>1, <3>2, <3>3
  <2> QED BY <1>1, <2>1, <2>2 DEF Typed, Counts
<1>5. InProgress' /\ Accounted' /\ WasDue'
  BY <1>1, <1>2 DEF InProgress, Accounted, WasDue
<1>6. MaskedWhenEmpty' /\ Armed' /\ Peeked'
  BY <1>1, <1>2, <1>3 DEF MaskedWhenEmpty, Armed, Peeked
<1>7. QueueOK(q)' /\ Aged' /\ Fits' /\ LosesWords'
  BY <1>1 DEF Aged, Fits, LosesWords
<1> QED BY <1>4, <1>5, <1>6, <1>7

\* What kfree leaves of the timer n.
Freed(n) ==
    /\ data' \in [Node -> [scheduled_count : Counts, periodic_delay : 0 .. Word - 1]]
    /\ data'[n] = NoData /\ \A m \in Node : m # n => data'[m] = data[m]
    /\ due' \in [Node -> Int]
    /\ LosesWords'

\* A freed timer loses no words.
LEMMA FreeFacts ==
    ASSUME Typed, LosesWords, NEW n \in Node,
           data' = [data EXCEPT ![n] = NoData], due' = [due EXCEPT ![n] = 0]
    PROVE  Freed(n)
<1>1. NoData \in [scheduled_count : Counts, periodic_delay : 0 .. Word - 1]
  BY TimerAssumption DEF NoData, Counts
<1>2. /\ data' \in [Node -> [scheduled_count : Counts, periodic_delay : 0 .. Word - 1]]
      /\ data'[n] = NoData /\ \A m \in Node : m # n => data'[m] = data[m]
  BY <1>1 DEF Typed
<1>3. due' \in [Node -> Int] /\ due'[n] = 0 /\ \A m \in Node : m # n => due'[m] = due[m]
  <2>1. due \in [Node -> Int] /\ due' = [due EXCEPT ![n] = 0] /\ 0 \in Int
    BY DEF Typed
  <2> QED BY ONLY <2>1, n \in Node
<1>4. ASSUME NEW m \in Node
      PROVE  /\ due'[m] >= data'[m].scheduled_count
             /\ (due'[m] - data'[m].scheduled_count) % Word = 0
  <2>1. CASE m = n
    <3>1. due'[m] = 0 /\ data'[m].scheduled_count = 0
      BY <1>2, <1>3, <2>1 DEF NoData
    <3>2. \A x, y : x = 0 /\ y = 0 => x >= y /\ (x - y) % Word = 0
      BY TimerAssumption
    <3> QED BY <3>1, <3>2
  <2>2. CASE m # n
    BY <1>2, <1>3, <2>2 DEF LosesWords
  <2> QED BY <2>1, <2>2
<1> QED BY <1>2, <1>3, <1>4 DEF Freed, LosesWords

\* The callback of a timer that is not periodic returns, and it is freed.
LEMMA OneShotReturnsInv == TimerInv /\ OneShotReturns => TimerInv'
<1> SUFFICES ASSUME TimerInv, OneShotReturns PROVE TimerInv'
  OBVIOUS
<1> USE DEF TimerInv
<1> DEFINE n == irq.timer
<1>1. /\ UNCHANGED <<q, cntpct, cval, masked, call, status, emptied>> /\ n # NULL
      /\ irq' = [irq EXCEPT !.timer = NULL] /\ allocated' = allocated \ {n}
      /\ data' = [data EXCEPT ![n] = NoData] /\ due' = [due EXCEPT ![n] = 0]
  BY DEF OneShotReturns, clockvars, ghosts, Free, InCallback
<1>2. /\ Members(q) \subseteq Node /\ NULL \notin Node /\ n \in Node
      /\ (Members(q) # {} => prq_peek(q) \in Members(q))
      /\ n \notin Members(q)
  BY <1>1, Places DEF Accounted
<1>3. irq'.timer = NULL /\ irq'.active = irq.active /\ irq'.current_count = irq.current_count
  BY <1>1 DEF Typed
<1>4. irq.active
  BY <1>1 DEF InProgress
<1>5. \A m \in Members(q) : data'[m] = data[m]
  BY <1>1, <1>2 DEF Typed
<1> HIDE DEF n
<1>6. Typed'
  <2>1. NoData \in [scheduled_count : Counts, periodic_delay : 0 .. Word - 1]
    BY TimerAssumption DEF NoData, Counts
  <2>2. data' \in [Node -> [scheduled_count : Counts, periodic_delay : 0 .. Word - 1]]
    BY <1>1, <2>1 DEF Typed
  <2>3. due' \in [Node -> Int]
    <3>1. due \in [Node -> Int] /\ due' = [due EXCEPT ![n] = 0] /\ 0 \in Int
      BY <1>1 DEF Typed
    <3> QED BY ONLY <3>1
  <2>4. irq' \in [active : BOOLEAN, current_count : 0 .. MaxCount, timer : Node \cup {NULL}]
    BY <1>1 DEF Typed
  <2> QED BY <1>1, <2>2, <2>3, <2>4 DEF Typed, Counts
<1>7. InProgress'
  BY <1>1, <1>3 DEF InProgress
<1>13. call.node # n /\ n # NULL /\ call.node \in Node \cup {NULL}
  BY <1>1, <1>2, Places DEF Accounted, n
<1>14. Fits'
  <2>1. call.node # NULL => data'[call.node] = data[call.node]
    BY <1>1, <1>13 DEF Typed
  <2>2. call.op = "schedule" => call.node # NULL
    BY <1>2, CallCases
  <2> QED BY <1>1, <2>1, <2>2 DEF Fits
<1>8. Accounted'
  BY <1>1, <1>2, <1>3, <1>13 DEF Accounted, n
<1>9. Aged'
  BY <1>1, <1>5 DEF Aged
<1>10. WasDue' /\ MaskedWhenEmpty'
  BY <1>1, <1>3 DEF WasDue, MaskedWhenEmpty
<1>11. Armed' /\ Peeked'
  <2>1. irq'.active
    BY <1>3, <1>4, Zenon
  <2> QED BY <1>1, <1>4, <2>1 DEF Armed, Peeked
<1>12. LosesWords'
  <2>1. ASSUME NEW m \in Node
        PROVE  /\ due'[m] >= data'[m].scheduled_count
               /\ (due'[m] - data'[m].scheduled_count) % Word = 0
    <3>1. CASE m = n
      <4>1. due'[m] = 0 /\ data'[m].scheduled_count = 0
        BY <1>1, <3>1 DEF Typed, NoData
      <4>2. \A x, y : x = 0 /\ y = 0 => x >= y /\ (x - y) % Word = 0
        BY TimerAssumption
      <4> QED BY <4>1, <4>2
    <3>2. CASE m # n
      <4>1. due'[m] = due[m] /\ data'[m] = data[m]
        BY <1>1, <3>2 DEF Typed
      <4> QED BY <4>1 DEF LosesWords
    <3> QED BY <3>1, <3>2
  <2> QED BY <2>1 DEF LosesWords
<1> QED BY <1>1, <1>6, <1>7, <1>8, <1>9, <1>10, <1>11, <1>12, <1>14

-----------------------------------------------------------------------------
(* Steps that change the queue.                                            *)

\* q' is a queue in order with one node more.
Adds(n, p) ==
    /\ QueueOK(q') /\ Members(q') = Members(q) \cup {n}
    /\ q'.priority \in [Node -> 0 .. INT32_MAX] /\ q'.priority[n] = p
    /\ \A m \in Node : m # n => q'.priority[m] = q.priority[m]

\* prq_enqueue in the driver.
LEMMA DriverEnqueues ==
    ASSUME QueueOK(q), q.priority \in [Node -> 0 .. INT32_MAX],
           NEW n \in Node, n \notin Members(q), NEW p \in 0 .. INT32_MAX, q' = Enqueued(q, n, p)
    PROVE  Adds(n, p)
<1>1. p \in Int
  OBVIOUS
<1>2. /\ QueueOK(q') /\ Members(q') = Members(q) \cup {n}
      /\ q'.priority = [q.priority EXCEPT ![n] = p]
  BY <1>1, EnqueueAdds
<1> QED BY <1>2 DEF Adds

\* The critical section of schedule_timer: the timer is queued, the compare value is
\* that of the first one, the interrupt is not masked.
Scheduled(n) ==
    /\ Adds(n, data'[n].scheduled_count)
    /\ cval' = data'[prq_peek(q')].scheduled_count /\ cval' \in Counts
    /\ masked' = FALSE /\ emptied' = FALSE
    /\ q'.priority[n] = data'[n].scheduled_count
    /\ data'[n].scheduled_count <= q'.priority[n] + data'[n].periodic_delay

\* What the critical section leaves, if the data have their types.
LEMMA SectionSchedules ==
    ASSUME TimerInv, NEW n \in Node, n \notin Members(q), CriticalSection(n),
           data' \in [Node -> [scheduled_count : Counts, periodic_delay : 0 .. Word - 1]],
           data'[n].scheduled_count \in 0 .. INT32_MAX
    PROVE  Scheduled(n)
<1> DEFINE p == data'[n].scheduled_count
<1>1. /\ q' = Enqueued(q, n, p) /\ cval' = data'[prq_peek(q')].scheduled_count
      /\ masked' = FALSE /\ emptied' = FALSE
  BY DEF CriticalSection
<1>2. p \in 0 .. INT32_MAX /\ data'[n].periodic_delay \in Nat
  BY TimerAssumption
<1>3. data'[n].scheduled_count = p
  OBVIOUS
<1> HIDE DEF p
<1>4. Adds(n, p)
  BY <1>1, <1>2, DriverEnqueues DEF TimerInv, Typed
<1>5. prq_peek(q') \in Node
  <2>1. QueueOK(q') /\ Members(q') # {}
    BY <1>4 DEF Adds
  <2> QED BY <2>1, PeekIsLowest
<1>6. cval' \in Counts
  BY <1>1, <1>5
<1>7. q'.priority[n] = p
  BY <1>4 DEF Adds
<1>8. p \in Int
  BY <1>2
<1>9. p <= q'.priority[n] + data'[n].periodic_delay
  BY ONLY <1>2, <1>7, <1>8
<1> QED BY <1>1, <1>3, <1>4, <1>6, <1>7, <1>9 DEF Scheduled

\* The new timer is as old as its priority, and the others are as before.
LEMMA ScheduledAged ==
    ASSUME TimerInv, NEW n \in Node, Scheduled(n), n \notin Members(q),
           \A m \in Node : m # n => data'[m] = data[m],
           data'[n].scheduled_count \in 0 .. INT32_MAX
    PROVE  Aged' /\ QueueOK(q)' /\ MaskedWhenEmpty' /\ Armed'
<1>1. ASSUME NEW m \in Members(q')
      PROVE  /\ q'.priority[m] <= data'[m].scheduled_count
             /\ data'[m].scheduled_count <= q'.priority[m] + data'[m].periodic_delay
  <2>1. CASE m = n
    <3>1. \A x \in Int : x <= x
      OBVIOUS
    <3> QED BY <2>1, <3>1 DEF Scheduled
  <2>2. CASE m # n
    <3>1. m \in Members(q) /\ m \in Node
      BY <2>2, Places DEF Scheduled, Adds
    <3>2. q'.priority[m] = q.priority[m] /\ data'[m] = data[m]
      BY <2>2, <3>1 DEF Scheduled, Adds
    <3> QED BY <3>1, <3>2 DEF TimerInv, Aged
  <2> QED BY <2>1, <2>2
<1>2. QueueOK(q)' /\ MaskedWhenEmpty' /\ Armed'
  BY DEF Scheduled, Adds, MaskedWhenEmpty, Armed
<1> QED BY <1>1, <1>2 DEF Aged

\* The thread goes through the critical section.
LEMMA ScheduleReturnsInv == TimerInv /\ ScheduleReturns => TimerInv'
<1> SUFFICES ASSUME TimerInv, ScheduleReturns PROVE TimerInv'
  OBVIOUS
<1> USE DEF TimerInv
<1>1. /\ UNCHANGED <<data, allocated, cntpct, irq, status, due>> /\ call' = NoCall
      /\ call.op = "schedule" /\ ~irq.active /\ CriticalSection(call.node)
  BY DEF ScheduleReturns
<1>2. PICK n \in Node : n = call.node
  BY <1>1, CallCases
<1>3. call.node = n /\ call'.node = NULL /\ call'.op = "none"
  BY <1>1, <1>2, CallFields
<1>4. n \notin Members(q) /\ irq.timer = NULL /\ NULL \notin Node
  BY <1>1, <1>3, NodeAssumption DEF Accounted, InProgress
<1>5. data'[n] = data[n] /\ data'[n].scheduled_count \in 0 .. INT32_MAX
  BY <1>1, <1>3, <1>4 DEF Fits
<1>6. data' \in [Node -> [scheduled_count : Counts, periodic_delay : 0 .. Word - 1]]
  BY <1>1 DEF Typed
<1>7. Scheduled(n)
  BY <1>1, <1>3, <1>4, <1>5, <1>6, SectionSchedules
<1>8. Aged' /\ QueueOK(q)' /\ MaskedWhenEmpty' /\ Armed'
  BY <1>1, <1>4, <1>5, <1>7, ScheduledAged
<1>9. Typed'
  BY <1>1, <1>7 DEF Typed, Counts, Scheduled, Adds
<1>10. InProgress' /\ WasDue' /\ LosesWords'
  BY <1>1 DEF InProgress, WasDue, LosesWords
<1>11. Accounted'
  BY <1>1, <1>3, <1>4, <1>7 DEF Accounted, Scheduled, Adds
<1>12. Fits' /\ Peeked'
  BY <1>3 DEF Fits, Peeked
<1> QED BY <1>8, <1>9, <1>10, <1>11, <1>12

\* A callback goes through schedule_timer.
LEMMA CallbackSchedulesInv ==
    ASSUME TimerInv, NEW n \in Node, NEW d \in Delay, NEW p \in BOOLEAN, CallbackSchedules(n, d, p)
    PROVE  TimerInv'
<1> USE DEF TimerInv
<1>1. /\ UNCHANGED <<cntpct, irq, call, status>> /\ CriticalSection(n) /\ irq.timer # NULL
      /\ NewTimer(n, d, p) /\ irq.active
  BY DEF CallbackSchedules, InCallback, InProgress
<1>2. NewData(n)
  BY <1>1, NewTimerData
<1>3. /\ n \notin Members(q) /\ n # irq.timer /\ n # call.node /\ n # NULL
      /\ irq.timer \in Node /\ call.node \in Node \cup {NULL} /\ Members(q) \subseteq Node
  BY <1>1, <1>2, Places DEF NewData
<1>4. /\ data' \in [Node -> [scheduled_count : Counts, periodic_delay : 0 .. Word - 1]]
      /\ data'[n].scheduled_count \in 0 .. INT32_MAX
      /\ \A m \in Node : m # n => data'[m] = data[m]
      /\ allocated' = allocated \cup {n} /\ due' \in [Node -> Int] /\ LosesWords'
  BY <1>2 DEF NewData
<1>5. Scheduled(n)
  BY <1>1, <1>3, <1>4, SectionSchedules
<1>6. Aged' /\ QueueOK(q)' /\ MaskedWhenEmpty' /\ Armed'
  BY <1>3, <1>4, <1>5, ScheduledAged
<1>7. Typed'
  BY <1>1, <1>4, <1>5 DEF Typed, Counts, Scheduled, Adds
<1>8. InProgress' /\ WasDue' /\ Fits' /\ Peeked'
  <2>1. call.op = "schedule" => call.node \in Node
    BY CallCases
  <2> QED BY <1>1, <1>3, <1>4, <2>1 DEF InProgress, WasDue, Fits, Peeked
<1>9. Accounted'
  BY <1>1, <1>3, <1>4, <1>5 DEF Accounted, Scheduled, Adds
<1> QED BY <1>4, <1>6, <1>7, <1>8, <1>9

\* A callback begins: its timer leaves the queue.
LEMMA CallbackBeginsInv == TimerInv /\ CallbackBegins => TimerInv'
<1> SUFFICES ASSUME TimerInv, CallbackBegins PROVE TimerInv'
  OBVIOUS
<1> USE DEF TimerInv
<1> DEFINE n == prq_peek(q)
<1>1. /\ UNCHANGED <<data, allocated, cntpct, cval, masked, call, status, due, emptied>>
      /\ irq.timer = NULL /\ irq.active = TRUE /\ q' = Dequeued(q)
      /\ irq' = [irq EXCEPT !.timer = n]
      /\ n # NULL /\ data[n].scheduled_count <= irq.current_count
  BY DEF CallbackBegins, clockvars, ghosts, InLoop, FirstIsDue, Typed
<1>2. n \in Members(q) /\ n \in Node /\ Members(q) # {} /\ NULL \notin Node
  BY <1>1, Places
<1>3. QueueOK(q') /\ Members(q') = Members(q) \ {n} /\ q'.priority = q.priority
  BY <1>1, <1>2, DequeueTakes
<1> HIDE DEF n
<1>4. /\ irq'.timer = n /\ irq'.active = TRUE /\ irq'.current_count = irq.current_count
      /\ irq' \in [active : BOOLEAN, current_count : 0 .. MaxCount, timer : Node \cup {NULL}]
  BY <1>1, <1>2 DEF Typed
<1>5. Typed'
  BY <1>1, <1>3, <1>4 DEF Typed, Counts
<1>6. InProgress' /\ WasDue' /\ Fits' /\ LosesWords'
  BY <1>1, <1>4 DEF InProgress, WasDue, Fits, LosesWords
<1>7. Accounted'
  BY <1>1, <1>2, <1>3, <1>4 DEF Accounted
<1>8. Aged'
  BY <1>1, <1>3 DEF Aged
<1>9. MaskedWhenEmpty'
  BY <1>1, <1>2 DEF MaskedWhenEmpty
<1>10. Armed' /\ Peeked'
  BY <1>1, <1>4 DEF Armed, Peeked
<1> QED BY <1>3, <1>5, <1>6, <1>7, <1>8, <1>9, <1>10

\* The callback of a periodic timer returns, and the timer is queued again.
LEMMA PeriodicReturnsInv == TimerInv /\ PeriodicReturns => TimerInv'
<1> SUFFICES ASSUME TimerInv, PeriodicReturns PROVE TimerInv'
  OBVIOUS
<1> USE DEF TimerInv
<1> DEFINE n == irq.timer
           sc == data[n].scheduled_count
           pd == data[n].periodic_delay
           nx == sc + pd
           R == [scheduled_count : Counts, periodic_delay : 0 .. Word - 1]
<1>1. /\ UNCHANGED <<allocated, cntpct, cval, masked, call, status, emptied>>
      /\ n # NULL /\ pd # 0 /\ sc <= INT32_MAX
      /\ irq' = [irq EXCEPT !.timer = NULL]
      /\ data' = [data EXCEPT ![n].scheduled_count = nx]
      /\ due' = [due EXCEPT ![n] = nx] /\ q' = Enqueued(q, n, sc)
  BY DEF PeriodicReturns, clockvars, ghosts, InCallback
<1>2. /\ n \in Node /\ NULL \notin Node /\ n \notin Members(q) /\ n # call.node
      /\ Members(q) \subseteq Node /\ call.node \in Node \cup {NULL}
  BY <1>1, Places DEF Accounted
<1>3. /\ irq'.timer = NULL /\ irq'.active = irq.active
      /\ irq' \in [active : BOOLEAN, current_count : 0 .. MaxCount, timer : Node \cup {NULL}]
  BY <1>1 DEF Typed
<1>4. irq.active
  BY <1>1 DEF InProgress
<1>5. data \in [Node -> R] /\ due \in [Node -> Int]
  BY DEF Typed
<1>6. Word \in Nat \ {0, 1} /\ MaxCount \in Nat /\ INT32_MAX \in Nat
  BY TimerAssumption, IntRange
<1>7. sc \in Nat /\ pd \in 0 .. Word - 1 /\ sc <= MaxCount
  <2>1. data[n] \in R
    BY <1>2, <1>5
  <2>2. sc \in Nat /\ pd \in 0 .. Word - 1
    BY <1>6, <2>1 DEF Counts
  <2>3. sc <= irq.current_count /\ irq.current_count \in 0 .. MaxCount
    BY <1>1 DEF WasDue, Typed
  <2> HIDE DEF sc
  <2> QED BY <1>6, <2>2, <2>3
<1>8. data[n] = [scheduled_count |-> sc, periodic_delay |-> pd]
  BY <1>2, <1>5
<1> HIDE DEF n, sc, pd
<1>9. nx \in Counts /\ nx \in Int /\ sc \in 0 .. INT32_MAX
  BY <1>1, <1>6, <1>7 DEF Counts
<1> HIDE DEF nx
<1>10. [scheduled_count |-> nx, periodic_delay |-> pd] \in R
  BY <1>7, <1>9
<1>11. data' = [data EXCEPT ![n] = [scheduled_count |-> nx, periodic_delay |-> pd]]
  <2>1. data' = [data EXCEPT ![n] = [data[n] EXCEPT !.scheduled_count = nx]]
    BY <1>1
  <2>2. [data[n] EXCEPT !.scheduled_count = nx] = [scheduled_count |-> nx, periodic_delay |-> pd]
    BY <1>8
  <2> QED BY <2>1, <2>2
<1> HIDE DEF R
<1>12. /\ data' \in [Node -> R] /\ data'[n].scheduled_count = nx /\ data'[n].periodic_delay = pd
       /\ \A m \in Node : m # n => data'[m] = data[m]
  BY <1>2, <1>5, <1>10, <1>11
<1>13. due' \in [Node -> Int] /\ due'[n] = nx /\ \A m \in Node : m # n => due'[m] = due[m]
  BY <1>1, <1>2, <1>5, <1>9
<1>14. Adds(n, sc)
  BY <1>1, <1>2, <1>9, DriverEnqueues DEF Typed
<1>15. Typed'
  BY <1>1, <1>3, <1>12, <1>13, <1>14 DEF Typed, Counts, Adds, R
<1>16. InProgress' /\ WasDue'
  BY <1>1, <1>3 DEF InProgress, WasDue
<1>17. Fits'
  <2>1. call.op = "schedule" => call.node \in Node
    BY CallCases
  <2> QED BY <1>1, <1>2, <1>12, <2>1 DEF Fits
<1>18. Accounted'
  BY <1>1, <1>2, <1>3, <1>14 DEF Accounted, Adds, n
<1>19. Aged'
  <2>1. ASSUME NEW m \in Members(q')
        PROVE  /\ q'.priority[m] <= data'[m].scheduled_count
               /\ data'[m].scheduled_count <= q'.priority[m] + data'[m].periodic_delay
    <3>1. CASE m = n
      <4>1. q'.priority[m] = sc
        BY <1>14, <3>1 DEF Adds
      <4>2. sc <= nx /\ nx <= sc + pd
        BY <1>6, <1>7 DEF nx
      <4> QED BY <1>12, <3>1, <4>1, <4>2
    <3>2. CASE m # n
      <4>1. m \in Members(q) /\ m \in Node /\ q'.priority[m] = q.priority[m]
        BY <1>2, <1>14, <3>2 DEF Adds
      <4> QED BY <1>12, <3>2, <4>1 DEF Aged
    <3> QED BY <3>1, <3>2
  <2> QED BY <2>1 DEF Aged
<1>20. MaskedWhenEmpty'
  <2>1. masked => emptied
    BY <1>1 DEF MaskedWhenEmpty, n, pd
  <2> QED BY <1>1, <2>1 DEF MaskedWhenEmpty
<1>21. Armed' /\ Peeked'
  <2>1. irq'.active
    BY <1>3, <1>4, Zenon
  <2> QED BY <1>1, <1>4, <2>1 DEF Armed, Peeked
<1>22. LosesWords'
  <2>1. ASSUME NEW m \in Node
        PROVE  /\ due'[m] >= data'[m].scheduled_count
               /\ (due'[m] - data'[m].scheduled_count) % Word = 0
    <3>1. CASE m = n
      <4>1. \A x \in Int : x >= x /\ x - x = 0
        OBVIOUS
      <4>2. 0 % Word = 0
        BY <1>6
      <4> QED BY <1>9, <1>12, <1>13, <3>1, <4>1, <4>2
    <3>2. CASE m # n
      BY <1>12, <1>13, <3>2 DEF LosesWords
    <3> QED BY <3>1, <3>2
  <2> QED BY <2>1 DEF LosesWords
<1>23. QueueOK(q)'
  BY <1>14 DEF Adds
<1> QED BY <1>15, <1>16, <1>17, <1>18, <1>19, <1>20, <1>21, <1>22, <1>23

\* A callback deschedules a timer, which is freed; the compare value is set to the next.
LEMMA CallbackDeschedulesInv ==
    ASSUME TimerInv, NEW n \in Node, CallbackDeschedules(n)
    PROVE  TimerInv'
<1> USE DEF TimerInv
<1>1. /\ UNCHANGED <<cntpct, irq, call, status>> /\ n \in Members(q) /\ q' = Removed(q, n)
      /\ allocated' = allocated \ {n} /\ data' = [data EXCEPT ![n] = NoData]
      /\ due' = [due EXCEPT ![n] = 0] /\ irq.timer # NULL /\ irq.active
      /\ emptied' = (emptied \/ (Members(q) = {n} /\ data[irq.timer].periodic_delay # 0))
  BY DEF CallbackDeschedules, Free, InCallback, InProgress
<1>2. QueueOK(q') /\ Members(q') = Members(q) \ {n} /\ q'.priority = q.priority
  BY <1>1, RemoveTakes
<1>3. /\ Members(q) \subseteq Node /\ NULL \notin Node /\ n # irq.timer /\ n # call.node
      /\ irq.timer \in Node \cup {NULL} /\ call.node \in Node \cup {NULL}
  BY <1>1, Places DEF Accounted
<1>4. /\ prq_peek(q') = NULL <=> Members(q') = {}
      /\ Members(q') # {} => prq_peek(q') \in Members(q')
  BY <1>2, PeekIsLowest
<1>5. /\ Members(q') = {} => masked' = TRUE /\ cval' = cval
      /\ Members(q') # {} => cval' = data'[prq_peek(q')].scheduled_count /\ masked' = masked
  BY <1>4 DEF CallbackDeschedules, Rearm
<1>6. Freed(n)
  BY <1>1, FreeFacts
<1>7. /\ data' \in [Node -> [scheduled_count : Counts, periodic_delay : 0 .. Word - 1]]
      /\ data'[n] = NoData /\ \A m \in Node : m # n => data'[m] = data[m]
      /\ due' \in [Node -> Int]
  BY <1>6 DEF Freed
<1>9. Typed'
  <2>1. cval' \in Counts /\ masked' \in BOOLEAN
    <3>1. Members(q') # {} => prq_peek(q') \in Node
      BY <1>2, <1>3, <1>4
    <3>2. Members(q') # {} => cval' \in Counts
      BY <1>5, <1>7, <3>1
    <3>3. cval \in Counts /\ masked \in BOOLEAN
      BY DEF Typed
    <3> QED BY <1>5, <3>2, <3>3
  <2> QED BY <1>1, <1>2, <1>7, <2>1 DEF Typed, Counts
<1>10. InProgress'
  BY <1>1 DEF InProgress
<1>11. WasDue' /\ Fits'
  <2>1. call.op = "schedule" => call.node \in Node
    BY CallCases
  <2> QED BY <1>1, <1>3, <1>7, <2>1 DEF WasDue, Fits
<1>12. Accounted'
  BY <1>1, <1>2, <1>3 DEF Accounted
<1>13. Aged'
  BY <1>2, <1>3, <1>7 DEF Aged
<1>14. MaskedWhenEmpty'
  <2>1. masked => emptied
    BY <1>1 DEF MaskedWhenEmpty
  <2>2. Members(q') = {} => Members(q) = {n}
    BY <1>1, <1>2
  <2>3. data'[irq.timer] = data[irq.timer]
    BY <1>1, <1>3, <1>7
  <2> QED BY <1>1, <1>5, <2>1, <2>2, <2>3 DEF MaskedWhenEmpty
<1>15. Armed' /\ Peeked'
  BY <1>1 DEF Armed, Peeked
<1>16. LosesWords'
  BY <1>6 DEF Freed
<1> QED BY <1>2, <1>9, <1>10, <1>11, <1>12, <1>13, <1>14, <1>15, <1>16

-----------------------------------------------------------------------------
(* deschedule_timer of the thread, as long as no interrupt comes in its    *)
(* way.                                                                    *)

\* What the steps of prq_remove make of a queue in order, one after the other.
LEMMA RemovalSteps ==
    ASSUME NEW r, QueueOK(r), NEW n \in Members(r)
    PROVE  LET e == r.heap[r.count]
               i == r.index[n]
           IN /\ [r EXCEPT !.index[e] = i] = IndexMoved(r, n)
              /\ [IndexMoved(r, n) EXCEPT !.index[n] = -1,
                    !.heap = [@ EXCEPT ![i] = e, ![IndexMoved(r, n).count + 1] = NULL]]
                   = NotYetShrunk(r, n)
              /\ [NotYetShrunk(r, n) EXCEPT !.count = @ - 1] = Unlink(r, n)
<1> DEFINE e == r.heap[r.count]
           i == r.index[n]
           a == [r.index EXCEPT ![e] = i]
           b == [a EXCEPT ![n] = -1]
           h == [r.heap EXCEPT ![i] = e, ![r.count + 1] = NULL]
<1>1. r = [heap |-> r.heap, count |-> r.count, size |-> r.size,
           index |-> r.index, priority |-> r.priority]
  BY DEF QueueOK, WellFormed
<1>2. /\ [r EXCEPT !.index[e] = i] = [r EXCEPT !.index = a]
      /\ IndexMoved(r, n) = [r EXCEPT !.index = a]
      /\ NotYetShrunk(r, n) = [r EXCEPT !.index = b, !.heap = h]
      /\ Unlink(r, n) = [r EXCEPT !.index = b, !.heap = h, !.count = r.count - 1]
  <2>1. b = [r.index EXCEPT ![e] = i, ![n] = -1]
    OBVIOUS
  <2> HIDE DEF b, h, a
  <2> QED BY <2>1 DEF IndexMoved, NotYetShrunk, Unlink, a, h
<1> HIDE DEF b, h
<1>3. \A c : [[r EXCEPT !.index = a] EXCEPT !.index = b, !.heap = c]
               = [r EXCEPT !.index = b, !.heap = c]
  <2> HIDE DEF a
  <2> QED BY ONLY <1>1
<1>4. IndexMoved(r, n).index = a /\ IndexMoved(r, n).heap = r.heap /\ IndexMoved(r, n).count = r.count
  <2> HIDE DEF a
  <2> QED BY ONLY <1>1, <1>2
<1>5. [NotYetShrunk(r, n) EXCEPT !.count = @ - 1]
        = [r EXCEPT !.index = b, !.heap = h, !.count = r.count - 1]
  <2> HIDE DEF a
  <2> QED BY ONLY <1>1, <1>2
<1>6. [IndexMoved(r, n) EXCEPT !.index[n] = -1,
         !.heap = [@ EXCEPT ![i] = e, ![IndexMoved(r, n).count + 1] = NULL]]
        = [IndexMoved(r, n) EXCEPT !.index = b, !.heap = h]
  BY <1>4 DEF b, h
<1> QED BY <1>2, <1>3, <1>5, <1>6

\* The memory in between has its types and the priorities.
LEMMA RemovalTypes ==
    ASSUME NEW r, QueueOK(r), NEW n \in Members(r), NEW s,
           s = IndexMoved(r, n) \/ s = NotYetShrunk(r, n)
    PROVE  /\ s.size \in Nat /\ s.count \in 0 .. s.size - 2 /\ s.priority = r.priority
           /\ s.heap \in [0 .. s.size - 1 -> Node \cup {NULL}]
           /\ s.index \in [Node -> -1 .. s.size]
<1> DEFINE e == r.heap[r.count]
           i == r.index[n]
           a == [r.index EXCEPT ![e] = i]
           b == [r.index EXCEPT ![e] = i, ![n] = -1]
           h == [r.heap EXCEPT ![i] = e, ![r.count + 1] = NULL]
<1>1. /\ r = [heap |-> r.heap, count |-> r.count, size |-> r.size,
              index |-> r.index, priority |-> r.priority]
      /\ r.count \in Nat /\ r.size \in Nat /\ r.count + 1 < r.size
      /\ r.heap \in [0 .. r.size - 1 -> Node \cup {NULL}] /\ r.index \in [Node -> -1 .. r.size]
      /\ \A k \in 1 .. r.count : r.heap[k] \in Node /\ r.index[r.heap[k]] = k
  BY DEF QueueOK, WellFormed
<1>2. PICK k \in 1 .. r.count : r.heap[k] = n
  BY DEF Members
<1>3. n \in Node /\ i = k /\ e \in Node /\ i \in -1 .. r.size /\ -1 \in -1 .. r.size
  BY <1>1, <1>2
<1>4. a \in [Node -> -1 .. r.size] /\ b \in [Node -> -1 .. r.size]
  BY <1>1, <1>3
<1>5. h \in [0 .. r.size - 1 -> Node \cup {NULL}]
  BY <1>1, <1>3
<1>6. s = [r EXCEPT !.index = a] \/ s = [r EXCEPT !.index = b, !.heap = h]
  BY DEF IndexMoved, NotYetShrunk
<1> HIDE DEF a, b, h
<1>7. /\ s.size = r.size /\ s.count = r.count /\ s.priority = r.priority
      /\ s.index = a \/ s.index = b
      /\ s.heap = r.heap \/ s.heap = h
  BY ONLY <1>1, <1>6
<1>8. r.count \in 0 .. r.size - 2
  BY <1>1
<1> QED BY <1>1, <1>4, <1>5, <1>7, <1>8

\* Half-way through, the variables have their types, and nothing else is said.
LEMMA HalfwaySound == Halfway => TypeOK /\ TimersAccounted /\ LatenessBounded /\ NeverEarly
<1> SUFFICES ASSUME Halfway PROVE TypeOK /\ TimersAccounted /\ LatenessBounded /\ NeverEarly
  OBVIOUS
<1>1. PICK r : Removing(r)
  BY DEF Halfway
<1>2. /\ QueueOK(r) /\ call.node \in Members(r) /\ call.op \in {"unlink", "shrink"}
      /\ q = IndexMoved(r, call.node) \/ q = NotYetShrunk(r, call.node)
      /\ allocated = Members(r)
  BY <1>1 DEF Removing
<1>3. Members(r) \subseteq Node
  BY <1>2, PeekIsLowest
<1>4. /\ q.size \in Nat /\ q.count \in 0 .. q.size - 2
      /\ q.heap \in [0 .. q.size - 1 -> Node \cup {NULL}] /\ q.index \in [Node -> -1 .. q.size]
  BY <1>2, RemovalTypes
<1>5. TypeOK
  BY <1>2, <1>3, <1>4 DEF Halfway, TypeOK, Typed
<1> QED BY <1>2, <1>5 DEF Halfway, TimersAccounted, LatenessBounded, NeverEarly

\* prq_remove begins.
LEMMA DescheduleBeginsInv ==
    ASSUME TimerInv, NEW n \in Node, DescheduleBegins(n)
    PROVE  Halfway'
<1> USE DEF TimerInv
<1> DEFINE e == q.heap[q.count]
<1>1. /\ UNCHANGED <<data, allocated, cntpct, cval, masked, irq, status, due, emptied>>
      /\ ~irq.active /\ call = NoCall /\ n \in Members(q)
      /\ q' = [q EXCEPT !.index[e] = q.index[n]]
      /\ call' = [op |-> "unlink", node |-> n, end |-> e, index |-> q.index[n]]
  BY DEF DescheduleBegins, clockvars, ghosts, ThreadIdle
<1>2. irq.timer = NULL /\ call.node = NULL
  BY <1>1, CallFields DEF InProgress
<1>3. PICK r : r = q
  OBVIOUS
<1>4. q' = IndexMoved(r, n) /\ q'.priority = r.priority
  <2>1. q' = IndexMoved(r, n)
    BY <1>1, <1>3, RemovalSteps
  <2> QED BY <1>1, <1>3, <2>1, RemovalTypes
<1>5. /\ call'.op = "unlink" /\ call'.node = n /\ call'.end = r.heap[r.count]
      /\ call'.index = r.index[n]
  BY <1>1, <1>3
<1>6. allocated = Members(r)
  BY <1>2, <1>3 DEF Accounted
<1>7. Removing(r)'
  BY <1>1, <1>3, <1>4, <1>5, <1>6 DEF Removing, Aged, Typed
<1>8. Typed'
  BY <1>1, <1>3, <1>4 DEF Typed, Counts
<1>9. (masked => emptied)' /\ LosesWords'
  BY <1>1 DEF MaskedWhenEmpty, LosesWords
<1> QED BY <1>1, <1>2, <1>7, <1>8, <1>9 DEF Halfway

\* prq_remove puts the last node into the place of the removed one.
LEMMA DescheduleUnlinksInv == Halfway /\ DescheduleUnlinks => Halfway'
<1> SUFFICES ASSUME Halfway, DescheduleUnlinks PROVE Halfway'
  OBVIOUS
<1>1. /\ UNCHANGED <<data, allocated, cntpct, cval, masked, irq, status, due, emptied>>
      /\ call.op = "unlink" /\ call' = [call EXCEPT !.op = "shrink"]
      /\ q' = [q EXCEPT !.index[call.node] = -1,
                        !.heap = [@ EXCEPT ![call.index] = call.end, ![q.count + 1] = NULL]]
  BY DEF DescheduleUnlinks, Resumes, clockvars, ghosts
<1>2. PICK r : Removing(r)
  BY DEF Halfway
<1>3. PICK n : n = call.node
  OBVIOUS
<1>4. /\ QueueOK(r) /\ n \in Members(r) /\ q = IndexMoved(r, n)
      /\ call.end = r.heap[r.count] /\ call.index = r.index[n]
  BY <1>1, <1>2, <1>3 DEF Removing
<1>5. q' = NotYetShrunk(r, n)
  <2>1. q' = [IndexMoved(r, n) EXCEPT !.index[n] = -1,
                !.heap = [@ EXCEPT ![r.index[n]] = r.heap[r.count],
                                   ![IndexMoved(r, n).count + 1] = NULL]]
    <3>1. PICK s : s = IndexMoved(r, n)
      OBVIOUS
    <3>2. PICK e, i : e = call.end /\ i = call.index
      OBVIOUS
    <3>3. q' = [s EXCEPT !.index[n] = -1, !.heap = [@ EXCEPT ![i] = e, ![s.count + 1] = NULL]]
      BY <1>1, <1>3, <1>4, <3>1, <3>2
    <3> QED BY <1>4, <3>1, <3>2, <3>3
  <2> QED BY <1>4, <2>1, RemovalSteps
<1>6. q'.priority = r.priority
  BY <1>4, <1>5, RemovalTypes
<1>7. /\ call'.op = "shrink" /\ call'.node = n /\ call'.end = call.end
      /\ call'.index = call.index
  BY <1>1, <1>2, <1>3 DEF Removing
<1>8. Removing(r)'
  BY <1>1, <1>2, <1>3, <1>5, <1>7 DEF Removing
<1>9. Typed'
  BY <1>1, <1>2, <1>6 DEF Halfway, Typed, Counts, Removing
<1> QED BY <1>1, <1>8, <1>9 DEF Halfway, LosesWords

\* The count is decremented and both loops run: the queue is in order again.
LEMMA DescheduleShrinksInv == Halfway /\ DescheduleShrinks => TimerInv'
<1> SUFFICES ASSUME Halfway, DescheduleShrinks PROVE TimerInv'
  OBVIOUS
<1> DEFINE up == prq_shift_up([q EXCEPT !.count = @ - 1], call.index)
<1>1. /\ UNCHANGED <<data, allocated, cntpct, cval, masked, irq, status, due, emptied>>
      /\ call.op = "shrink" /\ call' = [NoCall EXCEPT !.op = "free", !.node = call.node]
      /\ q' = IF up.count < 0 THEN up ELSE prq_shift_down(up, call.index)
  BY DEF DescheduleShrinks, Resumes, clockvars, ghosts
<1>2. PICK r : Removing(r)
  BY DEF Halfway
<1>3. PICK n : n = call.node
  OBVIOUS
<1>4. /\ QueueOK(r) /\ n \in Members(r) /\ q = NotYetShrunk(r, n) /\ call.index = r.index[n]
      /\ r.priority \in [Node -> 0 .. INT32_MAX] /\ allocated = Members(r)
  BY <1>1, <1>2, <1>3 DEF Removing
<1>5. up = prq_shift_up(Unlink(r, n), r.index[n])
  BY <1>4, RemovalSteps
<1>6. /\ QueueOK(Removed(r, n)) /\ Members(Removed(r, n)) = Members(r) \ {n}
      /\ Removed(r, n).priority = r.priority /\ ~(up.count < 0)
  BY <1>4, <1>5, RemoveTakes
<1>8. q' = Removed(r, n)
  BY <1>1, <1>4, <1>5, <1>6 DEF Removed
<1> HIDE DEF up
<1>9. Members(r) \subseteq Node /\ NULL \notin Node /\ n \in Node
  BY <1>4, PeekIsLowest, NodeAssumption
<1>10. call'.op = "free" /\ call'.node = n
  BY <1>1, <1>3, LaterCallFields
<1>11. irq.timer = NULL /\ ~irq.active /\ (masked => emptied)
  BY DEF Halfway
<1>12. Typed'
  BY <1>1, <1>4, <1>6, <1>8 DEF Halfway, Typed, Counts
<1>13. InProgress'
  BY <1>1, <1>3, <1>9, <1>11 DEF InProgress
<1>14. Accounted'
  BY <1>1, <1>4, <1>6, <1>8, <1>9, <1>10, <1>11 DEF Accounted
<1>15. Aged'
  BY <1>1, <1>2, <1>6, <1>8 DEF Aged, Removing
<1>16. Fits' /\ WasDue' /\ MaskedWhenEmpty' /\ Armed' /\ Peeked'
  BY <1>1, <1>10, <1>11 DEF Fits, WasDue, MaskedWhenEmpty, Armed, Peeked
<1>17. QueueOK(q)' /\ LosesWords'
  BY <1>1, <1>6, <1>8 DEF Halfway, LosesWords
<1> QED BY <1>12, <1>13, <1>14, <1>15, <1>16, <1>17 DEF TimerInv

\* The removed timer is freed, and prq_peek returns the first of the others.
LEMMA DescheduleFreesInv == TimerInv /\ DescheduleFrees => TimerInv'
<1> SUFFICES ASSUME TimerInv, DescheduleFrees PROVE TimerInv'
  OBVIOUS
<1> USE DEF TimerInv
<1> DEFINE n == call.node
<1>1. /\ UNCHANGED <<q, cntpct, cval, masked, irq, status, emptied>>
      /\ call.op = "free" /\ ~irq.active
      /\ call' = [NoCall EXCEPT !.op = "rearm", !.end = prq_peek(q)]
      /\ allocated' = allocated \ {n} /\ data' = [data EXCEPT ![n] = NoData]
      /\ due' = [due EXCEPT ![n] = 0]
  BY DEF DescheduleFrees, Resumes, Free, clockvars, ghosts
<1>2. /\ n \in Node /\ n \notin Members(q) /\ NULL \notin Node /\ Members(q) \subseteq Node
      /\ irq.timer = NULL /\ prq_peek(q) \in Node \cup {NULL}
  <2>1. irq.timer = NULL
    BY <1>1, Zenon DEF InProgress
  <2> QED BY <1>1, <2>1, Places, CallCases DEF Accounted
<1>3. call'.op = "rearm" /\ call'.node = NULL /\ call'.end = prq_peek(q)
  BY <1>1, LaterCallFields
<1> HIDE DEF n
<1>4. Freed(n)
  BY <1>1, <1>2, FreeFacts
<1>5. Typed'
  BY <1>1, <1>4 DEF Typed, Counts, Freed
<1>6. InProgress'
  BY <1>1, <1>2 DEF InProgress
<1>7. Accounted'
  BY <1>1, <1>2, <1>3 DEF Accounted, n
<1>8. Aged'
  BY <1>1, <1>2, <1>4 DEF Aged, Freed
<1>9. Fits' /\ WasDue' /\ MaskedWhenEmpty' /\ Armed' /\ Peeked'
  BY <1>1, <1>2, <1>3 DEF Fits, WasDue, MaskedWhenEmpty, Armed, Peeked
<1>10. QueueOK(q)' /\ LosesWords'
  BY <1>1, <1>4 DEF Freed
<1> QED BY <1>5, <1>6, <1>7, <1>8, <1>9, <1>10

\* The compare value is set to the timer that prq_peek has returned.
LEMMA DescheduleReturnsInv == TimerInv /\ DescheduleReturns => TimerInv'
<1> SUFFICES ASSUME TimerInv, DescheduleReturns PROVE TimerInv'
  OBVIOUS
<1> USE DEF TimerInv
<1>1. /\ UNCHANGED <<q, data, allocated, cntpct, irq, status, due, emptied>>
      /\ call.op = "rearm" /\ ~irq.active /\ call' = NoCall
  BY DEF DescheduleReturns, Resumes, ghosts
<1>2. call.node = NULL /\ call.end = prq_peek(q) /\ call'.node = NULL /\ call'.op = "none"
  BY <1>1, CallCases, CallFields DEF Peeked
<1>3. irq.timer = NULL
  BY <1>1, Zenon DEF InProgress
<1>4. IF Members(q) = {} THEN masked' = TRUE /\ cval' = cval
      ELSE cval' = data[prq_peek(q)].scheduled_count /\ masked' = masked
  BY <1>1, <1>2, Places DEF DescheduleReturns, Rearm
<1>5. cval' \in Counts /\ masked' \in BOOLEAN
  <2>1. Members(q) # {} => prq_peek(q) \in Node
    BY Places
  <2>2. cval \in Counts /\ masked \in BOOLEAN /\ \A n \in Node : data[n].scheduled_count \in Counts
    BY DEF Typed
  <2> HIDE DEF TimerInv
  <2> QED BY <1>4, <2>1, <2>2
<1>6. Typed'
  BY <1>1, <1>5 DEF Typed, Counts
<1>7. InProgress' /\ Accounted' /\ WasDue' /\ Fits' /\ Peeked'
  BY <1>1, <1>2, <1>3 DEF InProgress, Accounted, WasDue, Fits, Peeked
<1>8. MaskedWhenEmpty' /\ Armed'
  BY <1>1, <1>3, <1>4 DEF MaskedWhenEmpty, Armed
<1>9. QueueOK(q)' /\ Aged' /\ LosesWords'
  BY <1>1 DEF Aged, LosesWords
<1> QED BY <1>6, <1>7, <1>8, <1>9

\* While the thread is inside prq_remove, the counter may go on and nothing else happens.
LEMMA HalfwayStays == Halfway /\ (Tick \/ UNCHANGED vars) => Halfway'
<1> SUFFICES ASSUME Halfway, Tick \/ UNCHANGED vars PROVE Halfway'
  OBVIOUS
<1>1. UNCHANGED <<q, data, allocated, cval, masked, irq, call, status, due, emptied>>
  BY DEF Tick, vars, clockvars, ghosts
<1>2. cntpct \in 0 .. MaxCount
  BY DEF Halfway, Typed
<1>3. cntpct' \in 0 .. MaxCount
  BY <1>2, TimerAssumption DEF Tick, vars
<1>4. Typed'
  BY <1>1, <1>3 DEF Halfway, Typed, Counts
<1>5. (\E r : Removing(r))'
  BY <1>1 DEF Halfway, Removing
<1> QED BY <1>1, <1>4, <1>5 DEF Halfway, LosesWords

-----------------------------------------------------------------------------
(* The theorems.                                                           *)

\* Every step of the driver, its clients and the clock keeps the invariant.
LEMMA NextTimerInv == TimerInv /\ [Next]_vars /\ ~preempted' => TimerInv' \/ Halfway'
<1> SUFFICES ASSUME TimerInv, [Next]_vars, ~preempted' PROVE TimerInv' \/ Halfway'
  OBVIOUS
<1>1. CASE Tick
  BY <1>1, TickInv
<1>2. CASE Handler
  <2>1. PeriodicPanics => TimerInv'
    BY StopsInv DEF PeriodicPanics
  <2> QED BY <1>2, <2>1, InterruptArrivesInv, CallbackBeginsInv, OneShotReturnsInv,
             PeriodicReturnsInv, InterruptReturnsInv DEF Handler
<1>3. CASE Clients
  <2>1. ASSUME NEW d \in Delay, ScheduleRejected(d) PROVE TimerInv'
    BY <2>1, StopsInv DEF ScheduleRejected
  <2> QED BY <1>3, <2>1, ScheduleBeginsInv, CallbackSchedulesInv, DescheduleBeginsInv,
             CallbackDeschedulesInv DEF Clients
<1>4. CASE Thread
  <2>1. call.op \in {"none", "schedule", "free", "rearm"}
    BY CallCases DEF TimerInv
  <2>2. ~DescheduleUnlinks /\ ~DescheduleShrinks
    BY <2>1 DEF DescheduleUnlinks, DescheduleShrinks, Resumes
  <2> QED BY <1>4, <2>2, ScheduleReturnsInv, DescheduleFreesInv, DescheduleReturnsInv DEF Thread
<1>5. CASE UNCHANGED vars
  BY <1>5, StutterTimer
<1> QED BY <1>1, <1>2, <1>3, <1>4, <1>5 DEF Next

\* The same from the middle of prq_remove: an interrupt would set preempted.
LEMMA NextHalfway == Halfway /\ [Next]_vars /\ ~preempted' => TimerInv' \/ Halfway'
<1> SUFFICES ASSUME Halfway, [Next]_vars, ~preempted' PROVE TimerInv' \/ Halfway'
  OBVIOUS
<1>1. call.op \in {"unlink", "shrink"} /\ call # NoCall
  BY CallFields DEF Halfway, Removing
<1>2. ~irq.active /\ irq.timer = NULL
  BY DEF Halfway
<1>3. CASE Tick \/ UNCHANGED vars
  BY <1>3, HalfwayStays
<1>4. ~Handler
  <2>1. ~InterruptArrives
    BY <1>1 DEF InterruptArrives, Unprotected
  <2>2. ~InLoop /\ ~InCallback
    BY <1>2 DEF InLoop, InCallback
  <2> QED BY <2>1, <2>2 DEF Handler, CallbackBegins, OneShotReturns, PeriodicReturns,
                            PeriodicPanics, InterruptReturns
<1>5. ~Clients
  BY <1>1, <1>2 DEF Clients, ThreadIdle, InCallback, ScheduleBegins, CallbackSchedules,
                    ScheduleRejected, DescheduleBegins, CallbackDeschedules
<1>6. CASE Thread
  <2>1. ~ScheduleReturns /\ ~DescheduleFrees /\ ~DescheduleReturns
    BY <1>1 DEF ScheduleReturns, DescheduleFrees, DescheduleReturns, Resumes
  <2> QED BY <1>6, <2>1, DescheduleUnlinksInv, DescheduleShrinksInv DEF Thread
<1> QED BY <1>3, <1>4, <1>5, <1>6 DEF Next

\* Once an interrupt has come into deschedule_timer, that stays so.
LEMMA PreemptedStays == preempted /\ [Next]_vars => preempted'
BY DEF Next, Tick, Handler, Clients, Thread, InterruptArrives, CallbackBegins, OneShotReturns,
       PeriodicReturns, PeriodicPanics, InterruptReturns, ScheduleBegins, CallbackSchedules,
       ScheduleRejected, DescheduleBegins, CallbackDeschedules, ScheduleReturns,
       DescheduleUnlinks, DescheduleShrinks, DescheduleFrees, DescheduleReturns, vars, ghosts

\* The invariant holds at first and is kept by every step.
LEMMA InitIntact == Init => IntactInv
BY InitTimerInv DEF IntactInv
LEMMA NextIntact == IntactInv /\ [Next]_vars => IntactInv'
BY NextTimerInv, NextHalfway, PreemptedStays DEF IntactInv

\* Every timer that schedule_timer allocates is in one place: queued, in its callback, in
\* a call that has not queued it yet, or in one that is about to free it. Nothing freed is
\* in any, the array of the queue always has room for one more, and no priority leaves the
\* range of an int. This is so up to the first interrupt that comes while the thread is
\* inside the prq_remove of deschedule_timer, or between its prq_peek and what it does
\* with the timer: the code does not disable interrupts there.
THEOREM TimersAlwaysSound == Spec => []TimersSound
<1>1. Init => IntactInv
  BY InitIntact
<1>2. IntactInv /\ [Next]_vars => IntactInv'
  BY NextIntact
<1>3. IntactInv => TimersSound
  BY InvTimersSound, HalfwaySound DEF IntactInv, TimersSound
<1> QED BY <1>1, <1>2, <1>3, PTL DEF Spec

\* No callback of timer_handle_interrupt runs before its time, but for whole words of
\* ticks that schedule_timer loses; and a timer that no interrupt is pending for is late
\* by less than the period of one that is queued, unless a callback has emptied the queue
\* under a periodic timer, which leaves the interrupt masked. The reservation of
\* TimersAlwaysSound holds here too.
THEOREM AlwaysServedInTime == Spec => []ServedInTime
<1>1. Init => IntactInv
  BY InitIntact
<1>2. IntactInv /\ [Next]_vars => IntactInv'
  BY NextIntact
<1>3. IntactInv => ServedInTime
  BY InvServedInTime, HalfwaySound DEF IntactInv, ServedInTime
<1> QED BY <1>1, <1>2, <1>3, PTL DEF Spec

=============================================================================
