----------------------------- MODULE PrqProofs -----------------------------
(***************************************************************************)
(* Lemmas about the array heap of ds/priority_queue.c, for every queue:    *)
(* what one iteration of a loop does, what the loops leave when they end,  *)
(* and so what a whole operation does.                                     *)
(***************************************************************************)
EXTENDS Prq, WellFoundedInduction, TLAPS

\* Halving a position of the heap, and what it has to do with doubling.
LEMMA Halves ==
    ASSUME NEW i \in Nat, i >= 2
    PROVE  /\ i \div 2 \in 1 .. i - 1
           /\ i = 2 * (i \div 2) \/ i = 2 * (i \div 2) + 1
  OBVIOUS

\* A child's half is its parent.
LEMMA HalfOfChild ==
    ASSUME NEW i \in Nat
    PROVE  (2 * i) \div 2 = i /\ (2 * i + 1) \div 2 = i
  OBVIOUS

\* Stated for the leaves that need nothing else of arithmetic.
LEMMA LeqTransitive ==
    ASSUME NEW a \in Int, NEW b \in Int, NEW c \in Int, a <= b, b <= c
    PROVE  a <= c
  OBVIOUS

-----------------------------------------------------------------------------
(* One iteration of a loop, as a fact about the priorities f before and g  *)
(* after it.                                                               *)

\* The node at i goes up to its parent p, which is larger. h gives the parent of
\* every position. Heap order holds except above and below i, and across i.
MovesUp(n, f, g, h, i, p) ==
    /\ n \in Nat /\ f \in [1 .. n -> Int] /\ g \in [1 .. n -> Int]
    /\ h \in [2 .. n -> 1 .. n] /\ \A k \in 2 .. n : h[k] < k
    /\ i \in 2 .. n /\ p \in 1 .. n /\ p = h[i] /\ f[i] < f[p]
    /\ \A k \in 2 .. n : k # i /\ h[k] # i => f[h[k]] <= f[k]
    /\ \A k \in 2 .. n : h[k] = i => f[p] <= f[k]
    /\ g[i] = f[p] /\ g[p] = f[i] /\ \A k \in 1 .. n : k # i /\ k # p => g[k] = f[k]

\* Heap order holds except above i, and across i.
OnlyAbove(n, g, h, i) ==
    /\ \A k \in 2 .. n : k # i => g[h[k]] <= g[k]
    /\ i > 1 => \A k \in 2 .. n : h[k] = i => g[h[i]] <= g[k]

\* The parent p of i can take the place of i: it is not larger than the children
\* of i, and the node that goes up is smaller than its new children.
LEMMA UpStep ==
    ASSUME NEW n, NEW f, NEW g, NEW h, NEW i, NEW p, MovesUp(n, f, g, h, i, p)
    PROVE  OnlyAbove(n, g, h, p)
<1> USE DEF MovesUp
<1>1. p < i /\ p \in Int /\ i \in Int /\ p # i /\ (p > 1 => p \in 2 .. n)
  OBVIOUS
<1>2. \A k \in 2 .. n : k \in 1 .. n /\ h[k] \in 1 .. n /\ h[k] # k
  OBVIOUS
<1>3. ASSUME NEW k \in 2 .. n, k # p PROVE g[h[k]] <= g[k]
  <2>1. CASE k = i
    BY <2>1
  <2>2. CASE k # i /\ h[k] = i
    BY <1>2, <1>3, <2>2
  <2>3. CASE k # i /\ h[k] # i /\ h[k] = p
    <3>1. f[p] <= f[k] /\ g[k] = f[k] /\ g[p] = f[i]
      BY <1>2, <1>3, <2>3
    <3> QED
      BY <1>2, <2>3, <3>1
  <2>4. CASE k # i /\ h[k] # i /\ h[k] # p
    BY <1>2, <1>3, <2>4
  <2> QED
    BY <2>1, <2>2, <2>3, <2>4
<1>4. ASSUME NEW k \in 2 .. n, p > 1, h[k] = p PROVE g[h[p]] <= g[k]
  <2>0. p \in 2 .. n /\ p # i
    BY <1>1, <1>4
  <2>1. h[p] \in 1 .. n /\ h[p] < p /\ h[p] # i /\ h[p] # p
    <3>1. h[p] \in 1 .. n /\ h[p] < p
      BY <2>0
    <3>2. h[p] \in Int
      BY ONLY <3>1
    <3> QED BY ONLY <1>1, <3>1, <3>2
  <2>2. f[h[p]] <= f[p] /\ g[h[p]] = f[h[p]]
    <3>1. f[h[p]] <= f[p]
      BY <2>0, <2>1
    <3>2. g[h[p]] = f[h[p]]
      BY <2>1
    <3> QED BY <3>1, <3>2
  <2>3. CASE k = i
    BY <2>1, <2>2, <2>3
  <2>4. CASE k # i
    <3>1. k # p /\ k \in 1 .. n
      BY <1>2, <1>4
    <3>2. h[k] = p /\ k # i /\ h[k] # i
      BY <1>4, <2>0, <2>4
    <3>3. f[p] <= f[k]
      BY <3>2
    <3>4. g[k] = f[k]
      BY <3>1, <3>2
    <3>5. f[h[p]] \in Int /\ f[p] \in Int /\ f[k] \in Int
      BY <2>1, <3>1
    <3>6. f[h[p]] <= f[k]
      BY <2>2, <3>3, <3>5, LeqTransitive, Zenon
    <3> QED
      BY <2>2, <3>4, <3>6
  <2> QED
    BY <2>3, <2>4
<1> QED
  BY <1>3, <1>4 DEF OnlyAbove

\* The node at i goes down to its child c, which is smaller and not larger than
\* the other child. Heap order holds except below i, and across i.
MovesDown(n, f, g, h, i, c) ==
    /\ n \in Nat /\ f \in [1 .. n -> Int] /\ g \in [1 .. n -> Int]
    /\ h \in [2 .. n -> 1 .. n] /\ \A k \in 2 .. n : h[k] < k
    /\ i \in 1 .. n /\ c \in 2 .. n /\ h[c] = i /\ f[c] < f[i]
    /\ \A k \in 2 .. n : h[k] = i => f[c] <= f[k]
    /\ \A k \in 2 .. n : h[k] # i => f[h[k]] <= f[k]
    /\ i > 1 => f[h[i]] <= f[c]
    /\ g[i] = f[c] /\ g[c] = f[i] /\ \A k \in 1 .. n : k # i /\ k # c => g[k] = f[k]

\* Heap order holds except below i, and across i.
OnlyBelow(n, g, h, i) ==
    /\ \A k \in 2 .. n : h[k] # i => g[h[k]] <= g[k]
    /\ \A k \in 2 .. n : h[k] = i => g[h[i]] <= g[k]

\* The smaller child c of i can take the place of i: it is not smaller than the
\* parent of i, and not larger than its new children.
LEMMA DownStep ==
    ASSUME NEW n, NEW f, NEW g, NEW h, NEW i, NEW c, MovesDown(n, f, g, h, i, c)
    PROVE  OnlyBelow(n, g, h, c)
<1> USE DEF MovesDown
<1>1. i < c /\ c \in Int /\ i \in Int /\ c \in 1 .. n
  OBVIOUS
<1>2. \A k \in 2 .. n : k \in 1 .. n /\ h[k] \in 1 .. n /\ h[k] # k
  OBVIOUS
<1>3. ASSUME NEW k \in 2 .. n, h[k] # c PROVE g[h[k]] <= g[k]
  <2>1. CASE k = c
    BY <1>1, <2>1
  <2>2. CASE k # c /\ h[k] = i
    <3>1. g[k] = f[k] /\ f[c] <= f[k] /\ g[h[k]] = f[c]
      BY <1>2, <2>2
    <3> QED
      BY <3>1
  <2>3. CASE k = i
    <3>1. i > 1 /\ h[i] # i /\ h[i] # c /\ h[i] \in 1 .. n
      BY <1>1, <1>2, <1>3, <2>3
    <3>2. g[h[i]] = f[h[i]]
      BY <3>1
    <3> QED
      BY <2>3, <3>1, <3>2
  <2>4. CASE k # c /\ k # i /\ h[k] # i
    BY <1>2, <1>3, <2>4
  <2> QED
    BY <2>1, <2>2, <2>3, <2>4
<1>4. ASSUME NEW k \in 2 .. n, h[k] = c PROVE g[h[c]] <= g[k]
  <2>1. k # i /\ k # c /\ k \in 1 .. n /\ h[k] # i
    BY <1>1, <1>2, <1>4
  <2>2. g[k] = f[k] /\ f[c] <= f[k]
    BY <1>4, <2>1
  <2> QED
    BY <2>2
<1> QED
  BY <1>3, <1>4 DEF OnlyBelow

Priorities(r) == [k \in 1 .. r.count |-> PriorityAt(r, k)]

Parents(n) == [k \in 2 .. n |-> k \div 2]

\* Parents is what UpStep and DownStep ask for.
LEMMA ParentsType ==
    ASSUME NEW n \in Nat
    PROVE  /\ Parents(n) \in [2 .. n -> 1 .. n]
           /\ \A k \in 2 .. n : Parents(n)[k] = k \div 2 /\ Parents(n)[k] < k
<1>1. \A k \in 2 .. n : k \div 2 \in 1 .. n /\ k \div 2 < k
  OBVIOUS
<1> QED
  BY <1>1 DEF Parents

\* g is the function f from S to T after two updates.
Updated(S, T, f, a, v, b, w, g) ==
    /\ f \in [S -> T] /\ a \in S /\ v \in T /\ b \in S /\ w \in T
    /\ g = [f EXCEPT ![a] = v, ![b] = w]

\* What the two updates leave.
LEMMA TwoUpdates ==
    ASSUME NEW S, NEW T, NEW f, NEW a, NEW v, NEW b, NEW w, NEW g,
           Updated(S, T, f, a, v, b, w, g)
    PROVE  /\ g \in [S -> T] /\ g[b] = w /\ (a # b => g[a] = v)
           /\ \A x \in S : x # a /\ x # b => g[x] = f[x]
  BY DEF Updated

-----------------------------------------------------------------------------
(* Induction. A set of numbers has a least one, so that a property that    *)
(* fails somewhere fails somewhere first.                                  *)

\* The least element of a set of numbers.
LEMMA LeastElement ==
    ASSUME NEW T, T \subseteq Nat, T # {}
    PROVE  \E x \in T : \A y \in T : x <= y
<1> DEFINE R == OpToRel(<, Nat)
<1>1. IsWellFoundedOn(R, Nat)
  BY NatLessThanWellFounded
<1>2. \A x, y \in Nat : x < y => <<x, y>> \in R
  BY DEF OpToRel
<1> HIDE DEF R
<1>3. PICK x \in T : \A y \in T : ~(<<y, x>> \in R)
  BY <1>1, WFMin
<1>4. ASSUME NEW y \in T PROVE x <= y
  <2>1. x \in Nat /\ y \in Nat
    OBVIOUS
  <2>2. ~(y < x)
    BY <1>2, <1>3, <2>1, Zenon
  <2> QED BY ONLY <2>1, <2>2, SMT
<1> QED BY <1>4, Zenon

\* What holds at 0, and at k where it holds at k - 1, holds up to n.
LEMMA UpTo ==
    ASSUME NEW T, NEW n \in Nat, 0 \in T, \A k \in 1 .. n : k - 1 \in T => k \in T
    PROVE  \A k \in 0 .. n : k \in T
<1> DEFINE U == {k \in 0 .. n : k \notin T}
<1>1. SUFFICES ASSUME U # {} PROVE FALSE
  OBVIOUS
<1>2. PICK x \in U : \A y \in U : x <= y
  <2>1. U \subseteq Nat /\ U # {}
    BY <1>1
  <2> HIDE DEF U
  <2> QED BY <2>1, LeastElement
<1>3. x # 0 /\ x \in 1 .. n /\ x - 1 \in 0 .. n
  BY <1>2
<1>4. x - 1 \in T
  BY <1>2, <1>3
<1> QED BY <1>2, <1>3, <1>4

\* The body of __prq_shift_up, and its iterations as prq_shift_up has them.
UpOnce(s) ==
    IF SmallerThanParent(s.q, s.idx)
    THEN [q |-> Swap(s.q, s.idx, s.idx \div 2), idx |-> s.idx \div 2]
    ELSE s

IsUpLoop(g, s, n) == g = [k \in 0 .. n |-> IF k = 0 THEN s ELSE UpOnce(g[k - 1])]

\* The body of __prq_shift_down, and its iterations.
DownOnce(s) ==
    IF LargerThanChild(s.q, s.idx)
    THEN [q |-> Swap(s.q, s.idx, SmallerChild(s.q, s.idx)), idx |-> SmallerChild(s.q, s.idx)]
    ELSE s

IsDownLoop(g, s, n) == g = [k \in 0 .. n |-> IF k = 0 THEN s ELSE DownOnce(g[k - 1])]

\* The first loop can be run for any number of iterations.
LEMMA UpLoopExists ==
    ASSUME NEW s, NEW n \in Nat
    PROVE  \E g : IsUpLoop(g, s, n)
<1> DEFINE T == {m \in Nat : \E g : IsUpLoop(g, s, m)}
<1>1. 0 \in T
  <2> DEFINE g == [k \in 0 .. 0 |-> s]
  <2>1. IsUpLoop(g, s, 0)
    BY DEF IsUpLoop
  <2> QED BY <2>1
<1>2. ASSUME NEW m \in 1 .. n, m - 1 \in T PROVE m \in T
  <2>1. PICK g : IsUpLoop(g, s, m - 1)
    BY <1>2
  <2> DEFINE h == [k \in 0 .. m |-> IF k = m THEN UpOnce(g[m - 1]) ELSE g[k]]
  <2>2. \A k \in 0 .. m - 1 : h[k] = g[k] /\ g[k] = IF k = 0 THEN s ELSE UpOnce(g[k - 1])
    BY <2>1 DEF IsUpLoop
  <2>3. h[m] = UpOnce(g[m - 1]) /\ DOMAIN h = 0 .. m
    OBVIOUS
  <2>4. \A k \in 1 .. m : h[k - 1] = g[k - 1]
    BY <2>2
  <2>5. ASSUME NEW k \in 0 .. m PROVE h[k] = IF k = 0 THEN s ELSE UpOnce(h[k - 1])
    <3>1. CASE k = m
      BY <2>3, <2>4, <3>1
    <3>2. CASE k # m
      <4>1. k \in 0 .. m - 1
        BY <3>2
      <4>2. CASE k = 0
        BY <2>2, <4>1, <4>2
      <4>3. CASE k # 0
        <5>1. k \in 1 .. m
          BY <4>3
        <5> HIDE DEF h
        <5> QED BY <2>2, <2>4, <4>1, <4>3, <5>1
      <4> QED BY <4>2, <4>3
    <3> QED BY <3>1, <3>2
  <2>6. h = [k \in 0 .. m |-> h[k]]
    OBVIOUS
  <2> HIDE DEF h
  <2>7. IsUpLoop(h, s, m)
    BY <2>5, <2>6 DEF IsUpLoop
  <2> QED BY <2>7
<1> HIDE DEF T
<1>3. n \in T
  BY <1>1, <1>2, UpTo
<1> QED BY <1>3 DEF T

\* The second loop can be run for any number of iterations.
LEMMA DownLoopExists ==
    ASSUME NEW s, NEW n \in Nat
    PROVE  \E g : IsDownLoop(g, s, n)
<1> DEFINE T == {m \in Nat : \E g : IsDownLoop(g, s, m)}
<1>1. 0 \in T
  <2> DEFINE g == [k \in 0 .. 0 |-> s]
  <2>1. IsDownLoop(g, s, 0)
    BY DEF IsDownLoop
  <2> QED BY <2>1
<1>2. ASSUME NEW m \in 1 .. n, m - 1 \in T PROVE m \in T
  <2>1. PICK g : IsDownLoop(g, s, m - 1)
    BY <1>2
  <2> DEFINE h == [k \in 0 .. m |-> IF k = m THEN DownOnce(g[m - 1]) ELSE g[k]]
  <2>2. \A k \in 0 .. m - 1 : h[k] = g[k] /\ g[k] = IF k = 0 THEN s ELSE DownOnce(g[k - 1])
    BY <2>1 DEF IsDownLoop
  <2>3. h[m] = DownOnce(g[m - 1]) /\ DOMAIN h = 0 .. m
    OBVIOUS
  <2>4. \A k \in 1 .. m : h[k - 1] = g[k - 1]
    BY <2>2
  <2>5. ASSUME NEW k \in 0 .. m PROVE h[k] = IF k = 0 THEN s ELSE DownOnce(h[k - 1])
    <3>1. CASE k = m
      BY <2>3, <2>4, <3>1
    <3>2. CASE k # m
      <4>1. k \in 0 .. m - 1
        BY <3>2
      <4>2. CASE k = 0
        BY <2>2, <4>1, <4>2
      <4>3. CASE k # 0
        <5>1. k \in 1 .. m
          BY <4>3
        <5> HIDE DEF h
        <5> QED BY <2>2, <2>4, <4>1, <4>3, <5>1
      <4> QED BY <4>2, <4>3
    <3> QED BY <3>1, <3>2
  <2>6. h = [k \in 0 .. m |-> h[k]]
    OBVIOUS
  <2> HIDE DEF h
  <2>7. IsDownLoop(h, s, m)
    BY <2>5, <2>6 DEF IsDownLoop
  <2> QED BY <2>7
<1> HIDE DEF T
<1>3. n \in T
  BY <1>1, <1>2, UpTo
<1> QED BY <1>3 DEF T

\* prq_shift_up is what its loop leaves after i iterations.
LEMMA ShiftUpLoop ==
    ASSUME NEW q, NEW i \in Nat
    PROVE  \E g : /\ prq_shift_up(q, i) = g[i].q
                  /\ g[0] = [q |-> q, idx |-> i]
                  /\ \A k \in 1 .. i : g[k] = UpOnce(g[k - 1])
<1> DEFINE s == [q |-> q, idx |-> i]
           g == CHOOSE g : IsUpLoop(g, s, i)
<1>1. prq_shift_up(q, i) = g[i].q
  BY DEF prq_shift_up, IsUpLoop, UpOnce
<1> HIDE DEF s
<1>2. IsUpLoop(g, s, i)
  BY UpLoopExists
<1> HIDE DEF g
<1>3. g[0] = s /\ \A k \in 1 .. i : g[k] = UpOnce(g[k - 1])
  BY <1>2 DEF IsUpLoop
<1> QED BY <1>1, <1>3 DEF s

\* prq_shift_down is what its loop leaves after as many iterations as there are nodes.
LEMMA ShiftDownLoop ==
    ASSUME NEW q, q.count \in Nat, NEW i
    PROVE  \E g : /\ prq_shift_down(q, i) = g[q.count].q
                  /\ g[0] = [q |-> q, idx |-> i]
                  /\ \A k \in 1 .. q.count : g[k] = DownOnce(g[k - 1])
<1> DEFINE s == [q |-> q, idx |-> i]
           g == CHOOSE g : IsDownLoop(g, s, q.count)
<1>1. prq_shift_down(q, i) = g[q.count].q
  BY DEF prq_shift_down, IsDownLoop, DownOnce
<1> HIDE DEF s
<1>2. IsDownLoop(g, s, q.count)
  BY DownLoopExists
<1> HIDE DEF g
<1>3. g[0] = s /\ \A k \in 1 .. q.count : g[k] = DownOnce(g[k - 1])
  BY <1>2 DEF IsDownLoop
<1> QED BY <1>1, <1>3 DEF s

-----------------------------------------------------------------------------
(* A queue and one iteration of a loop.                                    *)

\* The handle and the nodes fit together: every position in use holds a node, and
\* the __index of that node is the position.
WellFormed(q) ==
    /\ q = [heap |-> q.heap, count |-> q.count, size |-> q.size,
            index |-> q.index, priority |-> q.priority]
    /\ q.count \in Nat /\ q.size \in Nat /\ q.count < q.size
    /\ q.heap \in [0 .. q.size - 1 -> Node \cup {NULL}]
    /\ q.index \in [Node -> -1 .. q.size] /\ q.priority \in [Node -> Int]
    /\ \A i \in 1 .. q.count : q.heap[i] \in Node /\ q.index[q.heap[i]] = i

\* Heap order between position k and its parent.
OrderAt(q, k) == PriorityAt(q, k \div 2) <= PriorityAt(q, k)

\* Heap order between the children of position i and the parent of i.
OrderAcross(q, i) ==
    i > 1 => \A k \in 2 .. q.count : k \div 2 = i => PriorityAt(q, i \div 2) <= PriorityAt(q, k)

\* The queue between two operations.
QueueOK(q) ==
    /\ WellFormed(q) /\ q.count + 1 < q.size
    /\ \A k \in 2 .. q.count : OrderAt(q, k)

\* r has the nodes and the priorities of q.
SameNodes(q, r) ==
    r.count = q.count /\ r.size = q.size /\ r.priority = q.priority /\ Members(r) = Members(q)

\* While __prq_shift_up is at i: it began at start, where alone the nodes below may
\* be out of order.
UpFix(q, start, i) ==
    /\ start \in 1 .. q.count /\ i \in 1 .. start
    /\ \A k \in 2 .. q.count : k # i /\ (k \div 2 = i => i # start) => OrderAt(q, k)
    /\ OrderAcross(q, i)

\* While __prq_shift_down is at i.
DownFix(q, i) ==
    /\ i \in Nat \ {0}
    /\ \A k \in 2 .. q.count : k \div 2 # i => OrderAt(q, k)
    /\ OrderAcross(q, i)

\* The positions in use of a well-formed queue.
LEMMA Positions ==
    ASSUME NEW q, WellFormed(q)
    PROVE  /\ q.count \in Nat /\ q.size \in Nat
           /\ \A i \in 1 .. q.count : /\ i \in 0 .. q.size - 1 /\ q.heap[i] \in Node
                                      /\ PriorityAt(q, i) \in Int
           /\ \A i, j \in 1 .. q.count : q.heap[i] = q.heap[j] => i = j
BY DEF WellFormed, PriorityAt

\* An exchange keeps the queue well formed and its nodes.
LEMMA SwapWellFormed ==
    ASSUME NEW q, WellFormed(q), NEW i \in 1 .. q.count, NEW j \in 1 .. q.count, i # j,
           NEW r, r = Swap(q, i, j)
    PROVE  /\ WellFormed(r) /\ SameNodes(q, r)
           /\ PriorityAt(r, i) = PriorityAt(q, j) /\ PriorityAt(r, j) = PriorityAt(q, i)
           /\ \A k \in 1 .. q.count : k # i /\ k # j => PriorityAt(r, k) = PriorityAt(q, k)
<1>1. /\ q.count \in Nat /\ q.size \in Nat /\ q.count < q.size
      /\ q.heap \in [0 .. q.size - 1 -> Node \cup {NULL}]
      /\ q.index \in [Node -> -1 .. q.size] /\ q.priority \in [Node -> Int]
      /\ \A k \in 1 .. q.count : q.heap[k] \in Node /\ q.index[q.heap[k]] = k
      /\ i \in Int /\ j \in Int
  BY DEF WellFormed
<1>2. /\ i \in 0 .. q.size - 1 /\ j \in 0 .. q.size - 1
      /\ i \in -1 .. q.size /\ j \in -1 .. q.size
      /\ q.heap[i] \in Node /\ q.heap[j] \in Node /\ q.heap[i] # q.heap[j]
  BY <1>1
<1>3. /\ r = [heap |-> r.heap, count |-> r.count, size |-> r.size,
              index |-> r.index, priority |-> r.priority]
      /\ r.count = q.count /\ r.size = q.size /\ r.priority = q.priority
      /\ r.heap = [q.heap EXCEPT ![i] = q.heap[j], ![j] = q.heap[i]]
      /\ r.index = [q.index EXCEPT ![q.heap[j]] = i, ![q.heap[i]] = j]
  BY DEF WellFormed, Swap
<1>4. /\ r.heap \in [0 .. q.size - 1 -> Node \cup {NULL}]
      /\ r.heap[i] = q.heap[j] /\ r.heap[j] = q.heap[i]
      /\ \A k \in 0 .. q.size - 1 : k # i /\ k # j => r.heap[k] = q.heap[k]
  <2> DEFINE S == 0 .. q.size - 1
             T == Node \cup {NULL}
  <2>1. Updated(S, T, q.heap, i, q.heap[j], j, q.heap[i], r.heap)
    BY <1>1, <1>2, <1>3 DEF Updated
  <2> HIDE DEF S, T
  <2>2. /\ r.heap \in [S -> T] /\ r.heap[i] = q.heap[j] /\ r.heap[j] = q.heap[i]
        /\ \A k \in S : k # i /\ k # j => r.heap[k] = q.heap[k]
    BY <2>1, TwoUpdates
  <2> QED BY <2>2 DEF S, T
<1>5. /\ r.index \in [Node -> -1 .. q.size]
      /\ r.index[q.heap[i]] = j /\ r.index[q.heap[j]] = i
      /\ \A n \in Node : n # q.heap[i] /\ n # q.heap[j] => r.index[n] = q.index[n]
  <2> DEFINE T == -1 .. q.size
             a == q.heap[j]
             b == q.heap[i]
  <2>1. Updated(Node, T, q.index, a, i, b, j, r.index) /\ a # b
    BY <1>1, <1>2, <1>3 DEF Updated
  <2> HIDE DEF T, a, b
  <2>2. /\ r.index \in [Node -> T] /\ r.index[a] = i /\ r.index[b] = j
        /\ \A n \in Node : n # a /\ n # b => r.index[n] = q.index[n]
    BY <2>1, TwoUpdates
  <2> QED BY <2>2 DEF T, a, b
<1>6. \A k \in 1 .. q.count : k \in 0 .. q.size - 1
  BY <1>1
<1>7. ASSUME NEW k \in 1 .. q.count
      PROVE  r.heap[k] \in Node /\ r.index[r.heap[k]] = k
  <2>1. CASE k = i
    BY <1>2, <1>4, <1>5, <2>1
  <2>2. CASE k = j
    BY <1>2, <1>4, <1>5, <2>2
  <2>3. CASE k # i /\ k # j
    <3>1. r.heap[k] = q.heap[k] /\ q.heap[k] \in Node /\ q.index[q.heap[k]] = k
      BY <1>1, <1>4, <1>6, <2>3
    <3>2. q.heap[k] # q.heap[i] /\ q.heap[k] # q.heap[j]
      BY <1>1, <2>3
    <3> QED BY <1>5, <3>1, <3>2
  <2> QED BY <2>1, <2>2, <2>3
<1>8. WellFormed(r)
  BY <1>1, <1>3, <1>4, <1>5, <1>7 DEF WellFormed
<1>9. Members(r) = Members(q)
  <2>1. \A k \in 1 .. q.count : \E l \in 1 .. q.count : r.heap[k] = q.heap[l]
    BY <1>4, <1>6
  <2>2. \A k \in 1 .. q.count : \E l \in 1 .. q.count : r.heap[l] = q.heap[k]
    BY <1>4, <1>6
  <2>3. Members(r) = {r.heap[l] : l \in 1 .. q.count} /\ Members(q) = {q.heap[l] : l \in 1 .. q.count}
    BY <1>3 DEF Members
  <2>4. Members(r) \subseteq Members(q)
    BY ONLY <2>1, <2>3
  <2>5. Members(q) \subseteq Members(r)
    BY ONLY <2>2, <2>3
  <2> QED BY <2>4, <2>5
<1>10. \A k \in 1 .. q.count : k # i /\ k # j => PriorityAt(r, k) = PriorityAt(q, k)
  BY <1>3, <1>4, <1>6 DEF PriorityAt
<1>11. PriorityAt(r, i) = PriorityAt(q, j) /\ PriorityAt(r, j) = PriorityAt(q, i)
  BY <1>3, <1>4 DEF PriorityAt
<1> QED BY <1>3, <1>8, <1>9, <1>10, <1>11 DEF SameNodes

\* An iteration of __prq_shift_up.
LEMMA UpIteration ==
    ASSUME NEW q, WellFormed(q), NEW start, NEW i, UpFix(q, start, i), SmallerThanParent(q, i),
           NEW r, r = Swap(q, i, i \div 2)
    PROVE  /\ WellFormed(r) /\ SameNodes(q, r) /\ UpFix(r, start, i \div 2)
           /\ i \div 2 \in 1 .. i - 1
<1> DEFINE p == i \div 2
           n == q.count
           f == Priorities(q)
           g == Priorities(r)
           h == Parents(n)
<1>1. /\ n \in Nat /\ i \in 1 .. start /\ start \in 1 .. n /\ i > 1 /\ i \in 2 .. n
      /\ i \in Nat /\ PriorityAt(q, i) < PriorityAt(q, p)
  BY DEF WellFormed, UpFix, SmallerThanParent
<1>2. p \in 1 .. i - 1
  BY <1>1, Halves
<1>3. p \in 1 .. n /\ p # i /\ p \in Nat /\ i \in 1 .. n /\ p \in 1 .. start /\ p # start
  BY <1>1, <1>2
<1>4. /\ WellFormed(r) /\ SameNodes(q, r) /\ r.count = n
      /\ PriorityAt(r, i) = PriorityAt(q, p) /\ PriorityAt(r, p) = PriorityAt(q, i)
      /\ \A k \in 1 .. n : k # i /\ k # p => PriorityAt(r, k) = PriorityAt(q, k)
  BY <1>3, SwapWellFormed DEF SameNodes
<1>5. /\ \A k \in 1 .. n : f[k] = PriorityAt(q, k) /\ g[k] = PriorityAt(r, k)
      /\ f \in [1 .. n -> Int] /\ g \in [1 .. n -> Int]
  BY <1>4, Positions DEF Priorities
<1>6. h \in [2 .. n -> 1 .. n] /\ \A k \in 2 .. n : h[k] = k \div 2 /\ h[k] < k
  BY <1>1, ParentsType
<1> HIDE DEF f, g, h
<1>7. OnlyAbove(n, g, h, p)
  <2>1. p = h[i] /\ f[i] < f[p]
    BY <1>1, <1>3, <1>5, <1>6
  <2>2. ASSUME NEW k \in 2 .. n, k # i, h[k] # i PROVE f[h[k]] <= f[k]
    <3>1. k \in 1 .. n /\ h[k] \in 1 .. n /\ h[k] = k \div 2
      BY <1>1, <1>6
    <3>2. OrderAt(q, k)
      BY <2>2, <3>1 DEF UpFix
    <3> QED BY <1>5, <3>1, <3>2 DEF OrderAt
  <2>3. \A k \in 2 .. n : h[k] = i => f[p] <= f[k]
    BY <1>1, <1>3, <1>5, <1>6 DEF UpFix, OrderAcross
  <2>4. g[i] = f[p] /\ g[p] = f[i] /\ \A k \in 1 .. n : k # i /\ k # p => g[k] = f[k]
    BY <1>3, <1>4, <1>5
  <2>5. MovesUp(n, f, g, h, i, p)
    BY <1>1, <1>3, <1>5, <1>6, <2>1, <2>2, <2>3, <2>4 DEF MovesUp
  <2> QED BY <2>5, UpStep
<1>8. \A k \in 2 .. n : k \in 1 .. n /\ h[k] \in 1 .. n /\ h[k] = k \div 2
  BY <1>1, <1>6
<1>9. \A k \in 2 .. n : k # p => OrderAt(r, k)
  BY <1>5, <1>7, <1>8 DEF OnlyAbove, OrderAt
<1>10. OrderAcross(r, p)
  <2>1. p > 1 => p \in 2 .. n
    BY <1>3
  <2> QED BY <1>4, <1>5, <1>7, <1>8, <2>1 DEF OnlyAbove, OrderAcross
<1> QED BY <1>1, <1>2, <1>3, <1>4, <1>9, <1>10 DEF UpFix

\* SmallerChild is a child, and none is smaller.
LEMMA ChildIsSmaller ==
    ASSUME NEW q, WellFormed(q), NEW i \in Nat \ {0}, 2 * i <= q.count
    PROVE  /\ SmallerChild(q, i) \in 2 .. q.count
           /\ SmallerChild(q, i) \div 2 = i
           /\ \A k \in 2 .. q.count : k \div 2 = i =>
                  PriorityAt(q, SmallerChild(q, i)) <= PriorityAt(q, k)
<1> DEFINE c == SmallerChild(q, i)
<1>1. q.count \in Nat /\ \A k \in 1 .. q.count : PriorityAt(q, k) \in Int
  BY Positions
<1>2. (2 * i) \div 2 = i /\ (2 * i + 1) \div 2 = i
  BY HalfOfChild
<1>3. c \in {2 * i, 2 * i + 1} /\ c \in 2 .. q.count
  BY <1>1 DEF SmallerChild
<1>4. ASSUME NEW k \in 2 .. q.count, k \div 2 = i
      PROVE  PriorityAt(q, c) <= PriorityAt(q, k)
  <2>1. k = 2 * i \/ k = 2 * i + 1
    BY <1>4, Halves
  <2>2. /\ 2 * i \in 1 .. q.count /\ PriorityAt(q, 2 * i) \in Int
        /\ PriorityAt(q, k) \in Int
    BY <1>1
  <2>3. CASE 2 * i < q.count /\ PriorityAt(q, 2 * i) > PriorityAt(q, 2 * i + 1)
    <3>1. c = 2 * i + 1 /\ PriorityAt(q, 2 * i + 1) \in Int
      BY <1>1, <2>3 DEF SmallerChild
    <3> HIDE DEF c
    <3> QED BY <2>1, <2>2, <2>3, <3>1
  <2>4. CASE 2 * i < q.count /\ ~(PriorityAt(q, 2 * i) > PriorityAt(q, 2 * i + 1))
    <3>1. c = 2 * i /\ PriorityAt(q, 2 * i + 1) \in Int
      BY <1>1, <2>4 DEF SmallerChild
    <3> HIDE DEF c
    <3> QED BY <2>1, <2>2, <2>4, <3>1
  <2>5. CASE ~(2 * i < q.count)
    <3>1. k = 2 * i /\ c = 2 * i
      BY <1>1, <2>1, <2>5 DEF SmallerChild
    <3> HIDE DEF c
    <3> QED BY <2>2, <3>1
  <2> QED BY <2>3, <2>4, <2>5
<1> QED BY <1>2, <1>3, <1>4

\* An iteration of __prq_shift_down.
LEMMA DownIteration ==
    ASSUME NEW q, WellFormed(q), NEW i, DownFix(q, i), LargerThanChild(q, i),
           NEW r, r = Swap(q, i, SmallerChild(q, i))
    PROVE  /\ WellFormed(r) /\ SameNodes(q, r) /\ DownFix(r, SmallerChild(q, i))
           /\ SmallerChild(q, i) \in Nat /\ SmallerChild(q, i) > i
<1> DEFINE c == SmallerChild(q, i)
           n == q.count
           f == Priorities(q)
           g == Priorities(r)
           h == Parents(n)
<1>1. /\ n \in Nat /\ 2 * i <= n /\ PriorityAt(q, c) < PriorityAt(q, i) /\ i \in Nat \ {0}
  BY DEF WellFormed, LargerThanChild, DownFix
<1>2. /\ c \in 2 .. n /\ c \div 2 = i
      /\ \A k \in 2 .. n : k \div 2 = i => PriorityAt(q, c) <= PriorityAt(q, k)
  BY <1>1, ChildIsSmaller
<1> HIDE DEF c
<1>3. i \in 1 .. n /\ c \in 1 .. n /\ c # i /\ c \in Nat /\ c > i
  BY <1>1, <1>2
<1>4. /\ WellFormed(r) /\ SameNodes(q, r) /\ r.count = n
      /\ PriorityAt(r, i) = PriorityAt(q, c) /\ PriorityAt(r, c) = PriorityAt(q, i)
      /\ \A k \in 1 .. n : k # i /\ k # c => PriorityAt(r, k) = PriorityAt(q, k)
  <2>1. r = Swap(q, i, c)
    BY DEF c
  <2> QED BY <1>3, <2>1, SwapWellFormed DEF SameNodes
<1>5. /\ \A k \in 1 .. n : f[k] = PriorityAt(q, k) /\ g[k] = PriorityAt(r, k)
      /\ f \in [1 .. n -> Int] /\ g \in [1 .. n -> Int]
  BY <1>4, Positions DEF Priorities
<1>6. h \in [2 .. n -> 1 .. n] /\ \A k \in 2 .. n : h[k] = k \div 2 /\ h[k] < k
  BY <1>1, ParentsType
<1> HIDE DEF f, g, h
<1>7. \A k \in 2 .. n : k \in 1 .. n /\ h[k] \in 1 .. n
  BY <1>1, <1>6
<1>8. OnlyBelow(n, g, h, c)
  <2>1. h[c] = i /\ f[c] < f[i]
    BY <1>1, <1>2, <1>3, <1>5, <1>6
  <2>2. \A k \in 2 .. n : h[k] = i => f[c] <= f[k]
    BY <1>2, <1>3, <1>5, <1>6, <1>7
  <2>3. ASSUME NEW k \in 2 .. n, h[k] # i PROVE f[h[k]] <= f[k]
    BY <1>5, <1>6, <1>7, <2>3 DEF DownFix, OrderAt
  <2>4. ASSUME i > 1 PROVE f[h[i]] <= f[c]
    <3>1. i \in 2 .. n
      BY <1>3, <2>4
    <3>2. PriorityAt(q, i \div 2) <= PriorityAt(q, c)
      BY <1>2, <2>4 DEF DownFix, OrderAcross
    <3> QED BY <1>3, <1>5, <1>6, <1>7, <3>1, <3>2
  <2>5. g[i] = f[c] /\ g[c] = f[i] /\ \A k \in 1 .. n : k # i /\ k # c => g[k] = f[k]
    BY <1>3, <1>4, <1>5
  <2>6. MovesDown(n, f, g, h, i, c)
    BY <1>1, <1>2, <1>3, <1>5, <1>6, <2>1, <2>2, <2>3, <2>4, <2>5 DEF MovesDown
  <2> QED BY <2>6, DownStep
<1>9. ASSUME NEW k \in 2 .. n, k \div 2 # c PROVE OrderAt(r, k)
  <2>1. g[k \div 2] <= g[k] /\ k \div 2 \in 1 .. n
    BY <1>6, <1>7, <1>8, <1>9 DEF OnlyBelow
  <2> QED BY <1>5, <1>7, <2>1 DEF OrderAt
<1>10. OrderAcross(r, c)
  <2>1. ASSUME NEW k \in 2 .. n, k \div 2 = c PROVE g[c \div 2] <= g[k]
    BY <1>2, <1>6, <1>8, <2>1 DEF OnlyBelow
  <2>2. c \div 2 \in 1 .. n
    BY <1>2, <1>3
  <2> QED BY <1>4, <1>5, <1>7, <2>1, <2>2 DEF OrderAcross
<1> QED BY <1>3, <1>4, <1>9, <1>10 DEF DownFix, c

-----------------------------------------------------------------------------
(* The loops.                                                              *)

\* SameNodes from one queue to the next.
LEMMA SameNodesTwice ==
    ASSUME NEW q, NEW r, NEW t, SameNodes(q, r), SameNodes(r, t)
    PROVE  SameNodes(q, t)
BY DEF SameNodes

\* After k iterations of __prq_shift_up from start: it has ended, or gone up k times.
WentUp(q, start, s, k) ==
    /\ WellFormed(s.q) /\ SameNodes(q, s.q) /\ UpFix(s.q, start, s.idx)
    /\ SmallerThanParent(s.q, s.idx) => s.idx <= start - k

\* When __prq_shift_up has ended.
UpEnded(r, start) == \E i : UpFix(r, start, i) /\ ~SmallerThanParent(r, i)

\* __prq_shift_up ends within as many iterations as prq_shift_up gives it.
LEMMA ShiftUpEnds ==
    ASSUME NEW q, WellFormed(q), NEW start, UpFix(q, start, start)
    PROVE  /\ WellFormed(prq_shift_up(q, start)) /\ SameNodes(q, prq_shift_up(q, start))
           /\ UpEnded(prq_shift_up(q, start), start)
<1>1. start \in Nat /\ start > 0
  BY DEF UpFix, WellFormed
<1>2. PICK g : /\ prq_shift_up(q, start) = g[start].q
               /\ g[0] = [q |-> q, idx |-> start]
               /\ \A k \in 1 .. start : g[k] = UpOnce(g[k - 1])
  BY <1>1, ShiftUpLoop
<1> DEFINE T == {k \in Nat : WentUp(q, start, g[k], k)}
<1>3. 0 \in T
  <2>1. g[0].q = q /\ g[0].idx = start
    BY <1>2
  <2>2. SameNodes(q, q)
    BY DEF SameNodes
  <2>3. start <= start - 0
    BY <1>1
  <2> QED BY <2>1, <2>2, <2>3 DEF WentUp
<1>4. ASSUME NEW k \in 1 .. start, k - 1 \in T PROVE k \in T
  <2> DEFINE s == g[k - 1]
  <2>1. WentUp(q, start, s, k - 1) /\ g[k] = UpOnce(s) /\ k \in Nat
    BY <1>1, <1>2, <1>4
  <2> HIDE DEF s
  <2>2. CASE SmallerThanParent(s.q, s.idx)
    <3> DEFINE r == Swap(s.q, s.idx, s.idx \div 2)
    <3>1. g[k] = [q |-> r, idx |-> s.idx \div 2]
      BY <2>1, <2>2 DEF UpOnce
    <3>2. /\ WellFormed(r) /\ SameNodes(s.q, r) /\ UpFix(r, start, s.idx \div 2)
          /\ s.idx \div 2 \in 1 .. s.idx - 1
      BY <2>1, <2>2, UpIteration DEF WentUp
    <3>3. SameNodes(q, r)
      BY <2>1, <3>2, SameNodesTwice DEF WentUp
    <3>4. s.idx <= start - (k - 1) /\ s.idx \in Int
      BY <2>1, <2>2 DEF WentUp, UpFix, WellFormed
    <3> HIDE DEF r
    <3>5. s.idx \div 2 <= start - k
      BY <1>1, <2>1, <3>2, <3>4
    <3>6. g[k].q = r /\ g[k].idx = s.idx \div 2
      BY <3>1
    <3> QED BY <2>1, <3>2, <3>3, <3>5, <3>6 DEF WentUp
  <2>3. CASE ~SmallerThanParent(s.q, s.idx)
    <3>1. g[k] = s
      BY <2>1, <2>3 DEF UpOnce
    <3> QED BY <2>1, <2>3, <3>1 DEF WentUp
  <2> QED BY <2>2, <2>3
<1>5. start \in T
  <2> HIDE DEF T
  <2> QED BY <1>1, <1>3, <1>4, UpTo
<1>6. WentUp(q, start, g[start], start)
  BY <1>5
<1>7. ~SmallerThanParent(g[start].q, g[start].idx)
  <2>1. g[start].idx \in 1 .. start
    BY <1>6 DEF WentUp, UpFix
  <2> QED BY <1>1, <1>6, <2>1 DEF WentUp
<1>8. UpFix(g[start].q, start, g[start].idx)
  BY <1>6 DEF WentUp
<1>9. UpEnded(g[start].q, start)
  BY <1>7, <1>8 DEF UpEnded
<1> QED BY <1>2, <1>6, <1>9 DEF WentUp

\* Where there is nothing to do, the loops do nothing.
LEMMA ShiftUpNothing ==
    ASSUME NEW q, NEW i \in Nat, ~SmallerThanParent(q, i)
    PROVE  prq_shift_up(q, i) = q
<1> DEFINE s == [q |-> q, idx |-> i]
<1>1. PICK g : /\ prq_shift_up(q, i) = g[i].q
               /\ g[0] = s
               /\ \A k \in 1 .. i : g[k] = UpOnce(g[k - 1])
  BY ShiftUpLoop
<1>2. UpOnce(s) = s
  BY DEF UpOnce
<1>3. s.q = q
  OBVIOUS
<1> HIDE DEF s
<1> DEFINE T == {k \in Nat : g[k] = s}
<1>4. 0 \in T
  BY <1>1
<1>5. ASSUME NEW k \in 1 .. i, k - 1 \in T PROVE k \in T
  <2>1. k \in Nat
    OBVIOUS
  <2> QED BY <1>1, <1>2, <1>5, <2>1
<1>6. i \in T
  <2> HIDE DEF T
  <2> QED BY <1>4, <1>5, UpTo
<1> QED BY <1>1, <1>3, <1>6

\* The same for __prq_shift_down.
LEMMA ShiftDownNothing ==
    ASSUME NEW q, q.count \in Nat, NEW i, ~LargerThanChild(q, i)
    PROVE  prq_shift_down(q, i) = q
<1> DEFINE s == [q |-> q, idx |-> i]
           n == q.count
<1>1. PICK g : /\ prq_shift_down(q, i) = g[n].q
               /\ g[0] = s
               /\ \A k \in 1 .. n : g[k] = DownOnce(g[k - 1])
  BY ShiftDownLoop
<1>2. DownOnce(s) = s
  BY DEF DownOnce
<1>3. s.q = q /\ n \in Nat
  OBVIOUS
<1> HIDE DEF s, n
<1> DEFINE T == {k \in Nat : g[k] = s}
<1>4. 0 \in T
  BY <1>1
<1>5. ASSUME NEW k \in 1 .. n, k - 1 \in T PROVE k \in T
  <2>1. k \in Nat
    BY <1>3
  <2> QED BY <1>1, <1>2, <1>5, <2>1
<1>6. n \in T
  <2> HIDE DEF T
  <2> QED BY <1>3, <1>4, <1>5, UpTo
<1> QED BY <1>1, <1>3, <1>6

\* After k iterations of __prq_shift_down from position i.
WentDown(q, i, s, k) ==
    /\ WellFormed(s.q) /\ SameNodes(q, s.q) /\ DownFix(s.q, s.idx)
    /\ LargerThanChild(s.q, s.idx) => s.idx >= i + k

\* __prq_shift_down leaves a queue that is in order.
LEMMA ShiftDownOrders ==
    ASSUME NEW q, WellFormed(q), NEW i, DownFix(q, i)
    PROVE  /\ WellFormed(prq_shift_down(q, i)) /\ SameNodes(q, prq_shift_down(q, i))
           /\ \A k \in 2 .. q.count : OrderAt(prq_shift_down(q, i), k)
<1> DEFINE n == q.count
<1>1. i \in Nat /\ i > 0 /\ n \in Nat
  BY DEF DownFix, WellFormed
<1>2. PICK g : /\ prq_shift_down(q, i) = g[n].q
               /\ g[0] = [q |-> q, idx |-> i]
               /\ \A k \in 1 .. n : g[k] = DownOnce(g[k - 1])
  BY <1>1, ShiftDownLoop
<1> HIDE DEF n
<1> DEFINE T == {k \in Nat : WentDown(q, i, g[k], k)}
<1>3. 0 \in T
  <2>1. g[0].q = q /\ g[0].idx = i
    BY <1>2
  <2>2. SameNodes(q, q)
    BY DEF SameNodes
  <2>3. i >= i + 0
    BY <1>1
  <2> QED BY <2>1, <2>2, <2>3 DEF WentDown
<1>4. ASSUME NEW k \in 1 .. n, k - 1 \in T PROVE k \in T
  <2> DEFINE s == g[k - 1]
             c == SmallerChild(s.q, s.idx)
  <2>1. WentDown(q, i, s, k - 1) /\ g[k] = DownOnce(s) /\ k \in Nat
    BY <1>1, <1>2, <1>4
  <2> HIDE DEF s
  <2>2. CASE LargerThanChild(s.q, s.idx)
    <3> DEFINE r == Swap(s.q, s.idx, c)
    <3>1. g[k] = [q |-> r, idx |-> c]
      BY <2>1, <2>2 DEF DownOnce
    <3>2. /\ WellFormed(r) /\ SameNodes(s.q, r) /\ DownFix(r, c)
          /\ c \in Nat /\ c > s.idx
      BY <2>1, <2>2, DownIteration DEF WentDown
    <3>3. SameNodes(q, r)
      BY <2>1, <3>2, SameNodesTwice DEF WentDown
    <3>4. s.idx >= i + (k - 1) /\ s.idx \in Nat
      BY <2>1, <2>2 DEF WentDown, DownFix
    <3>5. g[k].q = r /\ g[k].idx = c
      BY <3>1
    <3> HIDE DEF r, c
    <3>6. c >= i + k
      BY <1>1, <2>1, <3>2, <3>4
    <3> QED BY <2>1, <3>2, <3>3, <3>5, <3>6 DEF WentDown
  <2>3. CASE ~LargerThanChild(s.q, s.idx)
    <3>1. g[k] = s
      BY <2>1, <2>3 DEF DownOnce
    <3> QED BY <2>1, <2>3, <3>1 DEF WentDown
  <2> QED BY <2>2, <2>3
<1>5. n \in T
  <2> HIDE DEF T
  <2> QED BY <1>1, <1>3, <1>4, UpTo
<1> DEFINE r == g[n].q
           j == g[n].idx
<1>6. WentDown(q, i, g[n], n)
  BY <1>5
<1>7. /\ WellFormed(r) /\ SameNodes(q, r) /\ DownFix(r, j) /\ r.count = n /\ j \in Nat \ {0}
      /\ LargerThanChild(r, j) => j >= i + n
  BY <1>6 DEF WentDown, SameNodes, DownFix, n
<1> HIDE DEF r, j
<1>8. ~LargerThanChild(r, j)
  BY <1>1, <1>7 DEF LargerThanChild
<1>9. ASSUME NEW k \in 2 .. n PROVE OrderAt(r, k)
  <2>1. CASE k \div 2 # j
    BY <1>7, <2>1 DEF DownFix
  <2>2. CASE k \div 2 = j
    <3>1. 2 * j <= n
      BY <1>1, <1>7, <2>2
    <3>2. /\ SmallerChild(r, j) \in 2 .. n
          /\ PriorityAt(r, SmallerChild(r, j)) <= PriorityAt(r, k)
      BY <1>7, <2>2, <3>1, ChildIsSmaller
    <3>3. ~(PriorityAt(r, SmallerChild(r, j)) < PriorityAt(r, j))
      BY <1>7, <1>8, <3>1 DEF LargerThanChild
    <3>4. j \in 1 .. n /\ k \in 1 .. n /\ SmallerChild(r, j) \in 1 .. n
      BY <1>1, <1>7, <3>1, <3>2
    <3>5. /\ PriorityAt(r, j) \in Int /\ PriorityAt(r, k) \in Int
          /\ PriorityAt(r, SmallerChild(r, j)) \in Int
      BY <1>7, <3>4, Positions
    <3>6. PriorityAt(r, j) <= PriorityAt(r, k)
      BY ONLY <3>2, <3>3, <3>5
    <3> QED BY <2>2, <3>6 DEF OrderAt
  <2> QED BY <2>1, <2>2
<1> QED BY <1>2, <1>7, <1>9 DEF r, n

-----------------------------------------------------------------------------
(* Whole operations.                                                       *)

\* What prq_enqueue leaves at the end of the array before it shifts.
LEMMA Appended ==
    ASSUME NEW q, QueueOK(q), NEW n \in Node, n \notin Members(q), NEW p \in Int,
           NEW r, r = AppendNode(q, n, p)
    PROVE  /\ WellFormed(r) /\ r.count = q.count + 1 /\ r.size = q.size
           /\ r.priority = [q.priority EXCEPT ![n] = p]
           /\ Members(r) = Members(q) \cup {n}
           /\ UpFix(r, r.count, r.count)
<1> DEFINE c == q.count
<1>0. /\ c \in Nat /\ q.size \in Nat /\ c + 1 < q.size /\ WellFormed(q)
      /\ q.heap \in [0 .. q.size - 1 -> Node \cup {NULL}]
      /\ q.index \in [Node -> -1 .. q.size] /\ q.priority \in [Node -> Int]
  BY DEF QueueOK, WellFormed
<1>1. r = [heap |-> [q.heap EXCEPT ![c + 1] = n], count |-> c + 1, size |-> q.size,
           index |-> [q.index EXCEPT ![n] = c + 1], priority |-> [q.priority EXCEPT ![n] = p]]
  <2>1. q = [heap |-> q.heap, count |-> q.count, size |-> q.size,
            index |-> q.index, priority |-> q.priority]
    BY <1>0 DEF WellFormed
  <2> QED BY <2>1 DEF AppendNode
<1>2. /\ r.heap = [q.heap EXCEPT ![c + 1] = n] /\ r.count = c + 1 /\ r.size = q.size
      /\ r.index = [q.index EXCEPT ![n] = c + 1] /\ r.priority = [q.priority EXCEPT ![n] = p]
  BY <1>1
<1>3. c + 1 \in 0 .. q.size - 1 /\ c + 1 \in -1 .. q.size
  BY <1>0
<1>4. /\ r.heap \in [0 .. q.size - 1 -> Node \cup {NULL}]
      /\ r.index \in [Node -> -1 .. q.size] /\ r.priority \in [Node -> Int]
  BY <1>0, <1>2, <1>3
<1>5. \A i \in 1 .. c : /\ i \in 0 .. q.size - 1 /\ i # c + 1 /\ q.heap[i] \in Node
                        /\ q.heap[i] # n /\ q.index[q.heap[i]] = i
  BY <1>0 DEF WellFormed, Members
<1>6. \A i \in 1 .. c : r.heap[i] = q.heap[i] /\ r.index[r.heap[i]] = i
  BY <1>0, <1>2, <1>5
<1>7. r.heap[c + 1] = n /\ r.index[n] = c + 1
  BY <1>0, <1>2, <1>3
<1>8. \A i \in 1 .. c + 1 : i \in 1 .. c \/ i = c + 1
  BY <1>0
<1>9. WellFormed(r)
  <2>1. r = [heap |-> r.heap, count |-> r.count, size |-> r.size,
            index |-> r.index, priority |-> r.priority]
    BY <1>1
  <2>2. \A i \in 1 .. c + 1 : r.heap[i] \in Node /\ r.index[r.heap[i]] = i
    BY <1>5, <1>6, <1>7, <1>8
  <2>3. r.count \in Nat /\ r.count < r.size /\ r.size \in Nat
    BY <1>0, <1>2
  <2> QED BY <1>2, <1>4, <2>1, <2>2, <2>3 DEF WellFormed
<1>10. Members(r) = Members(q) \cup {n}
  <2>1. \A i \in 1 .. c : i \in 1 .. c + 1
    BY <1>0
  <2>2. c + 1 \in 1 .. c + 1
    BY <1>0
  <2> QED BY <1>2, <1>6, <1>7, <1>8, <2>1, <2>2 DEF Members
<1>11. \A i \in 1 .. c : PriorityAt(r, i) = PriorityAt(q, i)
  BY <1>0, <1>2, <1>5, <1>6 DEF PriorityAt
<1>12. UpFix(r, c + 1, c + 1)
  <2>1. ASSUME NEW k \in 2 .. c + 1, k # c + 1 PROVE OrderAt(r, k)
    <3>1. k \in 2 .. c /\ k \in 1 .. c /\ k \div 2 \in 1 .. c
      BY <1>0, <2>1
    <3>2. OrderAt(q, k)
      BY <3>1 DEF QueueOK
    <3> QED BY <1>11, <3>1, <3>2 DEF OrderAt
  <2>2. \A k \in 2 .. c + 1 : k \div 2 # c + 1
    BY <1>0
  <2>3. c + 1 \in 1 .. c + 1
    BY <1>0
  <2> QED BY <1>2, <2>1, <2>2, <2>3 DEF UpFix, OrderAcross
<1> QED BY <1>2, <1>9, <1>10, <1>12

\* __prq_amortize leaves a queue that is in order, with room for one more node.
LEMMA Amortized ==
    ASSUME NEW q, WellFormed(q), q.size > 1, \A k \in 2 .. q.count : OrderAt(q, k)
    PROVE  /\ QueueOK(prq_amortize(q)) /\ Members(prq_amortize(q)) = Members(q)
           /\ prq_amortize(q).priority = q.priority
<1> DEFINE r == prq_amortize(q)
           c == q.count
<1>0. /\ c \in Nat /\ q.size \in Nat /\ c < q.size
      /\ q.heap \in [0 .. q.size - 1 -> Node \cup {NULL}]
      /\ q.index \in [Node -> -1 .. q.size] /\ q.priority \in [Node -> Int]
      /\ \A i \in 1 .. c : q.heap[i] \in Node /\ q.index[q.heap[i]] = i
  BY DEF WellFormed
<1>1. CASE c + 1 # q.size
  <2>1. r = q
    BY <1>1 DEF prq_amortize
  <2> QED BY <1>0, <1>1, <2>1 DEF QueueOK
<1>2. CASE c + 1 = q.size
  <2> DEFINE size == 2 * q.size
             heap == [i \in 0 .. size - 1 |-> IF i < q.size THEN q.heap[i] ELSE NULL]
  <2>1. r = [heap |-> heap, count |-> c, size |-> size,
             index |-> q.index, priority |-> q.priority]
    <3>1. q = [heap |-> q.heap, count |-> q.count, size |-> q.size,
              index |-> q.index, priority |-> q.priority]
      BY DEF WellFormed
    <3> QED BY <1>2, <3>1 DEF prq_amortize, AMORTIZED_CONSTANT
  <2>2. size \in Nat /\ c + 1 < size /\ q.size <= size
    BY <1>0, <1>2
  <2>3. \A i \in 0 .. size - 1 : i < q.size => i \in 0 .. q.size - 1
    BY <1>0
  <2>4. heap \in [0 .. size - 1 -> Node \cup {NULL}]
    BY <1>0, <2>3
  <2>5. \A i \in 1 .. c : i \in 0 .. size - 1 /\ heap[i] = q.heap[i]
    BY <1>0, <2>2
  <2> HIDE DEF size, heap
  <2>6. /\ r.heap = heap /\ r.count = c /\ r.size = size
        /\ r.index = q.index /\ r.priority = q.priority
    BY <2>1
  <2> HIDE DEF r
  <2>7. r.index \in [Node -> -1 .. size]
    <3>1. -1 .. q.size \subseteq -1 .. size
      BY <1>0, <2>2
    <3> QED BY <1>0, <2>6, <3>1
  <2>8. WellFormed(r)
    <3>1. r = [heap |-> r.heap, count |-> r.count, size |-> r.size,
              index |-> r.index, priority |-> r.priority]
      BY <2>1, <2>6
    <3>2. c < size
      BY <1>0, <2>2
    <3> QED BY <1>0, <2>2, <2>4, <2>5, <2>6, <2>7, <3>1, <3>2 DEF WellFormed
  <2>9. Members(r) = Members(q)
    BY <2>5, <2>6 DEF Members
  <2>10. \A k \in 2 .. c : OrderAt(r, k)
    <3>1. \A k \in 1 .. c : PriorityAt(r, k) = PriorityAt(q, k)
      BY <2>5, <2>6 DEF PriorityAt
    <3>2. \A k \in 2 .. c : k \in 1 .. c /\ k \div 2 \in 1 .. c
      BY <1>0
    <3> QED BY <3>1, <3>2 DEF OrderAt
  <2> QED BY <2>2, <2>6, <2>8, <2>9, <2>10 DEF QueueOK, r
<1> QED BY <1>1, <1>2

\* prq_enqueue adds the node, with the priority it was given, and nothing else.
LEMMA EnqueueAdds ==
    ASSUME NEW q, QueueOK(q), NEW n \in Node, n \notin Members(q), NEW p \in Int
    PROVE  /\ QueueOK(Enqueued(q, n, p)) /\ Members(Enqueued(q, n, p)) = Members(q) \cup {n}
           /\ Enqueued(q, n, p).priority = [q.priority EXCEPT ![n] = p]
<1> DEFINE a == AppendNode(q, n, p)
           s == q.count + 1
           u == prq_shift_up(a, s)
<1>1. /\ WellFormed(a) /\ a.count = s /\ a.size = q.size
      /\ a.priority = [q.priority EXCEPT ![n] = p]
      /\ Members(a) = Members(q) \cup {n} /\ UpFix(a, a.count, a.count)
  BY Appended
<1>2. Enqueued(q, n, p) = prq_amortize(u)
  BY DEF Enqueued
<1> HIDE DEF a
<1>3. WellFormed(u) /\ SameNodes(a, u) /\ UpEnded(u, s)
  BY <1>1, ShiftUpEnds
<1>4. q.count \in Nat /\ q.size \in Nat /\ s \in Nat /\ q.size > 1
  BY DEF QueueOK, WellFormed
<1> HIDE DEF u
<1>5. u.count = s /\ u.size = q.size
  BY <1>1, <1>3 DEF SameNodes
<1>6. PICK i : UpFix(u, s, i) /\ ~SmallerThanParent(u, i)
  BY <1>3 DEF UpEnded
<1>7. ASSUME NEW k \in 2 .. u.count PROVE OrderAt(u, k)
  <2>1. k \in 2 .. s /\ k \div 2 \in 1 .. s - 1 /\ k \in 1 .. s
    BY <1>4, <1>5
  <2>2. CASE k # i
    <3>1. k \div 2 # s
      BY <1>4, <2>1
    <3> QED BY <1>6, <2>2, <3>1 DEF UpFix
  <2>3. CASE k = i
    <3>1. PriorityAt(u, k) \in Int /\ PriorityAt(u, k \div 2) \in Int
      BY <1>3, <1>4, <1>5, <2>1, Positions
    <3>2. ~(PriorityAt(u, k) < PriorityAt(u, k \div 2))
      BY <1>6, <2>1, <2>3 DEF SmallerThanParent
    <3> QED BY <3>1, <3>2 DEF OrderAt
  <2> QED BY <2>2, <2>3
<1>8. /\ QueueOK(prq_amortize(u)) /\ Members(prq_amortize(u)) = Members(u)
      /\ prq_amortize(u).priority = u.priority
  BY <1>3, <1>4, <1>5, <1>7, Amortized
<1> QED BY <1>1, <1>2, <1>3, <1>8 DEF SameNodes

\* r is q without the node at position i, whose place the last node has taken.
TookOut(q, i, r) ==
    /\ r = [heap |-> r.heap, count |-> r.count, size |-> r.size,
            index |-> r.index, priority |-> r.priority]
    /\ r.count = q.count - 1 /\ r.size = q.size /\ r.priority = q.priority
    /\ r.heap \in [0 .. q.size - 1 -> Node \cup {NULL}]
    /\ r.index \in [Node -> -1 .. q.size]
    /\ \A k \in 1 .. q.count - 1 : r.heap[k] = q.heap[IF k = i THEN q.count ELSE k]
    /\ \A k \in 1 .. q.count - 1 : r.index[r.heap[k]] = k

\* What is left when a node is taken out, before the loops run.
LEMMA TakenOut ==
    ASSUME NEW q, QueueOK(q), NEW i \in 1 .. q.count, NEW r, TookOut(q, i, r)
    PROVE  /\ WellFormed(r) /\ r.count + 1 < r.size /\ r.count = q.count - 1
           /\ Members(r) = Members(q) \ {q.heap[i]}
           /\ i < q.count => UpFix(r, i, i)
           /\ i = 1 => DownFix(r, i)
           /\ i = q.count => \A k \in 2 .. r.count : OrderAt(r, k)
<1> DEFINE c == q.count
           m == c - 1
<1>0. /\ c \in Nat /\ q.size \in Nat /\ c + 1 < q.size /\ WellFormed(q) /\ m \in Nat
      /\ q.priority \in [Node -> Int] /\ c >= 1 /\ i \in Nat /\ i >= 1 /\ i <= c
  BY DEF QueueOK, WellFormed
<1>1. \A k \in 1 .. m : k \in 1 .. c /\ k # c /\ k < c /\ k \in Int
  BY <1>0
<1>2. \A k \in 1 .. c : k \in 1 .. m \/ k = c
  BY <1>0
<1>3. /\ \A k \in 1 .. c : q.heap[k] \in Node
      /\ \A k, l \in 1 .. c : q.heap[k] = q.heap[l] => k = l
  BY <1>0, Positions
<1>4. c \in 1 .. c
  BY <1>0
<1>5. /\ r.count = m /\ r.size = q.size /\ r.priority = q.priority
      /\ \A k \in 1 .. m : r.heap[k] = q.heap[IF k = i THEN c ELSE k]
      /\ \A k \in 1 .. m : r.index[r.heap[k]] = k
  BY DEF TookOut
<1> HIDE DEF c, m
<1>6. \A k \in 1 .. m : r.heap[k] = IF k = i THEN q.heap[c] ELSE q.heap[k]
  BY <1>5
<1>7. \A k \in 1 .. m : r.heap[k] \in Node
  BY <1>1, <1>3, <1>4, <1>6
<1>8. WellFormed(r)
  <2>1. m < q.size
    BY <1>0 DEF m
  <2> QED BY <1>0, <1>5, <1>7, <2>1 DEF WellFormed, TookOut
<1>9. Members(r) = Members(q) \ {q.heap[i]}
  <2>1. Members(r) = {r.heap[k] : k \in 1 .. m} /\ Members(q) = {q.heap[k] : k \in 1 .. c}
    BY <1>5 DEF Members, c
  <2>2. ASSUME NEW x \in Members(r) PROVE x \in Members(q) /\ x # q.heap[i]
    <3>1. PICK k \in 1 .. m : x = r.heap[k]
      BY <2>1
    <3>2. CASE k = i
      <4>1. x = q.heap[c] /\ i # c
        BY <1>1, <1>6, <3>1, <3>2
      <4> QED BY <1>3, <1>4, <2>1, <4>1 DEF c
    <3>3. CASE k # i
      <4>1. x = q.heap[k] /\ k \in 1 .. c
        BY <1>1, <1>6, <3>1, <3>3
      <4> QED BY <1>3, <2>1, <3>3, <4>1 DEF c
    <3> QED BY <3>2, <3>3
  <2>3. ASSUME NEW x \in Members(q), x # q.heap[i] PROVE x \in Members(r)
    <3>1. PICK k \in 1 .. c : x = q.heap[k]
      BY <2>1
    <3>2. CASE k = c
      <4>1. i \in 1 .. m /\ r.heap[i] = q.heap[c]
        BY <1>2, <1>6, <2>3, <3>1, <3>2 DEF c
      <4> QED BY <2>1, <3>1, <3>2, <4>1
    <3>3. CASE k # c
      <4>1. k \in 1 .. m /\ k # i
        BY <1>2, <2>3, <3>1, <3>3
      <4>2. r.heap[k] = x
        BY <1>6, <3>1, <4>1
      <4> QED BY <2>1, <4>1, <4>2
    <3> QED BY <3>2, <3>3
  <2> QED BY <2>2, <2>3
<1>10. \A k \in 1 .. m : k # i => PriorityAt(r, k) = PriorityAt(q, k)
  BY <1>5, <1>6 DEF PriorityAt
<1>11. \A k \in 2 .. m : /\ k \in 2 .. c /\ k \in 1 .. m /\ k \in 1 .. c
                         /\ k \div 2 \in 1 .. m /\ k \div 2 \in 1 .. c /\ k \div 2 < k
  BY <1>0 DEF m
<1>12. \A k \in 2 .. c : OrderAt(q, k)
  BY DEF QueueOK, c
<1>13. \A k \in 2 .. m : k # i /\ k \div 2 # i => OrderAt(r, k)
  BY <1>10, <1>11, <1>12 DEF OrderAt
<1>14. ASSUME i < c PROVE UpFix(r, i, i)
  <2>1. i \in 1 .. m /\ i \in 1 .. i
    BY <1>0, <1>14 DEF m
  <2>2. ASSUME i > 1, NEW k \in 2 .. m, k \div 2 = i
        PROVE  PriorityAt(r, i \div 2) <= PriorityAt(r, k)
    <3>1. i \in 2 .. m /\ i \in 1 .. c
      BY <2>1, <2>2, <1>0 DEF m
    <3>2. /\ i \div 2 \in 1 .. m /\ i \div 2 \in 1 .. c /\ i \div 2 # i /\ k # i
          /\ k \in 1 .. m /\ k \in 1 .. c /\ OrderAt(q, i) /\ OrderAt(q, k)
      BY <1>0, <1>11, <1>12, <2>2, <3>1
    <3>3. /\ PriorityAt(r, i \div 2) = PriorityAt(q, i \div 2)
          /\ PriorityAt(r, k) = PriorityAt(q, k)
      BY <1>10, <3>2
    <3>4. /\ PriorityAt(q, i \div 2) <= PriorityAt(q, i)
          /\ PriorityAt(q, i) <= PriorityAt(q, k)
      BY <2>2, <3>2 DEF OrderAt
    <3>5. /\ PriorityAt(q, i \div 2) \in Int /\ PriorityAt(q, i) \in Int
          /\ PriorityAt(q, k) \in Int
      BY <1>0, <3>1, <3>2, Positions DEF c
    <3> QED BY <3>3, <3>4, <3>5, LeqTransitive
  <2> QED BY <1>5, <1>13, <2>1, <2>2 DEF UpFix, OrderAcross
<1>15. ASSUME i = 1 PROVE DownFix(r, i)
  <2>1. \A k \in 2 .. m : k # i
    BY <1>0, <1>15
  <2> QED BY <1>0, <1>5, <1>13, <1>15, <2>1 DEF DownFix, OrderAcross
<1>16. ASSUME i = c, NEW k \in 2 .. r.count PROVE OrderAt(r, k)
  <2>1. k \in 2 .. m /\ k # i /\ k \div 2 # i
    BY <1>1, <1>5, <1>11, <1>16
  <2> QED BY <1>13, <2>1
<1>17. r.count + 1 < r.size
  BY <1>0, <1>5 DEF m
<1> QED BY <1>5, <1>8, <1>9, <1>14, <1>15, <1>16, <1>17 DEF c, m

\* A node that went up from i, and what is below i, in the order that
\* __prq_shift_down needs.
LEMMA UpThenDown ==
    ASSUME NEW u, WellFormed(u), NEW i, UpEnded(u, i)
    PROVE  DownFix(u, i)
<1> DEFINE n == u.count
<1>1. PICK j : UpFix(u, i, j) /\ ~SmallerThanParent(u, j)
  BY DEF UpEnded
<1>2. n \in Nat /\ i \in 1 .. n /\ j \in 1 .. i /\ i \in Nat \ {0} /\ j \in Nat /\ j <= i
  BY <1>1 DEF UpFix, WellFormed
<1>3. \A k \in 1 .. n : PriorityAt(u, k) \in Int
  BY Positions
<1>4. \A k \in 2 .. n : k # j /\ (k \div 2 = j => j # i) => OrderAt(u, k)
  BY <1>1 DEF UpFix
<1>5. \A k \in 2 .. n : k \in 1 .. n /\ k \div 2 \in 1 .. n /\ k \div 2 < k
  BY <1>2
<1> HIDE DEF n
<1>6. ASSUME NEW k \in 2 .. n, k \div 2 # i PROVE OrderAt(u, k)
  <2>1. CASE k # j
    BY <1>4, <1>6, <2>1
  <2>2. CASE k = j
    <3>1. ~(PriorityAt(u, k) < PriorityAt(u, k \div 2))
      BY <1>1, <1>2, <2>2 DEF SmallerThanParent
    <3>2. PriorityAt(u, k) \in Int /\ PriorityAt(u, k \div 2) \in Int
      BY <1>3, <1>5
    <3> QED BY <3>1, <3>2 DEF OrderAt
  <2> QED BY <2>1, <2>2
<1>7. ASSUME i > 1, NEW k \in 2 .. n, k \div 2 = i
      PROVE  PriorityAt(u, i \div 2) <= PriorityAt(u, k)
  <2>1. CASE j = i
    BY <1>1, <1>7, <2>1 DEF UpFix, OrderAcross, n
  <2>2. CASE j # i
    <3>1. i \in 2 .. n /\ i \in 1 .. n /\ k # j
      BY <1>2, <1>5, <1>7
    <3>2. OrderAt(u, k) /\ OrderAt(u, i)
      BY <1>4, <1>7, <2>2, <3>1
    <3>3. /\ PriorityAt(u, i \div 2) \in Int /\ PriorityAt(u, i) \in Int
          /\ PriorityAt(u, k) \in Int
      BY <1>3, <1>5, <3>1
    <3> QED BY <1>7, <3>2, <3>3, LeqTransitive DEF OrderAt
  <2> QED BY <2>1, <2>2
<1> QED BY <1>2, <1>6, <1>7 DEF DownFix, OrderAcross, n

\* The first half of prq_remove takes the node out.
LEMMA UnlinkTakes ==
    ASSUME NEW q, QueueOK(q), NEW i \in 1 .. q.count, NEW r, r = Unlink(q, q.heap[i])
    PROVE  TookOut(q, i, r) /\ (i = q.count => r.heap[i] = q.heap[i])
<1> DEFINE c == q.count
           n == q.heap[i]
           e == q.heap[c]
           S == 0 .. q.size - 1
           V == Node \cup {NULL}
           W == -1 .. q.size
<1>0. /\ c \in Nat /\ q.size \in Nat /\ c + 1 < q.size /\ WellFormed(q) /\ i \in Nat
      /\ q.heap \in [S -> V] /\ q.index \in [Node -> W] /\ i <= c /\ i >= 1
      /\ \A k \in 1 .. c : q.heap[k] \in Node /\ q.index[q.heap[k]] = k
  BY DEF QueueOK, WellFormed
<1>1. /\ i \in S /\ c + 1 \in S /\ c \in 1 .. c /\ i \in W /\ -1 \in W /\ i # c + 1
      /\ NULL \in V
  BY <1>0
<1>2. n \in Node /\ e \in Node /\ q.index[n] = i /\ e \in V
  BY <1>0, <1>1
<1> DEFINE index == [q.index EXCEPT ![e] = i, ![n] = -1]
           heap == [q.heap EXCEPT ![i] = e, ![c + 1] = NULL]
<1>3. r = [q EXCEPT !.index = index, !.heap = heap, !.count = c - 1]
  BY <1>2 DEF Unlink
<1>4. \A k \in 1 .. c - 1 : /\ k \in S /\ k \in 1 .. c /\ k # c /\ k # c + 1
                            /\ k \in W
  BY <1>0
<1>5. \A k, l \in 1 .. c : q.heap[k] = q.heap[l] => k = l
  BY <1>0
<1>6. q.heap[i] = n /\ q.heap[c] = e
  OBVIOUS
<1> HIDE DEF S, V, W, n, e
<1>7. Updated(S, V, q.heap, i, e, c + 1, NULL, heap)
  BY <1>0, <1>1, <1>2 DEF Updated
<1>8. Updated(Node, W, q.index, e, i, n, -1, index)
  BY <1>0, <1>1, <1>2 DEF Updated
<1> HIDE DEF index, heap
<1>9. /\ r = [heap |-> heap, count |-> c - 1, size |-> q.size,
              index |-> index, priority |-> q.priority]
      /\ r.heap = heap /\ r.count = c - 1 /\ r.size = q.size
      /\ r.index = index /\ r.priority = q.priority
  <2> DEFINE m == c - 1
  <2>1. r = [q EXCEPT !.index = index, !.heap = heap, !.count = m]
    BY <1>3
  <2> HIDE DEF m
  <2>2. q = [heap |-> q.heap, count |-> q.count, size |-> q.size,
             index |-> q.index, priority |-> q.priority]
    BY <1>0 DEF WellFormed
  <2>3. /\ r = [heap |-> heap, count |-> m, size |-> q.size,
                index |-> index, priority |-> q.priority]
        /\ r.heap = heap /\ r.count = m /\ r.size = q.size
        /\ r.index = index /\ r.priority = q.priority
    BY ONLY <2>1, <2>2
  <2> QED BY <2>3 DEF m
<1>10. /\ heap \in [S -> V] /\ heap[i] = e
       /\ \A x \in S : x # i /\ x # c + 1 => heap[x] = q.heap[x]
  BY <1>1, <1>7, TwoUpdates
<1>11. /\ index \in [Node -> W] /\ index[n] = -1 /\ (e # n => index[e] = i)
       /\ \A x \in Node : x # e /\ x # n => index[x] = q.index[x]
  BY <1>8, TwoUpdates
<1>12. ASSUME NEW k \in 1 .. c - 1
       PROVE  heap[k] = q.heap[IF k = i THEN c ELSE k] /\ index[heap[k]] = k
  <2>0. k \in S /\ k \in 1 .. c /\ k # c /\ k # c + 1
    BY <1>4
  <2>1. CASE k = i
    <3>1. e # n
      BY <1>1, <1>5, <1>6, <2>0, <2>1
    <3> QED BY <1>6, <1>10, <1>11, <2>1, <3>1
  <2>2. CASE k # i
    <3>1. heap[k] = q.heap[k] /\ q.heap[k] # e /\ q.heap[k] # n /\ q.heap[k] \in Node
      BY <1>0, <1>1, <1>5, <1>6, <1>10, <2>0, <2>2
    <3>2. q.index[q.heap[k]] = k
      BY <1>0, <2>0
    <3> QED BY <1>11, <2>2, <3>1, <3>2
  <2> QED BY <2>1, <2>2
<1>13. i = c => heap[i] = q.heap[i]
  BY <1>6, <1>10
<1> QED BY <1>9, <1>10, <1>11, <1>12, <1>13 DEF TookOut, S, V, W

\* So does the first half of prq_dequeue, with the first node.
LEMMA UnlinkFirstTakes ==
    ASSUME NEW q, QueueOK(q), q.count > 0, NEW r, r = UnlinkFirst(q)
    PROVE  TookOut(q, 1, r)
<1> DEFINE c == q.count
           n == q.heap[1]
           e == q.heap[c]
           S == 0 .. q.size - 1
           V == Node \cup {NULL}
           W == -1 .. q.size
<1>0. /\ c \in Nat /\ q.size \in Nat /\ c + 1 < q.size /\ WellFormed(q) /\ c >= 1
      /\ q.heap \in [S -> V] /\ q.index \in [Node -> W]
      /\ \A k \in 1 .. c : q.heap[k] \in Node /\ q.index[q.heap[k]] = k
  BY DEF QueueOK, WellFormed
<1>1. /\ 1 \in S /\ c \in S /\ c \in 1 .. c /\ 1 \in 1 .. c /\ 1 \in W /\ -1 \in W
      /\ NULL \in V
  BY <1>0
<1>2. n \in Node /\ e \in Node /\ e \in V
  BY <1>0, <1>1
<1> DEFINE index == [q.index EXCEPT ![e] = 1, ![n] = -1]
           heap == [q.heap EXCEPT ![1] = e, ![c] = NULL]
<1>3. r = [q EXCEPT !.index = index, !.heap = heap, !.count = c - 1]
  BY DEF UnlinkFirst
<1>4. \A k \in 1 .. c - 1 : k \in S /\ k \in 1 .. c /\ k # c
  BY <1>0
<1>5. \A k, l \in 1 .. c : q.heap[k] = q.heap[l] => k = l
  BY <1>0
<1>6. q.heap[1] = n /\ q.heap[c] = e
  OBVIOUS
<1> HIDE DEF S, V, W, n, e
<1>7. Updated(S, V, q.heap, 1, e, c, NULL, heap)
  BY <1>0, <1>1, <1>2 DEF Updated
<1>8. Updated(Node, W, q.index, e, 1, n, -1, index)
  BY <1>0, <1>1, <1>2 DEF Updated
<1> HIDE DEF index, heap
<1>9. /\ r = [heap |-> heap, count |-> c - 1, size |-> q.size,
              index |-> index, priority |-> q.priority]
      /\ r.heap = heap /\ r.count = c - 1 /\ r.size = q.size
      /\ r.index = index /\ r.priority = q.priority
  <2> DEFINE m == c - 1
  <2>1. r = [q EXCEPT !.index = index, !.heap = heap, !.count = m]
    BY <1>3
  <2> HIDE DEF m
  <2>2. q = [heap |-> q.heap, count |-> q.count, size |-> q.size,
             index |-> q.index, priority |-> q.priority]
    BY <1>0 DEF WellFormed
  <2>3. /\ r = [heap |-> heap, count |-> m, size |-> q.size,
                index |-> index, priority |-> q.priority]
        /\ r.heap = heap /\ r.count = m /\ r.size = q.size
        /\ r.index = index /\ r.priority = q.priority
    BY ONLY <2>1, <2>2
  <2> QED BY <2>3 DEF m
<1>10. /\ heap \in [S -> V] /\ (1 # c => heap[1] = e)
       /\ \A x \in S : x # 1 /\ x # c => heap[x] = q.heap[x]
  BY <1>7, TwoUpdates
<1>11. /\ index \in [Node -> W] /\ index[n] = -1 /\ (e # n => index[e] = 1)
       /\ \A x \in Node : x # e /\ x # n => index[x] = q.index[x]
  BY <1>8, TwoUpdates
<1>12. ASSUME NEW k \in 1 .. c - 1
       PROVE  heap[k] = q.heap[IF k = 1 THEN c ELSE k] /\ index[heap[k]] = k
  <2>0. k \in S /\ k \in 1 .. c /\ k # c
    BY <1>4
  <2>1. CASE k = 1
    <3>1. e # n /\ 1 # c
      BY <1>1, <1>5, <1>6, <2>0, <2>1
    <3> QED BY <1>6, <1>10, <1>11, <2>1, <3>1
  <2>2. CASE k # 1
    <3>1. heap[k] = q.heap[k] /\ q.heap[k] # e /\ q.heap[k] # n /\ q.heap[k] \in Node
      BY <1>0, <1>1, <1>5, <1>6, <1>10, <2>0, <2>2
    <3>2. q.index[q.heap[k]] = k
      BY <1>0, <2>0
    <3> QED BY <1>11, <2>2, <3>1, <3>2
  <2> QED BY <2>1, <2>2
<1> QED BY <1>9, <1>10, <1>11, <1>12 DEF TookOut, S, V, W

\* The first node of the queue is one of its nodes, and none has a lower priority.
LEMMA PeekIsLowest ==
    ASSUME NEW q, QueueOK(q)
    PROVE  /\ Members(q) \subseteq Node
           /\ prq_peek(q) = NULL <=> Members(q) = {}
           /\ q.count = 0 <=> Members(q) = {}
           /\ Members(q) # {} => prq_peek(q) = q.heap[1] /\ prq_peek(q) \in Members(q)
           /\ \A n \in Members(q) : q.priority[prq_peek(q)] <= q.priority[n]
<1> DEFINE c == q.count
<1>1. WellFormed(q) /\ c \in Nat /\ \A i \in 1 .. c : q.heap[i] \in Node
  BY DEF QueueOK, WellFormed
<1>2. NULL \notin Node
  BY NodeAssumption
<1>3. CASE c = 0
  <2>1. Members(q) = {} /\ prq_peek(q) = NULL
    BY <1>3 DEF Members, prq_peek
  <2> QED BY <1>3, <2>1
<1>4. CASE c > 0
  <2>1. 1 \in 1 .. c /\ prq_peek(q) = q.heap[1]
    BY <1>1, <1>4 DEF prq_peek
  <2>2. q.heap[1] \in Members(q) /\ Members(q) \subseteq Node
    BY <1>1, <2>1 DEF Members
  <2> DEFINE T == {k \in Nat : \A j \in 1 .. c : j <= k => PriorityAt(q, 1) <= PriorityAt(q, j)}
  <2>3. \A k \in 1 .. c : PriorityAt(q, k) \in Int
    BY <1>1, Positions
  <2>4. 0 \in T
    OBVIOUS
  <2>5. ASSUME NEW k \in 1 .. c, k - 1 \in T PROVE k \in T
    <3>1. k \in Nat /\ k - 1 \in Nat
      BY <1>1
    <3>2. ASSUME NEW j \in 1 .. c, j <= k PROVE PriorityAt(q, 1) <= PriorityAt(q, j)
      <4>1. CASE j <= k - 1
        BY <2>5, <4>1
      <4>2. CASE j = 1
        BY <2>1, <2>3, <4>2
      <4>3. CASE j = k /\ j # 1
        <5>1. j \in 2 .. c /\ j \div 2 \in 1 .. c /\ j \div 2 <= k - 1
          BY <1>1, <3>1, <4>3
        <5>2. PriorityAt(q, j \div 2) <= PriorityAt(q, j)
          BY <5>1 DEF QueueOK, OrderAt
        <5>3. PriorityAt(q, 1) <= PriorityAt(q, j \div 2)
          BY <2>5, <5>1
        <5>4. /\ PriorityAt(q, 1) \in Int /\ PriorityAt(q, j \div 2) \in Int
              /\ PriorityAt(q, j) \in Int
          BY <2>1, <2>3, <5>1
        <5> QED BY ONLY <5>2, <5>3, <5>4, LeqTransitive
      <4> QED BY <3>1, <3>2, <4>1, <4>2, <4>3
    <3> QED BY <3>1, <3>2
  <2>6. c \in T
    <3> HIDE DEF T
    <3>1. \A k \in 0 .. c : k \in T
      BY <1>1, <2>4, <2>5, UpTo
    <3> QED BY <1>1, <3>1
  <2>7. \A j \in 1 .. c : PriorityAt(q, 1) <= PriorityAt(q, j)
    BY <1>1, <2>6
  <2>8. \A n \in Members(q) : q.priority[q.heap[1]] <= q.priority[n]
    BY <2>7 DEF Members, PriorityAt
  <2>9. q.heap[1] # NULL /\ c # 0 /\ Members(q) # {}
    BY <1>1, <1>2, <1>4, <2>1, <2>2
  <2> QED BY <2>1, <2>2, <2>8, <2>9
<1> QED BY <1>1, <1>3, <1>4

\* prq_dequeue takes out the first node, and nothing else.
LEMMA DequeueTakes ==
    ASSUME NEW q, QueueOK(q), Members(q) # {}
    PROVE  /\ QueueOK(Dequeued(q)) /\ Members(Dequeued(q)) = Members(q) \ {prq_peek(q)}
           /\ Dequeued(q).priority = q.priority
<1> DEFINE r == UnlinkFirst(q)
           u == prq_shift_down(r, 1)
<1>1. q.count > 0 /\ 1 \in 1 .. q.count /\ prq_peek(q) = q.heap[1]
  <2>1. q.count # 0 /\ prq_peek(q) = q.heap[1]
    BY PeekIsLowest
  <2>2. q.count \in Nat
    BY DEF QueueOK, WellFormed
  <2> QED BY ONLY <2>1, <2>2
<1>2. TookOut(q, 1, r)
  BY <1>1, UnlinkFirstTakes
<1>3. u = Dequeued(q)
  BY DEF Dequeued
<1> HIDE DEF r
<1>4. /\ WellFormed(r) /\ r.count + 1 < r.size /\ DownFix(r, 1)
      /\ Members(r) = Members(q) \ {q.heap[1]} /\ r.priority = q.priority
  BY <1>1, <1>2, TakenOut DEF TookOut
<1>5. /\ WellFormed(u) /\ SameNodes(r, u)
      /\ \A k \in 2 .. r.count : OrderAt(u, k)
  BY <1>4, ShiftDownOrders
<1> HIDE DEF u
<1>6. QueueOK(u) /\ Members(u) = Members(q) \ {prq_peek(q)} /\ u.priority = q.priority
  BY <1>1, <1>4, <1>5 DEF SameNodes, QueueOK
<1> QED BY <1>3, <1>6

\* prq_remove takes out its node, and nothing else.
LEMMA RemoveTakes ==
    ASSUME NEW q, QueueOK(q), NEW n \in Members(q)
    PROVE  /\ QueueOK(Removed(q, n)) /\ Members(Removed(q, n)) = Members(q) \ {n}
           /\ Removed(q, n).priority = q.priority
           /\ ~(prq_shift_up(Unlink(q, n), q.index[n]).count < 0)
<1>1. PICK i \in 1 .. q.count : n = q.heap[i]
  BY DEF Members
<1> DEFINE r == Unlink(q, q.heap[i])
           u == prq_shift_up(r, i)
           d == prq_shift_down(u, i)
<1>2. /\ q.index[n] = i /\ i \in Nat /\ q.count \in Nat /\ WellFormed(q)
      /\ i >= 1 /\ i <= q.count
  BY <1>1 DEF QueueOK, WellFormed
<1>3. d = Removed(q, n) /\ u = prq_shift_up(Unlink(q, n), q.index[n])
  BY <1>1, <1>2 DEF Removed
<1>4. TookOut(q, i, r) /\ (i = q.count => r.heap[i] = q.heap[i])
  BY UnlinkTakes
<1> HIDE DEF r
<1>5. /\ WellFormed(r) /\ r.count + 1 < r.size /\ r.count = q.count - 1
      /\ Members(r) = Members(q) \ {n} /\ r.priority = q.priority
      /\ i < q.count => UpFix(r, i, i)
      /\ i = q.count => \A k \in 2 .. r.count : OrderAt(r, k)
  BY <1>1, <1>4, TakenOut DEF TookOut
<1>6. CASE i < q.count
  <2>1. WellFormed(u) /\ SameNodes(r, u) /\ UpEnded(u, i)
    BY <1>5, <1>6, ShiftUpEnds
  <2> HIDE DEF u
  <2>2. DownFix(u, i)
    BY <2>1, UpThenDown
  <2>3. WellFormed(d) /\ SameNodes(u, d) /\ \A k \in 2 .. u.count : OrderAt(d, k)
    BY <2>1, <2>2, ShiftDownOrders
  <2>5. ~(u.count < 0)
    BY <1>2, <1>5, <2>1 DEF SameNodes
  <2> HIDE DEF d
  <2>4. QueueOK(d) /\ Members(d) = Members(q) \ {n} /\ d.priority = q.priority
    BY <1>5, <2>1, <2>3 DEF SameNodes, QueueOK
  <2> QED BY <1>3, <2>4, <2>5
<1>7. CASE i = q.count
  <2>1. ~SmallerThanParent(r, i)
    <3>1. SUFFICES ASSUME i > 1 PROVE ~(PriorityAt(r, i) < PriorityAt(r, i \div 2))
      BY DEF SmallerThanParent
    <3>2. /\ i \in 2 .. q.count /\ i \div 2 \in 1 .. q.count - 1 /\ i \div 2 # i
          /\ i \div 2 \in 1 .. q.count
      BY <1>2, <1>7, <3>1
    <3>3. r.heap[i \div 2] = q.heap[i \div 2] /\ r.heap[i] = q.heap[i]
      BY <1>4, <1>7, <3>2 DEF TookOut
    <3>4. PriorityAt(r, i) = PriorityAt(q, i) /\ PriorityAt(r, i \div 2) = PriorityAt(q, i \div 2)
      BY <1>5, <3>3 DEF PriorityAt
    <3>5. OrderAt(q, i)
      BY <3>2 DEF QueueOK
    <3>6. PriorityAt(q, i) \in Int /\ PriorityAt(q, i \div 2) \in Int
      BY <1>2, <3>2, Positions
    <3> QED BY <3>4, <3>5, <3>6 DEF OrderAt
  <2>2. u = r
    BY <1>2, <2>1, ShiftUpNothing
  <2>3. ~LargerThanChild(r, i)
    BY <1>2, <1>5, <1>7 DEF LargerThanChild
  <2>4. d = r
    <3>1. r.count \in Nat
      BY <1>5 DEF WellFormed
    <3> HIDE DEF u
    <3> QED BY <2>2, <2>3, <3>1, ShiftDownNothing
  <2>5. QueueOK(r)
    BY <1>5, <1>7 DEF QueueOK
  <2>6. ~(u.count < 0)
    BY <1>2, <1>5, <2>2
  <2> QED BY <1>3, <1>5, <2>4, <2>5, <2>6
<1> QED BY <1>2, <1>6, <1>7

=============================================================================
