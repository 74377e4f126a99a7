---------------------------- MODULE LibraryProofs ----------------------------
(***************************************************************************)
(* The theorems about the kernel's library: the growing arrays, the linked *)
(* list and the paths, for any contents, capacities and sequences of calls. *)
(***************************************************************************)
EXTENDS Library, FiniteSetTheorems, SequenceTheorems, NaturalsInduction, WellFoundedInduction, TLAPS

-----------------------------------------------------------------------------
(* Numbers.                                                                *)

\* The larger and the smaller of two numbers.
LEMMA OfTwo ==
    ASSUME NEW a \in Int, NEW b \in Int
    PROVE  /\ Max({a, b}) = IF a >= b THEN a ELSE b
           /\ Min({a, b}) = IF a <= b THEN a ELSE b
<1>1. \E x \in {a, b} : \A y \in {a, b} : x >= y
  OBVIOUS
<1>2. \E x \in {a, b} : \A y \in {a, b} : x <= y
  OBVIOUS
<1>3. Max({a, b}) \in {a, b} /\ \A y \in {a, b} : Max({a, b}) >= y
  BY <1>1 DEF Max
<1>4. Min({a, b}) \in {a, b} /\ \A y \in {a, b} : Min({a, b}) <= y
  BY <1>2 DEF Min
<1> QED BY <1>3, <1>4

\* A list grows by two places at least.
LEMMA GrownMore ==
    ASSUME NEW c \in Nat
    PROVE  Grown(c) \in Nat /\ Grown(c) >= c + 2
<1>1. c \div 4 \in Nat
  OBVIOUS
<1>2. Grown(c) = IF c + c \div 4 >= c + 2 THEN c + c \div 4 ELSE c + 2
  BY <1>1, OfTwo DEF Grown
<1> QED BY <1>1, <1>2

\* A set of natural numbers has a least element.
LEMMA LeastNumber ==
    ASSUME NEW T, T \subseteq Nat, T # {}
    PROVE  \E x \in T : \A y \in T : x <= y
<1> DEFINE R == OpToRel(<, Nat)
<1>1. IsWellFoundedOn(R, Nat)
  BY NatLessThanWellFounded
<1>2. \A x, y \in Nat : x < y => <<x, y>> \in R
  BY DEF OpToRel
<1> HIDE DEF R
<1>3. PICK x \in T : \A y \in T : ~(<<y, x>> \in R)
  BY <1>1, WFMin
<1>4. ASSUME NEW y \in T PROVE x <= y
  <2>1. x \in Nat /\ y \in Nat
    OBVIOUS
  <2>2. ~(y < x)
    BY <1>2, <1>3, <2>1, Zenon
  <2> QED BY ONLY <2>1, <2>2, SMT
<1> QED BY <1>4, Zenon

\* What holds at n where it holds at every smaller number holds everywhere.
LEMMA StrongInduction ==
    ASSUME NEW T, \A n \in Nat : (\A m \in 0 .. n - 1 : m \in T) => n \in T
    PROVE  Nat \subseteq T
<1> DEFINE U == {k \in Nat : k \notin T}
<1>1. SUFFICES ASSUME U # {} PROVE FALSE
  OBVIOUS
<1>2. PICK x \in U : \A y \in U : x <= y
  <2>1. U \subseteq Nat /\ U # {}
    BY <1>1
  <2> HIDE DEF U
  <2> QED BY <2>1, LeastNumber
<1>3. \A m \in 0 .. x - 1 : m \in T
  BY <1>2
<1> QED BY <1>2, <1>3

\* The greatest of some numbers up to n.
LEMMA MaxOf ==
    ASSUME NEW n \in Nat, NEW S, S \subseteq 0 .. n, S # {}
    PROVE  Max(S) \in S /\ \A y \in S : Max(S) >= y
<1> DEFINE T == {k \in Nat : n - k \in S}
<1>1. \A y \in S : n - y \in T
  OBVIOUS
<1>2. PICK t \in T : \A u \in T : t <= u
  <2>1. T \subseteq Nat /\ T # {}
    BY <1>1
  <2> HIDE DEF T
  <2> QED BY <2>1, LeastNumber
<1>3. t \in Nat /\ n - t \in S
  OBVIOUS
<1>4. PICK x \in S : x = n - t
  BY <1>3
<1> HIDE DEF T
<1>5. \A y \in S : x >= y
  <2>1. ASSUME NEW y \in S PROVE x >= y
    <3>1. t <= n - y
      BY <1>1, <1>2
    <3> QED BY <1>3, <1>4, <3>1
  <2> QED BY <2>1
<1> QED BY <1>5 DEF Max

\* The number that is at least every number of S is the greatest.
LEMMA MaxIs ==
    ASSUME NEW S, S \subseteq Int, NEW x \in S, \A y \in S : x >= y
    PROVE  Max(S) = x
<1>1. \E w \in S : \A y \in S : w >= y
  OBVIOUS
<1>2. Max(S) \in S /\ \A y \in S : Max(S) >= y
  BY <1>1, Zenon DEF Max
<1>3. PICK m \in S : m = Max(S)
  BY <1>2
<1>4. m >= x /\ x >= m /\ m \in Int /\ x \in Int
  BY <1>2, <1>3
<1> QED BY <1>3, <1>4

-----------------------------------------------------------------------------
(* The arrays.                                                             *)

\* The items of l are of E where they have been written, and its length lies within
\* the block.
IsList(l, E) ==
    /\ l = [length |-> l.length, capacity |-> l.capacity, array |-> l.array, mem |-> l.mem]
    /\ l.mem \in Seq(E \cup {Junk})
    /\ l.length \in 0 .. Len(l.mem)
    /\ l.capacity \in Nat

\* The block of r is the one of l, made larger or, when c is 0, given back.
Realloced(l, r, c) ==
    /\ r = [length |-> l.length, capacity |-> l.capacity, array |-> r.array, mem |-> r.mem]
    /\ c = 0 => r.mem = <<>>
    /\ c # 0 => /\ Len(r.mem) = IF c <= Len(l.mem) THEN Len(l.mem) ELSE c
                /\ \A i \in 1 .. Len(l.mem) : r.mem[i] = l.mem[i]
                /\ \A i \in Len(l.mem) + 1 .. Len(r.mem) : r.mem[i] = Junk

\* What krealloc gives.
LEMMA Reallocs ==
    ASSUME NEW E, NEW l, IsList(l, E), NEW c \in Nat
    PROVE  Realloced(l, krealloc(l, c), c) /\ krealloc(l, c).mem \in Seq(E \cup {Junk})
<1> DEFINE J == E \cup {Junk}
           r == krealloc(l, c)
<1>1. l.mem \in Seq(J) /\ Len(l.mem) \in Nat
  BY DEF IsList
<1>2. CASE c = 0
  <2>1. r = [length |-> l.length, capacity |-> l.capacity, array |-> r.array, mem |-> <<>>]
    BY <1>2 DEF krealloc, IsList
  <2> HIDE DEF r
  <2>2. r.mem = <<>>
    BY <2>1
  <2>3. Realloced(l, r, c) /\ r.mem \in Seq(J)
    BY <1>2, <2>1, <2>2 DEF Realloced
  <2> QED BY <2>3 DEF r
<1>3. CASE c # 0 /\ c <= Len(l.mem)
  <2>1. r = l
    BY <1>3 DEF krealloc
  <2> QED BY <1>1, <1>3, <2>1 DEF Realloced, IsList
<1>4. CASE c # 0 /\ ~(c <= Len(l.mem))
  <2> DEFINE f == Fresh(c - Len(l.mem))
             m == l.mem \o f
  <2>1. r = [length |-> l.length, capacity |-> l.capacity, array |-> "block", mem |-> m]
    BY <1>4 DEF krealloc, IsList
  <2>2. f \in Seq(J) /\ Len(f) = c - Len(l.mem) /\ \A i \in 1 .. Len(f) : f[i] = Junk
    BY <1>1, <1>4 DEF Fresh
  <2> HIDE DEF f, J
  <2>3. /\ m \in Seq(J) /\ Len(m) = c
        /\ \A i \in 1 .. Len(l.mem) : m[i] = l.mem[i]
        /\ \A i \in Len(l.mem) + 1 .. c : m[i] = Junk
    BY <1>1, <2>2, ConcatProperties
  <2> HIDE DEF r, m
  <2>4. r.mem = m /\ r.array = "block"
    BY <2>1
  <2>5. r = [length |-> l.length, capacity |-> l.capacity, array |-> r.array, mem |-> r.mem]
    BY <2>1, <2>4
  <2>6. Realloced(l, r, c)
    BY <1>4, <2>3, <2>4, <2>5 DEF Realloced
  <2> QED BY <2>3, <2>4, <2>6 DEF r, J
<1> QED BY <1>2, <1>3, <1>4

\* Sequences are equal when their items are.
LEMMA SameItems ==
    ASSUME NEW S, NEW s \in Seq(S), NEW t \in Seq(S), Len(s) = Len(t),
           \A i \in 1 .. Len(s) : s[i] = t[i]
    PROVE  s = t
OBVIOUS

\* The contents of a list, item by item.
LEMMA ContentsAre ==
    ASSUME NEW E, NEW l, IsList(l, E)
    PROVE  /\ Contents(l) \in Seq(E \cup {Junk}) /\ Len(Contents(l)) = l.length
           /\ \A i \in 1 .. l.length : Contents(l)[i] = l.mem[i]
<1> DEFINE m == l.mem
           k == l.length
<1>1. m \in Seq(E \cup {Junk}) /\ k \in 0 .. Len(m) /\ Contents(l) = SubSeq(m, 1, k)
  BY DEF IsList, Contents
<1> HIDE DEF m, k
<1>2. /\ SubSeq(m, 1, k) \in Seq(E \cup {Junk}) /\ Len(SubSeq(m, 1, k)) = k
      /\ \A i \in 1 .. k : SubSeq(m, 1, k)[i] = m[i]
  BY <1>1
<1> QED BY <1>1, <1>2 DEF m, k

\* What the list says of its capacity is true, and its length lies within it.
Fits(l) == l.length <= l.capacity /\ l.capacity <= Len(l.mem)

\* The list r is l with capacity c, cut to it.
ResizedTo(l, r, c, E) ==
    /\ IsList(r, E) /\ Fits(r)
    /\ r.capacity = c /\ r.length = IF l.length <= c THEN l.length ELSE c
    /\ c = 0 => r.mem = <<>>
    /\ \A i \in 1 .. r.length : r.mem[i] = l.mem[i]

\* u8a_resize.
LEMMA Resizes ==
    ASSUME NEW E, NEW l, IsList(l, E), NEW c \in Nat
    PROVE  ResizedTo(l, u8a_resize(l, c), c, E)
<1> DEFINE k == krealloc(l, c)
           r == u8a_resize(l, c)
           w == IF l.length <= c THEN l.length ELSE c
<1>1. Realloced(l, k, c) /\ k.mem \in Seq(E \cup {Junk})
  BY Reallocs
<1>2. /\ l.mem \in Seq(E \cup {Junk}) /\ l.length \in 0 .. Len(l.mem) /\ Len(l.mem) \in Nat
  BY DEF IsList
<1>3. r = [k EXCEPT !.capacity = c, !.length = Min({@, c})]
  BY DEF u8a_resize
<1> HIDE DEF k, r
<1>4. k = [length |-> l.length, capacity |-> l.capacity, array |-> k.array, mem |-> k.mem]
  BY <1>1 DEF Realloced
<1>5. Min({l.length, c}) = w
  <2>1. PICK n \in Int : n = l.length
    BY <1>2
  <2>2. Min({n, c}) = IF n <= c THEN n ELSE c
    BY OfTwo
  <2> QED BY <2>1, <2>2
<1> HIDE DEF w
<1>6. r = [length |-> w, capacity |-> c, array |-> k.array, mem |-> k.mem]
  <2>1. PICK a, m : k = [length |-> l.length, capacity |-> l.capacity, array |-> a, mem |-> m]
                    /\ a = k.array /\ m = k.mem
    BY <1>4
  <2> QED BY <1>3, <1>5, <2>1
<1>7. r.length = w /\ r.capacity = c /\ r.array = k.array /\ r.mem = k.mem
  BY <1>6
<1>8. w \in Nat /\ w <= l.length /\ w <= c /\ w = IF l.length <= c THEN l.length ELSE c
  BY <1>2 DEF w
<1>9. /\ c = 0 => k.mem = <<>>
      /\ c # 0 => /\ Len(k.mem) = IF c <= Len(l.mem) THEN Len(l.mem) ELSE c
                  /\ \A i \in 1 .. Len(l.mem) : k.mem[i] = l.mem[i]
  BY <1>1 DEF Realloced
<1>10. IsList(r, E)
  BY <1>1, <1>2, <1>6, <1>7, <1>8, <1>9 DEF IsList
<1>11. Fits(r)
  BY <1>2, <1>7, <1>8, <1>9 DEF Fits
<1>12. ResizedTo(l, r, c, E)
  BY <1>2, <1>7, <1>8, <1>9, <1>10, <1>11 DEF ResizedTo
<1> QED BY <1>12 DEF r

\* The list r is l with room for one more item.
GrownFor(l, r, E) ==
    /\ IsList(r, E) /\ Fits(r)
    /\ r.length = l.length /\ r.length < r.capacity
    /\ \A i \in 1 .. r.length : r.mem[i] = l.mem[i]

\* u8a_grow, for a list as every operation leaves it.
LEMMA U8Grows ==
    ASSUME NEW E, NEW l, IsList(l, E), Fits(l)
    PROVE  GrownFor(l, u8a_grow(l), E)
<1> DEFINE g == Grown(l.capacity)
           k == krealloc(l, g)
           r == u8a_grow(l)
<1>1. /\ l.mem \in Seq(E \cup {Junk}) /\ l.length \in 0 .. Len(l.mem) /\ Len(l.mem) \in Nat
      /\ l.capacity \in Nat
  BY DEF IsList
<1>2. g \in Nat /\ g >= l.capacity + 2
  BY <1>1, GrownMore
<1>3. CASE l.capacity = 0 \/ l.length >= l.capacity - 1
  <2>1. r = [k EXCEPT !.capacity = g]
    BY <1>3 DEF u8a_grow
  <2> HIDE DEF g
  <2>2. Realloced(l, k, g) /\ k.mem \in Seq(E \cup {Junk})
    BY <1>2, Reallocs
  <2> HIDE DEF k, r
  <2>3. k = [length |-> l.length, capacity |-> l.capacity, array |-> k.array, mem |-> k.mem]
    BY <2>2 DEF Realloced
  <2>4. r = [length |-> l.length, capacity |-> g, array |-> k.array, mem |-> k.mem]
    <3>1. PICK a, m : k = [length |-> l.length, capacity |-> l.capacity, array |-> a, mem |-> m]
                      /\ a = k.array /\ m = k.mem
      BY <2>3
    <3> QED BY <2>1, <3>1
  <2>5. r.length = l.length /\ r.capacity = g /\ r.array = k.array /\ r.mem = k.mem
    BY <2>4
  <2>6. /\ Len(k.mem) = IF g <= Len(l.mem) THEN Len(l.mem) ELSE g
        /\ \A i \in 1 .. Len(l.mem) : k.mem[i] = l.mem[i]
    BY <1>1, <1>2, <2>2 DEF Realloced
  <2>7. IsList(r, E) /\ Fits(r)
    BY <1>1, <1>2, <2>2, <2>4, <2>5, <2>6 DEF IsList, Fits
  <2>8. r.length < r.capacity /\ \A i \in 1 .. r.length : r.mem[i] = l.mem[i]
    BY <1>1, <1>2, <2>5, <2>6 DEF Fits
  <2>9. GrownFor(l, r, E)
    BY <2>5, <2>7, <2>8 DEF GrownFor
  <2> QED BY <2>9 DEF r
<1>4. CASE ~(l.capacity = 0 \/ l.length >= l.capacity - 1)
  <2>1. r = l
    BY <1>4 DEF u8a_grow
  <2>2. GrownFor(l, l, E)
    BY <1>1, <1>4 DEF GrownFor, Fits
  <2> QED BY <2>1, <2>2
<1> QED BY <1>3, <1>4

\* An item is put behind the last one.
LEMMA Puts ==
    ASSUME NEW E, NEW l, IsList(l, E), l.length < Len(l.mem), NEW x \in E
    PROVE  LET r == put(l, x) IN
           /\ IsList(r, E) /\ r.length = l.length + 1 /\ r.capacity = l.capacity
           /\ r.mem = [l.mem EXCEPT ![l.length + 1] = x]
           /\ Contents(r) = Append(Contents(l), x)
<1> DEFINE m == [l.mem EXCEPT ![l.length + 1] = x]
           r == put(l, x)
<1>1. /\ l.mem \in Seq(E \cup {Junk}) /\ l.length \in 0 .. Len(l.mem) /\ Len(l.mem) \in Nat
      /\ l.capacity \in Nat
      /\ l = [length |-> l.length, capacity |-> l.capacity, array |-> l.array, mem |-> l.mem]
  BY DEF IsList
<1>2. r = [length |-> l.length + 1, capacity |-> l.capacity, array |-> l.array, mem |-> m]
  <2>1. r = [l EXCEPT !.mem[l.length + 1] = x, !.length = @ + 1]
    BY DEF put
  <2>2. PICK n, c, a, b : /\ l = [length |-> n, capacity |-> c, array |-> a, mem |-> b]
                          /\ n = l.length /\ c = l.capacity /\ a = l.array /\ b = l.mem
    BY <1>1
  <2> QED BY <2>1, <2>2
<1>3. /\ m \in Seq(E \cup {Junk}) /\ Len(m) = Len(l.mem)
      /\ \A i \in 1 .. Len(l.mem) : m[i] = IF i = l.length + 1 THEN x ELSE l.mem[i]
  BY <1>1
<1> HIDE DEF m, r
<1>4. r.length = l.length + 1 /\ r.capacity = l.capacity /\ r.array = l.array /\ r.mem = m
  BY <1>2
<1>5. IsList(r, E)
  BY <1>1, <1>2, <1>3, <1>4 DEF IsList
<1>6. Contents(r) = Append(Contents(l), x)
  <2>1. /\ Contents(r) \in Seq(E \cup {Junk}) /\ Len(Contents(r)) = l.length + 1
        /\ \A i \in 1 .. l.length + 1 : Contents(r)[i] = m[i]
    BY <1>4, <1>5, ContentsAre
  <2>2. /\ Contents(l) \in Seq(E \cup {Junk}) /\ Len(Contents(l)) = l.length
        /\ \A i \in 1 .. l.length : Contents(l)[i] = l.mem[i]
    BY ContentsAre
  <2>3. /\ Append(Contents(l), x) \in Seq(E \cup {Junk})
        /\ Len(Append(Contents(l), x)) = l.length + 1
        /\ \A i \in 1 .. l.length + 1 :
             Append(Contents(l), x)[i] = IF i = l.length + 1 THEN x ELSE Contents(l)[i]
    BY <1>1, <2>2
  <2>4. \A i \in 1 .. l.length + 1 : Contents(r)[i] = Append(Contents(l), x)[i]
    <3>1. SUFFICES ASSUME NEW i \in 1 .. l.length + 1
                   PROVE  Contents(r)[i] = Append(Contents(l), x)[i]
      OBVIOUS
    <3>2. CASE i = l.length + 1
      BY <1>1, <1>3, <2>1, <2>3, <3>2
    <3>3. CASE i # l.length + 1
      <4>1. i \in 1 .. l.length /\ i \in 1 .. Len(l.mem)
        BY <1>1, <3>3
      <4> QED BY <1>3, <2>1, <2>2, <2>3, <3>3, <4>1
    <3> QED BY <3>2, <3>3
  <2> QED BY <2>1, <2>3, <2>4, SameItems
<1> QED BY <1>4, <1>5, <1>6 DEF m, r

\* u8a_push: there is room, and the contents are longer by the byte.
LEMMA U8Pushes ==
    ASSUME NEW E, NEW l, IsList(l, E), Fits(l), NEW x \in E
    PROVE  LET r == u8a_push(l, x) IN
           /\ Room(u8a_grow(l))
           /\ IsList(r, E) /\ Fits(r) /\ r.capacity # 0
           /\ Contents(r) = Append(Contents(l), x)
<1> DEFINE g == u8a_grow(l)
           r == u8a_push(l, x)
<1>1. GrownFor(l, g, E) /\ r = put(g, x)
  BY U8Grows DEF u8a_push
<1>2. IsList(l, E)
  OBVIOUS
<1> HIDE DEF g, r
<1>3. /\ IsList(g, E) /\ Fits(g) /\ g.length = l.length /\ g.length < g.capacity
      /\ \A i \in 1 .. g.length : g.mem[i] = l.mem[i]
  BY <1>1 DEF GrownFor
<1>4. /\ g.length \in Nat /\ g.capacity \in Nat /\ Len(g.mem) \in Nat
      /\ g.mem \in Seq(E \cup {Junk}) /\ g.length + 1 \in 1 .. Len(g.mem)
  BY <1>3 DEF IsList, Fits
<1>5. g.length < Len(g.mem)
  BY <1>3, <1>4
<1>6. /\ IsList(r, E) /\ r.length = g.length + 1 /\ r.capacity = g.capacity
      /\ r.mem = [g.mem EXCEPT ![g.length + 1] = x]
      /\ Contents(r) = Append(Contents(g), x)
  BY <1>1, <1>3, <1>5, Puts
<1>7. Contents(g) = Contents(l)
  <2>1. PICK t \in Seq(E \cup {Junk}) : t = Contents(l) /\ Len(t) = l.length
                                        /\ \A i \in 1 .. l.length : t[i] = l.mem[i]
    <3>1. /\ Contents(l) \in Seq(E \cup {Junk}) /\ Len(Contents(l)) = l.length
          /\ \A i \in 1 .. l.length : Contents(l)[i] = l.mem[i]
      BY <1>2, ContentsAre
    <3> QED BY <3>1
  <2>2. /\ Contents(g) \in Seq(E \cup {Junk}) /\ Len(Contents(g)) = g.length
        /\ \A i \in 1 .. g.length : Contents(g)[i] = g.mem[i]
    BY <1>3, ContentsAre
  <2>3. Contents(g) = t
    BY <1>3, <2>1, <2>2, SameItems
  <2> QED BY <2>1, <2>3
<1>8. Fits(r) /\ r.capacity # 0
  <2>1. Len(r.mem) = Len(g.mem)
    BY <1>4, <1>6
  <2> QED BY <1>3, <1>4, <1>6, <2>1 DEF Fits
<1>9. Room(g)
  BY <1>5 DEF Room
<1> QED BY <1>6, <1>7, <1>8, <1>9 DEF g, r

\* u8a_push_string: the capacity is the length afterwards.
LEMMA U8PushesString ==
    ASSUME NEW E, NEW l, IsList(l, E), NEW s \in Seq(E)
    PROVE  LET r == u8a_push_string(l, s) IN
           /\ IsList(r, E) /\ Fits(r) /\ r.capacity = l.length + Len(s)
           /\ r.capacity = 0 => r.mem = <<>>
           /\ Contents(r) = Contents(l) \o s
<1> DEFINE n == l.length
           c == n + Len(s)
           z == u8a_resize(l, c)
           m == [i \in DOMAIN z.mem |-> IF i \in n + 1 .. n + Len(s) THEN s[i - n] ELSE z.mem[i]]
           r == u8a_push_string(l, s)
<1>1. /\ l.mem \in Seq(E \cup {Junk}) /\ n \in 0 .. Len(l.mem) /\ Len(l.mem) \in Nat
      /\ Len(s) \in Nat
  BY DEF IsList
<1>2. ResizedTo(l, z, c, E)
  BY <1>1, Resizes
<1>3. r = [z EXCEPT !.mem = m, !.length = c]
  BY DEF u8a_push_string
<1> HIDE DEF z, r
<1>4. /\ IsList(z, E) /\ z.capacity = c /\ z.length = n /\ c <= Len(z.mem)
      /\ c = 0 => z.mem = <<>>
      /\ \A i \in 1 .. n : z.mem[i] = l.mem[i]
  BY <1>1, <1>2 DEF ResizedTo, Fits
<1>5. z.mem \in Seq(E \cup {Junk}) /\ DOMAIN z.mem = 1 .. Len(z.mem) /\ Len(z.mem) \in Nat
  BY <1>4 DEF IsList
<1>6. /\ m \in Seq(E \cup {Junk}) /\ Len(m) = Len(z.mem)
      /\ \A i \in 1 .. Len(z.mem) :
           m[i] = IF i \in n + 1 .. n + Len(s) THEN s[i - n] ELSE z.mem[i]
  <2>1. \A i \in 1 .. Len(z.mem) : z.mem[i] \in E \cup {Junk}
    BY <1>5
  <2>2. \A i \in 1 .. Len(z.mem) : i \in n + 1 .. n + Len(s) => s[i - n] \in E
    <3>1. \A j \in 1 .. Len(s) : s[j] \in E
      OBVIOUS
    <3>2. \A i \in 1 .. Len(z.mem) : i \in n + 1 .. n + Len(s) => i - n \in 1 .. Len(s)
      BY <1>1, <1>5
    <3> QED BY <3>1, <3>2
  <2> QED BY <1>5, <2>1, <2>2
<1> HIDE DEF m
<1>7. r = [length |-> c, capacity |-> c, array |-> z.array, mem |-> m]
  <2>1. z = [length |-> z.length, capacity |-> z.capacity, array |-> z.array, mem |-> z.mem]
    BY <1>4 DEF IsList
  <2>2. PICK k, d, a, b : /\ z = [length |-> k, capacity |-> d, array |-> a, mem |-> b]
                          /\ d = z.capacity /\ a = z.array
    BY <2>1
  <2> HIDE DEF c
  <2> QED BY <1>3, <1>4, <2>2
<1>8. r.length = c /\ r.capacity = c /\ r.array = z.array /\ r.mem = m
  BY <1>7
<1>9. IsList(r, E) /\ Fits(r)
  BY <1>1, <1>4, <1>5, <1>6, <1>7, <1>8 DEF IsList, Fits
<1>10. r.capacity = 0 => r.mem = <<>>
  <2>1. c = 0 => Len(m) = 0
    BY <1>4, <1>6
  <2> QED BY <1>6, <1>8, <2>1
<1>11. Contents(r) = Contents(l) \o s
  <2>1. /\ Contents(r) \in Seq(E \cup {Junk}) /\ Len(Contents(r)) = c
        /\ \A i \in 1 .. c : Contents(r)[i] = m[i]
    BY <1>8, <1>9, ContentsAre
  <2>2. PICK t \in Seq(E \cup {Junk}) : t = Contents(l) /\ Len(t) = n
                                        /\ \A i \in 1 .. n : t[i] = l.mem[i]
    <3>1. /\ Contents(l) \in Seq(E \cup {Junk}) /\ Len(Contents(l)) = n
          /\ \A i \in 1 .. n : Contents(l)[i] = l.mem[i]
      BY ContentsAre
    <3> QED BY <3>1
  <2>3. PICK v \in Seq(E \cup {Junk}) : v = s
    OBVIOUS
  <2>4. /\ t \o v \in Seq(E \cup {Junk}) /\ Len(t \o v) = c
        /\ \A i \in 1 .. c : (t \o v)[i] = IF i <= n THEN t[i] ELSE v[i - n]
    <3>1. Len(v) = Len(s)
      BY <2>3
    <3> QED BY <1>1, <2>2, <3>1, ConcatProperties
  <2>5. ASSUME NEW i \in 1 .. c PROVE Contents(r)[i] = (t \o v)[i]
    <3>1. i \in 1 .. Len(z.mem)
      BY <1>1, <1>4, <1>5
    <3>2. CASE i <= n
      <4>1. i \in 1 .. n /\ i \notin n + 1 .. n + Len(s)
        BY <1>1, <3>2
      <4> QED BY <1>4, <1>6, <2>1, <2>2, <2>4, <3>1, <3>2, <4>1
    <3>3. CASE ~(i <= n)
      <4>1. i \in n + 1 .. n + Len(s)
        BY <1>1, <3>3
      <4> QED BY <1>6, <2>1, <2>3, <2>4, <3>1, <3>3, <4>1
    <3> QED BY <3>2, <3>3
  <2>6. Contents(r) = t \o v
    BY <2>1, <2>4, <2>5, SameItems
  <2> QED BY <2>2, <2>3, <2>6
<1> QED BY <1>8, <1>9, <1>10, <1>11 DEF r

\* The capacity after u8a_pop and vpa_pop, with one item less.
LEMMA HalfCapacity ==
    ASSUME NEW n \in Nat, NEW c \in Nat, n < c
    PROVE  LET d == IF n < c \div 2 THEN c \div 2 ELSE c IN
           d \in Nat /\ d <= c /\ n < d
OBVIOUS

\* list_pop: the last item is gone, the capacity may be halved.
LEMMA Pops ==
    ASSUME NEW E, NEW l, IsList(l, E), l.length # 0
    PROVE  LET r == list_pop(l) IN
           /\ IsList(r, E) /\ r.mem = l.mem /\ r.length = l.length - 1
           /\ r.capacity <= l.capacity
           /\ l.length <= l.capacity => r.length < r.capacity
           /\ Contents(r) = Front(Contents(l))
<1> DEFINE n == l.length - 1
           d == IF n < l.capacity \div 2 THEN l.capacity \div 2 ELSE l.capacity
           r == list_pop(l)
<1>1. /\ l.mem \in Seq(E \cup {Junk}) /\ l.length \in 1 .. Len(l.mem) /\ Len(l.mem) \in Nat
      /\ l.capacity \in Nat
      /\ l = [length |-> l.length, capacity |-> l.capacity, array |-> l.array, mem |-> l.mem]
  BY DEF IsList
<1>2. r = [length |-> n, capacity |-> d, array |-> l.array, mem |-> l.mem]
  <2>1. r = [l EXCEPT !.length = @ - 1,
                      !.capacity = IF l.length - 1 < @ \div 2 THEN @ \div 2 ELSE @]
    BY DEF list_pop
  <2>2. PICK k, c, a, b : /\ l = [length |-> k, capacity |-> c, array |-> a, mem |-> b]
                          /\ k = l.length /\ c = l.capacity /\ a = l.array /\ b = l.mem
    BY <1>1
  <2> QED BY <2>1, <2>2
<1>3. d \in Nat /\ d <= l.capacity /\ (l.length <= l.capacity => n < d)
  <2>1. n \in Nat
    BY <1>1
  <2>2. l.capacity \div 2 \in Nat /\ l.capacity \div 2 <= l.capacity
    BY <1>1
  <2> QED BY <1>1, <2>1, <2>2, HalfCapacity
<1> HIDE DEF d, r
<1>4. r.length = n /\ r.capacity = d /\ r.array = l.array /\ r.mem = l.mem
  BY <1>2
<1>5. IsList(r, E)
  BY <1>1, <1>2, <1>3, <1>4 DEF IsList
<1>6. Contents(r) = Front(Contents(l))
  <2>1. /\ Contents(r) \in Seq(E \cup {Junk}) /\ Len(Contents(r)) = n
        /\ \A i \in 1 .. n : Contents(r)[i] = l.mem[i]
    BY <1>4, <1>5, ContentsAre
  <2>2. PICK t \in Seq(E \cup {Junk}) : t = Contents(l) /\ Len(t) = l.length
                                        /\ \A i \in 1 .. l.length : t[i] = l.mem[i]
    BY ContentsAre
  <2>3. /\ Front(t) \in Seq(E \cup {Junk}) /\ Len(Front(t)) = n
        /\ \A i \in 1 .. n : Front(t)[i] = t[i]
    BY <1>1, <2>2 DEF Front
  <2>4. \A i \in 1 .. n : Contents(r)[i] = Front(t)[i]
    BY <1>1, <2>1, <2>2, <2>3
  <2>5. Contents(r) = Front(t)
    BY <2>1, <2>3, <2>4, SameItems
  <2> QED BY <2>2, <2>5
<1> QED BY <1>3, <1>4, <1>5, <1>6 DEF r

\* An empty list that is made.
LEMMA Creates ==
    ASSUME NEW E, NEW c \in Nat
    PROVE  LET r == list_create(c) IN
           /\ IsList(r, E) /\ Fits(r) /\ r.capacity = c /\ r.length = 0 /\ Len(r.mem) = c
           /\ Contents(r) = <<>>
<1> DEFINE m == [i \in 1 .. c |-> Junk]
           r == list_create(c)
<1>1. r = [length |-> 0, capacity |-> c, array |-> "block", mem |-> m]
  BY DEF list_create, Fresh
<1>2. m \in Seq(E \cup {Junk}) /\ Len(m) = c
  OBVIOUS
<1> HIDE DEF m, r
<1>3. r.length = 0 /\ r.capacity = c /\ r.array = "block" /\ r.mem = m
  BY <1>1
<1>4. IsList(r, E) /\ Fits(r)
  BY <1>1, <1>2, <1>3 DEF IsList, Fits
<1>5. Contents(r) = <<>>
  <2>1. Contents(r) \in Seq(E \cup {Junk}) /\ Len(Contents(r)) = 0
    BY <1>3, <1>4, ContentsAre
  <2> QED BY <2>1, EmptySeq
<1> QED BY <1>2, <1>3, <1>4, <1>5 DEF r

\* u8a_clone.
LEMMA U8Clones ==
    ASSUME NEW E, NEW l, IsList(l, E)
    PROVE  LET r == u8a_clone(l) IN
           /\ IsList(r, E) /\ Fits(r) /\ r.capacity = l.length
           /\ r.capacity = 0 => r.mem = <<>>
           /\ Contents(r) = Contents(l) /\ r.mem = Contents(l) /\ r.length = l.length
<1> DEFINE n == l.length
           m == Contents(l)
           r == u8a_clone(l)
<1>1. n \in Nat
  BY DEF IsList
<1>2. r = [length |-> n, capacity |-> n, array |-> "block", mem |-> m]
  <2>1. r = [list_create(n) EXCEPT !.mem = m, !.length = n]
    BY DEF u8a_clone
  <2>2. PICK o, a, f, z : /\ z = list_create(n) /\ a = "block"
                          /\ z = [length |-> o, capacity |-> n, array |-> a, mem |-> f]
    BY DEF list_create
  <2>3. r = [z EXCEPT !.mem = m, !.length = n]
    BY <2>1, <2>2
  <2> HIDE DEF m, n, r
  <2>4. z = [length |-> o, capacity |-> n, array |-> a, mem |-> f] /\ a = "block"
    BY <2>2
  <2>5. r = [length |-> n, capacity |-> n, array |-> a, mem |-> m]
    BY ONLY <2>3, <2>4
  <2> QED BY <2>4, <2>5
<1>3. m \in Seq(E \cup {Junk}) /\ Len(m) = n
  BY ContentsAre
<1> HIDE DEF m, r
<1>4. r.length = n /\ r.capacity = n /\ r.array = "block" /\ r.mem = m
  BY <1>2
<1>5. IsList(r, E) /\ Fits(r)
  BY <1>1, <1>2, <1>3, <1>4 DEF IsList, Fits
<1>6. Contents(r) = m
  <2>1. /\ Contents(r) \in Seq(E \cup {Junk}) /\ Len(Contents(r)) = n
        /\ \A i \in 1 .. n : Contents(r)[i] = m[i]
    BY <1>4, <1>5, ContentsAre
  <2> QED BY <1>3, <2>1, SameItems
<1>7. r.capacity = 0 => r.mem = <<>>
  BY <1>3, <1>4
<1> QED BY <1>4, <1>5, <1>6, <1>7 DEF m, r

-----------------------------------------------------------------------------
(* The byte list.                                                          *)

\* The list l is whole and holds the items s.
Holds(l, s, E) ==
    /\ IsList(l, E) /\ Fits(l)
    /\ l.capacity = 0 => l.mem = <<>>
    /\ s \in Seq(E) /\ Contents(l) = s

U8Inv ==
    /\ Holds(u8, bytes, U8)
    /\ u8Status # "overrun"
    /\ u8Status = "leaked" => u8.mem = <<>>

\* A list that is made is whole.
LEMMA HoldsCreated ==
    ASSUME NEW E, NEW c \in Nat
    PROVE  Holds(list_create(c), <<>>, E)
<1> DEFINE r == list_create(c)
<1>1. /\ IsList(r, E) /\ Fits(r) /\ r.capacity = c /\ r.length = 0 /\ Len(r.mem) = c
      /\ Contents(r) = <<>>
  BY Creates
<1> HIDE DEF r
<1>2. r.capacity = 0 => r.mem = <<>>
  <2>1. r.mem \in Seq(E \cup {Junk})
    BY <1>1 DEF IsList
  <2> QED BY <1>1, <2>1, EmptySeq
<1>3. <<>> \in Seq(E)
  OBVIOUS
<1>4. Holds(r, <<>>, E)
  BY <1>1, <1>2, <1>3 DEF Holds
<1> QED BY <1>4 DEF r

\* A list that is pushed to, and there is room for it.
LEMMA HoldsPushed ==
    ASSUME NEW E, NEW l, NEW s, Holds(l, s, E), NEW x \in E
    PROVE  Room(u8a_grow(l)) /\ Holds(u8a_push(l, x), Append(s, x), E)
<1> DEFINE r == u8a_push(l, x)
<1>1. IsList(l, E) /\ Fits(l) /\ s \in Seq(E) /\ Contents(l) = s
  BY DEF Holds
<1>2. /\ Room(u8a_grow(l))
      /\ IsList(r, E) /\ Fits(r) /\ r.capacity # 0
      /\ Contents(r) = Append(Contents(l), x)
  BY <1>1, U8Pushes
<1> HIDE DEF r
<1>3. Append(s, x) \in Seq(E)
  BY <1>1
<1>4. Holds(r, Append(s, x), E)
  BY <1>1, <1>2, <1>3 DEF Holds
<1> QED BY <1>2, <1>4 DEF r

\* A list that a string is pushed to.
LEMMA HoldsPushedString ==
    ASSUME NEW E, NEW l, NEW s, Holds(l, s, E), NEW t \in Seq(E)
    PROVE  Holds(u8a_push_string(l, t), s \o t, E)
<1> DEFINE r == u8a_push_string(l, t)
<1>1. IsList(l, E) /\ s \in Seq(E) /\ Contents(l) = s
  BY DEF Holds
<1>2. /\ IsList(r, E) /\ Fits(r)
      /\ r.capacity = 0 => r.mem = <<>>
      /\ Contents(r) = Contents(l) \o t
  BY <1>1, U8PushesString
<1> HIDE DEF r
<1>3. s \o t \in Seq(E)
  BY <1>1
<1>4. Holds(r, s \o t, E)
  BY <1>1, <1>2, <1>3 DEF Holds
<1> QED BY <1>4 DEF r

\* A list that is popped.
LEMMA HoldsPopped ==
    ASSUME NEW E, NEW l, NEW s, Holds(l, s, E)
    PROVE  Holds(list_pop(l), IF s = <<>> THEN <<>> ELSE Front(s), E)
<1> DEFINE r == list_pop(l)
<1>1. /\ IsList(l, E) /\ Fits(l) /\ s \in Seq(E) /\ Contents(l) = s
      /\ l.length \in Nat /\ l.capacity \in Nat /\ l.mem \in Seq(E \cup {Junk})
  BY DEF Holds, IsList
<1>2. Len(s) = l.length
  BY <1>1, ContentsAre
<1>3. CASE l.length = 0
  <2>1. r = l /\ s = <<>>
    BY <1>1, <1>2, <1>3 DEF list_pop
  <2> QED BY <2>1
<1>4. CASE l.length # 0
  <2>1. /\ IsList(r, E) /\ r.mem = l.mem /\ r.length = l.length - 1
        /\ r.capacity <= l.capacity
        /\ l.length <= l.capacity => r.length < r.capacity
        /\ Contents(r) = Front(Contents(l))
    BY <1>1, <1>4, Pops
  <2> HIDE DEF r
  <2>2. s # <<>> /\ Front(s) \in Seq(E)
    BY <1>1, <1>2, <1>4 DEF Front
  <2>3. r.capacity \in Nat /\ Len(l.mem) \in Nat
    BY <1>1, <2>1 DEF IsList
  <2>4. Fits(r) /\ r.capacity # 0
    BY <1>1, <1>4, <2>1, <2>3 DEF Fits
  <2>5. Holds(r, Front(s), E)
    BY <1>1, <2>1, <2>2, <2>4 DEF Holds
  <2> QED BY <2>2, <2>5 DEF r
<1> QED BY <1>3, <1>4

\* A list that is set at i.
LEMMA HoldsSet ==
    ASSUME NEW E, NEW l, NEW s, Holds(l, s, E), NEW i \in 1 .. l.length, NEW x \in E
    PROVE  Holds([l EXCEPT !.mem[i] = x], [s EXCEPT ![i] = x], E)
<1> DEFINE m == [l.mem EXCEPT ![i] = x]
           t == [s EXCEPT ![i] = x]
           r == [l EXCEPT !.mem[i] = x]
<1>1. /\ IsList(l, E) /\ Fits(l) /\ s \in Seq(E) /\ Contents(l) = s
      /\ l.length \in 0 .. Len(l.mem) /\ l.capacity \in Nat /\ l.mem \in Seq(E \cup {Junk})
      /\ Len(l.mem) \in Nat
      /\ l = [length |-> l.length, capacity |-> l.capacity, array |-> l.array, mem |-> l.mem]
  BY DEF Holds, IsList
<1>2. r = [length |-> l.length, capacity |-> l.capacity, array |-> l.array, mem |-> m]
  <2>1. PICK k, c, a, b : /\ l = [length |-> k, capacity |-> c, array |-> a, mem |-> b]
                          /\ k = l.length /\ c = l.capacity /\ a = l.array /\ b = l.mem
    BY <1>1
  <2> QED BY <2>1
<1>3. /\ m \in Seq(E \cup {Junk}) /\ Len(m) = Len(l.mem)
      /\ \A j \in 1 .. Len(l.mem) : m[j] = IF j = i THEN x ELSE l.mem[j]
  BY <1>1
<1>4. Len(s) = l.length /\ \A j \in 1 .. l.length : s[j] = l.mem[j]
  BY <1>1, ContentsAre
<1>5. /\ t \in Seq(E) /\ Len(t) = l.length
      /\ \A j \in 1 .. l.length : t[j] = IF j = i THEN x ELSE l.mem[j]
  BY <1>1, <1>4
<1> HIDE DEF m, r, t
<1>6. r.length = l.length /\ r.capacity = l.capacity /\ r.array = l.array /\ r.mem = m
  BY <1>2
<1>7. IsList(r, E) /\ Fits(r) /\ r.capacity # 0
  BY <1>1, <1>2, <1>3, <1>6 DEF IsList, Fits, Holds
<1>8. Contents(r) = t
  <2>1. /\ Contents(r) \in Seq(E \cup {Junk}) /\ Len(Contents(r)) = l.length
        /\ \A j \in 1 .. l.length : Contents(r)[j] = m[j]
    BY <1>6, <1>7, ContentsAre
  <2>2. t \in Seq(E \cup {Junk})
    BY <1>5
  <2>3. ASSUME NEW j \in 1 .. l.length PROVE Contents(r)[j] = t[j]
    <3>1. l.length \in 0 .. Len(l.mem) /\ Len(l.mem) \in Nat
      BY <1>1
    <3>2. j \in 1 .. Len(l.mem)
      BY <3>1
    <3> QED BY <1>3, <1>5, <2>1, <3>2
  <2> QED BY <1>5, <2>1, <2>2, <2>3, SameItems
<1>9. Holds(r, t, E)
  BY <1>5, <1>7, <1>8 DEF Holds
<1> QED BY <1>9 DEF r, t

\* A list that is resized.
LEMMA HoldsResized ==
    ASSUME NEW E, NEW l, NEW s, Holds(l, s, E), NEW n \in Nat
    PROVE  Holds(u8a_resize(l, n), SubSeq(s, 1, Min({n, Len(s)})), E)
<1> DEFINE r == u8a_resize(l, n)
           k == IF n <= Len(s) THEN n ELSE Len(s)
           t == SubSeq(s, 1, k)
<1>1. /\ IsList(l, E) /\ s \in Seq(E) /\ Contents(l) = s
      /\ l.length \in Nat /\ Len(s) \in Nat
  BY DEF Holds, IsList
<1>2. ResizedTo(l, r, n, E)
  BY <1>1, Resizes
<1> HIDE DEF r
<1>3. Len(s) = l.length /\ \A i \in 1 .. l.length : s[i] = l.mem[i]
  BY <1>1, ContentsAre
<1>4. Min({n, Len(s)}) = k
  <2>1. PICK c \in Int : c = Len(s)
    BY <1>1
  <2>2. Min({n, c}) = IF n <= c THEN n ELSE c
    BY OfTwo
  <2> QED BY <2>1, <2>2
<1>5. /\ t \in Seq(E) /\ Len(t) = k /\ \A i \in 1 .. k : t[i] = s[i]
  BY <1>1
<1>6. /\ IsList(r, E) /\ Fits(r) /\ r.capacity = n /\ r.length = k
      /\ n = 0 => r.mem = <<>>
      /\ \A i \in 1 .. k : r.mem[i] = l.mem[i]
  BY <1>1, <1>2, <1>3 DEF ResizedTo
<1>7. k \in 0 .. Len(s)
  BY <1>1
<1> HIDE DEF k, t
<1>8. Contents(r) = t
  <2>1. /\ Contents(r) \in Seq(E \cup {Junk}) /\ Len(Contents(r)) = k
        /\ \A i \in 1 .. k : Contents(r)[i] = r.mem[i]
    BY <1>6, ContentsAre
  <2>2. t \in Seq(E \cup {Junk})
    BY <1>5
  <2>3. \A i \in 1 .. k : Contents(r)[i] = t[i]
    BY <1>1, <1>3, <1>5, <1>6, <1>7, <2>1
  <2> QED BY <1>5, <2>1, <2>2, <2>3, SameItems
<1>9. Holds(r, t, E)
  BY <1>5, <1>6, <1>8 DEF Holds
<1> QED BY <1>4, <1>9 DEF r, t

\* A list that is cloned.
LEMMA HoldsCloned ==
    ASSUME NEW E, NEW l, NEW s, Holds(l, s, E)
    PROVE  Holds(u8a_clone(l), s, E)
<1> DEFINE r == u8a_clone(l)
<1>1. IsList(l, E) /\ s \in Seq(E) /\ Contents(l) = s
  BY DEF Holds
<1>2. /\ IsList(r, E) /\ Fits(r)
      /\ r.capacity = 0 => r.mem = <<>>
      /\ Contents(r) = Contents(l)
  BY <1>1, U8Clones
<1> HIDE DEF r
<1>3. Holds(r, s, E)
  BY <1>1, <1>2 DEF Holds
<1> QED BY <1>3 DEF r

\* The byte list starts whole.
LEMMA U8InitInv ==
    ASSUME NEW C \in SUBSET Nat, U8Init(C)
    PROVE  U8Inv
<1>1. PICK c \in C : u8 = list_create(c)
  BY DEF U8Init
<1>2. Holds(u8, <<>>, U8)
  BY <1>1, HoldsCreated
<1> QED BY <1>2 DEF U8Init, U8Inv

\* No call breaks the byte list.
LEMMA U8StepInv ==
    ASSUME U8Inv, U8Next
    PROVE  U8Inv'
<1>1. Holds(u8, bytes, U8) /\ IsList(u8, U8) /\ Contents(u8) = bytes /\ bytes \in Seq(U8)
  BY DEF U8Inv, Holds
<1>2. ASSUME NEW x \in U8, U8Push(x) PROVE U8Inv'
  <2>1. Room(u8a_grow(u8)) /\ Holds(u8a_push(u8, x), Append(bytes, x), U8)
    BY <1>1, HoldsPushed
  <2> QED BY <1>2, <2>1 DEF U8Push, U8Inv
<1>3. ASSUME NEW x \in U8, NEW i \in 1 .. MaxList, U8Set(i, x) PROVE U8Inv'
  <2>1. Holds([u8 EXCEPT !.mem[i] = x], [bytes EXCEPT ![i] = x], U8)
    BY <1>1, <1>3, HoldsSet DEF U8Set
  <2> QED BY <1>3, <2>1 DEF U8Set, U8Inv
<1>4. ASSUME NEW s \in {<<>>} \cup {<<x, x>> : x \in U8}, U8PushString(s) PROVE U8Inv'
  <2>1. s \in Seq(U8)
    <3>1. CASE s = <<>>
      BY <3>1
    <3>2. ASSUME NEW x \in U8, s = <<x, x>> PROVE s \in Seq(U8)
      <4>1. <<x, x>> \in Seq(U8)
        OBVIOUS
      <4> QED BY <3>2, <4>1
    <3> QED BY <1>4, <3>1, <3>2
  <2>2. Holds(u8a_push_string(u8, s), bytes \o s, U8)
    BY <1>1, <2>1, HoldsPushedString
  <2> QED BY <1>4, <2>2 DEF U8PushString, U8Inv
<1>5. CASE U8Pop
  <2>1. Holds(list_pop(u8), IF bytes = <<>> THEN <<>> ELSE Front(bytes), U8)
    BY <1>1, HoldsPopped
  <2> QED BY <1>5, <2>1 DEF U8Pop, U8Inv
<1>6. CASE U8Clone
  <2>1. Holds(u8a_clone(u8), bytes, U8)
    BY <1>1, HoldsCloned
  <2> QED BY <1>6, <2>1 DEF U8Clone, U8Inv
<1>7. CASE u8a_free
  BY <1>1, <1>7 DEF u8a_free, U8Inv, Holds
<1>8. ASSUME NEW n \in 0 .. MaxList, U8Resize(n) PROVE U8Inv'
  <2>1. n \in Nat
    BY ArrayListAssumption
  <2>2. Holds(u8a_resize(u8, n), SubSeq(bytes, 1, Min({n, Len(bytes)})), U8)
    BY <1>1, <2>1, HoldsResized
  <2> QED BY <1>8, <2>2 DEF U8Resize, U8Inv
<1> QED BY <1>2, <1>3, <1>4, <1>5, <1>6, <1>7, <1>8 DEF U8Next

\* What the invariant says of the byte list.
LEMMA U8Promise ==
    ASSUME U8Inv
    PROVE  U8HoldsBytes /\ U8LeakOnlyEmpty
BY DEF U8Inv, Holds, Fits, U8HoldsBytes, U8LeakOnlyEmpty

-----------------------------------------------------------------------------
(* The paths.                                                              *)

PathInv ==
    /\ Holds(path, Contents(path), U8)
    /\ before \in Seq(U8)
    /\ PathsCut

\* A list holds its own contents.
LEMMA HoldsItself ==
    ASSUME NEW E, NEW l, NEW s, Holds(l, s, E)
    PROVE  Holds(l, Contents(l), E) /\ Contents(l) = s /\ Contents(l) \in Seq(E)
BY DEF Holds

\* A list whose length is cut to k.
LEMMA HoldsCut ==
    ASSUME NEW E, NEW l, NEW s, Holds(l, s, E), NEW k \in 0 .. l.length
    PROVE  Holds([l EXCEPT !.length = k], SubSeq(s, 1, k), E)
<1> DEFINE t == SubSeq(s, 1, k)
           r == [l EXCEPT !.length = k]
<1>1. /\ IsList(l, E) /\ Fits(l) /\ s \in Seq(E) /\ Contents(l) = s
      /\ l.length \in 0 .. Len(l.mem) /\ l.capacity \in Nat /\ l.mem \in Seq(E \cup {Junk})
      /\ Len(l.mem) \in Nat
      /\ l = [length |-> l.length, capacity |-> l.capacity, array |-> l.array, mem |-> l.mem]
  BY DEF Holds, IsList
<1>2. r = [length |-> k, capacity |-> l.capacity, array |-> l.array, mem |-> l.mem]
  <2>1. PICK j, c, a, b : /\ l = [length |-> j, capacity |-> c, array |-> a, mem |-> b]
                          /\ j = l.length /\ c = l.capacity /\ a = l.array /\ b = l.mem
    BY <1>1
  <2> QED BY <2>1
<1>3. Len(s) = l.length /\ \A j \in 1 .. l.length : s[j] = l.mem[j]
  BY <1>1, ContentsAre
<1>4. t \in Seq(E) /\ Len(t) = k /\ \A j \in 1 .. k : t[j] = s[j]
  BY <1>1, <1>3
<1> HIDE DEF r, t
<1>5. r.length = k /\ r.capacity = l.capacity /\ r.array = l.array /\ r.mem = l.mem
  BY <1>2
<1>6. IsList(r, E) /\ Fits(r) /\ (r.capacity = 0 => r.mem = <<>>)
  BY <1>1, <1>2, <1>5 DEF IsList, Fits, Holds
<1>7. Contents(r) = t
  <2>1. /\ Contents(r) \in Seq(E \cup {Junk}) /\ Len(Contents(r)) = k
        /\ \A j \in 1 .. k : Contents(r)[j] = l.mem[j]
    <3>1. IsList(r, E)
      BY <1>6
    <3>2. /\ Contents(r) \in Seq(E \cup {Junk}) /\ Len(Contents(r)) = r.length
          /\ \A j \in 1 .. r.length : Contents(r)[j] = r.mem[j]
      BY <3>1, ContentsAre
    <3> QED BY <1>5, <3>2
  <2>2. t \in Seq(E \cup {Junk})
    BY <1>4
  <2>3. \A j \in 1 .. k : Contents(r)[j] = t[j]
    BY <1>1, <1>3, <1>4, <2>1
  <2> QED BY <1>4, <2>1, <2>2, <2>3, SameItems
<1>8. Holds(r, t, E)
  BY <1>4, <1>6, <1>7 DEF Holds
<1> QED BY <1>8 DEF r, t

\* A path that holds bytes lies in its block.
LEMMA HoldsWithin ==
    ASSUME NEW l, NEW s, Holds(l, s, U8)
    PROVE  l.length <= Len(l.mem) /\ Range(Contents(l)) \subseteq U8
<1>1. IsList(l, U8) /\ Fits(l) /\ s \in Seq(U8) /\ Contents(l) = s
  BY DEF Holds
<1>2. Range(s) \subseteq U8
  BY <1>1 DEF Range
<1>3. l.length \in 0 .. Len(l.mem) /\ Len(l.mem) \in Nat
  BY <1>1 DEF IsList
<1> QED BY <1>1, <1>2, <1>3

\* The slashes of a path, where it has any.
LEMMA LastSlash ==
    ASSUME NEW c \in Seq(U8)
    PROVE  /\ Slashes(c) \subseteq 1 .. Len(c)
           /\ \A i \in 1 .. Len(c) : i \in Slashes(c) <=> c[i] = "/"
           /\ Slashes(c) # {} => /\ Max(Slashes(c)) \in Slashes(c)
                                 /\ \A i \in Slashes(c) : Max(Slashes(c)) >= i
<1>1. /\ Slashes(c) \subseteq 1 .. Len(c)
      /\ \A i \in 1 .. Len(c) : i \in Slashes(c) <=> c[i] = "/"
  BY DEF Slashes
<1>2. Slashes(c) \subseteq 0 .. Len(c) /\ Len(c) \in Nat
  BY <1>1
<1> QED BY <1>1, <1>2, MaxOf

\* The first item of a sequence.
LEMMA FirstItem ==
    ASSUME NEW S, NEW s \in Seq(S), 1 \in 1 .. Len(s)
    PROVE  SubSeq(s, 1, 1) = <<s[1]>>
<1> DEFINE t == SubSeq(s, 1, 1)
           x == s[1]
           v == <<x>>
<1>1. Len(s) \in Nat /\ 1 <= Len(s) /\ x \in S
  OBVIOUS
<1>2. t \in Seq(S) /\ Len(t) = 1 /\ t[1] = x
  BY <1>1, SubSeqProperties
<1> HIDE DEF t, x
<1>3. v \in Seq(S) /\ Len(v) = 1 /\ v[1] = x
  BY <1>1
<1> HIDE DEF v
<1>4. t = v
  BY <1>2, <1>3, SameItems
<1> QED BY <1>4 DEF t, x, v

\* path_append.
LEMMA Appends ==
    ASSUME NEW l, NEW s, Holds(l, s, U8), NEW e \in Seq(U8)
    PROVE  Holds(u8a_push_string(u8a_push(l, "/"), e), Append(s, "/") \o e, U8)
<1>1. "/" \in U8
  BY PathAssumption
<1>2. Holds(u8a_push(l, "/"), Append(s, "/"), U8)
  BY <1>1, HoldsPushed
<1> QED BY <1>2, HoldsPushedString

\* What path_parent makes of the contents c, when there is a slash behind them or not,
\* and the slash it leaves behind the path.
ParentIs(c, slash, r) ==
    /\ Contents(r) = IF c = <<>> THEN <<".">> ELSE IF slash THEN c ELSE ParentOf(c)
    /\ \/ Contents(r) \in {c, <<"/">>, <<".">>}
       \/ r.length < Len(r.mem) /\ r.mem[r.length + 1] = "/"

\* path_parent: the parent, unless there is a slash behind the path.
LEMMA Parents ==
    ASSUME Holds(path, Contents(path), U8), NEW j \in BOOLEAN
    PROVE  LET r == path_parent(j) IN
           /\ Holds(r, Contents(r), U8)
           /\ ParentIs(Contents(path), SlashAt(path.length, j), r)
<1> DEFINE c == Contents(path)
           n == path.length
           slashes == {i \in 0 .. n : SlashAt(i, j)}
           r == path_parent(j)
<1>1. /\ IsList(path, U8) /\ c \in Seq(U8) /\ n \in Nat /\ n <= Len(path.mem)
      /\ Len(path.mem) \in Nat
  BY DEF Holds, IsList
<1>2. Len(c) = n /\ \A i \in 1 .. n : c[i] = path.mem[i]
  BY <1>1, ContentsAre
<1>3. \A i \in 0 .. n - 1 : SlashAt(i, j) <=> c[i + 1] = "/"
  <2>1. SUFFICES ASSUME NEW i \in 0 .. n - 1 PROVE SlashAt(i, j) <=> c[i + 1] = "/"
    OBVIOUS
  <2>2. i + 1 \in 1 .. n /\ i < Len(path.mem)
    BY <1>1
  <2>3. c[i + 1] = path.mem[i + 1] /\ c[i + 1] \in U8
    BY <1>1, <1>2, <2>2
  <2>4. path.mem[i + 1] # Junk
    BY <2>3, ArrayListAssumption
  <2> QED BY <2>2, <2>3, <2>4 DEF SlashAt
<1>4. "/" # "."
  OBVIOUS
<1>5. "." \in U8
  BY PathAssumption
<1>6. Holds(path, c, U8)
  OBVIOUS
<1>7. /\ Slashes(c) \subseteq 1 .. n
      /\ \A i \in 1 .. n : i \in Slashes(c) <=> c[i] = "/"
  BY <1>1, <1>2, LastSlash
<1> HIDE DEF c
<1>8. CASE c = <<".">>
  <2>1. r = path
    BY <1>8 DEF path_parent, c
  <2>2. Slashes(<<".">>) = {}
    <3>1. \A i \in DOMAIN <<".">> : <<".">>[i] = "."
      OBVIOUS
    <3> QED BY <1>4, <3>1 DEF Slashes
  <2>3. ParentOf(c) = <<".">>
    BY <1>8, <2>2 DEF ParentOf
  <2> QED BY <1>6, <1>8, <2>1, <2>3 DEF c, ParentIs
<1>9. CASE c # <<".">> /\ n = 0
  <2>1. r = u8a_push(path, ".")
    BY <1>9 DEF path_parent, c
  <2>2. Holds(r, Append(c, "."), U8)
    BY <1>5, <1>6, <2>1, HoldsPushed
  <2>3. c = <<>>
    BY <1>1, <1>2, <1>9
  <2>4. Append(c, ".") = <<".">>
    BY <2>3
  <2>5. Holds(r, Contents(r), U8) /\ Contents(r) = <<".">>
    BY <2>2, <2>4, HoldsItself
  <2> QED BY <2>3, <2>5 DEF ParentIs, c
<1>10. CASE c # <<".">> /\ n # 0 /\ slashes = {}
  <2>1. r = u8a_push([path EXCEPT !.length = 0], ".")
    BY <1>10 DEF path_parent, c
  <2>2. Holds([path EXCEPT !.length = 0], SubSeq(c, 1, 0), U8)
    BY <1>1, <1>6, HoldsCut
  <2>3. SubSeq(c, 1, 0) = <<>>
    BY <1>1
  <2>4. Holds(r, Append(<<>>, "."), U8)
    BY <1>5, <2>1, <2>2, <2>3, HoldsPushed
  <2>5. Append(<<>>, ".") = <<".">>
    OBVIOUS
  <2>6. Holds(r, Contents(r), U8) /\ Contents(r) = <<".">>
    BY <2>4, <2>5, HoldsItself
  <2>7. Slashes(c) = {}
    <3>1. ASSUME NEW i \in 1 .. n, c[i] = "/" PROVE FALSE
      <4>1. i - 1 \in 0 .. n - 1 /\ i - 1 \in 0 .. n /\ (i - 1) + 1 = i
        BY <1>1
      <4>2. SlashAt(i - 1, j)
        BY <1>3, <3>1, <4>1
      <4> QED BY <1>10, <4>1, <4>2
    <3> QED BY <1>7, <3>1
  <2>8. ~SlashAt(n, j)
    BY <1>1, <1>10
  <2>9. c # <<>> => ParentOf(c) = <<".">>
    BY <2>7 DEF ParentOf
  <2> QED BY <2>6, <2>8, <2>9 DEF ParentIs, c
<1>11. CASE c # <<".">> /\ n # 0 /\ slashes # {}
  <2> DEFINE m == Max(slashes)
             k == CutAt(m)
  <2>1. r = [path EXCEPT !.length = k]
    BY <1>11 DEF path_parent, c
  <2>2. m \in slashes /\ \A i \in slashes : m >= i
    <3>1. slashes \subseteq 0 .. n
      OBVIOUS
    <3> HIDE DEF slashes
    <3> QED BY <1>1, <1>11, <3>1, MaxOf
  <2>3. m \in 0 .. n /\ SlashAt(m, j)
    BY <2>2
  <2> HIDE DEF m, slashes
  <2>4. k \in 1 .. n /\ k = IF m = 0 THEN 1 ELSE m
    BY <1>1, <1>11, <2>3 DEF CutAt
  <2> HIDE DEF k
  <2>5. Holds(r, SubSeq(c, 1, k), U8)
    BY <1>1, <1>6, <2>1, <2>4, HoldsCut
  <2>6. Holds(r, Contents(r), U8) /\ Contents(r) = SubSeq(c, 1, k)
    BY <2>5, HoldsItself
  <2>0. c # <<>>
    BY <1>1, <1>2, <1>11
  <2>7. ASSUME ~SlashAt(n, j) PROVE SubSeq(c, 1, k) = ParentOf(c)
    <3>1. m \in 0 .. n - 1
      <4>1. m # n
        BY <2>3, <2>7
      <4> QED BY <1>1, <2>3, <4>1
    <3>2. m + 1 \in Slashes(c)
      <4>1. m + 1 \in 1 .. n /\ c[m + 1] = "/"
        BY <1>1, <1>3, <2>3, <3>1
      <4> QED BY <1>7, <4>1
    <3>3. ASSUME NEW i \in Slashes(c) PROVE m + 1 >= i
      <4>1. i \in 1 .. n /\ c[i] = "/"
        BY <1>7
      <4>2. i - 1 \in 0 .. n - 1 /\ i - 1 \in 0 .. n /\ (i - 1) + 1 = i
        BY <1>1, <4>1
      <4>3. i - 1 \in slashes
        BY <1>3, <4>1, <4>2 DEF slashes
      <4> QED BY <2>2, <2>3, <4>1, <4>3
    <3>4. Slashes(c) \subseteq Int
      BY <1>7
    <3>5. Max(Slashes(c)) = m + 1
      BY <3>2, <3>3, <3>4, MaxIs
    <3>6. ParentOf(c) = IF m + 1 = 1 THEN <<"/">> ELSE SubSeq(c, 1, (m + 1) - 1)
      BY <2>0, <3>2, <3>5, Zenon DEF ParentOf
    <3>7. CASE m = 0
      <4>1. c[1] = "/" /\ 1 \in 1 .. Len(c)
        BY <1>1, <1>2, <1>7, <3>1, <3>2, <3>7
      <4>2. SubSeq(c, 1, 1) = <<"/">>
        BY <1>1, <4>1, FirstItem
      <4> QED BY <2>4, <3>6, <3>7, <4>2
    <3>8. CASE m # 0
      <4>1. (m + 1) - 1 = m /\ m + 1 # 1
        BY <3>1, <3>8
      <4> QED BY <2>4, <3>6, <3>8, <4>1
    <3> QED BY <3>7, <3>8
  <2>8. ASSUME SlashAt(n, j) PROVE Contents(r) = c
    <3>1. n \in slashes
      BY <1>1, <2>8 DEF slashes
    <3>2. m = n
      BY <1>1, <2>2, <2>3, <3>1
    <3>3. k = n
      BY <1>11, <2>4, <3>2
    <3> QED BY <1>1, <1>2, <2>6, <3>3
  <2>9. ASSUME ~SlashAt(n, j), Contents(r) \notin {c, <<"/">>, <<".">>}
        PROVE  r.length < Len(r.mem) /\ r.mem[r.length + 1] = "/"
    <3>1. m \in 0 .. n - 1
      <4>1. m # n
        BY <2>3, <2>9
      <4> QED BY <1>1, <2>3, <4>1
    <3>2. m + 1 \in 1 .. n /\ c[m + 1] = "/"
      BY <1>1, <1>3, <2>3, <3>1
    <3>3. m # 0
      <4>1. SUFFICES ASSUME m = 0 PROVE FALSE
        OBVIOUS
      <4>2. c[1] = "/" /\ 1 \in 1 .. Len(c)
        BY <1>2, <3>2, <4>1
      <4>3. SubSeq(c, 1, 1) = <<"/">>
        BY <1>1, <4>2, FirstItem
      <4> QED BY <2>4, <2>6, <2>9, <4>1, <4>3
    <3>4. k = m
      BY <2>4, <3>3
    <3>5. r.length = m /\ r.mem = path.mem
      BY <1>1, <2>1, <3>4 DEF IsList
    <3> QED BY <1>1, <1>2, <3>1, <3>2, <3>5
  <2>10. ParentIs(c, SlashAt(n, j), r)
    <3> HIDE DEF r, n
    <3>1. Contents(r) = IF c = <<>> THEN <<".">> ELSE IF SlashAt(n, j) THEN c ELSE ParentOf(c)
      BY <2>0, <2>6, <2>7, <2>8
    <3>2. \/ Contents(r) \in {c, <<"/">>, <<".">>}
          \/ r.length < Len(r.mem) /\ r.mem[r.length + 1] = "/"
      BY <2>8, <2>9
    <3> QED BY <3>1, <3>2 DEF ParentIs
  <2>11. Holds(r, Contents(r), U8)
    BY <2>6
  <2> HIDE DEF n
  <2> QED BY <2>10, <2>11 DEF c, n
<1> QED BY <1>8, <1>9, <1>10, <1>11

\* What ends in two dots ends in a dot.
LEMMA DotsAtEnd ==
    ASSUME NEW c \in Seq(U8), IsSuffix(<<".", ".">>, c)
    PROVE  Len(c) # 0 /\ c[Len(c)] = "."
<1> DEFINE d == <<".", ".">>
           a == Reverse(d)
           b == Reverse(c)
<1>1. Len(c) \in Nat
  OBVIOUS
<1>2. a \in Seq(U8) /\ Len(a) = 2 /\ a[1] = "."
  BY PathAssumption DEF Reverse
<1>3. b \in Seq(U8) /\ Len(b) = Len(c) /\ (Len(c) # 0 => b[1] = c[Len(c)])
  BY DEF Reverse
<1>4. Len(a) <= Len(b) /\ SubSeq(a, 1, Len(a)) = SubSeq(b, 1, Len(a))
  BY DEF IsSuffix, IsPrefix
<1> HIDE DEF a, b
<1>5. SubSeq(a, 1, 2)[1] = a[1] /\ SubSeq(b, 1, 2)[1] = b[1]
  BY <1>2, <1>3, <1>4
<1> QED BY <1>1, <1>2, <1>3, <1>4, <1>5

\* What is left of a path without the dots and slashes at its end.
LEMMA Strips ==
    ASSUME NEW c \in Seq(U8), Stripped(c) # <<>>
    PROVE  \E k \in 1 .. Len(c) :
             /\ Stripped(c) = SubSeq(c, 1, k)
             /\ c[k] \notin {".", "/"}
             /\ \A i \in k + 1 .. Len(c) : c[i] \in {".", "/"}
<1> DEFINE kept == {i \in DOMAIN c : c[i] \notin {".", "/"}}
           k == Max(kept)
<1>1. kept # {} /\ Stripped(c) = SubSeq(c, 1, k)
  BY DEF Stripped
<1>2. Len(c) \in Nat /\ DOMAIN c = 1 .. Len(c)
  OBVIOUS
<1>3. k \in kept /\ \A i \in kept : k >= i
  <2>1. kept \subseteq 0 .. Len(c)
    BY <1>2
  <2> HIDE DEF kept
  <2> QED BY <1>1, <1>2, <2>1, MaxOf
<1>4. k \in 1 .. Len(c) /\ c[k] \notin {".", "/"}
  BY <1>2, <1>3
<1>5. ASSUME NEW i \in k + 1 .. Len(c) PROVE c[i] \in {".", "/"}
  <2>1. i \in DOMAIN c /\ ~(k >= i)
    BY <1>2, <1>4
  <2> QED BY <1>3, <2>1
<1> QED BY <1>1, <1>4, <1>5

\* The place of the last slash, 0 when there is none.
LEMMA SlashOrStart ==
    ASSUME NEW c \in Seq(U8)
    PROVE  LET m == Max({0} \cup Slashes(c)) IN
           /\ m \in 0 .. Len(c)
           /\ m # 0 => c[m] = "/"
           /\ NameStart(c) = m + 1
<1> DEFINE S == {0} \cup Slashes(c)
           m == Max(S)
<1>1. Len(c) \in Nat /\ S \subseteq 0 .. Len(c) /\ S # {}
  BY DEF Slashes
<1>2. NameStart(c) = m + 1
  BY DEF NameStart, Slashes
<1>3. m \in S
  <2> HIDE DEF S
  <2> QED BY <1>1, MaxOf
<1> HIDE DEF m
<1>4. m # 0 => m \in Slashes(c)
  BY <1>3
<1>5. m # 0 => c[m] = "/"
  BY <1>4 DEF Slashes
<1>6. m \in 0 .. Len(c)
  BY <1>1, <1>3
<1> QED BY <1>2, <1>5, <1>6 DEF m

\* The first places of a list are written and it is cut to them.
LEMMA Moves ==
    ASSUME NEW l, NEW s, Holds(l, s, U8), NEW t \in Seq(U8), NEW k \in 0 .. l.length, Len(t) <= k
    PROVE  LET r == u8a_resize([l EXCEPT !.mem = t \o SubSeq(@, Len(t) + 1, Len(@)),
                                         !.length = k], Len(t)) IN
           Holds(r, t, U8)
<1> DEFINE f == SubSeq(l.mem, Len(t) + 1, Len(l.mem))
           m == t \o f
           v == [l EXCEPT !.mem = t \o SubSeq(@, Len(t) + 1, Len(@)), !.length = k]
           r == u8a_resize(v, Len(t))
<1>1. /\ l.length \in 0 .. Len(l.mem) /\ l.capacity \in Nat /\ l.mem \in Seq(U8 \cup {Junk})
      /\ Len(l.mem) \in Nat /\ Len(t) \in Nat
      /\ l = [length |-> l.length, capacity |-> l.capacity, array |-> l.array, mem |-> l.mem]
  BY DEF Holds, IsList
<1>2. v = [length |-> k, capacity |-> l.capacity, array |-> l.array, mem |-> m]
  <2>1. v = [l EXCEPT !.mem = m, !.length = k]
    OBVIOUS
  <2> HIDE DEF m, v
  <2>2. PICK j, c, a, b : /\ l = [length |-> j, capacity |-> c, array |-> a, mem |-> b]
                          /\ c = l.capacity /\ a = l.array
    BY <1>1
  <2> QED BY <2>1, <2>2
<1>3. f \in Seq(U8 \cup {Junk}) /\ Len(f) = Len(l.mem) - Len(t)
  <2>1. PICK b \in Seq(U8 \cup {Junk}) : b = l.mem
    BY <1>1
  <2>2. SubSeq(b, Len(t) + 1, Len(b)) \in Seq(U8 \cup {Junk})
        /\ Len(SubSeq(b, Len(t) + 1, Len(b))) = Len(b) - Len(t)
    BY <1>1, <2>1
  <2> QED BY <2>1, <2>2
<1> HIDE DEF f
<1>4. /\ m \in Seq(U8 \cup {Junk}) /\ Len(m) = Len(l.mem)
      /\ \A i \in 1 .. Len(t) : m[i] = t[i]
  <2>1. PICK u \in Seq(U8 \cup {Junk}) : u = t
    OBVIOUS
  <2>2. /\ u \o f \in Seq(U8 \cup {Junk}) /\ Len(u \o f) = Len(u) + Len(f)
        /\ \A i \in 1 .. Len(u) + Len(f) : (u \o f)[i] = IF i <= Len(u) THEN u[i] ELSE f[i - Len(u)]
    BY <1>3, ConcatProperties
  <2> QED BY <1>1, <1>3, <2>1, <2>2
<1> HIDE DEF m, v, r
<1>5. v.length = k /\ v.capacity = l.capacity /\ v.array = l.array /\ v.mem = m
  BY <1>2
<1>6. IsList(v, U8)
  BY <1>1, <1>2, <1>4, <1>5 DEF IsList
<1>7. ResizedTo(v, r, Len(t), U8)
  BY <1>1, <1>6, Resizes DEF r
<1>8. /\ IsList(r, U8) /\ Fits(r) /\ r.capacity = Len(t) /\ r.length = Len(t)
      /\ Len(t) = 0 => r.mem = <<>>
      /\ \A i \in 1 .. Len(t) : r.mem[i] = t[i]
  BY <1>1, <1>4, <1>5, <1>7 DEF ResizedTo
<1>9. Contents(r) = t
  <2>1. /\ Contents(r) \in Seq(U8 \cup {Junk}) /\ Len(Contents(r)) = r.length
        /\ \A i \in 1 .. r.length : Contents(r)[i] = r.mem[i]
    BY <1>8, ContentsAre
  <2>2. t \in Seq(U8 \cup {Junk})
    OBVIOUS
  <2>3. Len(Contents(r)) = Len(t) /\ \A i \in 1 .. Len(t) : Contents(r)[i] = t[i]
    BY <1>8, <2>1
  <2> QED BY <2>1, <2>2, <2>3, SameItems
<1>10. Holds(r, t, U8)
  BY <1>8, <1>9 DEF Holds
<1> QED BY <1>10 DEF r, v

\* The final component of a path.
Final(c) == SubSeq(c, Max({0} \cup Slashes(c)) + 1, Len(c))

\* A final component ends where the path ends, and not in a slash.
LEMMA FinalEnds ==
    ASSUME NEW c \in Seq(U8), Final(c) # <<>>
    PROVE  Len(c) # 0 /\ Last(Final(c)) = c[Len(c)] /\ c[Len(c)] # "/"
<1> DEFINE S == {0} \cup Slashes(c)
           m == Max(S)
           n == Len(c)
<1>1. n \in Nat /\ S \subseteq 0 .. n /\ S # {} /\ 0 \in S
  BY DEF Slashes
<1>2. m \in S /\ \A y \in S : m >= y
  <2> HIDE DEF S
  <2> QED BY <1>1, MaxOf
<1>3. Final(c) = SubSeq(c, m + 1, n)
  BY DEF Final
<1> HIDE DEF m
<1>4. m \in 0 .. n
  BY <1>1, <1>2
<1>5. m # n
  <2>1. SUFFICES ASSUME m = n PROVE FALSE
    OBVIOUS
  <2>2. SubSeq(c, n + 1, n) \in Seq(U8) /\ Len(SubSeq(c, n + 1, n)) = 0
    BY <1>1
  <2> QED BY <1>3, <2>1, <2>2, EmptySeq
<1>6. Last(Final(c)) = c[n]
  <2>1. /\ Len(SubSeq(c, m + 1, n)) = n - m
        /\ \A i \in 1 .. n - m : SubSeq(c, m + 1, n)[i] = c[m + i]
    BY <1>1, <1>4
  <2>2. n - m \in 1 .. n - m /\ m + (n - m) = n
    BY <1>1, <1>4, <1>5
  <2> QED BY <1>3, <2>1, <2>2 DEF Last
<1>7. c[n] # "/"
  <2>1. n \in 1 .. n
    BY <1>1, <1>4, <1>5
  <2>2. n \notin S
    BY <1>1, <1>2, <1>4, <1>5
  <2> QED BY <2>1, <2>2 DEF Slashes
<1> QED BY <1>1, <1>4, <1>5, <1>6, <1>7

\* path_filename: the final component, when it does not end in a dot.
LEMMA Filenames ==
    ASSUME Holds(path, Contents(path), U8),
           Stripped(Contents(path)) = <<>> => IsSuffix(<<".", ".">>, Contents(path))
    PROVE  LET r == path_filename
               final == Final(Contents(path)) IN
           /\ Holds(r, Contents(r), U8)
           /\ final # <<>> /\ Last(final) # "." => Contents(r) = final
<1> DEFINE c == Contents(path)
           s == Stripped(c)
           r == path_filename
<1>1. IsList(path, U8) /\ c \in Seq(U8) /\ path.length \in Nat /\ Holds(path, c, U8)
  BY DEF Holds, IsList
<1>2. Len(c) = path.length
  BY <1>1, ContentsAre
<1>3. CASE IsSuffix(<<".", ".">>, c)
  <2>1. r = u8a_resize(path, 0)
    BY <1>3 DEF path_filename
  <2>2. Holds(r, Contents(r), U8)
    <3>1. Holds(u8a_resize(path, 0), SubSeq(c, 1, Min({0, Len(c)})), U8)
      BY <1>1, HoldsResized
    <3> QED BY <2>1, <3>1, HoldsItself
  <2>3. Final(c) # <<>> => Last(Final(c)) = "."
    BY <1>1, <1>3, DotsAtEnd, FinalEnds
  <2> QED BY <2>2, <2>3
<1>4. CASE ~IsSuffix(<<".", ".">>, c)
  <2> DEFINE p == NameStart(s)
             name == SubSeq(s, p, Len(s))
  <2>1. r = u8a_resize([path EXCEPT !.mem = name \o SubSeq(@, Len(name) + 1, Len(@)),
                                    !.length = Len(s)], Len(name))
    BY <1>4 DEF path_filename
  <2>2. s # <<>>
    BY <1>4
  <2> HIDE DEF r
  <2>3. PICK k \in 1 .. Len(c) : /\ s = SubSeq(c, 1, k)
                                 /\ c[k] \notin {".", "/"}
                                 /\ \A i \in k + 1 .. Len(c) : c[i] \in {".", "/"}
    BY <1>1, <2>2, Strips
  <2> HIDE DEF s, c
  <2>4. s \in Seq(U8) /\ Len(s) = k /\ k \in Nat
    BY <1>1, <2>3
  <2>5. PICK m \in 0 .. k : p = m + 1 /\ m = Max({0} \cup Slashes(s))
    BY <2>4, SlashOrStart
  <2>6. name \in Seq(U8) /\ Len(name) = k - m
    <3>1. SubSeq(s, m + 1, k) \in Seq(U8) /\ Len(SubSeq(s, m + 1, k)) = k - m
      BY <2>4
    <3> QED BY <2>4, <2>5, <3>1
  <2>7. Holds(r, name, U8)
    <3>1. Len(s) \in 0 .. path.length /\ Len(name) <= Len(s)
      BY <1>1, <1>2, <2>3, <2>4, <2>6
    <3> HIDE DEF name
    <3> QED BY <1>1, <2>1, <2>6, <3>1, Moves
  <2>8. Holds(r, Contents(r), U8) /\ Contents(r) = name
    BY <2>7, HoldsItself
  <2>9. ASSUME Final(c) # <<>>, Last(Final(c)) # "." PROVE name = Final(c)
    <3>1. Len(c) # 0 /\ c[Len(c)] \notin {".", "/"}
      BY <1>1, <2>9, FinalEnds
    <3>2. k = Len(c)
      BY <1>1, <1>2, <2>3, <3>1
    <3>3. s = c
      BY <1>1, <2>3, <3>2
    <3> QED BY <2>4, <2>5, <3>2, <3>3 DEF Final
  <2> QED BY <2>8, <2>9 DEF r, c
<1> QED BY <1>3, <1>4

\* Every path starts whole.
LEMMA PathInitInv ==
    ASSUME NEW T \in SUBSET Seq(U8), PathInit(T)
    PROVE  PathInv
<1>1. PICK s \in T : path = path_from_string(s)
  BY DEF PathInit
<1>2. Holds(path, <<>> \o s, U8)
  <2>1. Holds(list_create(1), <<>>, U8)
    BY HoldsCreated
  <2>2. s \in Seq(U8)
    OBVIOUS
  <2> QED BY <1>1, <2>1, <2>2, HoldsPushedString DEF path_from_string
<1>3. Holds(path, Contents(path), U8)
  BY <1>2, HoldsItself
<1>4. before = <<>> /\ pathOp = "none"
  BY DEF PathInit
<1> QED BY <1>3, <1>4, HoldsWithin DEF PathInv, PathsCut, ParentDropsElement, FilenameIsFinal,
                                       PathWithinBlock

\* No call breaks the path.
LEMMA PathStepInv ==
    ASSUME PathInv, PathNext
    PROVE  PathInv'
<1>1. /\ Holds(path, Contents(path), U8) /\ Contents(path) \in Seq(U8) /\ before \in Seq(U8)
      /\ PathsCut
  BY DEF PathInv, Holds
<1>2. ASSUME NEW e \in PathElem, path_append(e) PROVE PathInv'
  <2> DEFINE r == u8a_push_string(u8a_push(path, "/"), e)
  <2>1. path' = r /\ before' = Contents(path) /\ pathOp' = "append"
    BY <1>2 DEF path_append, PathStep
  <2>2. e \in Seq(U8)
    BY PathAssumption
  <2>3. Holds(r, Append(Contents(path), "/") \o e, U8)
    BY <1>1, <2>2, Appends
  <2> HIDE DEF r
  <2>4. /\ Holds(r, Contents(r), U8)
        /\ r.length <= Len(r.mem) /\ Range(Contents(r)) \subseteq U8
    BY <2>3, HoldsItself, HoldsWithin
  <2> QED BY <1>1, <2>1, <2>4 DEF PathInv, PathsCut, ParentDropsElement, FilenameIsFinal,
                                  PathWithinBlock
<1>3. CASE Parent
  <2>1. PICK j \in BOOLEAN : PathStep("parent", path_parent(j))
                             /\ behind' = SlashAt(path.length, j)
    BY <1>3 DEF Parent
  <2> DEFINE r == path_parent(j)
  <2>2. path' = r /\ before' = Contents(path) /\ pathOp' = "parent"
    BY <2>1 DEF PathStep
  <2>3. /\ Holds(r, Contents(r), U8)
        /\ ParentIs(Contents(path), SlashAt(path.length, j), r)
    BY <1>1, Parents
  <2> HIDE DEF r
  <2>4. r.length <= Len(r.mem) /\ Range(Contents(r)) \subseteq U8
    BY <2>3, HoldsWithin
  <2>5. "/" # Junk
    BY PathAssumption, ArrayListAssumption
  <2>6. r.length < Len(r.mem) /\ r.mem[r.length + 1] = "/" => SlashAt(path.length, FALSE)'
    BY <2>2, <2>5 DEF SlashAt
  <2>7. ParentDropsElement'
    BY <2>1, <2>2, <2>3, <2>6 DEF ParentDropsElement, ParentIs
  <2> QED BY <1>1, <2>2, <2>3, <2>4, <2>7 DEF PathInv, PathsCut, FilenameIsFinal, PathWithinBlock
<1>4. CASE Filename
  <2>1. CASE pathStatus' = "underrun"
    <3>1. UNCHANGED <<path, before, pathOp, behind>>
      BY <1>4, <2>1 DEF Filename, PathStep
    <3>2. ParentDropsElement'
      BY <1>1, <3>1 DEF PathInv, PathsCut, ParentDropsElement, SlashAt
    <3>3. PathWithinBlock' /\ FilenameIsFinal'
      BY <1>1, <3>1 DEF PathInv, PathsCut, FilenameIsFinal, PathWithinBlock
    <3> QED BY <1>1, <3>1, <3>2, <3>3 DEF PathInv, PathsCut
  <2>2. CASE /\ Stripped(Contents(path)) = <<>> => IsSuffix(<<".", ".">>, Contents(path))
             /\ PathStep("filename", path_filename)
    <3> DEFINE r == path_filename
    <3>1. path' = r /\ before' = Contents(path) /\ pathOp' = "filename"
      BY <2>2 DEF PathStep
    <3>2. /\ Holds(r, Contents(r), U8)
          /\ LET final == Final(Contents(path)) IN
             final # <<>> /\ Last(final) # "." => Contents(r) = final
      BY <1>1, <2>2, Filenames
    <3> HIDE DEF r
    <3>3. r.length <= Len(r.mem) /\ Range(Contents(r)) \subseteq U8
      BY <3>2, HoldsWithin
    <3>4. FilenameIsFinal'
      BY <3>1, <3>2 DEF FilenameIsFinal, Final
    <3> QED BY <1>1, <3>1, <3>2, <3>3, <3>4 DEF PathInv, PathsCut, ParentDropsElement,
                                                PathWithinBlock
  <2> QED BY <1>4, <2>1, <2>2 DEF Filename
<1>5. CASE Clone
  <2> DEFINE r == u8a_clone(path)
             c == Contents(path)
  <2>1. path' = r /\ before' = c /\ pathOp' = "clone"
    BY <1>5 DEF Clone, PathStep
  <2>2. Holds(r, c, U8)
    BY <1>1, HoldsCloned
  <2>3. r.mem = c /\ r.length = path.length /\ Len(c) = path.length
    BY <1>1, U8Clones, ContentsAre DEF Holds
  <2> HIDE DEF r, c
  <2>4. Holds(r, Contents(r), U8) /\ r.length <= Len(r.mem) /\ Range(Contents(r)) \subseteq U8
    BY <2>2, HoldsItself, HoldsWithin
  <2>5. path_contents_equal(r, [length |-> Len(c), mem |-> c])
    BY <2>3 DEF path_contents_equal
  <2> QED BY <1>1, <2>1, <2>4, <2>5 DEF PathInv, PathsCut, ParentDropsElement, FilenameIsFinal,
                                        PathWithinBlock, c
<1> QED BY <1>2, <1>3, <1>4, <1>5 DEF PathNext

\* Sequences of bounded length are sequences.
LEMMA BoundedSeqs ==
    ASSUME NEW S, NEW n \in Nat
    PROVE  BoundedSeq(S, n) \subseteq Seq(S)
BY DEF BoundedSeq, SeqOf

\* Whatever is done to a path, it lies in its block, path_parent drops the last
\* element and nothing else, or nothing at all where a slash lies behind the path, as
\* after every earlier call that left an element, and path_filename leaves the final
\* component.
THEOREM PathsAreCut == Spec => []PathsCut
<1>1. Init => PathInv
  <2>1. SUFFICES ASSUME Init PROVE PathInv
    OBVIOUS
  <2> DEFINE T == Only("path", BoundedSeq(U8, 3), <<>>)
  <2>2. PathInit(T)
    BY <2>1 DEF Init
  <2>3. T \in SUBSET Seq(U8)
    <3>1. <<>> \in Seq(U8)
      OBVIOUS
    <3> QED BY <3>1, BoundedSeqs DEF Only
  <2> HIDE DEF T
  <2> QED BY <2>2, <2>3, PathInitInv
<1>2. PathInv /\ [Next]_libvars => PathInv'
  <2>1. SUFFICES ASSUME PathInv, [Next]_libvars PROVE PathInv'
    OBVIOUS
  <2>2. PathNext \/ UNCHANGED pathvars
    BY <2>1 DEF Next, libvars
  <2>3. CASE UNCHANGED pathvars
    BY <2>1, <2>3 DEF pathvars, PathInv, PathsCut, ParentDropsElement, FilenameIsFinal,
                      PathWithinBlock, SlashAt
  <2> QED BY <2>1, <2>2, <2>3, PathStepInv
<1>3. PathInv => PathsCut
  BY DEF PathInv
<1> QED BY <1>1, <1>2, <1>3, PTL DEF Spec

-----------------------------------------------------------------------------
(* The pointer list.                                                       *)

\* Products of natural numbers are ordered as their first factors.
LEMMA TimesLess ==
    ASSUME NEW a \in Nat, NEW b \in Nat, NEW d \in Nat \ {0}
    PROVE  a * d > b * d <=> a > b
<1>1. CASE a > b
  <2>1. PICK e \in Nat \ {0} : a = b + e
    <3>1. a - b \in Nat \ {0} /\ a = b + (a - b)
      BY <1>1
    <3> QED BY <3>1
  <2>2. a * d = b * d + e * d /\ e * d > 0
    BY <2>1
  <2> QED BY <1>1, <2>2
<1>2. CASE ~(a > b)
  <2>1. PICK e \in Nat : b = a + e
    <3>1. b - a \in Nat /\ b = a + (b - a)
      BY <1>2
    <3> QED BY <3>1
  <2>2. b * d = a * d + e * d /\ e * d >= 0
    BY <2>1
  <2> QED BY <1>2, <2>2
<1> QED BY <1>1, <1>2

\* A block of a * d bytes holds a items of d bytes.
LEMMA TimesDivided ==
    ASSUME NEW a \in Nat, NEW d \in Nat \ {0}
    PROVE  (a * d) \div d = a
OBVIOUS

\* How many items a block that is larger than one of b items can hold.
LEMMA DividedAtLeast ==
    ASSUME NEW n \in Nat, NEW b \in Nat, NEW d \in Nat \ {0}, n > b * d
    PROVE  n \div d \in Nat /\ n \div d >= b
OBVIOUS

\* The block of k is the one of l or a larger one.
Extended(l, k, E) ==
    /\ k = [length |-> l.length, capacity |-> l.capacity, array |-> k.array, mem |-> k.mem]
    /\ k.mem \in Seq(E \cup {Junk}) /\ Len(k.mem) >= Len(l.mem)
    /\ \A i \in 1 .. Len(l.mem) : k.mem[i] = l.mem[i]
    /\ \A i \in Len(l.mem) + 1 .. Len(k.mem) : k.mem[i] = Junk

\* A list that stays as it is.
LEMMA ExtendsItself ==
    ASSUME NEW E, NEW l, IsList(l, E)
    PROVE  Extended(l, l, E)
<1>1. l.mem \in Seq(E \cup {Junk}) /\ Len(l.mem) \in Nat
  BY DEF IsList
<1> QED BY <1>1 DEF IsList, Extended

\* krealloc with a number of items that is not less than the block has.
LEMMA ExtendsItems ==
    ASSUME NEW E, NEW l, IsList(l, E), NEW c \in Nat, c >= Len(l.mem)
    PROVE  Extended(l, krealloc(l, c), E) /\ Len(krealloc(l, c).mem) = c
<1> DEFINE k == krealloc(l, c)
<1>1. Realloced(l, k, c) /\ k.mem \in Seq(E \cup {Junk})
  BY Reallocs
<1>2. l.mem \in Seq(E \cup {Junk}) /\ Len(l.mem) \in Nat
  BY DEF IsList
<1> HIDE DEF k
<1>3. k = [length |-> l.length, capacity |-> l.capacity, array |-> k.array, mem |-> k.mem]
  BY <1>1 DEF Realloced
<1>4. CASE c = 0
  <2>1. k.mem = <<>> /\ Len(l.mem) = 0
    BY <1>1, <1>2, <1>4 DEF Realloced
  <2>2. /\ Len(k.mem) = 0
        /\ \A i \in 1 .. Len(l.mem) : k.mem[i] = l.mem[i]
        /\ \A i \in Len(l.mem) + 1 .. Len(k.mem) : k.mem[i] = Junk
    BY <2>1
  <2>3. Extended(l, k, E)
    BY <1>1, <1>2, <1>3, <2>1, <2>2 DEF Extended
  <2> QED BY <1>4, <2>2, <2>3 DEF k
<1>5. CASE c # 0
  <2>1. /\ Len(k.mem) = c
        /\ \A i \in 1 .. Len(l.mem) : k.mem[i] = l.mem[i]
        /\ \A i \in Len(l.mem) + 1 .. Len(k.mem) : k.mem[i] = Junk
    BY <1>1, <1>2, <1>5 DEF Realloced
  <2>2. Extended(l, k, E)
    BY <1>1, <1>2, <1>3, <2>1 DEF Extended
  <2> QED BY <2>1, <2>2 DEF k
<1> QED BY <1>4, <1>5

\* krealloc with a number of bytes.
LEMMA ExtendsBytes ==
    ASSUME NEW E, NEW l, IsList(l, E), NEW n \in Nat \ {0}
    PROVE  Extended(l, krealloc_bytes(l, n), E)
<1>1. Len(l.mem) \in Nat /\ PointerSize \in Nat \ {0}
  BY ArrayListAssumption DEF IsList
<1>2. CASE n > Len(l.mem) * PointerSize
  <2>1. krealloc_bytes(l, n) = krealloc(l, n \div PointerSize)
    BY <1>2 DEF krealloc_bytes
  <2>2. n \div PointerSize \in Nat /\ n \div PointerSize >= Len(l.mem)
    BY <1>1, <1>2, DividedAtLeast
  <2> QED BY <2>1, <2>2, ExtendsItems
<1>3. CASE ~(n > Len(l.mem) * PointerSize)
  BY <1>3, ExtendsItself DEF krealloc_bytes
<1> QED BY <1>2, <1>3

\* The list r is l with a block as vpa_grow leaves it.
GrownTo(l, r, E) ==
    /\ IsList(r, E) /\ r.length = l.length /\ Len(r.mem) >= Len(l.mem)
    /\ \A i \in 1 .. Len(l.mem) : r.mem[i] = l.mem[i]
    /\ \A i \in Len(l.mem) + 1 .. Len(r.mem) : r.mem[i] = Junk
    /\ l.length <= l.capacity /\ l.capacity <= Len(l.mem) =>
         r.length < r.capacity /\ r.capacity <= Len(r.mem)

\* vpa_grow.
LEMMA VpaGrows ==
    ASSUME NEW E, NEW l, IsList(l, E)
    PROVE  GrownTo(l, vpa_grow(l), E)
<1> DEFINE g == Grown(l.capacity)
           k == krealloc_bytes(l, g * PointerSize)
           r == vpa_grow(l)
<1>1. /\ l.mem \in Seq(E \cup {Junk}) /\ l.length \in 0 .. Len(l.mem) /\ Len(l.mem) \in Nat
      /\ l.capacity \in Nat /\ PointerSize \in Nat \ {0}
  BY ArrayListAssumption DEF IsList
<1>2. g \in Nat /\ g >= l.capacity + 2
  BY <1>1, GrownMore
<1>3. CASE l.length >= l.capacity
  <2>1. r = [k EXCEPT !.capacity = g]
    BY <1>3 DEF vpa_grow
  <2> HIDE DEF g
  <2>2. g * PointerSize \in Nat \ {0}
    BY <1>1, <1>2
  <2>3. Extended(l, k, E)
    BY <2>2, ExtendsBytes
  <2>4. Len(k.mem) >= g
    <3>1. CASE g > Len(l.mem)
      <4>1. g * PointerSize > Len(l.mem) * PointerSize
        BY <1>1, <1>2, <3>1, TimesLess
      <4>2. k = krealloc(l, (g * PointerSize) \div PointerSize)
        BY <4>1 DEF krealloc_bytes
      <4>3. (g * PointerSize) \div PointerSize = g
        BY <1>1, <1>2, TimesDivided
      <4>4. Len(krealloc(l, g).mem) = g
        BY <1>1, <1>2, <3>1, ExtendsItems
      <4> QED BY <1>2, <4>2, <4>3, <4>4
    <3>2. CASE ~(g > Len(l.mem))
      BY <1>1, <1>2, <2>3, <3>2 DEF Extended
    <3> QED BY <3>1, <3>2
  <2> HIDE DEF k, r
  <2>5. /\ k = [length |-> l.length, capacity |-> l.capacity, array |-> k.array, mem |-> k.mem]
        /\ k.mem \in Seq(E \cup {Junk}) /\ Len(k.mem) >= Len(l.mem)
        /\ \A i \in 1 .. Len(l.mem) : k.mem[i] = l.mem[i]
        /\ \A i \in Len(l.mem) + 1 .. Len(k.mem) : k.mem[i] = Junk
    BY <2>3 DEF Extended
  <2>6. r = [length |-> l.length, capacity |-> g, array |-> k.array, mem |-> k.mem]
    <3>1. PICK a, m : k = [length |-> l.length, capacity |-> l.capacity, array |-> a, mem |-> m]
                      /\ a = k.array /\ m = k.mem
      BY <2>5
    <3> QED BY <2>1, <3>1
  <2>7. r.length = l.length /\ r.capacity = g /\ r.array = k.array /\ r.mem = k.mem
    BY <2>6
  <2>8. IsList(r, E)
    BY <1>1, <1>2, <2>5, <2>6, <2>7 DEF IsList
  <2>9. l.length <= l.capacity => r.length < r.capacity /\ r.capacity <= Len(r.mem)
    BY <1>1, <1>2, <2>4, <2>7
  <2>10. GrownTo(l, r, E)
    BY <2>5, <2>7, <2>8, <2>9 DEF GrownTo
  <2> QED BY <2>10 DEF r
<1>4. CASE ~(l.length >= l.capacity)
  <2>1. r = l
    BY <1>4 DEF vpa_grow
  <2>2. GrownTo(l, l, E)
    BY <1>1, <1>4 DEF GrownTo
  <2> QED BY <2>1, <2>2
<1> QED BY <1>3, <1>4

\* The list r is l as vpa_resize leaves it.
CutTo(l, r, n, E) ==
    /\ IsList(r, E) /\ r.length = IF l.length <= n THEN l.length ELSE n
    /\ \A i \in 1 .. Len(r.mem) :
         r.mem[i] = IF i <= Len(l.mem) THEN l.mem[i] ELSE Junk

\* vpa_resize.
LEMMA VpaCuts ==
    ASSUME NEW E, NEW l, IsList(l, E), NEW n \in Nat
    PROVE  CutTo(l, [krealloc_bytes(l, n) EXCEPT !.capacity = n, !.length = Min({@, n})], n, E)
<1> DEFINE k == krealloc_bytes(l, n)
           w == IF l.length <= n THEN l.length ELSE n
           r == [k EXCEPT !.capacity = n, !.length = Min({@, n})]
<1>1. /\ l.mem \in Seq(E \cup {Junk}) /\ l.length \in 0 .. Len(l.mem) /\ Len(l.mem) \in Nat
      /\ PointerSize \in Nat \ {0}
  BY ArrayListAssumption DEF IsList
<1>2. /\ k = [length |-> l.length, capacity |-> l.capacity, array |-> k.array, mem |-> k.mem]
      /\ k.mem \in Seq(E \cup {Junk}) /\ w <= Len(k.mem)
      /\ \A i \in 1 .. Len(k.mem) : k.mem[i] = IF i <= Len(l.mem) THEN l.mem[i] ELSE Junk
  <2>1. CASE n = 0
    <3>1. 0 \div PointerSize = 0
      BY <1>1
    <3>2. k = krealloc(l, 0)
      BY <2>1, <3>1 DEF krealloc_bytes
    <3>3. Realloced(l, k, 0)
      BY <3>2, Reallocs
    <3> HIDE DEF k
    <3>4. k = [length |-> l.length, capacity |-> l.capacity, array |-> k.array, mem |-> k.mem]
          /\ k.mem = <<>>
      BY <3>3 DEF Realloced
    <3> QED BY <1>1, <2>1, <3>4
  <2>2. CASE n # 0
    <3>1. Extended(l, k, E)
      BY <2>2, ExtendsBytes
    <3> HIDE DEF k
    <3>2. k = [length |-> l.length, capacity |-> l.capacity, array |-> k.array, mem |-> k.mem]
      BY <3>1 DEF Extended
    <3>3. k.mem \in Seq(E \cup {Junk}) /\ Len(k.mem) >= Len(l.mem)
      BY <3>1 DEF Extended
    <3>4. \A i \in 1 .. Len(k.mem) : k.mem[i] = IF i <= Len(l.mem) THEN l.mem[i] ELSE Junk
      BY <1>1, <3>1, <3>3 DEF Extended
    <3> QED BY <1>1, <3>2, <3>3, <3>4
  <2> QED BY <2>1, <2>2
<1> HIDE DEF k
<1>3. Min({l.length, n}) = w
  <2>1. PICK c \in Int : c = l.length
    BY <1>1
  <2>2. Min({c, n}) = IF c <= n THEN c ELSE n
    BY OfTwo
  <2> QED BY <2>1, <2>2
<1>4. w \in Nat /\ w = IF l.length <= n THEN l.length ELSE n
  BY <1>1
<1>5. r = [length |-> w, capacity |-> n, array |-> k.array, mem |-> k.mem]
  <2> HIDE DEF w
  <2>1. PICK a, m : k = [length |-> l.length, capacity |-> l.capacity, array |-> a, mem |-> m]
                    /\ a = k.array /\ m = k.mem
    BY <1>2
  <2>2. r = [k EXCEPT !.capacity = n, !.length = Min({@, n})]
    OBVIOUS
  <2> HIDE DEF r
  <2> QED BY <1>3, <2>1, <2>2
<1> HIDE DEF w, r
<1>6. r.length = w /\ r.capacity = n /\ r.array = k.array /\ r.mem = k.mem
  BY <1>5
<1>7. IsList(r, E)
  BY <1>2, <1>4, <1>5, <1>6 DEF IsList
<1>8. CutTo(l, r, n, E)
  BY <1>2, <1>4, <1>6, <1>7 DEF CutTo
<1> QED BY <1>8 DEF r, k

\* No pointer stands twice in s.
Once(s) == \A i, j \in 1 .. Len(s) : s[i] = s[j] => i = j

\* The pointers that have been pushed and not popped, and are not in s.
Lost(s, o) == o \ Range(s)

\* The list l holds s, all of it in o, and has nothing behind it but what was popped,
\* of p, or cut off.
VpaGood(l, s, o, p) ==
    /\ IsList(l, Pointer)
    /\ s \in Seq(Pointer) /\ Contents(l) = s /\ Once(s) /\ Range(s) \subseteq o
    /\ \A i \in l.length + 1 .. Len(l.mem) : l.mem[i] \in {Junk} \cup p \cup Lost(s, o)

\* The capacity is true, with room for one more, and nothing was cut off.
VpaFull(l, s, o) == l.length < l.capacity /\ l.capacity <= Len(l.mem) /\ o = Range(s)

VpaInv ==
    /\ VpaGood(vpa, elements, owned, popped)
    /\ ~resized => VpaFull(vpa, elements, owned)
    /\ vpaStatus \in {"overrun", "junk_freed"} => resized
    /\ vpaStatus # "freed" => released \subseteq popped \cup Lost(elements, owned)
    /\ vpaStatus = "freed" /\ ~resized => owned \subseteq released

\* The items of a sequence.
LEMMA RangeIs ==
    ASSUME NEW S, NEW s \in Seq(S)
    PROVE  \A x : x \in Range(s) <=> \E i \in 1 .. Len(s) : s[i] = x
BY DEF Range

\* What VpaGood says of the places of the list.
LEMMA VpaPlaces ==
    ASSUME NEW l, NEW s, NEW o, NEW p, VpaGood(l, s, o, p)
    PROVE  /\ l.mem \in Seq(Pointer \cup {Junk}) /\ Len(l.mem) \in Nat /\ l.capacity \in Nat
           /\ l.length \in 0 .. Len(l.mem) /\ s \in Seq(Pointer) /\ Len(s) = l.length
           /\ \A i \in 1 .. l.length : s[i] = l.mem[i]
<1>1. IsList(l, Pointer) /\ s \in Seq(Pointer) /\ Contents(l) = s
  BY DEF VpaGood
<1>2. Len(s) = l.length /\ \A i \in 1 .. l.length : s[i] = l.mem[i]
  BY <1>1, ContentsAre
<1> QED BY <1>1, <1>2 DEF IsList

\* A pointer that is not owned is pushed where there is room.
LEMMA VpaPushes ==
    ASSUME NEW l, NEW s, NEW o, NEW p, VpaGood(l, s, o, p), Room(l),
           NEW x \in Pointer, x \notin o
    PROVE  LET r == vpa_grow(put(l, x)) IN
           /\ VpaGood(r, Append(s, x), o \cup {x}, p)
           /\ VpaFull(l, s, o) => VpaFull(r, Append(s, x), o \cup {x})
           /\ Lost(Append(s, x), o \cup {x}) = Lost(s, o)
<1> DEFINE u == put(l, x)
           r == vpa_grow(u)
           t == Append(s, x)
           q == o \cup {x}
<1>1. /\ l.mem \in Seq(Pointer \cup {Junk}) /\ Len(l.mem) \in Nat /\ l.capacity \in Nat
      /\ l.length \in 0 .. Len(l.mem) /\ s \in Seq(Pointer) /\ Len(s) = l.length
      /\ \A i \in 1 .. l.length : s[i] = l.mem[i]
  BY VpaPlaces
<1>2. /\ IsList(l, Pointer) /\ Contents(l) = s /\ Once(s) /\ Range(s) \subseteq o
      /\ \A i \in l.length + 1 .. Len(l.mem) : l.mem[i] \in {Junk} \cup p \cup Lost(s, o)
  BY DEF VpaGood
<1>3. l.length < Len(l.mem)
  BY DEF Room
<1>4. /\ IsList(u, Pointer) /\ u.length = l.length + 1 /\ u.capacity = l.capacity
      /\ u.mem = [l.mem EXCEPT ![l.length + 1] = x]
      /\ Contents(u) = t
  BY <1>2, <1>3, Puts
<1>5. /\ Len(u.mem) = Len(l.mem)
      /\ \A i \in 1 .. Len(l.mem) : u.mem[i] = IF i = l.length + 1 THEN x ELSE l.mem[i]
  BY <1>1, <1>3, <1>4
<1>6. GrownTo(u, r, Pointer)
  BY <1>4, VpaGrows
<1>7. /\ t \in Seq(Pointer) /\ Len(t) = l.length + 1
      /\ \A i \in 1 .. l.length + 1 : t[i] = IF i = l.length + 1 THEN x ELSE s[i]
  BY <1>1
<1> HIDE DEF u, r, t, q
<1>8. /\ IsList(r, Pointer) /\ r.length = u.length /\ Len(r.mem) >= Len(u.mem)
      /\ \A i \in 1 .. Len(u.mem) : r.mem[i] = u.mem[i]
      /\ \A i \in Len(u.mem) + 1 .. Len(r.mem) : r.mem[i] = Junk
  BY <1>6 DEF GrownTo
<1>9. Contents(r) = t
  <2>1. /\ Contents(r) \in Seq(Pointer \cup {Junk}) /\ Len(Contents(r)) = r.length
        /\ \A i \in 1 .. r.length : Contents(r)[i] = r.mem[i]
    BY <1>8, ContentsAre
  <2>2. t \in Seq(Pointer \cup {Junk})
    BY <1>7
  <2>3. ASSUME NEW i \in 1 .. Len(t) PROVE Contents(r)[i] = t[i]
    <3>1. i \in 1 .. l.length + 1 /\ i \in 1 .. Len(l.mem) /\ i \in 1 .. r.length
      BY <1>1, <1>3, <1>4, <1>7, <1>8
    <3>2. Contents(r)[i] = IF i = l.length + 1 THEN x ELSE l.mem[i]
      BY <1>5, <1>8, <2>1, <3>1
    <3>3. i # l.length + 1 => s[i] = l.mem[i]
      BY <1>1, <3>1
    <3> QED BY <1>7, <3>1, <3>2, <3>3
  <2>4. Len(Contents(r)) = Len(t)
    BY <1>4, <1>7, <1>8, <2>1
  <2> QED BY <2>1, <2>2, <2>3, <2>4, SameItems
<1>10. \A y : y \in Range(t) <=> y \in Range(s) \/ y = x
  <2>1. \A y : y \in Range(t) <=> \E i \in 1 .. l.length + 1 : t[i] = y
    BY <1>7, RangeIs
  <2>2. \A y : y \in Range(s) <=> \E i \in 1 .. l.length : s[i] = y
    BY <1>1, RangeIs
  <2>3. l.length + 1 \in 1 .. l.length + 1 /\ t[l.length + 1] = x
    BY <1>1, <1>7
  <2>4. \A i \in 1 .. l.length : i \in 1 .. l.length + 1 /\ t[i] = s[i]
    BY <1>1, <1>7
  <2>5. \A i \in 1 .. l.length + 1 : i = l.length + 1 \/ i \in 1 .. l.length
    BY <1>1
  <2> QED BY <2>1, <2>2, <2>3, <2>4, <2>5
<1>11. Lost(t, q) = Lost(s, o)
  BY <1>10 DEF Lost, q
<1>12. Once(t)
  <2>1. ASSUME NEW i \in 1 .. l.length + 1, NEW j \in 1 .. l.length + 1, t[i] = t[j]
        PROVE  i = j
    <3>1. \A k \in 1 .. l.length : s[k] # x
      BY <1>1, <1>2, RangeIs
    <3>2. i # l.length + 1 => i \in 1 .. l.length /\ t[i] = s[i]
      BY <1>1, <1>7
    <3>3. j # l.length + 1 => j \in 1 .. l.length /\ t[j] = s[j]
      BY <1>1, <1>7
    <3>4. l.length + 1 \in 1 .. l.length + 1 /\ t[l.length + 1] = x
      BY <1>1, <1>7
    <3> QED BY <1>1, <1>2, <2>1, <3>1, <3>2, <3>3, <3>4 DEF Once
  <2> QED BY <1>7, <2>1 DEF Once
<1>13. ASSUME NEW i \in r.length + 1 .. Len(r.mem)
       PROVE  r.mem[i] \in {Junk} \cup p \cup Lost(t, q)
  <2>1. CASE i \in 1 .. Len(l.mem)
    <3>1. i \in l.length + 1 .. Len(l.mem) /\ i # l.length + 1
      BY <1>1, <1>4, <1>8, <2>1
    <3>2. r.mem[i] = l.mem[i]
      BY <1>5, <1>8, <2>1, <3>1
    <3> QED BY <1>2, <1>11, <3>1, <3>2
  <2>2. CASE i \notin 1 .. Len(l.mem)
    <3>1. Len(r.mem) \in Nat /\ r.length \in Nat
      BY <1>8 DEF IsList
    <3>2. i \in Len(u.mem) + 1 .. Len(r.mem)
      BY <1>1, <1>5, <2>2, <3>1
    <3> QED BY <1>8, <3>2
  <2> QED BY <2>1, <2>2
<1>14. Range(t) \subseteq q
  BY <1>2, <1>10 DEF q
<1>15. VpaGood(r, t, q, p)
  BY <1>7, <1>8, <1>9, <1>12, <1>13, <1>14 DEF VpaGood
<1>16. VpaFull(l, s, o) => VpaFull(r, t, q)
  <2>1. SUFFICES ASSUME VpaFull(l, s, o) PROVE VpaFull(r, t, q)
    OBVIOUS
  <2>2. u.length <= u.capacity /\ u.capacity <= Len(u.mem)
    BY <1>1, <1>4, <1>5, <2>1 DEF VpaFull
  <2>3. r.length < r.capacity /\ r.capacity <= Len(r.mem)
    BY <1>6, <2>2 DEF GrownTo
  <2>4. q = Range(t)
    BY <1>10, <2>1 DEF VpaFull, q
  <2> QED BY <2>3, <2>4 DEF VpaFull
<1> QED BY <1>11, <1>15, <1>16 DEF r, u, t, q

\* The pointer that is taken off the end is popped and no longer owned.
VpaPopped(l, s, o, p) ==
    LET r == list_pop(l)
        x == Last(s) IN
    /\ VpaGood(r, Front(s), o \ {x}, p \cup {x})
    /\ VpaFull(l, s, o) => VpaFull(r, Front(s), o \ {x})
    /\ Lost(Front(s), o \ {x}) = Lost(s, o)

\* The last pointer is popped.
LEMMA VpaPops ==
    ASSUME NEW l, NEW s, NEW o, NEW p, VpaGood(l, s, o, p), Len(s) # 0
    PROVE  VpaPopped(l, s, o, p)
<1> DEFINE n == l.length
           r == list_pop(l)
           t == Front(s)
           x == Last(s)
           q == o \ {x}
           d == p \cup {x}
<1>1. /\ l.mem \in Seq(Pointer \cup {Junk}) /\ Len(l.mem) \in Nat /\ l.capacity \in Nat
      /\ n \in 0 .. Len(l.mem) /\ s \in Seq(Pointer) /\ Len(s) = n
      /\ \A i \in 1 .. n : s[i] = l.mem[i]
  BY VpaPlaces
<1>2. /\ IsList(l, Pointer) /\ Contents(l) = s /\ Once(s) /\ Range(s) \subseteq o
      /\ \A i \in n + 1 .. Len(l.mem) : l.mem[i] \in {Junk} \cup p \cup Lost(s, o)
  BY DEF VpaGood
<1>3. n # 0
  BY <1>1
<1>4. /\ IsList(r, Pointer) /\ r.mem = l.mem /\ r.length = n - 1
      /\ r.capacity <= l.capacity
      /\ n <= l.capacity => r.length < r.capacity
      /\ Contents(r) = t
  BY <1>2, <1>3, Pops
<1>5. t \in Seq(Pointer) /\ Len(t) = n - 1 /\ \A i \in 1 .. n - 1 : t[i] = s[i]
  BY <1>1, <1>3 DEF Front
<1>6. x = s[n] /\ x = l.mem[n] /\ n \in 1 .. n
  BY <1>1, <1>3 DEF Last
<1> HIDE DEF r, t, x, q, d
<1>7. \A i \in 1 .. n - 1 : s[i] # x
  <2>1. \A i \in 1 .. n - 1 : i \in 1 .. n /\ i # n
    BY <1>1
  <2> QED BY <1>1, <1>2, <1>6, <2>1 DEF Once
<1>8. \A y : y \in Range(t) <=> y \in Range(s) /\ y # x
  <2>1. \A y : y \in Range(t) <=> \E i \in 1 .. n - 1 : t[i] = y
    BY <1>5, RangeIs
  <2>2. \A y : y \in Range(s) <=> \E i \in 1 .. n : s[i] = y
    BY <1>1, RangeIs
  <2>3. \A i \in 1 .. n : i = n \/ i \in 1 .. n - 1
    BY <1>1
  <2>4. \A i \in 1 .. n - 1 : i \in 1 .. n
    BY <1>1
  <2>5. ASSUME NEW y, y \in Range(t) PROVE y \in Range(s) /\ y # x
    BY <1>5, <1>7, <2>1, <2>2, <2>4, <2>5
  <2>6. ASSUME NEW y, y \in Range(s), y # x PROVE y \in Range(t)
    <3>1. PICK i \in 1 .. n : s[i] = y
      BY <2>2, <2>6
    <3>2. i \in 1 .. n - 1
      BY <1>6, <2>3, <2>6, <3>1
    <3> QED BY <1>5, <2>1, <3>1, <3>2
  <2> QED BY <2>5, <2>6
<1>9. x \in Range(s)
  BY <1>1, <1>6, RangeIs
<1>10. Lost(t, q) = Lost(s, o)
  BY <1>8, <1>9 DEF Lost, q
<1>11. Once(t)
  <2>1. \A i \in 1 .. n - 1 : i \in 1 .. n
    BY <1>1
  <2> QED BY <1>1, <1>2, <1>5, <2>1 DEF Once
<1>12. ASSUME NEW i \in r.length + 1 .. Len(r.mem)
       PROVE  r.mem[i] \in {Junk} \cup d \cup Lost(t, q)
  <2>1. i = n \/ i \in n + 1 .. Len(l.mem)
    BY <1>1, <1>4
  <2> QED BY <1>2, <1>4, <1>6, <1>10, <2>1 DEF d
<1>13. Range(t) \subseteq q
  BY <1>2, <1>8 DEF q
<1>14. VpaGood(r, t, q, d)
  BY <1>4, <1>5, <1>11, <1>12, <1>13 DEF VpaGood
<1>15. VpaFull(l, s, o) => VpaFull(r, t, q)
  <2>1. SUFFICES ASSUME VpaFull(l, s, o) PROVE VpaFull(r, t, q)
    OBVIOUS
  <2>2. n < l.capacity /\ l.capacity <= Len(l.mem) /\ o = Range(s)
    BY <2>1 DEF VpaFull
  <2>3. r.capacity \in Nat
    BY <1>4 DEF IsList
  <2>4. r.length < r.capacity /\ r.capacity <= Len(r.mem)
    BY <1>1, <1>4, <2>2, <2>3
  <2>5. q = Range(t)
    BY <1>8, <2>2 DEF q
  <2> QED BY <2>4, <2>5 DEF VpaFull
<1> QED BY <1>10, <1>14, <1>15 DEF VpaPopped, r, t, x, q, d

\* A pointer is replaced by one that is not owned.
LEMMA VpaSets ==
    ASSUME NEW l, NEW s, NEW o, NEW p, VpaGood(l, s, o, p), NEW k \in 1 .. l.length,
           NEW x \in Pointer, x \notin o
    PROVE  LET r == [l EXCEPT !.mem[k] = x]
               t == [s EXCEPT ![k] = x]
               q == (o \ {s[k]}) \cup {x} IN
           /\ VpaGood(r, t, q, p)
           /\ VpaFull(l, s, o) => VpaFull(r, t, q)
           /\ Lost(s, o) \subseteq Lost(t, q)
<1> DEFINE n == l.length
           m == [l.mem EXCEPT ![k] = x]
           r == [l EXCEPT !.mem[k] = x]
           t == [s EXCEPT ![k] = x]
           y == s[k]
           q == (o \ {y}) \cup {x}
<1>1. /\ l.mem \in Seq(Pointer \cup {Junk}) /\ Len(l.mem) \in Nat /\ l.capacity \in Nat
      /\ n \in 0 .. Len(l.mem) /\ s \in Seq(Pointer) /\ Len(s) = n
      /\ \A i \in 1 .. n : s[i] = l.mem[i]
  BY VpaPlaces
<1>2. /\ IsList(l, Pointer) /\ Contents(l) = s /\ Once(s) /\ Range(s) \subseteq o
      /\ \A i \in n + 1 .. Len(l.mem) : l.mem[i] \in {Junk} \cup p \cup Lost(s, o)
  BY DEF VpaGood
<1>3. r = [length |-> n, capacity |-> l.capacity, array |-> l.array, mem |-> m]
  <2>1. PICK j, c, a, b : /\ l = [length |-> j, capacity |-> c, array |-> a, mem |-> b]
                          /\ j = l.length /\ c = l.capacity /\ a = l.array /\ b = l.mem
    BY <1>2 DEF IsList
  <2> QED BY <2>1
<1>4. /\ m \in Seq(Pointer \cup {Junk}) /\ Len(m) = Len(l.mem)
      /\ \A i \in 1 .. Len(l.mem) : m[i] = IF i = k THEN x ELSE l.mem[i]
  BY <1>1
<1>5. /\ t \in Seq(Pointer) /\ Len(t) = n
      /\ \A i \in 1 .. n : t[i] = IF i = k THEN x ELSE s[i]
  BY <1>1
<1>6. k \in 1 .. n /\ t[k] = x
  BY <1>5
<1> HIDE DEF m, r, t, y, q
<1>7. r.length = n /\ r.capacity = l.capacity /\ r.array = l.array /\ r.mem = m
  BY <1>3
<1>8. IsList(r, Pointer)
  BY <1>1, <1>3, <1>4, <1>7 DEF IsList
<1>9. Contents(r) = t
  <2>1. /\ Contents(r) \in Seq(Pointer \cup {Junk}) /\ Len(Contents(r)) = n
        /\ \A i \in 1 .. n : Contents(r)[i] = m[i]
    BY <1>7, <1>8, ContentsAre
  <2>2. t \in Seq(Pointer \cup {Junk})
    BY <1>5
  <2>3. ASSUME NEW i \in 1 .. n PROVE Contents(r)[i] = t[i]
    <3>1. i \in 1 .. Len(l.mem)
      BY <1>1
    <3> QED BY <1>1, <1>4, <1>5, <2>1, <3>1
  <2> QED BY <1>5, <2>1, <2>2, <2>3, SameItems
<1>10. \A z : z \in Range(s) <=> \E i \in 1 .. n : s[i] = z
  BY <1>1, RangeIs
<1>11. \A z : z \in Range(t) <=> \E i \in 1 .. n : t[i] = z
  BY <1>5, RangeIs
<1>12. \A i \in 1 .. n : i # k => s[i] # y
  BY <1>1, <1>2, <1>6 DEF Once, y
<1>13. \A z : z \in Range(t) <=> (z \in Range(s) /\ z # y) \/ z = x
  <2>1. y = s[k]
    BY DEF y
  <2> QED BY <1>5, <1>6, <1>10, <1>11, <1>12, <2>1
<1>14. y \in Range(s)
  BY <1>6, <1>10 DEF y
<1>15. Lost(s, o) \subseteq Lost(t, q)
  BY <1>13, <1>14 DEF Lost, q
<1>16. Once(t)
  <2>1. \A i \in 1 .. n : s[i] # x
    BY <1>2, <1>10
  <2>2. ASSUME NEW i \in 1 .. n, NEW j \in 1 .. n, t[i] = t[j] PROVE i = j
    BY <1>1, <1>2, <1>5, <2>1, <2>2 DEF Once
  <2> QED BY <1>5, <2>2 DEF Once
<1>17. ASSUME NEW i \in r.length + 1 .. Len(r.mem)
       PROVE  r.mem[i] \in {Junk} \cup p \cup Lost(t, q)
  <2>1. i \in n + 1 .. Len(l.mem) /\ i # k /\ i \in 1 .. Len(l.mem)
    BY <1>1, <1>4, <1>6, <1>7
  <2>2. r.mem[i] = l.mem[i]
    BY <1>4, <1>7, <2>1
  <2> QED BY <1>2, <1>15, <2>1, <2>2
<1>18. Range(t) \subseteq q
  BY <1>2, <1>13 DEF q
<1>19. VpaGood(r, t, q, p)
  BY <1>5, <1>8, <1>9, <1>16, <1>17, <1>18 DEF VpaGood
<1>20. VpaFull(l, s, o) => VpaFull(r, t, q)
  <2>1. SUFFICES ASSUME VpaFull(l, s, o) PROVE VpaFull(r, t, q)
    OBVIOUS
  <2>2. q = Range(t)
    BY <1>13, <2>1 DEF q, VpaFull
  <2> QED BY <1>4, <1>7, <2>1, <2>2 DEF VpaFull
<1> QED BY <1>15, <1>19, <1>20 DEF r, t, q, y

\* The list is cut to n.
LEMMA VpaResizes ==
    ASSUME NEW l, NEW s, NEW o, NEW p, VpaGood(l, s, o, p), NEW n \in Nat
    PROVE  LET r == [krealloc_bytes(l, n) EXCEPT !.capacity = n, !.length = Min({@, n})]
               t == SubSeq(s, 1, Min({n, Len(s)})) IN
           /\ VpaGood(r, t, o, p)
           /\ Lost(s, o) \subseteq Lost(t, o)
           /\ \A i \in n + 2 .. l.length + 1 :
                i <= Len(l.mem) /\ l.mem[i] # Junk => l.mem[i] \in p \cup Lost(t, o)
<1> DEFINE h == l.length
           r == [krealloc_bytes(l, n) EXCEPT !.capacity = n, !.length = Min({@, n})]
           w == IF h <= n THEN h ELSE n
           t == SubSeq(s, 1, w)
<1>1. /\ l.mem \in Seq(Pointer \cup {Junk}) /\ Len(l.mem) \in Nat /\ l.capacity \in Nat
      /\ h \in 0 .. Len(l.mem) /\ s \in Seq(Pointer) /\ Len(s) = h
      /\ \A i \in 1 .. h : s[i] = l.mem[i]
  BY VpaPlaces
<1>2. /\ IsList(l, Pointer) /\ Contents(l) = s /\ Once(s) /\ Range(s) \subseteq o
      /\ \A i \in h + 1 .. Len(l.mem) : l.mem[i] \in {Junk} \cup p \cup Lost(s, o)
  BY DEF VpaGood
<1>3. Min({n, Len(s)}) = w
  <2>1. PICK c \in Int : c = Len(s)
    BY <1>1
  <2>2. Min({n, c}) = IF n <= c THEN n ELSE c
    BY OfTwo
  <2> QED BY <1>1, <2>1, <2>2
<1>4. w \in Nat /\ w <= h /\ w <= n
  BY <1>1
<1>5. CutTo(l, r, n, Pointer)
  BY <1>2, VpaCuts
<1> HIDE DEF r, w
<1>6. /\ IsList(r, Pointer) /\ r.length = w
      /\ \A i \in 1 .. Len(r.mem) : r.mem[i] = IF i <= Len(l.mem) THEN l.mem[i] ELSE Junk
  BY <1>5 DEF CutTo, w
<1>7. t \in Seq(Pointer) /\ Len(t) = w /\ \A i \in 1 .. w : t[i] = s[i]
  BY <1>1, <1>4
<1> HIDE DEF t
<1>8. r.mem \in Seq(Pointer \cup {Junk}) /\ Len(r.mem) \in Nat /\ w <= Len(r.mem)
  BY <1>6 DEF IsList
<1>9. Contents(r) = t
  <2>1. /\ Contents(r) \in Seq(Pointer \cup {Junk}) /\ Len(Contents(r)) = r.length
        /\ \A i \in 1 .. r.length : Contents(r)[i] = r.mem[i]
    BY <1>6, ContentsAre
  <2>2. t \in Seq(Pointer \cup {Junk})
    BY <1>7
  <2>3. ASSUME NEW i \in 1 .. w PROVE Contents(r)[i] = t[i]
    <3>1. i \in 1 .. Len(r.mem) /\ i <= Len(l.mem) /\ i \in 1 .. h
      BY <1>1, <1>4, <1>8
    <3> QED BY <1>1, <1>6, <1>7, <2>1, <3>1
  <2> QED BY <1>6, <1>7, <2>1, <2>2, <2>3, SameItems
<1>10. \A z : z \in Range(s) <=> \E i \in 1 .. h : s[i] = z
  BY <1>1, RangeIs
<1>11. \A z : z \in Range(t) <=> \E i \in 1 .. w : t[i] = z
  BY <1>7, RangeIs
<1>12. \A i \in 1 .. w : i \in 1 .. h
  BY <1>1, <1>4
<1>13. Range(t) \subseteq Range(s)
  BY <1>7, <1>10, <1>11, <1>12
<1>14. Lost(s, o) \subseteq Lost(t, o)
  BY <1>13 DEF Lost
<1>15. Once(t)
  BY <1>1, <1>2, <1>7, <1>12 DEF Once
<1>16. ASSUME NEW i \in w + 1 .. h PROVE l.mem[i] \in Lost(t, o)
  <2>1. i \in 1 .. h
    BY <1>1, <1>4
  <2>2. s[i] = l.mem[i] /\ s[i] \in o
    BY <1>1, <1>2, <1>10, <2>1
  <2>3. \A j \in 1 .. w : j # i
    BY <1>1, <1>4
  <2>4. s[i] \notin Range(t)
    <3>1. SUFFICES ASSUME NEW j \in 1 .. w, t[j] = s[i] PROVE FALSE
      BY <1>11
    <3>2. s[j] = s[i] /\ j \in 1 .. h
      BY <1>7, <1>12, <3>1
    <3>3. j = i
      BY <1>1, <1>2, <2>1, <3>2 DEF Once
    <3> QED BY <2>3, <3>3
  <2> QED BY <2>2, <2>4 DEF Lost
<1>17. ASSUME NEW i \in w + 1 .. h + 1, i <= Len(l.mem)
       PROVE  l.mem[i] \in {Junk} \cup p \cup Lost(t, o)
  <2>1. i \in w + 1 .. h \/ i \in h + 1 .. Len(l.mem)
    BY <1>1, <1>4, <1>17
  <2> QED BY <1>2, <1>14, <1>16, <2>1
<1>18. ASSUME NEW i \in r.length + 1 .. Len(r.mem)
       PROVE  r.mem[i] \in {Junk} \cup p \cup Lost(t, o)
  <2>1. i \in 1 .. Len(r.mem) /\ i \in w + 1 .. Len(r.mem)
    BY <1>4, <1>6, <1>8
  <2>2. CASE i <= Len(l.mem)
    <3>1. r.mem[i] = l.mem[i]
      BY <1>6, <2>1, <2>2
    <3>2. i \in w + 1 .. h \/ i \in h + 1 .. Len(l.mem)
      BY <1>1, <1>4, <2>1, <2>2
    <3> QED BY <1>2, <1>14, <1>16, <3>1, <3>2
  <2>3. CASE ~(i <= Len(l.mem))
    BY <1>6, <2>1, <2>3
  <2> QED BY <2>2, <2>3
<1>19. VpaGood(r, t, o, p)
  BY <1>2, <1>6, <1>7, <1>9, <1>13, <1>15, <1>18 DEF VpaGood
<1>20. ASSUME NEW i \in n + 2 .. h + 1, i <= Len(l.mem), l.mem[i] # Junk
       PROVE  l.mem[i] \in p \cup Lost(t, o)
  <2>1. i \in w + 1 .. h + 1
    BY <1>1, <1>4
  <2> QED BY <1>17, <1>20, <2>1
<1> QED BY <1>3, <1>14, <1>19, <1>20 DEF r, t

\* The pointer list starts empty.
LEMMA VpaInitInv ==
    ASSUME NEW C \in SUBSET Nat, VpaInit(C)
    PROVE  VpaInv
<1>1. PICK c \in C : vpa = list_create(c)
  BY DEF VpaInit
<1>2. /\ elements = <<>> /\ released = {} /\ owned = {} /\ popped = {}
      /\ resized = (vpa.capacity = 0) /\ vpaStatus = "ok"
  BY DEF VpaInit
<1>3. /\ IsList(vpa, Pointer) /\ Fits(vpa) /\ vpa.capacity = c /\ vpa.length = 0
      /\ Len(vpa.mem) = c /\ Contents(vpa) = <<>>
      /\ \A i \in 1 .. c : vpa.mem[i] = Junk
  <2>1. c \in Nat
    OBVIOUS
  <2>2. \A i \in 1 .. c : vpa.mem[i] = Junk
    BY <1>1 DEF list_create, Fresh
  <2> QED BY <1>1, <2>1, <2>2, Creates
<1>4. Range(<<>>) = {} /\ <<>> \in Seq(Pointer) /\ Once(<<>>)
  BY DEF Range, Once
<1>5. VpaGood(vpa, elements, owned, popped)
  BY <1>2, <1>3, <1>4 DEF VpaGood
<1>6. ~resized => VpaFull(vpa, elements, owned)
  <2>1. ~resized => vpa.capacity # 0
    BY <1>2, Zenon
  <2>2. c # 0 => VpaFull(vpa, elements, owned)
    <3>1. c \in Nat
      OBVIOUS
    <3> QED BY <1>2, <1>3, <1>4, <3>1 DEF VpaFull
  <2> QED BY <1>3, <2>1, <2>2
<1> QED BY <1>2, <1>5, <1>6 DEF VpaInv

\* No call breaks the pointer list.
LEMMA VpaStepInv ==
    ASSUME VpaInv, VpaNext
    PROVE  VpaInv'
<1>1. /\ VpaGood(vpa, elements, owned, popped)
      /\ ~resized => VpaFull(vpa, elements, owned)
      /\ vpaStatus # "freed" => released \subseteq popped \cup Lost(elements, owned)
  BY DEF VpaInv
<1>2. /\ Contents(vpa) = elements /\ elements \in Seq(Pointer) /\ Len(elements) = vpa.length
      /\ \A i \in 1 .. vpa.length : elements[i] = vpa.mem[i]
  BY <1>1, VpaPlaces DEF VpaGood
<1>3. ASSUME NEW x \in Pointer, vpa_push(x) PROVE VpaInv'
  <2>1. /\ vpaStatus = "ok" /\ x \notin owned /\ owned' = owned \cup {x}
        /\ UNCHANGED <<released, popped, resized>>
    BY <1>3 DEF vpa_push
  <2>2. CASE Room(vpa)
    <3>1. /\ vpa' = vpa_grow(put(vpa, x)) /\ elements' = Append(elements, x)
          /\ vpaStatus' = vpaStatus
      BY <1>3, <2>2 DEF vpa_push
    <3>2. /\ VpaGood(vpa', elements', owned', popped)
          /\ VpaFull(vpa, elements, owned) => VpaFull(vpa', elements', owned')
          /\ Lost(elements', owned') = Lost(elements, owned)
      BY <1>1, <2>1, <2>2, <3>1, VpaPushes
    <3> QED BY <1>1, <2>1, <3>1, <3>2 DEF VpaInv
  <2>3. CASE ~Room(vpa)
    <3>1. vpaStatus' = "overrun" /\ UNCHANGED <<vpa, elements>>
      BY <1>3, <2>3 DEF vpa_push
    <3>2. resized
      <4>1. IsList(vpa, Pointer)
        BY <1>1 DEF VpaGood
      <4> QED BY <1>1, <2>3, <4>1 DEF Room, VpaFull, IsList
    <3>3. Lost(elements, owned) \subseteq Lost(elements, owned')
      BY <2>1 DEF Lost
    <3>4. VpaGood(vpa, elements, owned', popped)
      <4>1. Range(elements) \subseteq owned'
        BY <1>1, <2>1 DEF VpaGood
      <4> QED BY <1>1, <3>3, <4>1 DEF VpaGood
    <3> QED BY <1>1, <2>1, <3>1, <3>2, <3>3, <3>4 DEF VpaInv
  <2> QED BY <2>2, <2>3
<1>4. ASSUME NEW x \in Pointer, NEW i \in 1 .. MaxList, vpa_set(i, x) PROVE VpaInv'
  <2>1. /\ vpaStatus = "ok" /\ i \in 1 .. vpa.length /\ x \notin owned
        /\ vpa' = [vpa EXCEPT !.mem[i] = x]
        /\ elements' = [elements EXCEPT ![i] = x]
        /\ owned' = (owned \ {elements[i]}) \cup {x}
        /\ UNCHANGED <<released, popped, resized, vpaStatus>>
    BY <1>4 DEF vpa_set
  <2>2. /\ VpaGood(vpa', elements', owned', popped)
        /\ VpaFull(vpa, elements, owned) => VpaFull(vpa', elements', owned')
        /\ Lost(elements, owned) \subseteq Lost(elements', owned')
    BY <1>1, <2>1, VpaSets
  <2> QED BY <1>1, <2>1, <2>2 DEF VpaInv
<1>5. CASE vpa_pop
  <2>1. vpaStatus = "ok" /\ vpa' = list_pop(vpa) /\ UNCHANGED <<released, resized, vpaStatus>>
    BY <1>5 DEF vpa_pop
  <2>2. CASE elements # <<>>
    <3>1. /\ elements' = Front(elements) /\ owned' = owned \ {Last(elements)}
          /\ popped' = popped \cup {Last(elements)}
      BY <1>5, <2>2 DEF vpa_pop
    <3>2. /\ VpaGood(vpa', elements', owned', popped')
          /\ VpaFull(vpa, elements, owned) => VpaFull(vpa', elements', owned')
          /\ Lost(elements', owned') = Lost(elements, owned)
      <4> DEFINE r == list_pop(vpa)
                 x == Last(elements)
      <4>1. /\ VpaGood(r, Front(elements), owned \ {x}, popped \cup {x})
            /\ VpaFull(vpa, elements, owned) => VpaFull(r, Front(elements), owned \ {x})
            /\ Lost(Front(elements), owned \ {x}) = Lost(elements, owned)
        <5>1. Len(elements) # 0
          BY <1>2, <2>2, EmptySeq
        <5>2. VpaGood(vpa, elements, owned, popped)
          BY <1>1
        <5>3. VpaPopped(vpa, elements, owned, popped)
          BY <5>1, <5>2, VpaPops
        <5> QED BY <5>3 DEF VpaPopped
      <4>2. vpa' = r
        BY <2>1
      <4> HIDE DEF r, x
      <4> QED BY <3>1, <4>1, <4>2 DEF x
    <3>3. released' \subseteq popped' \cup Lost(elements', owned')
      <4>1. released \subseteq popped \cup Lost(elements, owned)
        BY <1>1, <2>1
      <4>2. released' = released
        BY <2>1
      <4>3. popped \subseteq popped'
        BY <3>1
      <4>4. Lost(elements', owned') = Lost(elements, owned)
        BY <3>2
      <4> QED BY <4>1, <4>2, <4>3, <4>4
    <3>4. vpaStatus' = "ok" /\ resized' = resized
      BY <2>1
    <3>5. ~resized' => VpaFull(vpa', elements', owned')
      BY <1>1, <3>2, <3>4
    <3> QED BY <3>2, <3>3, <3>4, <3>5 DEF VpaInv
  <2>3. CASE elements = <<>>
    <3>1. UNCHANGED <<elements, owned, popped>>
      BY <1>5, <2>3 DEF vpa_pop
    <3>2. vpa' = vpa
      BY <1>2, <2>1, <2>3 DEF list_pop
    <3> QED BY <1>1, <2>1, <3>1, <3>2 DEF VpaInv
  <2> QED BY <2>2, <2>3
<1>6. CASE vpa_free
  <2>1. /\ vpaStatus = "ok" /\ vpaStatus' = "freed" /\ released' = released \cup Range(elements)
        /\ UNCHANGED <<vpa, elements, owned, popped, resized>>
    BY <1>2, <1>6 DEF vpa_free
  <2> QED BY <1>1, <2>1 DEF VpaInv, VpaFull
<1>7. ASSUME NEW n \in 0 .. MaxList, vpa_resize(n) PROVE VpaInv'
  <2> DEFINE freed == FreedByResize(n)
             valid == \A i \in freed : i <= Len(vpa.mem) /\ vpa.mem[i] # Junk
  <2>1. vpaStatus = "ok" /\ resized' = TRUE /\ UNCHANGED <<owned, popped>>
    BY <1>7 DEF vpa_resize
  <2>2. n \in Nat
    BY ArrayListAssumption
  <2>3. CASE valid
    <3>1. /\ released' = released \cup {vpa.mem[i] : i \in freed}
          /\ vpa' = [krealloc_bytes(vpa, n) EXCEPT !.capacity = n, !.length = Min({@, n})]
          /\ elements' = SubSeq(elements, 1, Min({n, Len(elements)}))
          /\ vpaStatus' = vpaStatus
      BY <1>7, <2>3 DEF vpa_resize
    <3>2. /\ VpaGood(vpa', elements', owned, popped)
          /\ Lost(elements, owned) \subseteq Lost(elements', owned)
          /\ \A i \in n + 2 .. vpa.length + 1 :
               i <= Len(vpa.mem) /\ vpa.mem[i] # Junk
                 => vpa.mem[i] \in popped \cup Lost(elements', owned)
      BY <1>1, <2>2, <3>1, VpaResizes
    <3>3. {vpa.mem[i] : i \in freed} \subseteq popped \cup Lost(elements', owned)
      <4>1. freed \subseteq n + 2 .. vpa.length + 1
        BY DEF FreedByResize
      <4> QED BY <2>3, <3>2, <4>1
    <3> HIDE DEF freed
    <3> QED BY <1>1, <2>1, <3>1, <3>2, <3>3 DEF VpaInv
  <2>4. CASE ~valid
    <3>1. vpaStatus' = "junk_freed" /\ UNCHANGED <<vpa, elements, released>>
      BY <1>7, <2>4 DEF vpa_resize
    <3> QED BY <1>1, <2>1, <3>1 DEF VpaInv
  <2> QED BY <2>3, <2>4
<1> QED BY <1>3, <1>4, <1>5, <1>6, <1>7 DEF VpaNext

\* What the invariant says of the pointer list.
LEMMA VpaPromise ==
    ASSUME VpaInv
    PROVE  VpaHoldsElements /\ VpaFreesCutOff /\ VpaFreesAll
<1>1. Contents(vpa) = elements /\ IsList(vpa, Pointer)
  BY DEF VpaInv, VpaGood
<1>2. ~resized => vpa.length < Len(vpa.mem)
  BY <1>1 DEF VpaInv, VpaFull, IsList
<1>3. VpaFreesCutOff
  BY DEF VpaInv, Lost, VpaFreesCutOff
<1> QED BY <1>1, <1>2, <1>3 DEF VpaInv, VpaHoldsElements, VpaFreesAll

-----------------------------------------------------------------------------
(* The linked list.                                                        *)

\* From h on the links lk lead through s, and nowhere else.
IsChain(lk, h, s) ==
    /\ s \in Seq(Link) /\ Once(s) /\ Range(s) \subseteq DOMAIN lk
    /\ h = IF s = <<>> THEN Null ELSE s[1]
    /\ \A i \in 1 .. Len(s) : lk[s[i]].next = IF i = Len(s) THEN Null ELSE s[i + 1]

\* One link more than done.
OneMore(lk, h, done) ==
    LET onto == IF done = <<>> THEN h
                ELSE IF Last(done) \in DOMAIN lk THEN lk[Last(done)].next ELSE Null
    IN  IF onto = Null THEN done ELSE Append(done, onto)

Steps == 0 .. Cardinality(Link) + 1

\* The equation of the walk.
IsWalk(f, lk, h) == f = [n \in Steps |-> IF n = 0 THEN <<>> ELSE OneMore(lk, h, f[n - 1])]

\* There are not more items in s than links.
LEMMA AsManyAsLinks ==
    ASSUME NEW s \in Seq(Link), Once(s)
    PROVE  Len(s) <= Cardinality(Link) /\ Cardinality(Link) \in Nat
<1>1. IsFiniteSet(Link) /\ Cardinality(Link) \in Nat
  BY LinkedListAssumption, FS_CardinalityType
<1>2. Len(s) \in Nat /\ s \in [1 .. Len(s) -> Link]
  OBVIOUS
<1>3. s \in Injection(1 .. Len(s), Link)
  BY <1>2 DEF Injection, IsInjective, Once
<1>4. Cardinality(1 .. Len(s)) <= Cardinality(Link)
  BY <1>1, <1>3, FS_Injection
<1>5. Cardinality(1 .. Len(s)) = Len(s)
  BY <1>2, FS_Interval
<1> QED BY <1>1, <1>4, <1>5

\* One link more than the first n of a chain.
LEMMA ChainGoesOn ==
    ASSUME NEW lk, NEW h, NEW s, IsChain(lk, h, s), NEW n \in Nat
    PROVE  /\ n < Len(s) => OneMore(lk, h, SubSeq(s, 1, n)) = SubSeq(s, 1, n + 1)
           /\ OneMore(lk, h, s) = s
<1>1. /\ s \in Seq(Link) /\ Len(s) \in Nat /\ Range(s) \subseteq DOMAIN lk
      /\ h = IF s = <<>> THEN Null ELSE s[1]
      /\ \A i \in 1 .. Len(s) : lk[s[i]].next = IF i = Len(s) THEN Null ELSE s[i + 1]
  BY DEF IsChain
<1>2. \A i \in 1 .. Len(s) : s[i] \in Link /\ s[i] \in DOMAIN lk /\ s[i] # Null
  BY <1>1, LinkedListAssumption, RangeIs
<1>3. ASSUME n < Len(s) PROVE OneMore(lk, h, SubSeq(s, 1, n)) = SubSeq(s, 1, n + 1)
  <2> DEFINE t == SubSeq(s, 1, n)
             u == SubSeq(s, 1, n + 1)
  <2>1. t \in Seq(Link) /\ Len(t) = n /\ \A i \in 1 .. n : t[i] = s[i]
    BY <1>1, <1>3
  <2>2. u \in Seq(Link) /\ Len(u) = n + 1 /\ \A i \in 1 .. n + 1 : u[i] = s[i]
    BY <1>1, <1>3
  <2> HIDE DEF t, u
  <2>3. n + 1 \in 1 .. Len(s)
    BY <1>1, <1>3
  <2>4. /\ Append(t, s[n + 1]) \in Seq(Link) /\ Len(Append(t, s[n + 1])) = n + 1
        /\ \A i \in 1 .. n + 1 :
             Append(t, s[n + 1])[i] = IF i = n + 1 THEN s[n + 1] ELSE t[i]
    BY <1>2, <2>1, <2>3
  <2>5. Append(t, s[n + 1]) = u
    <3>1. ASSUME NEW i \in 1 .. n + 1 PROVE Append(t, s[n + 1])[i] = u[i]
      <4>1. i # n + 1 => i \in 1 .. n
        OBVIOUS
      <4> QED BY <2>1, <2>2, <2>4, <4>1
    <3> QED BY <2>2, <2>4, <3>1, SameItems
  <2>6. CASE n = 0
    <3>1. t = <<>> /\ h = s[1] /\ h # Null
      BY <1>1, <1>2, <2>1, <2>3, <2>6, EmptySeq
    <3>2. OneMore(lk, h, t) = Append(t, h)
      BY <3>1 DEF OneMore
    <3> QED BY <2>5, <2>6, <3>1, <3>2 DEF t, u
  <2>7. CASE n # 0
    <3>1. t # <<>> /\ Last(t) = s[n] /\ n \in 1 .. Len(s) /\ n # Len(s)
      BY <1>1, <1>3, <2>1, <2>7 DEF Last
    <3>2. lk[s[n]].next = s[n + 1] /\ s[n] \in DOMAIN lk /\ s[n + 1] # Null
      BY <1>1, <1>2, <2>3, <3>1
    <3>3. OneMore(lk, h, t) = Append(t, s[n + 1])
      BY <3>1, <3>2 DEF OneMore
    <3> QED BY <2>5, <3>3 DEF t, u
  <2> QED BY <2>6, <2>7
<1>4. OneMore(lk, h, s) = s
  <2>1. CASE s = <<>>
    BY <1>1, <2>1 DEF OneMore
  <2>2. CASE s # <<>>
    <3>1. Len(s) \in 1 .. Len(s)
      BY <1>1, <2>2, EmptySeq
    <3>2. lk[Last(s)].next = Null
      BY <1>1, <3>1 DEF Last
    <3> QED BY <2>2, <3>2 DEF OneMore
  <2> QED BY <2>1, <2>2
<1> QED BY <1>3, <1>4

\* The walk goes through the chain.
LEMMA ChainIs ==
    ASSUME NEW s, IsChain(link, sll.head, s)
    PROVE  Chain = s
<1> DEFINE c == Cardinality(Link)
           h == sll.head
           g == [n \in Steps |-> IF n <= Len(s) THEN SubSeq(s, 1, n) ELSE s]
           f == CHOOSE w : IsWalk(w, link, h)
<1>1. s \in Seq(Link) /\ Len(s) \in Nat /\ Len(s) <= c /\ c \in Nat
  BY AsManyAsLinks DEF IsChain
<1>2. ASSUME NEW n \in Steps PROVE g[n] = IF n = 0 THEN <<>> ELSE OneMore(link, h, g[n - 1])
  <2>1. CASE n = 0
    <3>1. g[n] = SubSeq(s, 1, 0)
      BY <1>1, <2>1
    <3>2. SubSeq(s, 1, 0) = <<>>
      BY <1>1
    <3> QED BY <2>1, <3>1, <3>2
  <2>2. CASE n # 0
    <3>1. n - 1 \in Steps /\ n - 1 \in Nat /\ (n - 1) + 1 = n
      BY <1>1, <2>2 DEF Steps
    <3>2. CASE n <= Len(s)
      <4>1. g[n] = SubSeq(s, 1, n) /\ g[n - 1] = SubSeq(s, 1, n - 1)
        BY <1>1, <3>1, <3>2
      <4> HIDE DEF g
      <4>2. OneMore(link, h, SubSeq(s, 1, n - 1)) = SubSeq(s, 1, (n - 1) + 1)
        BY <1>1, <3>1, <3>2, ChainGoesOn
      <4> QED BY <2>2, <3>1, <4>1, <4>2
    <3>3. CASE ~(n <= Len(s))
      <4>1. g[n] = s
        BY <3>3
      <4>2. g[n - 1] = s
        <5>1. CASE n - 1 <= Len(s)
          <6>1. n - 1 = Len(s)
            BY <1>1, <3>1, <3>3, <5>1
          <6>2. SubSeq(s, 1, Len(s)) = s
            BY <1>1
          <6> QED BY <3>1, <5>1, <6>1, <6>2
        <5>2. CASE ~(n - 1 <= Len(s))
          BY <3>1, <5>2
        <5> QED BY <5>1, <5>2
      <4> HIDE DEF g
      <4>3. OneMore(link, h, s) = s
        BY <3>1, ChainGoesOn
      <4> QED BY <2>2, <4>1, <4>2, <4>3
    <3> QED BY <3>2, <3>3
  <2> QED BY <2>1, <2>2
<1>3. g = [n \in Steps |-> g[n]]
  OBVIOUS
<1>4. c + 1 \in Steps /\ g[c + 1] = s
  <2>1. c + 1 \in Steps /\ ~(c + 1 <= Len(s))
    BY <1>1 DEF Steps
  <2> QED BY <2>1
<1> HIDE DEF g
<1>5. IsWalk(g, link, h)
  BY <1>2, <1>3, Zenon DEF IsWalk
<1>6. IsWalk(f, link, h)
  BY <1>5, Zenon
<1>7. Chain = f[c + 1]
  BY Zenon DEF Chain, From, IsWalk, OneMore, Steps
<1> HIDE DEF f
<1>8. \A n \in Steps : f[n] = IF n = 0 THEN <<>> ELSE OneMore(link, h, f[n - 1])
  BY <1>6, Zenon DEF IsWalk
<1> DEFINE T == {n \in Nat : n \in Steps => f[n] = g[n]}
<1>9. ASSUME NEW n \in Nat, \A j \in 0 .. n - 1 : j \in T PROVE n \in T
  <2>1. SUFFICES ASSUME n \in Steps PROVE f[n] = g[n]
    OBVIOUS
  <2>2. CASE n = 0
    BY <1>2, <1>8, <2>1, <2>2
  <2>3. CASE n # 0
    <3>1. n - 1 \in 0 .. n - 1 /\ n - 1 \in Steps
      BY <1>1, <2>1, <2>3 DEF Steps
    <3>2. f[n - 1] = g[n - 1]
      BY <1>9, <3>1
    <3> QED BY <1>2, <1>8, <2>1, <2>3, <3>2
  <2> QED BY <2>2, <2>3
<1> HIDE DEF T
<1>10. Nat \subseteq T
  BY <1>9, StrongInduction
<1>11. f[c + 1] = g[c + 1]
  <2>1. c + 1 \in T
    BY <1>1, <1>10
  <2> QED BY <1>4, <2>1 DEF T
<1> QED BY <1>4, <1>7, <1>11

\* A sequence without its item i.
LEMMA RemovedAt ==
    ASSUME NEW S, NEW s \in Seq(S), NEW i \in 1 .. Len(s)
    PROVE  /\ RemoveAt(s, i) \in Seq(S) /\ Len(RemoveAt(s, i)) = Len(s) - 1
           /\ \A k \in 1 .. Len(s) - 1 : RemoveAt(s, i)[k] = IF k < i THEN s[k] ELSE s[k + 1]
<1> DEFINE n == Len(s)
           a == SubSeq(s, 1, i - 1)
           b == SubSeq(s, i + 1, n)
<1>1. n \in Nat /\ i \in 1 .. n
  OBVIOUS
<1>2. a \in Seq(S) /\ Len(a) = i - 1 /\ \A k \in 1 .. i - 1 : a[k] = s[k]
  BY <1>1
<1>3. b \in Seq(S) /\ Len(b) = n - i /\ \A k \in 1 .. n - i : b[k] = s[i + k]
  BY <1>1
<1>4. RemoveAt(s, i) = a \o b
  BY DEF RemoveAt
<1> HIDE DEF a, b
<1>5. /\ a \o b \in Seq(S) /\ Len(a \o b) = Len(a) + Len(b)
      /\ \A k \in 1 .. Len(a) + Len(b) : (a \o b)[k] = IF k <= Len(a) THEN a[k] ELSE b[k - Len(a)]
  BY <1>2, <1>3, ConcatProperties
<1>6. Len(a) + Len(b) = n - 1
  BY <1>1, <1>2, <1>3
<1>7. ASSUME NEW k \in 1 .. n - 1 PROVE (a \o b)[k] = IF k < i THEN s[k] ELSE s[k + 1]
  <2>1. CASE k < i
    <3>1. k <= Len(a) /\ k \in 1 .. i - 1
      BY <1>1, <1>2, <2>1
    <3> QED BY <1>2, <1>5, <1>6, <2>1, <3>1
  <2>2. CASE ~(k < i)
    <3>1. ~(k <= Len(a)) /\ k - Len(a) \in 1 .. n - i /\ i + (k - Len(a)) = k + 1
      BY <1>1, <1>2, <2>2
    <3> QED BY <1>3, <1>5, <1>6, <2>2, <3>1
  <2> QED BY <2>1, <2>2
<1> QED BY <1>4, <1>5, <1>6, <1>7

\* The tail is what is left without the first item.
LEMMA TailIsRemoved ==
    ASSUME NEW S, NEW s \in Seq(S), s # <<>>
    PROVE  1 \in 1 .. Len(s) /\ Tail(s) = RemoveAt(s, 1)
<1>1. Len(s) \in Nat /\ 1 \in 1 .. Len(s)
  BY EmptySeq
<1>2. Tail(s) \in Seq(S) /\ Len(Tail(s)) = Len(s) - 1
      /\ \A i \in 1 .. Len(s) - 1 : Tail(s)[i] = s[i + 1]
  BY <1>1
<1>3. /\ RemoveAt(s, 1) \in Seq(S) /\ Len(RemoveAt(s, 1)) = Len(s) - 1
      /\ \A k \in 1 .. Len(s) - 1 : RemoveAt(s, 1)[k] = s[k + 1]
  <2>1. \A k \in 1 .. Len(s) - 1 : ~(k < 1)
    OBVIOUS
  <2> QED BY <1>1, <2>1, RemovedAt
<1> QED BY <1>1, <1>2, <1>3, SameItems

\* Where each item of a sequence without repetition is once one is removed.
LEMMA RemovedOnce ==
    ASSUME NEW S, NEW s \in Seq(S), Once(s), NEW i \in 1 .. Len(s)
    PROVE  Once(RemoveAt(s, i)) /\ Range(RemoveAt(s, i)) = Range(s) \ {s[i]}
<1> DEFINE r == RemoveAt(s, i)
           n == Len(s)
<1>1. /\ n \in Nat /\ r \in Seq(S) /\ Len(r) = n - 1
      /\ \A k \in 1 .. n - 1 : r[k] = IF k < i THEN s[k] ELSE s[k + 1]
  BY RemovedAt
<1> HIDE DEF r
<1>2. \A x : x \in Range(s) <=> \E k \in 1 .. n : s[k] = x
  BY RangeIs
<1>3. \A x : x \in Range(r) <=> \E k \in 1 .. n - 1 : r[k] = x
  BY <1>1, RangeIs
<1>4. ASSUME NEW k \in 1 .. n - 1
      PROVE  \E j \in 1 .. n : j # i /\ r[k] = s[j] /\ j = IF k < i THEN k ELSE k + 1
  BY <1>1
<1>5. Once(r)
  <2>1. ASSUME NEW k \in 1 .. n - 1, NEW m \in 1 .. n - 1, r[k] = r[m] PROVE k = m
    <3>1. PICK j \in 1 .. n : j # i /\ r[k] = s[j] /\ j = IF k < i THEN k ELSE k + 1
      BY <1>4
    <3>2. PICK o \in 1 .. n : o # i /\ r[m] = s[o] /\ o = IF m < i THEN m ELSE m + 1
      BY <1>4
    <3>3. j = o
      BY <2>1, <3>1, <3>2 DEF Once
    <3> QED BY <1>1, <3>1, <3>2, <3>3
  <2> QED BY <1>1, <2>1 DEF Once
<1>6. ASSUME NEW x, x \in Range(r) PROVE x \in Range(s) \ {s[i]}
  <2>1. PICK k \in 1 .. n - 1 : r[k] = x
    BY <1>3, <1>6
  <2>2. PICK j \in 1 .. n : j # i /\ r[k] = s[j]
    BY <1>4
  <2>3. x # s[i]
    BY <2>1, <2>2 DEF Once
  <2> QED BY <1>2, <2>1, <2>2, <2>3
<1>7. ASSUME NEW x, x \in Range(s), x # s[i] PROVE x \in Range(r)
  <2>1. PICK k \in 1 .. n : s[k] = x
    BY <1>2, <1>7
  <2>2. k # i
    BY <1>7, <2>1
  <2>3. CASE k < i
    <3>1. k \in 1 .. n - 1 /\ r[k] = s[k]
      BY <1>1, <2>3
    <3> QED BY <1>3, <2>1, <3>1
  <2>4. CASE ~(k < i)
    <3>1. k - 1 \in 1 .. n - 1 /\ ~(k - 1 < i) /\ (k - 1) + 1 = k
      BY <1>1, <2>2, <2>4
    <3>2. r[k - 1] = s[k]
      BY <1>1, <3>1
    <3> QED BY <1>3, <2>1, <3>1, <3>2
  <2> QED BY <2>3, <2>4
<1> QED BY <1>5, <1>6, <1>7 DEF r

\* A link is taken out of a chain.
LEMMA ChainCut ==
    ASSUME NEW lk, NEW h, NEW s, IsChain(lk, h, s), NEW i \in 1 .. Len(s), NEW k,
           Range(s) \ {s[i]} \subseteq DOMAIN k,
           \A x \in Range(s) \ {s[i]} :
             k[x].next = IF i # 1 /\ x = s[i - 1] THEN lk[s[i]].next ELSE lk[x].next
    PROVE  IsChain(k, IF i = 1 THEN lk[s[1]].next ELSE h, RemoveAt(s, i))
<1> DEFINE n == Len(s)
           r == RemoveAt(s, i)
           g == IF i = 1 THEN lk[s[1]].next ELSE h
<1>1. /\ s \in Seq(Link) /\ n \in Nat /\ Once(s)
      /\ h = IF s = <<>> THEN Null ELSE s[1]
      /\ \A j \in 1 .. n : lk[s[j]].next = IF j = n THEN Null ELSE s[j + 1]
  BY DEF IsChain
<1>2. /\ r \in Seq(Link) /\ Len(r) = n - 1
      /\ \A j \in 1 .. n - 1 : r[j] = IF j < i THEN s[j] ELSE s[j + 1]
  BY <1>1, RemovedAt
<1>3. Once(r) /\ Range(r) = Range(s) \ {s[i]}
  BY <1>1, RemovedOnce
<1> HIDE DEF r
<1>4. \A j \in 1 .. n - 1 : r[j] \in Range(s) \ {s[i]}
  BY <1>2, <1>3, RangeIs
<1>5. ASSUME NEW j \in 1 .. n - 1 PROVE k[r[j]].next = IF j = n - 1 THEN Null ELSE r[j + 1]
  <2>1. CASE j + 1 = i
    <3>1. i # 1 /\ r[j] = s[i - 1] /\ j < i
      BY <1>2, <2>1
    <3>2. k[r[j]].next = IF i = n THEN Null ELSE s[i + 1]
      BY <1>1, <1>4, <3>1
    <3>3. j # n - 1 => j + 1 \in 1 .. n - 1 /\ r[j + 1] = s[i + 1]
      BY <1>1, <1>2, <2>1
    <3> QED BY <1>1, <2>1, <3>2, <3>3
  <2>2. CASE j + 1 < i
    <3>1. r[j] = s[j] /\ j \in 1 .. n /\ j # n
      BY <1>1, <1>2, <2>2
    <3>2. r[j] # s[i - 1] \/ i = 1
      <4>1. i # 1 => i - 1 \in 1 .. n /\ i - 1 # j
        BY <1>1, <2>2
      <4> QED BY <1>1, <3>1, <4>1 DEF Once
    <3>3. k[r[j]].next = s[j + 1]
      BY <1>1, <1>4, <3>1, <3>2
    <3>4. j # n - 1 /\ j + 1 \in 1 .. n - 1 /\ r[j + 1] = s[j + 1]
      BY <1>1, <1>2, <2>2
    <3> QED BY <3>3, <3>4
  <2>3. CASE j >= i
    <3>1. r[j] = s[j + 1] /\ j + 1 \in 1 .. n
      BY <1>1, <1>2, <2>3
    <3>2. r[j] # s[i - 1] \/ i = 1
      <4>1. i # 1 => i - 1 \in 1 .. n /\ i - 1 # j + 1
        BY <1>1, <2>3
      <4> QED BY <1>1, <3>1, <4>1 DEF Once
    <3>3. k[r[j]].next = IF j + 1 = n THEN Null ELSE s[(j + 1) + 1]
      BY <1>1, <1>4, <3>1, <3>2
    <3>4. j # n - 1 => j + 1 \in 1 .. n - 1 /\ r[j + 1] = s[(j + 1) + 1]
      BY <1>1, <1>2, <2>3
    <3> QED BY <1>1, <3>3, <3>4
  <2> QED BY <2>1, <2>2, <2>3
<1>6. g = IF r = <<>> THEN Null ELSE r[1]
  <2>1. CASE n = 1
    <3>1. r = <<>> /\ i = 1 /\ 1 \in 1 .. n
      BY <1>1, <1>2, <2>1, EmptySeq
    <3> QED BY <1>1, <2>1, <3>1
  <2>2. CASE n # 1
    <3>1. 1 \in 1 .. n - 1 /\ 1 \in 1 .. n /\ s # <<>> /\ r # <<>>
      BY <1>1, <1>2, <2>2
    <3>2. r[1] = IF 1 < i THEN s[1] ELSE s[1 + 1]
      BY <1>2, <3>1
    <3> QED BY <1>1, <2>2, <3>1, <3>2
  <2> QED BY <2>1, <2>2
<1> HIDE DEF g
<1>7. IsChain(k, g, r)
  BY <1>2, <1>3, <1>5, <1>6 DEF IsChain
<1> QED BY <1>7 DEF g, r

\* The list l leads through s, whose links hold the data its, and every other link is
\* one of rm.
SllGood(l, lk, its, rm, s) ==
    /\ l = [head |-> l.head, length |-> Len(s)]
    /\ IsChain(lk, l.head, s)
    /\ lk = [x \in DOMAIN lk |-> [next |-> lk[x].next, data |-> lk[x].data]]
    /\ DOMAIN lk = Range(s) \cup rm /\ rm \cap Range(s) = {}
    /\ its \in Seq(Datum) /\ Len(its) = Len(s)
    /\ \A i \in 1 .. Len(s) : lk[s[i]].data = its[i]

SllInv ==
    IF sllStatus = "freed" THEN DOMAIN link = removed
    ELSE \E s : SllGood(sll, link, items, removed, s)

\* An item is put before a sequence.
LEMMA Consed ==
    ASSUME NEW S, NEW s \in Seq(S), NEW x \in S
    PROVE  /\ <<x>> \o s \in Seq(S) /\ Len(<<x>> \o s) = Len(s) + 1
           /\ \A i \in 1 .. Len(s) + 1 : (<<x>> \o s)[i] = IF i = 1 THEN x ELSE s[i - 1]
<1> DEFINE t == <<x>>
<1>1. t \in Seq(S) /\ Len(t) = 1 /\ t[1] = x
  OBVIOUS
<1> HIDE DEF t
<1>2. /\ t \o s \in Seq(S) /\ Len(t \o s) = Len(t) + Len(s)
      /\ \A i \in 1 .. Len(t) + Len(s) : (t \o s)[i] = IF i <= Len(t) THEN t[i] ELSE s[i - Len(t)]
  BY <1>1, ConcatProperties
<1>3. Len(s) \in Nat
  OBVIOUS
<1>4. ASSUME NEW i \in 1 .. Len(s) + 1 PROVE (t \o s)[i] = IF i = 1 THEN x ELSE s[i - 1]
  BY <1>1, <1>2, <1>3
<1> QED BY <1>1, <1>2, <1>3, <1>4 DEF t

\* vpsll_push: the new link is the head.
LEMMA SllPushes ==
    ASSUME NEW l, NEW lk, NEW its, NEW rm, NEW s, SllGood(l, lk, its, rm, s),
           NEW a \in Link, a \notin DOMAIN lk, NEW d \in Datum
    PROVE  SllGood([head |-> a, length |-> l.length + 1],
                   [x \in DOMAIN lk \cup {a} |->
                      IF x = a THEN [next |-> l.head, data |-> d] ELSE lk[x]],
                   <<d>> \o its, rm, <<a>> \o s)
<1> DEFINE n == Len(s)
           t == <<a>> \o s
           its2 == <<d>> \o its
           k == [x \in DOMAIN lk \cup {a} |->
                  IF x = a THEN [next |-> l.head, data |-> d] ELSE lk[x]]
           l2 == [head |-> a, length |-> l.length + 1]
<1>1. /\ s \in Seq(Link) /\ n \in Nat /\ Once(s) /\ Range(s) \subseteq DOMAIN lk
      /\ l.head = IF s = <<>> THEN Null ELSE s[1]
      /\ \A j \in 1 .. n : lk[s[j]].next = IF j = n THEN Null ELSE s[j + 1]
      /\ l.length = n
  BY DEF SllGood, IsChain
<1>2. /\ lk = [x \in DOMAIN lk |-> [next |-> lk[x].next, data |-> lk[x].data]]
      /\ DOMAIN lk = Range(s) \cup rm /\ rm \cap Range(s) = {}
      /\ its \in Seq(Datum) /\ Len(its) = n
      /\ \A i \in 1 .. n : lk[s[i]].data = its[i]
  BY DEF SllGood
<1>3. /\ t \in Seq(Link) /\ Len(t) = n + 1
      /\ \A i \in 1 .. n + 1 : t[i] = IF i = 1 THEN a ELSE s[i - 1]
  BY <1>1, Consed
<1>4. /\ its2 \in Seq(Datum) /\ Len(its2) = n + 1
      /\ \A i \in 1 .. n + 1 : its2[i] = IF i = 1 THEN d ELSE its[i - 1]
  BY <1>2, Consed
<1>5. DOMAIN k = DOMAIN lk \cup {a}
  OBVIOUS
<1>6. k[a].next = l.head /\ k[a].data = d /\ \A x \in DOMAIN lk : k[x] = lk[x]
  OBVIOUS
<1>7. k = [x \in DOMAIN k |-> [next |-> k[x].next, data |-> k[x].data]]
  <2>1. \A x \in DOMAIN lk : lk[x] = [next |-> lk[x].next, data |-> lk[x].data]
    BY <1>2, Zenon
  <2>2. \A x \in DOMAIN k : k[x] = [next |-> k[x].next, data |-> k[x].data]
    BY <1>5, <1>6, <2>1
  <2>3. k = [x \in DOMAIN k |-> k[x]]
    OBVIOUS
  <2> HIDE DEF k
  <2> QED BY <2>2, <2>3, Zenon
<1>8. l2.head = a /\ l2.length = n + 1
  BY <1>1
<1> HIDE DEF t, its2, k, l2
<1>9. \A x : x \in Range(s) <=> \E j \in 1 .. n : s[j] = x
  BY <1>1, RangeIs
<1>10. \A x : x \in Range(t) <=> \E j \in 1 .. n + 1 : t[j] = x
  BY <1>3, RangeIs
<1>11. \A j \in 1 .. n + 1 : j # 1 => j - 1 \in 1 .. n /\ (j - 1) + 1 = j
  BY <1>1
<1>12. \A j \in 1 .. n : j + 1 \in 1 .. n + 1 /\ j + 1 # 1 /\ (j + 1) - 1 = j
  BY <1>1
<1>13. 1 \in 1 .. n + 1
  BY <1>1
<1>14. Range(t) = Range(s) \cup {a}
  <2>1. ASSUME NEW x, x \in Range(t) PROVE x \in Range(s) \cup {a}
    BY <1>3, <1>9, <1>10, <1>11, <2>1
  <2>2. ASSUME NEW x, x \in Range(s) PROVE x \in Range(t)
    <3>1. PICK j \in 1 .. n : s[j] = x
      BY <1>9, <2>2
    <3>2. t[j + 1] = x /\ j + 1 \in 1 .. n + 1
      BY <1>3, <1>12, <3>1
    <3> QED BY <1>10, <3>2
  <2>3. a \in Range(t)
    BY <1>3, <1>10, <1>13
  <2> QED BY <2>1, <2>2, <2>3
<1>15. \A j \in 1 .. n : s[j] \in DOMAIN lk /\ s[j] # a
  BY <1>1, <1>9
<1>16. Once(t)
  <2>1. ASSUME NEW i \in 1 .. n + 1, NEW j \in 1 .. n + 1, t[i] = t[j] PROVE i = j
    <3>1. CASE i = 1 \/ j = 1
      BY <1>3, <1>11, <1>15, <2>1, <3>1
    <3>2. CASE i # 1 /\ j # 1
      <4>1. s[i - 1] = s[j - 1] /\ i - 1 \in 1 .. n /\ j - 1 \in 1 .. n
        BY <1>3, <1>11, <2>1, <3>2
      <4>2. i - 1 = j - 1
        BY <1>1, <4>1 DEF Once
      <4> QED BY <4>2
    <3> QED BY <3>1, <3>2
  <2> QED BY <1>3, <2>1 DEF Once
<1>17. ASSUME NEW j \in 1 .. n + 1
       PROVE  /\ k[t[j]].next = IF j = n + 1 THEN Null ELSE t[j + 1]
              /\ k[t[j]].data = its2[j]
  <2>1. CASE j = 1
    <3>1. k[t[j]].next = l.head /\ k[t[j]].data = its2[j]
      BY <1>3, <1>4, <1>6, <2>1
    <3>2. CASE n = 0
      <4>1. s = <<>>
        BY <1>1, <3>2, EmptySeq
      <4> QED BY <1>1, <2>1, <3>1, <3>2, <4>1
    <3>3. CASE n # 0
      <4>1. s # <<>> /\ 2 \in 1 .. n + 1 /\ t[2] = s[1] /\ j # n + 1
        BY <1>1, <1>3, <2>1, <3>3
      <4> QED BY <1>1, <2>1, <3>1, <4>1
    <3> QED BY <3>2, <3>3
  <2>2. CASE j # 1
    <3>1. t[j] = s[j - 1] /\ j - 1 \in 1 .. n /\ (j - 1) + 1 = j
      BY <1>3, <1>11, <2>2
    <3>2. k[t[j]] = lk[s[j - 1]]
      BY <1>6, <1>15, <3>1
    <3>3. lk[s[j - 1]].next = IF j - 1 = n THEN Null ELSE s[(j - 1) + 1]
      BY <1>1, <3>1
    <3>4. lk[s[j - 1]].data = its[j - 1]
      BY <1>2, <3>1
    <3>5. j # n + 1 => j + 1 \in 1 .. n + 1 /\ t[j + 1] = s[j]
      BY <1>1, <1>3, <2>2
    <3>6. its2[j] = its[j - 1]
      BY <1>4, <2>2
    <3> QED BY <1>1, <3>1, <3>2, <3>3, <3>4, <3>5, <3>6
  <2> QED BY <2>1, <2>2
<1>18. t # <<>> /\ t[1] = a
  BY <1>1, <1>3, <1>13
<1>19. IsChain(k, a, t)
  BY <1>1, <1>3, <1>5, <1>14, <1>16, <1>17, <1>18 DEF IsChain
<1>20. a \notin rm
  BY <1>2
<1>21. l2 = [head |-> l2.head, length |-> Len(t)]
  BY <1>3, <1>8 DEF l2
<1>22. SllGood(l2, k, its2, rm, t)
  BY <1>2, <1>3, <1>4, <1>5, <1>7, <1>8, <1>14, <1>17, <1>19, <1>20, <1>21 DEF SllGood
<1> QED BY <1>22 DEF l2, k, its2, t

\* The list l2 with the links k is l with lk, without the link at i.
SllCut(l, lk, s, i, l2, k, rm2) ==
    /\ l2 = [head |-> IF i = 1 THEN lk[s[1]].next ELSE l.head, length |-> l.length - 1]
    /\ k = [x \in DOMAIN k |-> [next |-> k[x].next, data |-> k[x].data]]
    /\ DOMAIN k = (Range(s) \ {s[i]}) \cup rm2 /\ rm2 \cap (Range(s) \ {s[i]}) = {}
    /\ \A x \in Range(s) \ {s[i]} :
         /\ k[x].next = IF i # 1 /\ x = s[i - 1] THEN lk[s[i]].next ELSE lk[x].next
         /\ k[x].data = lk[x].data

\* The link at i is taken out of the list.
LEMMA SllCuts ==
    ASSUME NEW l, NEW lk, NEW its, NEW rm, NEW s, SllGood(l, lk, its, rm, s),
           NEW i \in 1 .. Len(s), NEW k, NEW rm2, NEW l2, SllCut(l, lk, s, i, l2, k, rm2)
    PROVE  SllGood(l2, k, RemoveAt(its, i), rm2, RemoveAt(s, i))
<1> DEFINE n == Len(s)
           r == RemoveAt(s, i)
           v == RemoveAt(its, i)
<1>0. /\ l2 = [head |-> IF i = 1 THEN lk[s[1]].next ELSE l.head, length |-> l.length - 1]
      /\ k = [x \in DOMAIN k |-> [next |-> k[x].next, data |-> k[x].data]]
      /\ DOMAIN k = (Range(s) \ {s[i]}) \cup rm2 /\ rm2 \cap (Range(s) \ {s[i]}) = {}
      /\ \A x \in Range(s) \ {s[i]} :
           /\ k[x].next = IF i # 1 /\ x = s[i - 1] THEN lk[s[i]].next ELSE lk[x].next
           /\ k[x].data = lk[x].data
  BY Zenon DEF SllCut
<1>1. /\ s \in Seq(Link) /\ n \in Nat /\ Once(s) /\ l.length = n
      /\ IsChain(lk, l.head, s)
      /\ its \in Seq(Datum) /\ Len(its) = n
      /\ \A j \in 1 .. n : lk[s[j]].data = its[j]
  BY DEF SllGood, IsChain
<1>2. /\ r \in Seq(Link) /\ Len(r) = n - 1
      /\ \A j \in 1 .. n - 1 : r[j] = IF j < i THEN s[j] ELSE s[j + 1]
  <2>1. s \in Seq(Link) /\ i \in 1 .. Len(s)
    BY <1>1
  <2> QED BY ONLY <2>1, RemovedAt
<1>3. /\ v \in Seq(Datum) /\ Len(v) = n - 1
      /\ \A j \in 1 .. n - 1 : v[j] = IF j < i THEN its[j] ELSE its[j + 1]
  BY <1>1, RemovedAt
<1>4. Range(r) = Range(s) \ {s[i]}
  BY <1>1, RemovedOnce
<1>5. l2.head = IF i = 1 THEN lk[s[1]].next ELSE l.head
  BY <1>0
<1>6. l2.length = n - 1
  BY <1>0, <1>1
<1>7. IsChain(k, l2.head, r)
  <2>1. IsChain(k, IF i = 1 THEN lk[s[1]].next ELSE l.head, r)
    <3>1. Range(s) \ {s[i]} \subseteq DOMAIN k
      BY <1>0
    <3>2. \A x \in Range(s) \ {s[i]} :
            k[x].next = IF i # 1 /\ x = s[i - 1] THEN lk[s[i]].next ELSE lk[x].next
      BY <1>0
    <3>3. IsChain(lk, l.head, s)
      BY <1>1
    <3> QED BY ONLY <3>1, <3>2, <3>3, i \in 1 .. Len(s), ChainCut
  <2> QED BY <1>5, <2>1
<1> HIDE DEF r, v
<1>8. ASSUME NEW j \in 1 .. n - 1 PROVE k[r[j]].data = v[j]
  <2>1. r[j] \in Range(s) \ {s[i]}
    BY <1>2, <1>4, RangeIs
  <2>2. k[r[j]].data = lk[r[j]].data
    BY <1>0, <2>1
  <2>3. CASE j < i
    <3>1. j \in 1 .. n
      BY <1>1
    <3> QED BY <1>1, <1>2, <1>3, <2>2, <2>3, <3>1
  <2>4. CASE ~(j < i)
    <3>1. j + 1 \in 1 .. n
      BY <1>1
    <3> QED BY <1>1, <1>2, <1>3, <2>2, <2>4, <3>1
  <2> QED BY <2>3, <2>4
<1>9. l2 = [head |-> l2.head, length |-> Len(r)]
  BY <1>0, <1>1, <1>2
<1>10. /\ DOMAIN k = Range(r) \cup rm2 /\ rm2 \cap Range(r) = {}
       /\ Len(v) = Len(r) /\ v \in Seq(Datum)
  BY <1>0, <1>2, <1>3, <1>4
<1>11. \A j \in 1 .. Len(r) : k[r[j]].data = v[j]
  BY <1>2, <1>8
<1>12. SllGood(l2, k, v, rm2, r)
  BY <1>0, <1>7, <1>9, <1>10, <1>11, Zenon DEF SllGood
<1> QED BY <1>12 DEF r, v

\* vpsll_pop: the head is freed.
LEMMA SllPops ==
    ASSUME NEW l, NEW lk, NEW its, NEW rm, NEW s, SllGood(l, lk, its, rm, s), l.head # Null
    PROVE  SllGood([head |-> lk[l.head].next, length |-> l.length - 1],
                   Restrict(lk, DOMAIN lk \ {l.head}), Tail(its), rm, Tail(s))
<1> DEFINE k == Restrict(lk, DOMAIN lk \ {l.head})
           l2 == [head |-> lk[l.head].next, length |-> l.length - 1]
<1>1. /\ s \in Seq(Link) /\ l.head = (IF s = <<>> THEN Null ELSE s[1])
      /\ lk = [x \in DOMAIN lk |-> [next |-> lk[x].next, data |-> lk[x].data]]
      /\ DOMAIN lk = Range(s) \cup rm /\ rm \cap Range(s) = {}
      /\ its \in Seq(Datum) /\ Len(its) = Len(s)
  BY DEF SllGood, IsChain
<1>2. s # <<>> /\ l.head = s[1]
  BY <1>1
<1>3. 1 \in 1 .. Len(s) /\ Tail(s) = RemoveAt(s, 1)
  BY <1>1, <1>2, TailIsRemoved
<1>4. Tail(its) = RemoveAt(its, 1)
  <2>1. its # <<>>
    BY <1>1, <1>3
  <2> QED BY <1>1, <2>1, TailIsRemoved
<1>5. DOMAIN k = DOMAIN lk \ {s[1]} /\ \A x \in DOMAIN k : k[x] = lk[x]
  BY <1>2 DEF Restrict
<1>6. k = [x \in DOMAIN k |-> [next |-> k[x].next, data |-> k[x].data]]
  <2>1. \A x \in DOMAIN lk : lk[x] = [next |-> lk[x].next, data |-> lk[x].data]
    BY <1>1, Zenon
  <2>2. \A x \in DOMAIN k : k[x] = [next |-> k[x].next, data |-> k[x].data]
    BY <1>5, <2>1
  <2>3. k = [x \in DOMAIN k |-> k[x]]
    BY DEF Restrict
  <2> HIDE DEF k
  <2> QED BY <2>2, <2>3, Zenon
<1>7. s[1] \in Range(s)
  BY <1>1, <1>3, RangeIs
<1> HIDE DEF k
<1>8. DOMAIN k = (Range(s) \ {s[1]}) \cup rm /\ rm \cap (Range(s) \ {s[1]}) = {}
  BY <1>1, <1>5, <1>7
<1>9. PICK i \in 1 .. Len(s) : i = 1
  BY <1>3
<1>10. \A x \in Range(s) \ {s[i]} :
         /\ k[x].next = IF i # 1 /\ x = s[i - 1] THEN lk[s[i]].next ELSE lk[x].next
         /\ k[x].data = lk[x].data
  BY <1>5, <1>8, <1>9
<1>11. l2 = [head |-> IF i = 1 THEN lk[s[1]].next ELSE l.head, length |-> l.length - 1]
  BY <1>2, <1>9
<1> HIDE DEF l2
<1>12. DOMAIN k = (Range(s) \ {s[i]}) \cup rm /\ rm \cap (Range(s) \ {s[i]}) = {}
  BY <1>8, <1>9
<1>13. SllCut(l, lk, s, i, l2, k, rm)
  BY <1>6, <1>10, <1>11, <1>12, Zenon DEF SllCut
<1>14. SllGood(l2, k, RemoveAt(its, i), rm, RemoveAt(s, i))
  BY <1>13, SllCuts
<1> QED BY <1>3, <1>4, <1>9, <1>14 DEF k, l2

\* The first place of s whose link holds d, 0 when there is none.
FirstWith(s, lk, d) ==
    LET I == {i \in 1 .. Len(s) : lk[s[i]].data = d} IN IF I # {} THEN Min(I) ELSE 0

\* The place of what vpsll_remove looks for.
LEMMA Found ==
    ASSUME NEW s, NEW lk, NEW its, NEW d, Len(s) \in Nat, Len(its) = Len(s),
           \A i \in 1 .. Len(s) : lk[s[i]].data = its[i],
           NEW p, p = FirstWith(s, lk, d), p # 0
    PROVE  p \in 1 .. Len(s) /\ RemoveFirst(its, d) = RemoveAt(its, p)
<1> DEFINE I == {i \in 1 .. Len(s) : lk[s[i]].data = d}
           J == {i \in 1 .. Len(its) : its[i] = d}
<1>1. p = IF I # {} THEN Min(I) ELSE 0
  BY DEF FirstWith
<1>2. SelectInSeq(its, LAMBDA v : v = d) = IF J # {} THEN Min(J) ELSE 0
  BY DEF SelectInSeq
<1>3. I = J
  OBVIOUS
<1>4. I # {}
  BY <1>1
<1>5. \E i \in 1 .. Len(its) : its[i] = d
  BY <1>3, <1>4
<1>6. RemoveFirst(its, d) = RemoveAt(its, SelectInSeq(its, LAMBDA v : v = d))
  BY <1>5 DEF RemoveFirst
<1>7. I \subseteq Nat /\ I \subseteq 1 .. Len(s)
  OBVIOUS
<1> HIDE DEF I, J
<1>8. \E x \in I : \A y \in I : x <= y
  BY <1>4, <1>7, LeastNumber
<1>9. Min(I) \in I
  BY <1>8 DEF Min
<1> QED BY <1>1, <1>2, <1>3, <1>4, <1>6, <1>7, <1>9

\* vpsll_remove takes the head off, and does not free it.
LEMMA SllHeadRemoved ==
    ASSUME NEW l, NEW lk, NEW its, NEW rm, NEW s, SllGood(l, lk, its, rm, s),
           NEW i \in 1 .. Len(s), i = 1
    PROVE  SllGood([head |-> lk[s[1]].next, length |-> l.length - 1], lk,
                   RemoveAt(its, i), rm \cup {s[1]}, RemoveAt(s, i))
<1> DEFINE l2 == [head |-> lk[s[1]].next, length |-> l.length - 1]
           rm2 == rm \cup {s[1]}
<1>1. /\ s \in Seq(Link) /\ Once(s)
      /\ lk = [x \in DOMAIN lk |-> [next |-> lk[x].next, data |-> lk[x].data]]
      /\ DOMAIN lk = Range(s) \cup rm /\ rm \cap Range(s) = {}
  BY DEF SllGood, IsChain
<1>2. s[i] \in Range(s) /\ s[i] = s[1]
  BY <1>1, RangeIs
<1>3. DOMAIN lk = (Range(s) \ {s[i]}) \cup rm2 /\ rm2 \cap (Range(s) \ {s[i]}) = {}
  BY <1>1, <1>2
<1>4. l2 = [head |-> IF i = 1 THEN lk[s[1]].next ELSE l.head, length |-> l.length - 1]
  OBVIOUS
<1>5. \A x \in Range(s) \ {s[i]} :
        /\ lk[x].next = IF i # 1 /\ x = s[i - 1] THEN lk[s[i]].next ELSE lk[x].next
        /\ lk[x].data = lk[x].data
  OBVIOUS
<1> HIDE DEF l2, rm2
<1>6. SllCut(l, lk, s, i, l2, lk, rm2)
  BY <1>1, <1>3, <1>4, <1>5, Zenon DEF SllCut
<1>7. SllGood(l2, lk, RemoveAt(its, i), rm2, RemoveAt(s, i))
  BY <1>6, SllCuts
<1> QED BY <1>7 DEF l2, rm2

\* vpsll_remove frees a link behind the head.
LEMMA SllLinkRemoved ==
    ASSUME NEW l, NEW lk, NEW its, NEW rm, NEW s, SllGood(l, lk, its, rm, s),
           NEW i \in 1 .. Len(s), i # 1
    PROVE  SllGood([l EXCEPT !.length = @ - 1],
                   Restrict([lk EXCEPT ![s[i - 1]].next = lk[s[i]].next], DOMAIN lk \ {s[i]}),
                   RemoveAt(its, i), rm, RemoveAt(s, i))
<1> DEFINE l2 == [l EXCEPT !.length = @ - 1]
           y == s[i]
           z == s[i - 1]
           e == [lk EXCEPT ![z].next = lk[y].next]
           k == Restrict(e, DOMAIN lk \ {y})
<1>1. /\ s \in Seq(Link) /\ Once(s) /\ Len(s) \in Nat
      /\ lk = [x \in DOMAIN lk |-> [next |-> lk[x].next, data |-> lk[x].data]]
      /\ DOMAIN lk = Range(s) \cup rm /\ rm \cap Range(s) = {}
      /\ l = [head |-> l.head, length |-> Len(s)]
  BY DEF SllGood, IsChain
<1>2. i - 1 \in 1 .. Len(s) /\ i - 1 # i
  BY <1>1
<1>3. y \in Range(s) /\ z \in Range(s) /\ z # y
  BY <1>1, <1>2, RangeIs DEF Once
<1>4. \A x \in DOMAIN lk : lk[x] = [next |-> lk[x].next, data |-> lk[x].data]
  BY <1>1, Zenon
<1> HIDE DEF y, z
<1>5. \A x \in DOMAIN lk : e[x] = IF x = z THEN [lk[x] EXCEPT !.next = lk[y].next] ELSE lk[x]
  BY <1>1, <1>3
<1>6. DOMAIN k = DOMAIN lk \ {y} /\ \A x \in DOMAIN k : k[x] = e[x]
  BY DEF Restrict
<1>7. k = [x \in DOMAIN k |-> k[x]]
  BY DEF Restrict
<1> HIDE DEF k, e
<1>8. ASSUME NEW x \in DOMAIN k
      PROVE  k[x] = [next |-> IF x = z THEN lk[y].next ELSE lk[x].next, data |-> lk[x].data]
  <2>1. PICK a, b : lk[x] = [next |-> a, data |-> b] /\ a = lk[x].next /\ b = lk[x].data
    BY <1>4, <1>6
  <2>2. k[x] = IF x = z THEN [lk[x] EXCEPT !.next = lk[y].next] ELSE lk[x]
    BY <1>5, <1>6
  <2>3. PICK c : c = lk[y].next
    OBVIOUS
  <2> QED BY <2>1, <2>2, <2>3
<1>9. \A x \in DOMAIN k :
        /\ k[x].next = IF x = z THEN lk[y].next ELSE lk[x].next
        /\ k[x].data = lk[x].data
        /\ k[x] = [next |-> k[x].next, data |-> k[x].data]
  BY <1>8
<1>10. k = [x \in DOMAIN k |-> [next |-> k[x].next, data |-> k[x].data]]
  BY <1>7, <1>9, Zenon
<1>11. DOMAIN k = (Range(s) \ {y}) \cup rm /\ rm \cap (Range(s) \ {y}) = {}
  BY <1>1, <1>3, <1>6
<1>12. \A x \in Range(s) \ {s[i]} :
         /\ k[x].next = IF i # 1 /\ x = s[i - 1] THEN lk[s[i]].next ELSE lk[x].next
         /\ k[x].data = lk[x].data
  BY <1>9, <1>11 DEF y, z
<1>13. l2 = [head |-> IF i = 1 THEN lk[s[1]].next ELSE l.head, length |-> l.length - 1]
  <2>1. PICK a, b : l = [head |-> a, length |-> b] /\ a = l.head /\ b = l.length
    BY <1>1
  <2> QED BY <2>1
<1> HIDE DEF l2
<1>14. DOMAIN k = (Range(s) \ {s[i]}) \cup rm /\ rm \cap (Range(s) \ {s[i]}) = {}
  BY <1>11 DEF y
<1>15. SllCut(l, lk, s, i, l2, k, rm)
  BY <1>10, <1>12, <1>13, <1>14, Zenon DEF SllCut
<1>16. SllGood(l2, k, RemoveAt(its, i), rm, RemoveAt(s, i))
  BY <1>15, SllCuts
<1> QED BY <1>16 DEF l2, k, e, y, z

\* vpsll_set.
LEMMA SllSets ==
    ASSUME NEW l, NEW lk, NEW its, NEW rm, NEW s, SllGood(l, lk, its, rm, s),
           NEW i \in 1 .. Len(s), NEW d \in Datum
    PROVE  SllGood(l, [lk EXCEPT ![s[i]].data = d], [its EXCEPT ![i] = d], rm, s)
<1> DEFINE n == Len(s)
           y == s[i]
           k == [lk EXCEPT ![y].data = d]
           v == [its EXCEPT ![i] = d]
<1>1. /\ l = [head |-> l.head, length |-> n]
      /\ IsChain(lk, l.head, s) /\ s \in Seq(Link) /\ Once(s) /\ n \in Nat
      /\ Range(s) \subseteq DOMAIN lk
      /\ l.head = IF s = <<>> THEN Null ELSE s[1]
      /\ \A j \in 1 .. n : lk[s[j]].next = IF j = n THEN Null ELSE s[j + 1]
      /\ lk = [x \in DOMAIN lk |-> [next |-> lk[x].next, data |-> lk[x].data]]
      /\ DOMAIN lk = Range(s) \cup rm /\ rm \cap Range(s) = {}
      /\ its \in Seq(Datum) /\ Len(its) = n
      /\ \A j \in 1 .. n : lk[s[j]].data = its[j]
  BY DEF SllGood, IsChain
<1>2. \A j \in 1 .. n : s[j] \in DOMAIN lk
  BY <1>1, RangeIs
<1>3. /\ v \in Seq(Datum) /\ Len(v) = n
      /\ \A j \in 1 .. n : v[j] = IF j = i THEN d ELSE its[j]
  BY <1>1
<1>4. \A x \in DOMAIN lk : lk[x] = [next |-> lk[x].next, data |-> lk[x].data]
  BY <1>1, Zenon
<1>5. y \in DOMAIN lk /\ \A j \in 1 .. n : s[j] = y => j = i
  BY <1>1, <1>2 DEF Once
<1> HIDE DEF y, v
<1>6. \A x \in DOMAIN lk : k[x] = IF x = y THEN [lk[x] EXCEPT !.data = d] ELSE lk[x]
  BY <1>1, <1>5
<1>7. DOMAIN k = DOMAIN lk /\ k = [x \in DOMAIN k |-> k[x]]
  BY <1>1
<1> HIDE DEF k
<1>8. ASSUME NEW x \in DOMAIN lk
      PROVE  k[x] = [next |-> lk[x].next, data |-> IF x = y THEN d ELSE lk[x].data]
  <2>1. PICK a, b : lk[x] = [next |-> a, data |-> b] /\ a = lk[x].next /\ b = lk[x].data
    BY <1>4
  <2> QED BY <1>6, <2>1
<1>9. \A x \in DOMAIN lk :
        /\ k[x].next = lk[x].next
        /\ k[x].data = IF x = y THEN d ELSE lk[x].data
        /\ k[x] = [next |-> k[x].next, data |-> k[x].data]
  <2>1. SUFFICES ASSUME NEW x \in DOMAIN lk
                 PROVE  /\ k[x].next = lk[x].next
                        /\ k[x].data = IF x = y THEN d ELSE lk[x].data
                        /\ k[x] = [next |-> k[x].next, data |-> k[x].data]
    BY Zenon
  <2>2. PICK a, b : k[x] = [next |-> a, data |-> b] /\ a = lk[x].next
                    /\ b = IF x = y THEN d ELSE lk[x].data
    BY <1>8
  <2> QED BY <2>2
<1>10. k = [x \in DOMAIN k |-> [next |-> k[x].next, data |-> k[x].data]]
  BY <1>7, <1>9, Zenon
<1>11. IsChain(k, l.head, s)
  BY <1>1, <1>2, <1>7, <1>9 DEF IsChain
<1>12. ASSUME NEW j \in 1 .. n PROVE k[s[j]].data = v[j]
  <2>1. y = s[i]
    BY DEF y
  <2> QED BY <1>1, <1>2, <1>3, <1>5, <1>9, <2>1
<1>13. SllGood(l, k, v, rm, s)
  BY <1>1, <1>3, <1>7, <1>10, <1>11, <1>12, Zenon DEF SllGood
<1> QED BY <1>13 DEF k, v, y

\* The linked list starts empty.
LEMMA SllInitInv ==
    ASSUME vpsll_create
    PROVE  SllInv
<1> DEFINE s == <<>>
<1>1. /\ sll = [head |-> Null, length |-> 0] /\ link = [l \in {} |-> Null]
      /\ removed = {} /\ items = <<>> /\ sllStatus = "ok"
  BY DEF vpsll_create
<1>2. s \in Seq(Link) /\ Len(s) = 0 /\ Range(s) = {} /\ Once(s) /\ <<>> \in Seq(Datum)
  BY DEF Range, Once
<1>3. DOMAIN link = {}
  BY <1>1
<1>4. link = [x \in DOMAIN link |-> [next |-> link[x].next, data |-> link[x].data]]
  BY <1>1, <1>3
<1>5. sll.head = Null
  BY <1>1
<1>6. IsChain(link, sll.head, s)
  BY <1>2, <1>3, <1>5 DEF IsChain
<1>7. SllGood(sll, link, items, removed, s)
  BY <1>1, <1>2, <1>3, <1>4, <1>5, <1>6 DEF SllGood
<1> QED BY <1>1, <1>7 DEF SllInv

\* No call breaks the linked list.
LEMMA SllStepInv ==
    ASSUME SllInv, LinkedListNext
    PROVE  SllInv'
<1>1. sllStatus = "ok"
  BY DEF LinkedListNext, vpsll_push, vpsll_pop, vpsll_free, vpslli_create, vpslli_next,
         vpsll_remove, vpsll_set, vpsll_get
<1>2. PICK s : SllGood(sll, link, items, removed, s)
  BY <1>1 DEF SllInv
<1>3. /\ IsChain(link, sll.head, s) /\ s \in Seq(Link) /\ Len(s) \in Nat
      /\ sll.head = IF s = <<>> THEN Null ELSE s[1]
      /\ items \in Seq(Datum) /\ Len(items) = Len(s)
      /\ \A i \in 1 .. Len(s) : link[s[i]].data = items[i]
      /\ DOMAIN link = Range(s) \cup removed /\ removed \cap Range(s) = {}
  BY <1>2 DEF SllGood, IsChain
<1>4. Chain = s
  BY <1>3, ChainIs
<1>5. ASSUME sllStatus' # "freed", NEW t, SllGood(sll', link', items', removed', t)
      PROVE  SllInv'
  BY <1>5 DEF SllInv
<1>6. ASSUME NEW l \in Link, NEW d \in Datum, vpsll_push(l, d) PROVE SllInv'
  <2>1. SllGood(sll', link', items', removed', <<l>> \o s)
    BY <1>2, <1>6, SllPushes DEF vpsll_push
  <2> QED BY <1>1, <1>5, <1>6, <2>1 DEF vpsll_push
<1>7. CASE vpsll_pop
  <2>1. CASE sll.head # Null
    <3>1. /\ sll' = [head |-> link[sll.head].next, length |-> sll.length - 1]
          /\ link' = Restrict(link, DOMAIN link \ {sll.head})
          /\ items' = Tail(items) /\ sllStatus' = sllStatus /\ removed' = removed
      BY <1>7, <2>1 DEF vpsll_pop, Freed
    <3>2. SllGood(sll', link', items', removed', Tail(s))
      BY <1>2, <2>1, <3>1, SllPops
    <3> QED BY <1>1, <1>5, <3>1, <3>2
  <2>2. CASE sll.head = Null
    BY <1>2, <1>7, <2>2 DEF vpsll_pop, SllInv
  <2> QED BY <2>1, <2>2
<1>8. ASSUME NEW d \in Datum, vpsll_remove(d) PROVE SllInv'
  <2> DEFINE p == SelectInSeq(s, LAMBDA l : link[l].data = d)
  <2>1. p # 0 /\ RemoveLink(p) /\ items' = RemoveFirst(items, d) /\ sllStatus' = sllStatus
    BY <1>4, <1>8 DEF vpsll_remove
  <2>0. p = FirstWith(s, link, d)
    BY DEF SelectInSeq, FirstWith
  <2> HIDE DEF p
  <2>2. p \in 1 .. Len(s) /\ items' = RemoveAt(items, p)
    BY <1>3, <2>0, <2>1, Found
  <2>3. PICK i \in 1 .. Len(s) : i = p
    BY <2>2
  <2>4. CASE i = 1
    <3>1. /\ sll' = [head |-> link[s[1]].next, length |-> sll.length - 1]
          /\ removed' = removed \cup {s[1]} /\ link' = link
      BY <1>4, <2>1, <2>3, <2>4 DEF RemoveLink
    <3>2. SllGood(sll', link', items', removed', RemoveAt(s, i))
      BY <1>2, <2>2, <2>3, <2>4, <3>1, SllHeadRemoved
    <3> QED BY <1>1, <1>5, <2>1, <3>2
  <2>5. CASE i # 1
    <3>1. /\ sll' = [sll EXCEPT !.length = @ - 1]
          /\ link' = Restrict([link EXCEPT ![s[i - 1]].next = link[s[i]].next],
                              DOMAIN link \ {s[i]})
          /\ removed' = removed
      BY <1>4, <2>1, <2>3, <2>5 DEF RemoveLink
    <3>2. SllGood(sll', link', items', removed', RemoveAt(s, i))
      BY <1>2, <2>2, <2>3, <2>5, <3>1, SllLinkRemoved
    <3> QED BY <1>1, <1>5, <2>1, <3>2
  <2> QED BY <2>4, <2>5
<1>9. ASSUME NEW j \in 0 .. Cardinality(Link), NEW d \in Datum, vpsll_set(j, d) PROVE SllInv'
  <2>1. PICK i \in 1 .. Len(s) : i = j + 1
    BY <1>3, <1>4, <1>9 DEF vpsll_set
  <2>2. /\ link' = [link EXCEPT ![s[i]].data = d] /\ items' = [items EXCEPT ![i] = d]
        /\ UNCHANGED <<sll, removed, sllStatus>>
    BY <1>4, <1>9, <2>1 DEF vpsll_set
  <2>3. SllGood(sll', link', items', removed', s)
    BY <1>2, <2>2, SllSets
  <2> QED BY <1>1, <1>5, <2>2, <2>3
<1>10. ASSUME NEW j \in 0 .. Cardinality(Link), vpsll_get(j) PROVE SllInv'
  BY <1>2, <1>10 DEF vpsll_get, SllInv
<1>11. CASE vpslli_create \/ vpslli_next
  BY <1>1, <1>2, <1>11 DEF vpslli_create, vpslli_next, SllInv
<1>12. CASE vpsll_free
  <2>1. /\ link' = Restrict(link, DOMAIN link \ Range(s)) /\ sllStatus' = "freed"
        /\ removed' = removed
    BY <1>4, <1>12 DEF vpsll_free
  <2>2. DOMAIN link' = DOMAIN link \ Range(s)
    BY <2>1 DEF Restrict
  <2> QED BY <1>3, <2>1, <2>2 DEF SllInv
<1> QED BY <1>6, <1>7, <1>8, <1>9, <1>10, <1>11, <1>12 DEF LinkedListNext

\* What the invariant says of the linked list.
LEMMA SllPromise ==
    ASSUME SllInv
    PROVE  ListHoldsItems /\ ListFreed
<1>1. ListFreed
  BY DEF SllInv, ListFreed
<1>2. ListHoldsItems
  <2>1. SUFFICES ASSUME sllStatus # "freed" PROVE ListHoldsItems
    BY DEF ListHoldsItems
  <2>2. PICK s : SllGood(sll, link, items, removed, s)
    BY <2>1 DEF SllInv
  <2>3. /\ IsChain(link, sll.head, s) /\ s \in Seq(Link) /\ Len(s) \in Nat
        /\ items \in Seq(Datum) /\ Len(items) = Len(s)
        /\ \A i \in 1 .. Len(s) : link[s[i]].data = items[i]
        /\ DOMAIN link = Range(s) \cup removed
        /\ sll = [head |-> sll.head, length |-> Len(s)]
    BY <2>2 DEF SllGood, IsChain
  <2>4. Chain = s
    BY <2>3, ChainIs
  <2>5. sll.length = Len(s)
    BY <2>3
  <2>6. [i \in DOMAIN s |-> link[s[i]].data] = items
    BY <2>3
  <2>7. \A d \in Datum : vpsll_contains(d) <=> Contains(items, d)
    <3>1. DOMAIN s = 1 .. Len(items)
      BY <2>3
    <3> QED BY <2>3, <2>4, <3>1 DEF vpsll_contains, Contains
  <2> QED BY <2>3, <2>4, <2>5, <2>6, <2>7 DEF ListHoldsItems
<1> QED BY <1>1, <1>2

-----------------------------------------------------------------------------
(* The three lists, each by itself.                                        *)

\* Whatever is done to a byte list, a pointer list or a linked list, it holds
\* what was pushed, in order, and frees it once, except where their resize and
\* remove lose it.
THEOREM ListsAlwaysHoldElements == Spec => []ListsHoldElements
<1> DEFINE Inv == U8Inv /\ VpaInv /\ SllInv
<1>1. Init => Inv
  <2>1. SUFFICES ASSUME Init PROVE Inv
    OBVIOUS
  <2> DEFINE C == Only("u8", 0..2, 0)
             D == Only("vpa", 0..2, 0)
  <2>2. U8Init(C) /\ VpaInit(D) /\ vpsll_create
    BY <2>1 DEF Init
  <2>3. C \in SUBSET Nat /\ D \in SUBSET Nat
    BY DEF Only
  <2> HIDE DEF C, D
  <2> QED BY <2>2, <2>3, U8InitInv, VpaInitInv, SllInitInv
<1>2. Inv /\ [Next]_libvars => Inv'
  <2>1. SUFFICES ASSUME U8Inv, VpaInv, SllInv, [Next]_libvars
                 PROVE  U8Inv' /\ VpaInv' /\ SllInv'
    OBVIOUS
  <2>2. /\ U8Next \/ UNCHANGED u8vars
        /\ VpaNext \/ UNCHANGED vpavars
        /\ LinkedListNext \/ UNCHANGED sllvars
    BY <2>1 DEF Next, libvars
  <2>3. UNCHANGED u8vars => U8Inv'
    BY <2>1 DEF u8vars, U8Inv
  <2>4. UNCHANGED vpavars => VpaInv'
    BY <2>1 DEF vpavars, VpaInv
  <2>5. UNCHANGED sllvars => SllInv'
    BY <2>1 DEF sllvars, SllInv
  <2>6. U8Inv'
    BY <2>1, <2>2, <2>3, U8StepInv
  <2>7. VpaInv'
    BY <2>1, <2>2, <2>4, VpaStepInv
  <2>8. SllInv'
    BY <2>1, <2>2, <2>5, SllStepInv
  <2> QED BY <2>6, <2>7, <2>8
<1>3. Inv => ListsHoldElements
  BY U8Promise, VpaPromise, SllPromise DEF ListsHoldElements
<1> HIDE DEF Inv
<1> QED BY <1>1, <1>2, <1>3, PTL DEF Spec

=============================================================================
