--------------------------- MODULE MachineProofs ---------------------------
(***************************************************************************)
(* Proofs about the parts of Machine: the boot sequence, the SD card, the  *)
(* memory functions of user space, which do what they would do byte by     *)
(* byte, for every alignment and number of bytes, the output stream, which *)
(* keeps what it is given, and the start of a process. The parts share no  *)
(* state, so the invariant of each is kept by the steps of that part, and  *)
(* by the others' because they leave its variables alone.                  *)
(***************************************************************************)
EXTENDS Machine, SequenceTheorems, NaturalsInduction, WellFoundedInduction, TLAPS

-----------------------------------------------------------------------------
(* memcpy, memset, memchr and wcrtomb of user space.                       *)

\* What has been copied when d has come to offset `done`.
CopiedUpTo(done) == [x \in Offsets |-> IF x \in 0..done - 1 THEN x ELSE -1]

\* The places of memcpy where n still counts the bytes that are left.
Counting == {"start", "words", "shift"}

\* memcpy: d and s move together, all before them is copied and nothing else is, and
\* at each bit of n that is looked at, the lower bits are the bytes still to copy.
\* The word that was read ahead is the one that s lies in.
MemcpyInv ==
    /\ given \in MemcpyArgs
    /\ place \in Counting \cup DOMAIN Tails \cup {"done"}
    /\ to \in Nat /\ from = to /\ left \in Nat
    /\ stored = CopiedUpTo(to)
    /\ place \in Counting => to + left = given.n
    /\ place \in DOMAIN Tails => given.n - to = left % (2 * Tails[place].bit)
    /\ place = "done" => to = given.n
    /\ place \in {"words", "words_8", "words_4"} =>
          (given.dest + to) % 4 = 0 /\ (left = 0 \/ (given.src + to) % 4 = 0)
    /\ place = "shift" =>
          \/ /\ ahead = <<>> /\ left >= 32
             /\ (given.src + to) % 4 = 0 /\ (given.dest + to) % 4 # 0
          \/ /\ ahead = Source(to - ((given.src + to) % 4), 4) /\ ahead # <<>>
             /\ (given.src + to) % 4 # 0 /\ (given.dest + to) % 4 = 0
    /\ place = "start" => ahead = <<>>

\* memset: no byte outside of the n is touched, and both ends are filled as far as
\* the stores of this stage reach.
MemsetInv ==
    /\ given \in MemsetArgs
    /\ place \in {"start", "words", "double", "done"}
    /\ to \in Nat /\ left \in Nat
    /\ stored \in [Offsets -> Int]
    /\ \A x \in Offsets : stored[x] = -1 \/ (x \in 0..given.n - 1 /\ stored[x] = x)
    /\ place = "start" => to = 0 /\ left = given.n
    /\ place # "start" => to + left <= given.n
    /\ place = "words" =>
          /\ given.n > 8 /\ to <= 3 /\ left >= 4 /\ to + left >= given.n - 3
          /\ (given.dest + to) % 4 = 0 /\ left % 4 = 0
          /\ \A x \in 0..3 \cup given.n - 4..given.n - 1 : stored[x] = x
    /\ place = "double" =>
          /\ (given.dest + to) % 8 = 0 /\ left % 4 = 0
          /\ \A x \in 0..given.n - 1 : x < to \/ x >= to + left - 28 => stored[x] = x
    /\ place = "done" => \A x \in 0..given.n - 1 : stored[x] = x

\* memchr: no c lies before s, and the loop over words starts at a word unless it
\* does not run.
MemchrInv ==
    /\ given \in MemchrArgs
    /\ place \in {"start", "words", "bytes", "done"}
    /\ from \in Nat /\ left \in Nat /\ from + left = given.n
    /\ \A o \in given.found : o >= from
    /\ place = "words" => (given.src + from) % 4 = 0 \/ left = 0 \/ from \in given.found
    /\ place = "done" => /\ left > 0 => from \in given.found
                         /\ answer = <<IF left > 0 THEN from ELSE NULL>>

\* wcrtomb has one step.
WcrtombInv ==
    /\ given \in WideArgs
    /\ place = "done" => answer = Encoded(given.wc)

MemInv ==
    /\ aligned = TRUE
    /\ fn = "memcpy" => MemcpyInv
    /\ fn = "memset" => MemsetInv
    /\ fn = "memchr" => MemchrInv
    /\ fn = "wcrtomb" => WcrtombInv

-----------------------------------------------------------------------------
(* Addresses modulo 4 and 8.                                               *)

\* A remainder is in its range.
LEMMA Remainders ==
    ASSUME NEW a \in Nat, NEW o \in Nat
    PROVE  (a + o) % 4 \in 0..3
OBVIOUS

\* 16 bytes further an address is aligned as before.
LEMMA AlignedAgain ==
    ASSUME NEW a \in Nat, NEW o \in Nat
    PROVE  (a + (o + 16)) % 4 = (a + o) % 4
OBVIOUS

\* And 8 bytes further.
LEMMA AlignedByEight ==
    ASSUME NEW a \in Nat, NEW o \in Nat
    PROVE  (a + (o + 8)) % 4 = (a + o) % 4
OBVIOUS

\* The next word.
LEMMA NextWord ==
    ASSUME NEW a \in Nat, NEW o \in Nat, NEW k, k = (a + o) % 4
    PROVE  (a + (o + (4 - k))) % 4 = 0
OBVIOUS

\* The same, in the order of an address that is already added up.
LEMMA NextAddress ==
    ASSUME NEW a \in Nat, NEW o \in Nat
    PROVE  (a + o + (4 - ((a + o) % 4))) % 4 = 0
OBVIOUS

\* The bytes up to the next word.
LEMMA BytesToWord ==
    ASSUME NEW a \in Nat
    PROVE  (4 - (a % 4)) % 4 \in 0..3 /\ (a + ((4 - (a % 4)) % 4)) % 4 = 0
OBVIOUS

\* The word behind an aligned one.
LEMMA FourFurther ==
    ASSUME NEW a \in Nat, NEW o \in Nat, (a + o) % 4 = 0
    PROVE  (a + (o + 4)) % 4 = 0
OBVIOUS

\* A multiple of 4 changes no alignment.
LEMMA MultipleAdded ==
    ASSUME NEW a \in Nat, NEW o \in Nat, NEW i \in Int, (a + o) % 4 = 0, i % 4 = 0
    PROVE  (a + (o + i)) % 4 = 0
OBVIOUS

\* What memset skips brings it to a multiple of 8.
LEMMA SkippedToEight ==
    ASSUME NEW a \in Nat, NEW o \in Nat, (a + o) % 4 = 0
    PROVE  /\ 24 + (((a + o) \div 4) % 2) * 4 \in {24, 28}
           /\ (a + (o + (24 + (((a + o) \div 4) % 2) * 4))) % 8 = 0
OBVIOUS

\* Less than a word beyond an aligned address.
LEMMA BeyondWord ==
    ASSUME NEW a \in Nat, NEW o \in Nat, NEW k \in 1..3, (a + o) % 4 = 0
    PROVE  (a + (o + (4 - k))) % 4 = 4 - k
OBVIOUS

-----------------------------------------------------------------------------
(* memcpy                                                                  *)

\* Copying the next bytes of the source extends what is copied.
LEMMA StoreExtends ==
    ASSUME NEW done \in Nat, NEW size \in Nat, NEW bytes,
           bytes = Source(done, size)
    PROVE  Store(CopiedUpTo(done), done, bytes) = CopiedUpTo(done + size)
<1>1. Len(bytes) = size /\ \A i \in 1..size : bytes[i] = done + i - 1
  BY DEF Source
<1>2. ASSUME NEW x \in Offsets
      PROVE  Store(CopiedUpTo(done), done, bytes)[x] = CopiedUpTo(done + size)[x]
  <2>0. x \in Int
    BY UserMemAssumption DEF Offsets
  <2>1. CASE x \in done..done + size - 1
    BY <1>1, <2>0, <2>1 DEF Store, CopiedUpTo
  <2>2. CASE x \notin done..done + size - 1
    BY <1>1, <2>0, <2>2 DEF Store, CopiedUpTo
  <2> QED BY <2>1, <2>2
<1> QED BY <1>2 DEF Store, CopiedUpTo

\* A copy of `size` bytes, when both addresses are aligned for its words.
LEMMA CopyStep ==
    ASSUME NEW size \in Nat, NEW word, Copy(size, word), aligned = TRUE,
           to \in Nat, from = to, stored = CopiedUpTo(to),
           (given.dest + to) % word = 0, (given.src + to) % word = 0
    PROVE  /\ to' = to + size /\ from' = to' /\ to' \in Nat
           /\ stored' = CopiedUpTo(to')
           /\ aligned' = TRUE
<1>1. Store(stored, to, Source(from, size)) = CopiedUpTo(to + size)
  BY StoreExtends
<1>2. to' = to + size /\ from' = to' /\ stored' = CopiedUpTo(to')
  BY <1>1 DEF Copy
<1>3. aligned' = TRUE
  BY Zenon DEF Copy
<1> QED BY <1>2, <1>3

\* The types of the arguments and the ranges of the counters.
LEMMA MemcpyTypes ==
    ASSUME MemcpyInv
    PROVE  /\ given.dest \in Nat /\ given.src \in Nat /\ given.n \in Nat
           /\ to \in Nat /\ from = to /\ left \in Nat
           /\ stored = CopiedUpTo(to)
<1>1. given.dest \in 0..3 /\ given.src \in 0..3 /\ given.n \in 0..MaxMem
  BY DEF MemcpyInv, MemcpyArgs
<1> QED BY <1>1, UserMemAssumption DEF MemcpyInv

\* The bits of n that are looked at.
LEMMA TailsAre ==
    /\ DOMAIN Tails = {"words_8", "words_4", "bytes_16", "bytes_8", "bytes_4", "bytes_2",
                       "bytes_1"}
    /\ Tails["words_8"] = [bit |-> 8, word |-> 4, next |-> "words_4"]
    /\ Tails["words_4"] = [bit |-> 4, word |-> 4, next |-> "bytes_2"]
    /\ Tails["bytes_16"] = [bit |-> 16, word |-> 1, next |-> "bytes_8"]
    /\ Tails["bytes_8"] = [bit |-> 8, word |-> 1, next |-> "bytes_4"]
    /\ Tails["bytes_4"] = [bit |-> 4, word |-> 1, next |-> "bytes_2"]
    /\ Tails["bytes_2"] = [bit |-> 2, word |-> 1, next |-> "bytes_1"]
    /\ Tails["bytes_1"] = [bit |-> 1, word |-> 1, next |-> "done"]
BY DEF Tails

\* MemcpyHead: the bytes before the first word of the source.
LEMMA MemcpyHeadInv ==
    ASSUME MemcpyInv, aligned = TRUE, MemcpyHead
    PROVE  MemcpyInv' /\ aligned' = TRUE
<1>a. given' = given /\ given \in MemcpyArgs /\ place = "start" /\ ahead = <<>> /\ ahead' = <<>>
      /\ to + left = given.n
  BY DEF MemcpyInv, MemcpyHead, Counting
<1>0. /\ given' = given /\ given \in MemcpyArgs /\ given.dest \in Nat /\ given.src \in Nat
      /\ given.n \in Nat
      /\ to \in Nat /\ from = to /\ left \in Nat /\ place = "start" /\ ahead = <<>> /\ ahead' = <<>>
      /\ stored = CopiedUpTo(to) /\ to + left = given.n
  BY <1>a, MemcpyTypes
<1>1. CASE (given.src + from) % 4 # 0 /\ left > 0
  <2>1. Copy(1, 1) /\ left' = left - 1 /\ place' = "start"
    BY <1>1, <1>0 DEF MemcpyHead
  <2>2. (given.dest + to) % 1 = 0 /\ (given.src + to) % 1 = 0
    BY <1>0
  <2>3. /\ to' = to + 1 /\ from' = to' /\ to' \in Nat
        /\ stored' = CopiedUpTo(to') /\ aligned' = TRUE
    BY <1>0, <2>1, <2>2, CopyStep
  <2>4. left' \in Nat /\ to' + left' = given'.n
    BY <1>0, <1>1, <2>1, <2>3
  <2>5. place' \in Counting /\ place' \notin DOMAIN Tails
    BY <2>1 DEF Counting, Tails
  <2> QED BY ONLY <1>0, <2>1, <2>3, <2>4, <2>5 DEF MemcpyInv, CopiedUpTo, Offsets
<1>2. CASE ~((given.src + from) % 4 # 0 /\ left > 0)
  <2>1. /\ place' = IF (given.dest + to) % 4 = 0 THEN "words"
                    ELSE IF left >= 32 THEN "shift" ELSE "bytes_16"
        /\ UNCHANGED <<to, from, left, stored, aligned>>
    BY <1>2, <1>0 DEF MemcpyHead
  <2>2. (given.src + to) % 4 = 0 \/ left = 0
    BY <1>0, <1>2
  <2>3. CASE (given.dest + to) % 4 = 0
    BY <1>0, <2>1, <2>2, <2>3 DEF MemcpyInv, Counting, Tails
  <2>4. CASE (given.dest + to) % 4 # 0 /\ left >= 32
    BY <1>0, <2>1, <2>2, <2>4 DEF MemcpyInv, Counting, Tails
  <2>5. CASE (given.dest + to) % 4 # 0 /\ ~(left >= 32)
    <3>1. place' = "bytes_16"
      BY <1>0, <2>1, <2>5
    <3>2. given.n - to = left % 32
      <4>1. left \in Nat /\ left < 32 /\ given.n - to = left
        BY <1>0, <2>5
      <4> QED BY ONLY <4>1
    <3>3. UNCHANGED <<to, from, left, stored, aligned>>
      BY <2>1
    <3>4. Tails[place'].bit = 16 /\ place' \in DOMAIN Tails
      BY <3>1, TailsAre
    <3>5. (given.n - to = left % (2 * Tails[place].bit))'
      BY <1>0, <3>2, <3>3, <3>4
    <3> QED BY <1>0, <3>1, <3>3, <3>4, <3>5 DEF MemcpyInv, Counting
  <2> QED BY ONLY <2>3, <2>4, <2>5
<1> QED BY <1>1, <1>2

\* MemcpyWords: 16 bytes at a time.
LEMMA MemcpyWordsInv ==
    ASSUME MemcpyInv, aligned = TRUE, MemcpyWords
    PROVE  MemcpyInv' /\ aligned' = TRUE
<1>a. /\ given' = given /\ given \in MemcpyArgs /\ place = "words"
      /\ to + left = given.n /\ (given.dest + to) % 4 = 0
      /\ left = 0 \/ (given.src + to) % 4 = 0
  BY DEF MemcpyInv, MemcpyWords, Counting
<1>0. /\ given.dest \in Nat /\ given.src \in Nat /\ given.n \in Nat
      /\ to \in Nat /\ from = to /\ left \in Nat /\ stored = CopiedUpTo(to)
  BY MemcpyTypes
<1>1. CASE left >= 16
  <2>1. Copy(16, 4) /\ left' = left - 16 /\ place' = "words"
    BY <1>1, <1>a DEF MemcpyWords
  <2>2. (given.src + to) % 4 = 0
    BY <1>a, <1>0, <1>1
  <2>3. /\ to' = to + 16 /\ from' = to' /\ to' \in Nat
        /\ stored' = CopiedUpTo(to') /\ aligned' = TRUE
    BY <1>a, <1>0, <2>1, <2>2, CopyStep
  <2>4. (given.dest + to') % 4 = 0 /\ (given.src + to') % 4 = 0
    BY <1>a, <1>0, <2>2, <2>3, AlignedAgain
  <2> QED BY <1>0, <1>a, <1>1, <2>1, <2>3, <2>4, TailsAre DEF MemcpyInv, Counting
<1>2. CASE ~(left >= 16)
  <2>1. place' = "words_8" /\ UNCHANGED <<to, from, left, stored, aligned>>
    BY <1>2, <1>a DEF MemcpyWords
  <2>2. given.n - to = left % 16
    BY <1>a, <1>0, <1>2
  <2> QED BY <1>0, <1>a, <2>1, <2>2, TailsAre DEF MemcpyInv, Counting
<1> QED BY <1>1, <1>2

\* MemcpySkew: a word is read ahead, and bytes go up to the next word of dest.
LEMMA MemcpySkewInv ==
    ASSUME MemcpyInv, aligned = TRUE, MemcpySkew
    PROVE  MemcpyInv' /\ aligned' = TRUE
<1> DEFINE k == (given.dest + to) % 4
<1>a. /\ given' = given /\ given \in MemcpyArgs /\ place = "shift" /\ place' = "shift"
      /\ ahead = <<>> /\ to + left = given.n
      /\ ahead' = Source(from, 4) /\ Copy(4 - k, 1) /\ left' = left - (4 - k)
  BY DEF MemcpyInv, MemcpySkew, Counting
<1>b. left >= 32 /\ (given.src + to) % 4 = 0 /\ (given.dest + to) % 4 # 0
  BY <1>a DEF MemcpyInv
<1>0. /\ given.dest \in Nat /\ given.src \in Nat /\ given.n \in Nat
      /\ to \in Nat /\ from = to /\ left \in Nat /\ stored = CopiedUpTo(to)
  BY MemcpyTypes
<1>1. k \in 1..3 /\ 4 - k \in Nat
  <2>1. k \in 0..3
    BY <1>0, Remainders
  <2>2. k # 0
    BY <1>b
  <2> HIDE DEF k
  <2> QED BY <2>1, <2>2
<1>2. (given.dest + to) % 1 = 0 /\ (given.src + to) % 1 = 0
  BY <1>0
<1> HIDE DEF k
<1>3. /\ to' = to + (4 - k) /\ from' = to' /\ to' \in Nat
      /\ stored' = CopiedUpTo(to') /\ aligned' = TRUE
  BY <1>a, <1>0, <1>1, <1>2, CopyStep
<1>4. (given.dest + to') % 4 = 0
  <2>1. (given.dest + (to + (4 - k))) % 4 = 0
    <3>1. k = (given.dest + to) % 4 /\ given.dest \in Nat /\ to \in Nat
      BY <1>0 DEF k
    <3> QED BY ONLY <3>1, NextWord
  <2> QED BY <1>3, <2>1
<1>5. (given.src + to') % 4 = 4 - k
  BY <1>0, <1>b, <1>1, <1>3, BeyondWord
<1>6. ahead' = Source(to' - ((given.src + to') % 4), 4)
  BY <1>a, <1>0, <1>1, <1>3, <1>5
<1>7. ahead' # <<>>
  BY <1>a, <1>0 DEF Source
<1>8. left' \in Nat /\ to' + left' = given.n
  BY <1>a, <1>b, <1>0, <1>1, <1>3
<1> QED BY <1>0, <1>a, <1>1, <1>3, <1>4, <1>5, <1>6, <1>7, <1>8, TailsAre DEF MemcpyInv, Counting

\* A word put together from two neighbouring words of the source is the part of the
\* source that starts k bytes before the second.
LEMMA ShiftedIsSource ==
    ASSUME NEW o \in Int, NEW k \in 1..3
    PROVE  Shifted(k, Source(o + k - 4, 4), Source(o + k, 4)) = Source(o, 4)
<1> DEFINE v == Source(o + k - 4, 4)
           x == Source(o + k, 4)
           a == SubSeq(v, 5 - k, 4)
           b == SubSeq(x, 1, 4 - k)
<1>1. /\ v \in Seq(Int) /\ Len(v) = 4 /\ \A i \in 1..4 : v[i] = o + k - 4 + i - 1
      /\ x \in Seq(Int) /\ Len(x) = 4 /\ \A i \in 1..4 : x[i] = o + k + i - 1
  BY DEF Source
<1> HIDE DEF v, x
<1>2. /\ a \in Seq(Int) /\ Len(a) = k /\ \A i \in 1..k : a[i] = v[5 - k + i - 1]
      /\ b \in Seq(Int) /\ Len(b) = 4 - k /\ \A i \in 1..4 - k : b[i] = x[i]
  BY <1>1
<1> HIDE DEF a, b
<1>3. Len(a) + Len(b) = 4
  BY <1>2
<1>4. /\ a \o b \in Seq(Int) /\ Len(a \o b) = 4
      /\ \A i \in 1..4 : (a \o b)[i] = IF i <= Len(a) THEN a[i] ELSE b[i - Len(a)]
  BY <1>2, <1>3, ConcatProperties
<1>5. ASSUME NEW i \in 1..4 PROVE (a \o b)[i] = o + i - 1
  <2>0. (a \o b)[i] = IF i <= k THEN a[i] ELSE b[i - k]
    BY ONLY <1>4, <1>2, i \in 1..4
  <2> DEFINE c == (a \o b)[i]
  <2> HIDE DEF c
  <2>1. CASE i <= k
    <3>1. a[i] = v[5 - k + i - 1] /\ 5 - k + i - 1 \in 1..4
      BY <1>2, <2>1
    <3>2. a[i] = o + i - 1
      BY <1>1, <3>1
    <3> QED BY <2>0, <2>1, <3>2 DEF c
  <2>2. CASE ~(i <= k)
    <3>1. b[i - k] = x[i - k] /\ i - k \in 1..4
      BY <1>2, <2>2
    <3>2. b[i - k] = o + i - 1
      BY <1>1, <3>1
    <3> QED BY <2>0, <2>2, <3>2 DEF c
  <2> QED BY <2>1, <2>2
<1> DEFINE t == [i \in 1..4 |-> o + i - 1]
<1>t. t \in Seq(Int) /\ Len(t) = 4 /\ \A i \in 1..4 : t[i] = o + i - 1
  OBVIOUS
<1> HIDE DEF t
<1> DEFINE w == a \o b
<1>7. w \in Seq(Int) /\ Len(w) = 4 /\ \A i \in 1..4 : w[i] = o + i - 1
  BY <1>4, <1>5
<1> HIDE DEF w
<1>8. Len(w) = Len(t) /\ \A i \in 1..Len(w) : w[i] = t[i]
  BY <1>7, <1>t
<1>6. w = t
  BY ONLY <1>7, <1>t, <1>8, SeqEqual
<1> QED BY <1>6 DEF Shifted, Source, a, b, v, x, t, w

\* Two pieces of the source in a row are one.
LEMMA SourcesJoin ==
    ASSUME NEW o \in Int, NEW l \in Nat, NEW m \in Nat, NEW p, p = o + l
    PROVE  Source(o, l) \o Source(p, m) = Source(o, l + m)
<1> DEFINE a == Source(o, l)
           b == Source(p, m)
<1>1. /\ a \in Seq(Int) /\ Len(a) = l /\ \A i \in 1..l : a[i] = o + i - 1
      /\ b \in Seq(Int) /\ Len(b) = m /\ \A i \in 1..m : b[i] = o + l + i - 1
  BY DEF Source
<1> HIDE DEF a, b
<1>2. /\ a \o b \in Seq(Int) /\ Len(a \o b) = l + m
      /\ \A i \in 1..l + m : (a \o b)[i] = IF i <= l THEN a[i] ELSE b[i - l]
  BY <1>1, ConcatProperties
<1>3. ASSUME NEW i \in 1..l + m PROVE (a \o b)[i] = o + i - 1
  <2>0. (a \o b)[i] = IF i <= l THEN a[i] ELSE b[i - l]
    BY <1>2
  <2>1. CASE i <= l
    <3>1. a[i] = o + i - 1
      BY <1>1, <2>1
    <3> QED BY <2>0, <2>1, <3>1, Zenon
  <2>2. CASE ~(i <= l)
    <3>1. b[i - l] = o + l + (i - l) - 1
      BY <1>1, <2>2
    <3>2. b[i - l] = o + i - 1
      BY <3>1
    <3> QED BY <2>0, <2>2, <3>2, Zenon
  <2> QED BY <2>1, <2>2
<1> DEFINE t == [i \in 1..l + m |-> o + i - 1]
<1>t. t \in Seq(Int) /\ Len(t) = l + m /\ \A i \in 1..l + m : t[i] = o + i - 1
  OBVIOUS
<1> HIDE DEF t
<1>4. a \o b = t
  BY <1>2, <1>3, <1>t, SeqEqual
<1> QED BY <1>4 DEF Source, a, b, t

\* MemcpyShift: words put together from two words of the source.
LEMMA MemcpyShiftInv ==
    ASSUME MemcpyInv, aligned = TRUE, MemcpyShift
    PROVE  MemcpyInv' /\ aligned' = TRUE
<1> DEFINE k == 4 - ((given.src + from) % 4)
           x(j) == Source(from + k + 4 * j, 4)
           v(j) == IF j = 0 THEN ahead ELSE x(j - 1)
           word(j) == Shifted(k, v(j), x(j))
           out == word(0) \o word(1) \o word(2) \o word(3)
<1>a. /\ given' = given /\ given \in MemcpyArgs /\ place = "shift"
      /\ ahead # <<>> /\ to + left = given.n
  BY DEF MemcpyInv, MemcpyShift, Counting
<1>b. /\ ahead = Source(to - ((given.src + to) % 4), 4)
      /\ (given.src + to) % 4 # 0 /\ (given.dest + to) % 4 = 0
  BY <1>a DEF MemcpyInv
<1>0. /\ given.dest \in Nat /\ given.src \in Nat /\ given.n \in Nat
      /\ to \in Nat /\ from = to /\ left \in Nat /\ stored = CopiedUpTo(to)
  BY MemcpyTypes
<1>1. k \in 1..3 /\ to - ((given.src + to) % 4) = to + k - 4
  <2>1. (given.src + to) % 4 \in 0..3
    BY <1>0, Remainders
  <2> QED BY <2>1, <1>b, <1>0
<1>2. IF left >= 16 + k
      THEN /\ stored' = Store(stored, to, out)
           /\ aligned' = (aligned /\ (given.dest + to) % 4 = 0
                                  /\ (given.src + from + k) % 4 = 0)
           /\ ahead' = x(3)
           /\ to' = to + 16 /\ from' = from + 16 /\ left' = left - 16
           /\ UNCHANGED place
      ELSE place' = "bytes_16" /\ UNCHANGED <<to, from, left, ahead, stored, aligned>>
  BY DEF MemcpyShift
<1>3. out = Source(to, 16)
  <2>1. v(0) = Source(to + k - 4, 4) /\ x(0) = Source(to + k, 4)
    BY <1>b, <1>1, <1>0
  <2>2. /\ v(1) = Source((to + 4) + k - 4, 4) /\ x(1) = Source((to + 4) + k, 4)
        /\ v(2) = Source((to + 8) + k - 4, 4) /\ x(2) = Source((to + 8) + k, 4)
        /\ v(3) = Source((to + 12) + k - 4, 4) /\ x(3) = Source((to + 12) + k, 4)
    <3> HIDE DEF k
    <3> QED BY <1>0, <1>1
  <2> HIDE DEF k, v, x
  <2>3. /\ word(0) = Source(to, 4) /\ word(1) = Source(to + 4, 4)
        /\ word(2) = Source(to + 8, 4) /\ word(3) = Source(to + 12, 4)
    BY <2>1, <2>2, <1>0, <1>1, ShiftedIsSource
  <2> HIDE DEF word
  <2>4. /\ to \in Int /\ 4 \in Nat /\ 8 \in Nat /\ 12 \in Nat
        /\ 4 + 4 = 8 /\ 8 + 4 = 12 /\ 12 + 4 = 16
    BY <1>0
  <2>5. Source(to, 4) \o Source(to + 4, 4) = Source(to, 4 + 4)
    BY ONLY <2>4, SourcesJoin, Zenon
  <2>6. Source(to, 8) \o Source(to + 8, 4) = Source(to, 8 + 4)
    BY ONLY <2>4, SourcesJoin, Zenon
  <2>7. Source(to, 12) \o Source(to + 12, 4) = Source(to, 12 + 4)
    BY ONLY <2>4, SourcesJoin, Zenon
  <2> QED BY ONLY <2>3, <2>4, <2>5, <2>6, <2>7, Zenon DEF out
<1> HIDE DEF out
<1>4. CASE left >= 16 + k
  <2>1. Store(stored, to, out) = CopiedUpTo(to + 16)
    BY <1>0, <1>3, StoreExtends
  <2>2. /\ stored' = CopiedUpTo(to') /\ to' = to + 16 /\ from' = to' /\ left' = left - 16
        /\ place' = "shift" /\ ahead' = x(3)
    BY <1>0, <1>2, <1>4, <1>a, <2>1
  <2>3. (given.src + from + k) % 4 = 0
    BY <1>0, NextAddress
  <2>4. aligned' = TRUE
    BY <1>2, <1>4, <1>b, <2>3
  <2>5. (given.dest + to') % 4 = 0 /\ (given.src + to') % 4 = (given.src + to) % 4
    BY <1>0, <1>b, <2>2, AlignedAgain
  <2>6. ahead' = Source(to' - ((given.src + to') % 4), 4)
    <3>1. to + k + 12 = (to + 16) - ((given.src + to) % 4)
      BY <1>0, <1>1
    <3>2. to + k + 4 * 3 = to + k + 12
      BY <1>0, <1>1
    <3> HIDE DEF k
    <3> QED BY <1>0, <1>a, <2>2, <2>5, <3>1, <3>2
  <2>7. ahead' # <<>>
    BY <2>6 DEF Source
  <2>8. left' \in Nat /\ to' \in Nat /\ to' + left' = given.n
    <3> HIDE DEF k
    <3> QED BY <1>0, <1>1, <1>a, <1>4, <2>2
  <2> HIDE DEF k, x
  <2> QED BY <1>a, <1>0, <1>b, <2>2, <2>4, <2>5, <2>6, <2>7, <2>8, TailsAre DEF MemcpyInv, Counting
<1>5. CASE ~(left >= 16 + k)
  <2>1. place' = "bytes_16" /\ UNCHANGED <<to, from, left, ahead, stored, aligned>>
    BY <1>2, <1>5
  <2>2. left < 32 /\ given.n - to = left
    <3> HIDE DEF k
    <3> QED BY <1>0, <1>1, <1>a, <1>5
  <2>3. left = left % 32
    BY <1>0, <2>2
  <2>4. place' \in DOMAIN Tails /\ 2 * Tails[place'].bit = 32
    BY <2>1, TailsAre
  <2> HIDE DEF k, x
  <2> QED BY <1>a, <1>0, <2>1, <2>2, <2>3, <2>4 DEF MemcpyInv, Counting
<1> QED BY ONLY <1>4, <1>5

\* The bit of n that is looked at, and the ones below it.
LEMMA LowBits ==
    ASSUME NEW l \in Nat, NEW b \in {1, 2, 4, 8, 16}
    PROVE  l % (2 * b) = (IF (l \div b) % 2 = 1 THEN b ELSE 0) + (l % b)
<1>1. CASE b = 1
  BY <1>1
<1>2. CASE b = 2
  BY <1>2
<1>3. CASE b = 4
  BY <1>3
<1>4. CASE b = 8
  BY <1>4
<1>5. CASE b = 16
  BY <1>5
<1> QED BY <1>1, <1>2, <1>3, <1>4, <1>5

\* One bit of n at a place of the code, where the next one is half of it.
LEMMA TailStep ==
    ASSUME MemcpyInv, aligned = TRUE, MemcpyTail,
           NEW b \in {1, 2, 4, 8, 16}, NEW w \in {1, 4}, NEW following,
           given.n - to = left % (2 * b),
           (left \div b) % 2 = 1 =>
               (given.dest + to) % w = 0 /\ (given.src + to) % w = 0,
           Tails[place] = [bit |-> b, word |-> w, next |-> following]
    PROVE  /\ place' = following /\ given' = given /\ left' = left
           /\ to' = (IF (left \div b) % 2 = 1 THEN to + b ELSE to)
           /\ from' = to' /\ to' \in Nat
           /\ stored' = CopiedUpTo(to') /\ aligned' = TRUE
           /\ given.n - to' = left % b
<1>0. /\ given.dest \in Nat /\ given.src \in Nat /\ given.n \in Nat
      /\ to \in Nat /\ from = to /\ left \in Nat /\ stored = CopiedUpTo(to)
  BY MemcpyTypes
<1>1. /\ place' = following /\ given' = given /\ left' = left
      /\ IF (left \div b) % 2 = 1 THEN Copy(b, w)
         ELSE UNCHANGED <<to, from, stored, aligned>>
  <2>1. Tails[place].bit = b /\ Tails[place].word = w /\ Tails[place].next = following
    OBVIOUS
  <2>2. /\ place' = Tails[place].next
        /\ IF (left \div Tails[place].bit) % 2 = 1 THEN Copy(Tails[place].bit, Tails[place].word)
           ELSE UNCHANGED <<to, from, stored, aligned>>
        /\ UNCHANGED <<fn, given, left, ahead, answer>>
    BY Zenon DEF MemcpyTail
  <2> QED BY <2>1, <2>2
<1>2. left % (2 * b) = (IF (left \div b) % 2 = 1 THEN b ELSE 0) + (left % b)
  BY <1>0, LowBits
<1>3. left % b \in Int /\ b \in Nat
  BY <1>0
<1>4. CASE (left \div b) % 2 = 1
  <2>1. /\ to' = to + b /\ from' = to' /\ to' \in Nat
        /\ stored' = CopiedUpTo(to') /\ aligned' = TRUE
    BY <1>0, <1>1, <1>3, <1>4, CopyStep
  <2>2. left % (2 * b) = b + (left % b)
    BY <1>2, <1>4
  <2>3. given.n - to' = left % b
    BY ONLY <1>0, <1>3, <2>1, <2>2, given.n - to = left % (2 * b)
  <2> QED BY <1>1, <1>4, <2>1, <2>3
<1>5. CASE ~((left \div b) % 2 = 1)
  <2>1. to' = to /\ from' = from /\ stored' = stored /\ aligned' = aligned
    BY <1>1, <1>5
  <2>2. left % (2 * b) = left % b
    BY <1>2, <1>3, <1>5
  <2> QED BY <1>0, <1>1, <1>5, <2>1, <2>2
<1> QED BY ONLY <1>4, <1>5

\* A bit of n that is set says that n is not zero.
LEMMA SetBit ==
    ASSUME NEW l \in Nat, NEW b \in {4, 8}, (l \div b) % 2 = 1
    PROVE  l # 0
<1>1. CASE b = 4
  BY <1>1
<1>2. CASE b = 8
  BY <1>2
<1> QED BY <1>1, <1>2

\* MemcpyTail: the bits of n, from the highest on.
LEMMA MemcpyTailInv ==
    ASSUME MemcpyInv, aligned = TRUE, MemcpyTail
    PROVE  MemcpyInv' /\ aligned' = TRUE
<1>0. /\ given.dest \in Nat /\ given.src \in Nat /\ given.n \in Nat
      /\ to \in Nat /\ left \in Nat /\ given \in MemcpyArgs
  BY MemcpyTypes DEF MemcpyInv
<1>1. place \in DOMAIN Tails /\ given.n - to = left % (2 * Tails[place].bit)
  BY DEF MemcpyTail, MemcpyInv
<1>2. (given.dest + to) % 1 = 0 /\ (given.src + to) % 1 = 0
  BY <1>0
<1>3. CASE place = "words_8"
  <2>1. Tails[place] = [bit |-> 8, word |-> 4, next |-> "words_4"]
    BY <1>3, TailsAre
  <2>2. (given.dest + to) % 4 = 0 /\ (left = 0 \/ (given.src + to) % 4 = 0)
    BY <1>3 DEF MemcpyInv
  <2>3. (left \div 8) % 2 = 1 => (given.dest + to) % 4 = 0 /\ (given.src + to) % 4 = 0
    BY <1>0, <2>2, SetBit
  <2>4. given.n - to = left % (2 * 8)
    BY <1>1, <2>1
  <2>5. /\ place' = "words_4" /\ given' = given /\ left' = left
        /\ to' = (IF (left \div 8) % 2 = 1 THEN to + 8 ELSE to)
        /\ from' = to' /\ to' \in Nat
        /\ stored' = CopiedUpTo(to') /\ aligned' = TRUE
        /\ given.n - to' = left % 8
    BY <2>1, <2>3, <2>4, TailStep
  <2>6. (given.dest + to') % 4 = 0 /\ (left = 0 \/ (given.src + to') % 4 = 0)
    BY <1>0, <2>2, <2>5, AlignedByEight
  <2>7. place' \in DOMAIN Tails /\ 2 * Tails[place'].bit = 8
    BY <2>5, TailsAre
  <2> QED BY <1>0, <2>5, <2>6, <2>7 DEF MemcpyInv, Counting
<1>4. CASE place = "words_4"
  <2>1. Tails[place] = [bit |-> 4, word |-> 4, next |-> "bytes_2"]
    BY <1>4, TailsAre
  <2>2. (given.dest + to) % 4 = 0 /\ (left = 0 \/ (given.src + to) % 4 = 0)
    BY <1>4 DEF MemcpyInv
  <2>3. (left \div 4) % 2 = 1 => (given.dest + to) % 4 = 0 /\ (given.src + to) % 4 = 0
    BY <1>0, <2>2, SetBit
  <2>4. given.n - to = left % (2 * 4)
    BY <1>1, <2>1
  <2>5. /\ place' = "bytes_2" /\ given' = given /\ left' = left
        /\ from' = to' /\ to' \in Nat
        /\ stored' = CopiedUpTo(to') /\ aligned' = TRUE
        /\ given.n - to' = left % 4
    BY <2>1, <2>3, <2>4, TailStep
  <2>7. place' \in DOMAIN Tails /\ 2 * Tails[place'].bit = 4
    BY <2>5, TailsAre
  <2> QED BY <1>0, <2>5, <2>7 DEF MemcpyInv, Counting
<1>5. ASSUME NEW b \in {2, 4, 8, 16}, NEW following \in {"bytes_8", "bytes_4", "bytes_2", "bytes_1"},
             Tails[place] = [bit |-> b, word |-> 1, next |-> following],
             2 * Tails[following].bit = b
      PROVE  MemcpyInv' /\ aligned' = TRUE
  <2>1. given.n - to = left % (2 * b)
    BY <1>1, <1>5
  <2>2. /\ place' = following /\ given' = given /\ left' = left
        /\ from' = to' /\ to' \in Nat
        /\ stored' = CopiedUpTo(to') /\ aligned' = TRUE
        /\ given.n - to' = left % b
    BY <1>2, <1>5, <2>1, TailStep
  <2>3. following \in DOMAIN Tails
    BY TailsAre
  <2> QED BY <1>0, <1>5, <2>2, <2>3 DEF MemcpyInv, Counting
<1>6. CASE place = "bytes_16"
  <2>1. Tails[place] = [bit |-> 16, word |-> 1, next |-> "bytes_8"] /\ 2 * Tails["bytes_8"].bit = 16
    BY <1>6, TailsAre
  <2> QED BY <2>1, <1>5
<1>7. CASE place = "bytes_8"
  <2>1. Tails[place] = [bit |-> 8, word |-> 1, next |-> "bytes_4"] /\ 2 * Tails["bytes_4"].bit = 8
    BY <1>7, TailsAre
  <2> QED BY <2>1, <1>5
<1>8. CASE place = "bytes_4"
  <2>1. Tails[place] = [bit |-> 4, word |-> 1, next |-> "bytes_2"] /\ 2 * Tails["bytes_2"].bit = 4
    BY <1>8, TailsAre
  <2> QED BY <2>1, <1>5
<1>9. CASE place = "bytes_2"
  <2>1. Tails[place] = [bit |-> 2, word |-> 1, next |-> "bytes_1"] /\ 2 * Tails["bytes_1"].bit = 2
    BY <1>9, TailsAre
  <2> QED BY <2>1, <1>5
<1>10. CASE place = "bytes_1"
  <2>1. Tails[place] = [bit |-> 1, word |-> 1, next |-> "done"]
    BY <1>10, TailsAre
  <2>2. given.n - to = left % (2 * 1)
    BY <1>1, <2>1
  <2>3. /\ place' = "done" /\ given' = given /\ left' = left
        /\ from' = to' /\ to' \in Nat
        /\ stored' = CopiedUpTo(to') /\ aligned' = TRUE
        /\ given.n - to' = left % 1
    BY <1>2, <2>1, <2>2, TailStep
  <2>4. to' = given.n
    BY <1>0, <2>3
  <2>5. "done" \notin DOMAIN Tails
    BY TailsAre
  <2> QED BY <1>0, <2>3, <2>4, <2>5 DEF MemcpyInv, Counting
<1> QED BY <1>1, <1>3, <1>4, <1>6, <1>7, <1>8, <1>9, <1>10, TailsAre

-----------------------------------------------------------------------------
(* memset                                                                  *)

\* The types of the arguments.
LEMMA MemsetTypes ==
    ASSUME MemsetInv
    PROVE  given.dest \in Nat /\ given.n \in 0..MaxMem /\ given.n \in Nat /\ MaxMem \in Nat
<1>1. given.dest \in 0..7 /\ given.n \in 0..MaxMem
  BY DEF MemsetInv, MemsetArgs
<1> QED BY <1>1, UserMemAssumption

\* So far only the n bytes have been touched, and the stores lie within them, each
\* at a multiple of its size.
FillReady(offsets, size, n) ==
    /\ n \in Nat /\ n <= MaxMem
    /\ stored \in [Offsets -> Int]
    /\ \A x \in Offsets : stored[x] = -1 \/ (x \in 0..n - 1 /\ stored[x] = x)
    /\ \A o \in offsets : /\ o \in Int
                          /\ (given.dest + o) % size = 0
                          /\ \A x \in Int : x \in o..o + size - 1 => x \in 0..n - 1

\* After the stores no other byte has been touched, and theirs are filled.
FillLeaves(offsets, size, n) ==
    /\ aligned' = TRUE
    /\ stored' \in [Offsets -> Int]
    /\ \A x \in Offsets : stored'[x] = -1 \/ (x \in 0..n - 1 /\ stored'[x] = x)
    /\ \A x \in 0..n - 1 : stored[x] = x => stored'[x] = x
    /\ \A o \in offsets : \A x \in 0..n - 1 : x \in o..o + size - 1 => stored'[x] = x

\* What a set of stores leaves: it touches nothing but the bytes it covers.
LEMMA FillStep ==
    ASSUME NEW offsets, NEW size, NEW n,
           Fill(offsets, size), aligned = TRUE, FillReady(offsets, size, n)
    PROVE  FillLeaves(offsets, size, n)
<1> USE DEF FillReady
<1> DEFINE covered == UNION {o..o + size - 1 : o \in offsets}
<1>1. /\ stored' = [x \in Offsets |-> IF x \in covered THEN x ELSE stored[x]]
      /\ aligned' = (aligned /\ \A o \in offsets : (given.dest + o) % size = 0)
  BY DEF Fill
<1>2. \A x \in Offsets : x \in Int
  BY UserMemAssumption DEF Offsets
<1>3. \A x \in 0..n - 1 : x \in Offsets /\ x \in Int
  BY UserMemAssumption DEF Offsets
<1>4. \A x : x \in covered <=> \E o \in offsets : x \in o..o + size - 1
  OBVIOUS
<1> HIDE DEF covered
<1>5. aligned' = TRUE
  BY <1>1
<1>6. \A x \in Offsets : stored'[x] = IF x \in covered THEN x ELSE stored[x]
  BY <1>1
<1>7. stored' \in [Offsets -> Int]
  BY <1>1, <1>2
<1>8. ASSUME NEW x \in Offsets
      PROVE  stored'[x] = -1 \/ (x \in 0..n - 1 /\ stored'[x] = x)
  BY <1>2, <1>4, <1>6
<1>9. \A x \in 0..n - 1 : stored[x] = x => stored'[x] = x
  BY <1>3, <1>6
<1>10. ASSUME NEW o \in offsets, NEW x \in 0..n - 1, x \in o..o + size - 1
       PROVE  stored'[x] = x
  BY <1>3, <1>4, <1>6, <1>10
<1> QED BY <1>5, <1>7, <1>8, <1>9, <1>10 DEF FillLeaves

\* MemsetBytes: the bytes at both ends.
LEMMA MemsetBytesInv ==
    ASSUME MemsetInv, aligned = TRUE, MemsetBytes
    PROVE  MemsetInv' /\ aligned' = TRUE
<1> DEFINE n == given.n
           ends == UNION { IF left > 0 THEN {0, left - 1} ELSE {},
                           IF left > 2 THEN {1, left - 2, 2, left - 3} ELSE {},
                           IF left > 6 THEN {3, left - 4} ELSE {} }
           k == (4 - (given.dest % 4)) % 4
<1>0. /\ given.dest \in Nat /\ n \in Nat /\ n <= MaxMem /\ given \in MemsetArgs
      /\ place = "start" /\ to = 0 /\ left = n /\ given' = given
      /\ stored \in [Offsets -> Int]
      /\ \A x \in Offsets : stored[x] = -1 \/ (x \in 0..n - 1 /\ stored[x] = x)
  BY MemsetTypes DEF MemsetInv, MemsetBytes
<1>1. /\ Fill(ends, 1)
      /\ IF left <= 8
         THEN place' = "done" /\ to' = to /\ left' = left
         ELSE to' = k /\ left' = ((left - k) \div 4) * 4 /\ place' = "words"
  BY Zenon DEF MemsetBytes
<1> DEFINE d == given.dest
<1> HIDE DEF n, d
<1>2. /\ \A o \in ends : o \in 0..n - 1
      /\ n > 0 => 0 \in ends /\ n - 1 \in ends
      /\ n > 2 => {1, n - 2, 2, n - 3} \subseteq ends
      /\ n > 6 => 3 \in ends /\ n - 4 \in ends
  BY <1>0
<1> HIDE DEF ends
<1>3. \A o \in ends : /\ o \in Int /\ (given.dest + o) % 1 = 0
                      /\ \A x \in Int : x \in o..o + 1 - 1 => x \in 0..n - 1
  <2> SUFFICES ASSUME NEW o \in ends
               PROVE  /\ o \in Int /\ (given.dest + o) % 1 = 0
                      /\ \A x \in Int : x \in o..o + 1 - 1 => x \in 0..n - 1
    OBVIOUS
  <2>1. o \in 0..n - 1
    BY <1>2
  <2>2. (given.dest + o) % 1 = 0
    BY <1>0, <2>1
  <2> QED BY <1>0, <2>1, <2>2
<1>4. /\ aligned' = TRUE
      /\ stored' \in [Offsets -> Int]
      /\ \A x \in Offsets : stored'[x] = -1 \/ (x \in 0..n - 1 /\ stored'[x] = x)
      /\ \A o \in ends : \A x \in 0..n - 1 : x \in o..o + 1 - 1 => stored'[x] = x
  <2>1. FillReady(ends, 1, n)
    BY <1>0, <1>3 DEF FillReady
  <2>2. FillLeaves(ends, 1, n)
    BY <1>1, <2>1, FillStep
  <2> QED BY <2>2 DEF FillLeaves
<1>5. \A x \in ends : stored'[x] = x
  BY <1>2, <1>4, <1>0
<1>6. CASE left <= 8
  <2>1. place' = "done" /\ to' = to /\ left' = left
    BY <1>1, <1>6
  <2>2. \A x \in 0..n - 1 : x \in ends
    BY <1>0, <1>2, <1>6
  <2>3. \A x \in 0..n - 1 : stored'[x] = x
    BY <1>5, <2>2
  <2> QED BY <1>0, <1>4, <2>1, <2>3 DEF MemsetInv, n
<1>7. CASE ~(left <= 8)
  <2>1. to' = k /\ left' = ((left - k) \div 4) * 4 /\ place' = "words"
    BY <1>1, <1>7
  <2>2. k \in 0..3 /\ (given.dest + k) % 4 = 0
    BY <1>0, BytesToWord
  <2> HIDE DEF k
  <2>3. n > 8
    BY <1>0, <1>7
  <2>4. /\ to' \in Nat /\ to' <= 3 /\ left' \in Nat /\ left' % 4 = 0 /\ left' >= 4
        /\ to' + left' <= n /\ to' + left' >= n - 3
    <3>1. left = n /\ n \in Nat
      BY ONLY <1>0, Zenon
    <3> QED BY ONLY <3>1, <2>1, <2>2, <2>3
  <2>5. \A x \in 0..3 \cup n - 4..n - 1 : x \in ends
    BY <1>0, <1>2, <2>3
  <2>6. \A x \in 0..3 \cup n - 4..n - 1 : stored'[x] = x
    BY <1>5, <2>5
  <2> QED BY <1>0, <1>4, <2>1, <2>2, <2>3, <2>4, <2>6 DEF MemsetInv, n
<1> QED BY ONLY <1>4, <1>6, <1>7

\* MemsetWords: the words at both ends.
LEMMA MemsetWordsInv ==
    ASSUME MemsetInv, aligned = TRUE, MemsetWords
    PROVE  MemsetInv' /\ aligned' = TRUE
<1> DEFINE n == given.n
           inner == UNION { {0, left - 4},
                    IF left > 8 THEN {4, 8, left - 12, left - 8} ELSE {},
                    IF left > 24 THEN {12, 16, 20, 24, left - 28, left - 24,
                                       left - 20, left - 16} ELSE {} }
           ends == {to + o : o \in inner}
<1>0. /\ given.dest \in Nat /\ n \in Nat /\ n <= MaxMem /\ given \in MemsetArgs
      /\ place = "words" /\ given' = given
      /\ stored \in [Offsets -> Int]
      /\ \A x \in Offsets : stored[x] = -1 \/ (x \in 0..n - 1 /\ stored[x] = x)
      /\ to \in Nat /\ left \in Nat /\ to + left <= n
      /\ n > 8 /\ to <= 3 /\ left >= 4 /\ to + left >= n - 3
      /\ (given.dest + to) % 4 = 0 /\ left % 4 = 0
      /\ \A x \in 0..3 \cup n - 4..n - 1 : stored[x] = x
  BY MemsetTypes DEF MemsetInv, MemsetWords
<1>1. /\ Fill(ends, 4)
      /\ IF left <= 24
         THEN place' = "done" /\ to' = to /\ left' = left
         ELSE to' = to + SkippedBySet /\ left' = left - SkippedBySet /\ place' = "double"
  BY Zenon DEF MemsetWords
<1>m. /\ given.dest \in Nat /\ n \in Nat /\ to \in Nat /\ left \in Nat /\ to + left <= n
      /\ n > 8 /\ to <= 3 /\ left >= 4 /\ to + left >= n - 3
      /\ (given.dest + to) % 4 = 0 /\ left % 4 = 0
  BY ONLY <1>0, Zenon
<1> HIDE DEF n
<1>2. \A o \in inner : /\ o \in Int /\ o >= 0 /\ o + 4 <= left
                       /\ (given.dest + (to + o)) % 4 = 0
  <2> SUFFICES ASSUME NEW o \in inner
               PROVE  /\ o \in Int /\ o >= 0 /\ o + 4 <= left
                      /\ (given.dest + (to + o)) % 4 = 0
    OBVIOUS
  <2>1. \/ o \in {0, left - 4}
        \/ left > 8 /\ o \in {4, 8, left - 12, left - 8}
        \/ left > 24 /\ o \in {12, 16, 20, 24, left - 28, left - 24, left - 20, left - 16}
    BY Zenon
  <2>2. left > 8 => left >= 12
    BY ONLY <1>m
  <2>3. left > 24 => left >= 28
    BY ONLY <1>m
  <2>4. o \in Int /\ o >= 0 /\ o + 4 <= left
    BY ONLY <1>m, <2>1, <2>2, <2>3
  <2>5. o % 4 = 0
    BY ONLY <1>m, <2>1
  <2> QED BY ONLY <1>m, <2>4, <2>5, MultipleAdded
<1>3. /\ 0 \in inner /\ left - 4 \in inner
      /\ left > 8 => {4, 8, left - 12, left - 8} \subseteq inner
      /\ left > 24 => {12, 16, 20, 24, left - 28, left - 24, left - 20, left - 16} \subseteq inner
  OBVIOUS
<1> HIDE DEF inner
<1>4. \A o \in ends : /\ o \in Int /\ (given.dest + o) % 4 = 0
                      /\ \A x \in Int : x \in o..o + 4 - 1 => x \in 0..n - 1
  <2> SUFFICES ASSUME NEW i \in inner
               PROVE  /\ to + i \in Int /\ (given.dest + (to + i)) % 4 = 0
                      /\ \A x \in Int : x \in to + i..(to + i) + 4 - 1 => x \in 0..n - 1
    OBVIOUS
  <2>1. i \in Int /\ i >= 0 /\ i + 4 <= left
    BY <1>2
  <2>2. (given.dest + (to + i)) % 4 = 0
    BY <1>2
  <2>3. \A x \in Int : x \in to + i..(to + i) + 4 - 1 => x \in 0..n - 1
    BY ONLY <1>m, <2>1
  <2> QED BY <1>m, <2>1, <2>2, <2>3
<1>5. /\ aligned' = TRUE
      /\ stored' \in [Offsets -> Int]
      /\ \A x \in Offsets : stored'[x] = -1 \/ (x \in 0..n - 1 /\ stored'[x] = x)
      /\ \A x \in 0..n - 1 : stored[x] = x => stored'[x] = x
      /\ \A o \in ends : \A x \in 0..n - 1 : x \in o..o + 4 - 1 => stored'[x] = x
  <2> HIDE DEF ends
  <2>1. FillReady(ends, 4, n)
    BY <1>0, <1>4 DEF FillReady
  <2>2. FillLeaves(ends, 4, n)
    BY <1>1, <2>1, FillStep
  <2> QED BY <2>2 DEF FillLeaves
<1>6. \A i \in inner : \A x \in 0..n - 1 : x \in to + i..to + i + 3 => stored'[x] = x
  <2> SUFFICES ASSUME NEW i \in inner, NEW x \in 0..n - 1, x \in to + i..to + i + 3
               PROVE  stored'[x] = x
    OBVIOUS
  <2>1. to + i \in ends
    OBVIOUS
  <2>2. to + i + 3 = (to + i) + 4 - 1
    BY <1>0, <1>2
  <2> HIDE DEF ends
  <2> QED BY <1>5, <2>1, <2>2
<1> HIDE DEF ends
<1>7. \A x \in 0..n - 1 : x < to \/ x >= to + left => stored'[x] = x
  <2> SUFFICES ASSUME NEW x \in 0..n - 1, x < to \/ x >= to + left
               PROVE  stored'[x] = x
    OBVIOUS
  <2>1. x \in 0..3 \cup n - 4..n - 1
    BY ONLY <1>m, x \in 0..n - 1, x < to \/ x >= to + left
  <2> QED BY <1>0, <1>5, <2>1
<1>8. CASE left <= 24
  <2>1. place' = "done" /\ to' = to /\ left' = left
    BY <1>1, <1>8
  <2>2. ASSUME NEW x \in 0..n - 1 PROVE stored'[x] = x
    <3>1. CASE x < to \/ x >= to + left
      BY <1>7, <3>1
    <3>2. CASE x >= to /\ x < to + left /\ left <= 8
      <4>1. \E i \in {0, left - 4} : x \in to + i..to + i + 3
        BY <1>0, <3>2
      <4> QED BY <1>3, <1>6, <4>1
    <3>3. CASE x >= to /\ x < to + left /\ left > 8
      <4>1. \E i \in {0, 4, 8, left - 12, left - 8, left - 4} : x \in to + i..to + i + 3
        BY <1>0, <1>8, <3>3
      <4>2. {0, 4, 8, left - 12, left - 8, left - 4} \subseteq inner
        BY <1>3, <3>3
      <4> QED BY <1>6, <4>1, <4>2
    <3> QED BY <1>0, <3>1, <3>2, <3>3
  <2> QED BY <1>0, <1>5, <2>1, <2>2 DEF MemsetInv, n
<1>9. CASE ~(left <= 24)
  <2> DEFINE skip == SkippedBySet
  <2>1. to' = to + skip /\ left' = left - skip /\ place' = "double"
    BY <1>1, <1>9
  <2>2. skip \in {24, 28} /\ (given.dest + (to + skip)) % 8 = 0
    BY ONLY <1>m, SkippedToEight DEF SkippedBySet, skip
  <2> HIDE DEF skip
  <2>3. left >= 28
    BY ONLY <1>m, <1>9
  <2>4. /\ to' \in Nat /\ left' \in Nat /\ left' % 4 = 0 /\ to' + left' = to + left
        /\ (given.dest + to') % 8 = 0
    BY ONLY <1>m, <2>1, <2>2, <2>3
  <2>5. ASSUME NEW x \in 0..n - 1, x < to' \/ x >= to' + left' - 28
        PROVE  stored'[x] = x
    <3>0. {0, 4, 8, 12, 16, 20, 24, left - 28, left - 24, left - 20, left - 16, left - 12,
           left - 8, left - 4} \subseteq inner
      BY <1>0, <1>3, <1>9
    <3>1. CASE x < to \/ x >= to + left
      BY <1>7, <3>1
    <3>2. CASE x >= to /\ x < to'
      <4>1. \E i \in {0, 4, 8, 12, 16, 20, 24} : x \in to + i..to + i + 3
        BY <1>0, <2>1, <2>2, <3>2
      <4> QED BY <1>6, <3>0, <4>1
    <3>3. CASE x >= to + left - 28 /\ x < to + left
      <4>1. \E i \in {left - 28, left - 24, left - 20, left - 16, left - 12, left - 8, left - 4} :
               x \in to + i..to + i + 3
        BY <1>0, <3>3
      <4> QED BY <1>6, <3>0, <4>1
    <3>4. n \in Nat /\ to \in Nat /\ left \in Nat /\ to' \in Nat /\ left' \in Nat
      BY ONLY <1>m, <2>4, Zenon
    <3>5. to' + left' = to + left
      BY ONLY <2>4, Zenon
    <3>6. x \in Int
      BY <3>4
    <3>7. x < to' => x < to \/ (x >= to /\ x < to')
      BY ONLY <3>4, <3>6
    <3>8. x >= to' + left' - 28 =>
            x >= to + left \/ (x >= to + left - 28 /\ x < to + left)
      <4>1. to' + left' - 28 = to + left - 28
        <5>1. \A a, b \in Nat : a + b - 28 = (a + b) - 28
          OBVIOUS
        <5>2. (to' + left') - 28 = (to + left) - 28
          BY ONLY <3>5, Zenon
        <5> QED BY ONLY <3>4, <5>1, <5>2, Zenon
      <4>2. x < to + left \/ x >= to + left
        BY ONLY <3>4, <3>6
      <4> QED BY ONLY <4>1, <4>2, Zenon
    <3> QED BY ONLY <2>5, <3>1, <3>2, <3>3, <3>7, <3>8, Zenon
  <2>6. to' + left' <= n
    BY <1>0, <2>4
  <2> QED BY <1>0, <1>5, <2>1, <2>4, <2>5, <2>6 DEF MemsetInv, n
<1> QED BY ONLY <1>5, <1>8, <1>9

\* MemsetDouble: 32 bytes at a time, up to what the words at the end have filled.
LEMMA MemsetDoubleInv ==
    ASSUME MemsetInv, aligned = TRUE, MemsetDouble
    PROVE  MemsetInv' /\ aligned' = TRUE
<1> DEFINE n == given.n
           four == {to, to + 8, to + 16, to + 24}
<1>0. /\ given.dest \in Nat /\ n \in Nat /\ n <= MaxMem /\ given \in MemsetArgs
      /\ place = "double" /\ given' = given
      /\ stored \in [Offsets -> Int]
      /\ \A x \in Offsets : stored[x] = -1 \/ (x \in 0..n - 1 /\ stored[x] = x)
      /\ to \in Nat /\ left \in Nat /\ to + left <= n
      /\ (given.dest + to) % 8 = 0 /\ left % 4 = 0
      /\ \A x \in 0..n - 1 : x < to \/ x >= to + left - 28 => stored[x] = x
  BY MemsetTypes DEF MemsetInv, MemsetDouble
<1>1. CASE SetLoopEnds
  <2>1. place' = "done" /\ to' = to /\ left' = left /\ stored' = stored /\ aligned' = aligned
    BY <1>1 DEF MemsetDouble
  <2>2. left <= 28
    <3>1. left \in Nat /\ left % 4 = 0
      BY ONLY <1>0, Zenon
    <3> QED BY ONLY <3>1, <1>1 DEF SetLoopEnds
  <2>3. \A x \in 0..n - 1 : stored[x] = x
    BY <1>0, <2>2
  <2> QED BY <1>0, <2>1, <2>3 DEF MemsetInv
<1>2. CASE ~SetLoopEnds
  <2>1. Fill(four, 8) /\ to' = to + 32 /\ left' = left - 32 /\ place' = "double"
    BY <1>0, <1>2 DEF MemsetDouble
  <2>m. /\ given.dest \in Nat /\ n \in Nat /\ to \in Nat /\ left \in Nat /\ to + left <= n
        /\ (given.dest + to) % 8 = 0 /\ left % 4 = 0
    BY ONLY <1>0, Zenon
  <2> HIDE DEF n
  <2>2. left >= 32
    BY <2>m, <1>2 DEF SetLoopEnds
  <2>3. /\ (given.dest + (to + 8)) % 8 = 0 /\ (given.dest + (to + 16)) % 8 = 0
        /\ (given.dest + (to + 24)) % 8 = 0 /\ (given.dest + (to + 32)) % 8 = 0
        /\ (left - 32) % 4 = 0
    BY ONLY <2>m
  <2>4. \A o \in four : /\ o \in Int /\ (given.dest + o) % 8 = 0
                        /\ \A x \in Int : x \in o..o + 8 - 1 => x \in 0..n - 1
    BY ONLY <2>m, <2>2, <2>3
  <2>5. FillReady(four, 8, n)
    BY ONLY <1>0, <2>4 DEF FillReady
  <2>6. FillLeaves(four, 8, n)
    BY <2>1, <2>5, FillStep
  <2>7. /\ aligned' = TRUE
        /\ stored' \in [Offsets -> Int]
        /\ \A x \in Offsets : stored'[x] = -1 \/ (x \in 0..n - 1 /\ stored'[x] = x)
        /\ \A x \in 0..n - 1 : stored[x] = x => stored'[x] = x
        /\ \A o \in four : \A x \in 0..n - 1 : x \in o..o + 8 - 1 => stored'[x] = x
    BY <2>6 DEF FillLeaves
  <2>8. ASSUME NEW x \in 0..n - 1, x < to' \/ x >= to' + left' - 28
        PROVE  stored'[x] = x
    <3>1. CASE x >= to /\ x < to'
      <4>1. \E o \in four : x \in o..o + 8 - 1
        BY <2>m, <2>1, <3>1
      <4> QED BY <2>7, <4>1
    <3>2. CASE x < to \/ x >= to + left - 28
      BY <1>0, <2>7, <3>2
    <3> QED BY ONLY <2>m, <2>1, <2>8, x \in 0..n - 1, <3>1, <3>2
  <2>9. /\ to' \in Nat /\ left' \in Nat /\ to' + left' <= n
        /\ (given.dest + to') % 8 = 0 /\ left' % 4 = 0
    BY ONLY <2>m, <2>1, <2>2, <2>3
  <2>10. MemsetInv'
    BY <1>0, <2>1, <2>7, <2>8, <2>9 DEF MemsetInv, n
  <2> QED BY <2>7, <2>10
<1> QED BY ONLY <1>1, <1>2, Zenon

-----------------------------------------------------------------------------
(* memchr                                                                  *)

\* The three loops of memchr.
LEMMA MemchrStepInv ==
    ASSUME MemchrInv, aligned = TRUE, Memchr
    PROVE  MemchrInv' /\ aligned' = TRUE
<1>a. given.src \in 0..3 /\ given.n \in 0..MaxChr /\ given.found \in SUBSET (0..MaxChr)
  BY DEF MemchrInv, MemchrArgs
<1>0. /\ given.src \in Nat /\ given.n \in Nat /\ \A o \in given.found : o \in Nat
      /\ given \in MemchrArgs /\ given' = given
      /\ from \in Nat /\ left \in Nat /\ from + left = given.n
      /\ \A o \in given.found : o >= from
  BY <1>a DEF MemchrInv, Memchr
<1>b. aligned' = (aligned /\ (place = "words" /\ place' = "words" =>
                                 (given.src + from) % 4 = 0))
  BY DEF Memchr
<1>1. CASE place = "start"
  <2>0. place # "words"
    BY <1>1
  <2>1. aligned' = TRUE
    BY <1>b, <2>0, Zenon
  <2>2. CASE (given.src + from) % 4 # 0 /\ left > 0 /\ from \notin given.found
    <3>1. from' = from + 1 /\ left' = left - 1 /\ place' = "start"
      BY <1>1, <2>2 DEF Memchr
    <3>2. \A o \in given.found : o >= from + 1
      BY <1>0, <2>2
    <3> QED BY <1>0, <2>1, <2>2, <3>1, <3>2 DEF MemchrInv
  <2>3. CASE ~((given.src + from) % 4 # 0 /\ left > 0 /\ from \notin given.found)
    <3>1. from' = from /\ left' = left /\ place' = "words"
      BY <1>1, <2>3 DEF Memchr
    <3>2. (given.src + from) % 4 = 0 \/ left = 0 \/ from \in given.found
      BY <1>0, <2>3
    <3> QED BY <1>0, <2>1, <3>1, <3>2 DEF MemchrInv
  <2> QED BY ONLY <2>2, <2>3
<1>2. CASE place = "words"
  <2>2. CASE (left > 0 /\ from \in given.found) \/ WordStops
    <3>1. from' = from /\ left' = left /\ place' = "bytes"
      BY <1>2, <2>2 DEF Memchr
    <3>0. place' # "words"
      BY <3>1
    <3>2. aligned' = TRUE
      BY <1>b, <3>0, Zenon
    <3> QED BY <1>0, <3>1, <3>2 DEF MemchrInv
  <2>3. CASE ~((left > 0 /\ from \in given.found) \/ WordStops)
    <3>1. from' = from + 4 /\ left' = left - 4 /\ place' = "words"
      BY <1>2, <2>3 DEF Memchr
    <3>2. left >= 4 /\ given.found \cap (from..from + 3) = {} /\ from \notin given.found
      BY <1>0, <2>3 DEF WordStops
    <3>3. (given.src + from) % 4 = 0
      BY <1>0, <1>2, <3>2 DEF MemchrInv
    <3>4. aligned' = TRUE
      BY <1>b, <3>3
    <3>5. (given.src + (from + 4)) % 4 = 0
      BY ONLY <1>0, <3>3, FourFurther
    <3>6. \A o \in given.found : o >= from + 4
      BY <1>0, <3>2
    <3> QED BY <1>0, <3>1, <3>2, <3>4, <3>5, <3>6 DEF MemchrInv
  <2> QED BY ONLY <2>2, <2>3
<1>3. CASE place = "bytes"
  <2>0. place # "words"
    BY <1>3
  <2>1. aligned' = TRUE
    BY <1>b, <2>0, Zenon
  <2>2. CASE left > 0 /\ from \notin given.found
    <3>1. from' = from + 1 /\ left' = left - 1 /\ place' = "bytes"
      BY <1>3, <2>2 DEF Memchr
    <3>2. \A o \in given.found : o >= from + 1
      BY <1>0, <2>2
    <3> QED BY <1>0, <2>1, <2>2, <3>1, <3>2 DEF MemchrInv
  <2>3. CASE ~(left > 0 /\ from \notin given.found)
    <3>1. /\ from' = from /\ left' = left /\ place' = "done"
          /\ answer' = <<IF left > 0 THEN from ELSE NULL>>
      BY <1>3, <2>3 DEF Memchr
    <3> QED BY <1>0, <2>1, <2>3, <3>1 DEF MemchrInv
  <2> QED BY ONLY <2>2, <2>3
<1> QED BY <1>1, <1>2, <1>3 DEF Memchr

-----------------------------------------------------------------------------
(* wcrtomb                                                                 *)

\* A code point below 2^21 is its digits of six bits, and each is a following byte.
LEMMA SixBits ==
    ASSUME NEW c \in Nat
    PROVE  /\ c = (c \div 64) * 64 + (c % 64)
           /\ c \div 64 = (c \div 4096) * 64 + ((c \div 64) % 64)
           /\ c \div 4096 = (c \div 262144) * 64 + ((c \div 4096) % 64)
           /\ c % 64 \in 0..63 /\ (c \div 64) % 64 \in 0..63 /\ (c \div 4096) % 64 \in 0..63
           /\ c \div 64 \in Nat /\ c \div 4096 \in Nat /\ c \div 262144 \in Nat
<1>1. (c \div 64) \div 64 = c \div 4096 /\ c \div 64 \in Nat
  OBVIOUS
<1>2. (c \div 4096) \div 64 = c \div 262144 /\ c \div 4096 \in Nat /\ c \div 262144 \in Nat
  OBVIOUS
<1>3. \A a \in Nat : a = (a \div 64) * 64 + (a % 64) /\ a % 64 \in 0..63
  OBVIOUS
<1> QED BY <1>1, <1>2, <1>3, SMT

\* The five cases of wcrtomb.
LEMMA OneByte == ASSUME NEW wc \in Nat, wc < 128 PROVE Encoded(wc) = <<wc>>
BY SMTT(20) DEF Encoded

\* wcrtomb writes two bytes for a character below 2048.
LEMMA TwoBytes ==
    ASSUME NEW wc \in Nat, wc >= 128, wc < 2048
    PROVE  Encoded(wc) = <<192 + wc \div 64, Following(wc)>>
BY SMTT(20) DEF Encoded

\* wcrtomb writes three bytes below 65536, for what is no surrogate.
LEMMA ThreeBytes ==
    ASSUME NEW wc \in Nat, wc >= 2048, IsThree(wc)
    PROVE  Encoded(wc) = <<224 + wc \div 4096, Following(wc \div 64), Following(wc)>>
BY SMT DEF Encoded

\* wcrtomb writes four bytes for the other code points.
LEMMA FourBytes ==
    ASSUME NEW wc \in Nat, wc >= 2048, ~IsThree(wc), wc >= 65536, wc - 65536 < 1048576
    PROVE  Encoded(wc) = <<240 + wc \div 262144, Following(wc \div 4096),
                           Following(wc \div 64), Following(wc)>>
BY SMT DEF Encoded

\* wcrtomb writes nothing for what is no code point.
LEMMA NoBytes ==
    ASSUME NEW wc \in Nat, wc >= 2048, ~IsThree(wc), ~(wc >= 65536 /\ wc - 65536 < 1048576)
    PROVE  Encoded(wc) = <<>>
BY SMT DEF Encoded

\* Three bytes are used for no surrogate and for nothing above the last code point.
LEMMA NoSurrogate ==
    ASSUME NEW wc \in Nat, IsThree(wc)
    PROVE  ~(IsSurrogate(wc) \/ wc > 1114111)
BY SMT DEF IsThree, IsSurrogate

\* What a sequence of bytes says that must be read back as wc.
DecodesTo(e, wc) ==
    e # <<>> /\ Decoded(e) = wc /\ \A i \in 2..Len(e) : e[i] \in 128..191

\* The bytes of each length, for the digits of a code point, are read back.
LEMMA ReadOne == ASSUME NEW wc \in Nat PROVE DecodesTo(<<wc>>, wc)
BY SMT DEF DecodesTo, Decoded

\* The two bytes of a character, read back as UTF-8.
LEMMA ReadTwo ==
    ASSUME NEW x \in Nat, NEW a \in 0..63
    PROVE  DecodesTo(<<192 + x, 128 + a>>, x * 64 + a)
<1> DEFINE e == <<192 + x, 128 + a>>
<1>1. Len(e) = 2 /\ e[1] = 192 + x /\ e[2] = 128 + a /\ e # <<>>
  BY SMT
<1> HIDE DEF e
<1>2. Decoded(e) = (e[1] - 192) * 64 + e[2] - 128
  BY <1>1, SMT DEF Decoded
<1>3. Decoded(e) = x * 64 + a
  BY <1>1, <1>2, SMT
<1>4. ASSUME NEW i \in 2..Len(e) PROVE e[i] \in 128..191
  <2>1. i = 2
    BY <1>1, SMT
  <2>2. e[2] \in 128..191
    BY <1>1, SMT
  <2> QED BY ONLY <2>1, <2>2, SMT
<1> QED BY <1>1, <1>3, <1>4, SMT DEF DecodesTo, e

\* The three bytes of a character, read back as UTF-8.
LEMMA ReadThree ==
    ASSUME NEW y \in Nat, NEW a \in 0..63, NEW b \in 0..63
    PROVE  DecodesTo(<<224 + y, 128 + b, 128 + a>>, (y * 64 + b) * 64 + a)
<1> DEFINE e == <<224 + y, 128 + b, 128 + a>>
<1>1. Len(e) = 3 /\ e[1] = 224 + y /\ e[2] = 128 + b /\ e[3] = 128 + a /\ e # <<>>
  BY SMT
<1> HIDE DEF e
<1>2. Decoded(e) = (e[1] - 224) * 4096 + (e[2] - 128) * 64 + e[3] - 128
  BY <1>1, SMT DEF Decoded
<1>3. Decoded(e) = (y * 64 + b) * 64 + a
  BY <1>1, <1>2, SMT
<1>4. ASSUME NEW i \in 2..Len(e) PROVE e[i] \in 128..191
  <2>1. i = 2 \/ i = 3
    BY <1>1, SMT
  <2>2. e[2] \in 128..191 /\ e[3] \in 128..191
    BY <1>1, SMT
  <2> QED BY ONLY <2>1, <2>2, SMT
<1> QED BY <1>1, <1>3, <1>4, SMT DEF DecodesTo, e

\* The four bytes of a character, read back as UTF-8.
LEMMA ReadFour ==
    ASSUME NEW z \in Nat, NEW a \in 0..63, NEW b \in 0..63, NEW c \in 0..63
    PROVE  DecodesTo(<<240 + z, 128 + c, 128 + b, 128 + a>>,
                    ((z * 64 + c) * 64 + b) * 64 + a)
<1> DEFINE e == <<240 + z, 128 + c, 128 + b, 128 + a>>
<1>1. /\ Len(e) = 4 /\ e[1] = 240 + z /\ e[2] = 128 + c /\ e[3] = 128 + b /\ e[4] = 128 + a
      /\ e # <<>>
  BY SMT
<1> HIDE DEF e
<1>2. Decoded(e) = (e[1] - 240) * 262144 + (e[2] - 128) * 4096 + (e[3] - 128) * 64
                     + e[4] - 128
  BY <1>1, SMT DEF Decoded
<1>3. Decoded(e) = ((z * 64 + c) * 64 + b) * 64 + a
  BY <1>1, <1>2, SMT
<1>4. ASSUME NEW i \in 2..Len(e) PROVE e[i] \in 128..191
  <2>1. i = 2 \/ i = 3 \/ i = 4
    BY <1>1, SMT
  <2>2. e[2] \in 128..191 /\ e[3] \in 128..191 /\ e[4] \in 128..191
    BY <1>1, SMT
  <2> QED BY ONLY <2>1, <2>2, Zenon
<1> QED BY <1>1, <1>3, <1>4, SMT DEF DecodesTo, e

\* Every code point but the surrogates can be read back, and nothing else is encoded.
LEMMA EncodedDecodes ==
    ASSUME NEW wc \in Nat
    PROVE  IF IsSurrogate(wc) \/ wc > 1114111 THEN Encoded(wc) = <<>>
           ELSE DecodesTo(Encoded(wc), wc)
<1> DEFINE a == wc % 64
           b == (wc \div 64) % 64
           c == (wc \div 4096) % 64
           x == wc \div 64
           y == wc \div 4096
           z == wc \div 262144
<1>0. /\ wc = x * 64 + a /\ x = y * 64 + b /\ y = z * 64 + c
      /\ a \in 0..63 /\ b \in 0..63 /\ c \in 0..63
      /\ x \in Nat /\ y \in Nat /\ z \in Nat
  BY SixBits, SMT
<1>e. Following(wc) = 128 + a /\ Following(x) = 128 + b /\ Following(y) = 128 + c
  BY SMT DEF Following
<1>1. CASE wc < 128
  <2>1. Encoded(wc) = <<wc>> /\ DecodesTo(<<wc>>, wc)
    BY <1>1, OneByte, ReadOne, SMT
  <2>2. ~(IsSurrogate(wc) \/ wc > 1114111)
    BY <1>1, SMT DEF IsSurrogate
  <2> QED BY <2>1, <2>2, SMT
<1>2. CASE wc >= 128 /\ wc < 2048
  <2>1. Encoded(wc) = <<192 + x, Following(wc)>>
    BY <1>2, TwoBytes, SMT
  <2>2. ~(IsSurrogate(wc) \/ wc > 1114111)
    BY <1>2, SMT DEF IsSurrogate
  <2> HIDE DEF a, b, c, x, y, z
  <2>3. DecodesTo(<<192 + x, 128 + a>>, wc)
    <3>1. wc = x * 64 + a /\ x \in Nat /\ a \in 0..63
      BY ONLY <1>0, SMT
    <3>2. DecodesTo(<<192 + x, 128 + a>>, x * 64 + a)
      BY ONLY <3>1, ReadTwo, Zenon
    <3> QED BY ONLY <3>1, <3>2, SMT
  <2> QED BY ONLY <1>e, <2>1, <2>2, <2>3, SMT
<1>3. CASE wc >= 2048 /\ IsThree(wc)
  <2>1. Encoded(wc) = <<224 + y, Following(x), Following(wc)>>
    BY <1>3, ThreeBytes, SMT
  <2>2. ~(IsSurrogate(wc) \/ wc > 1114111)
    BY <1>3, NoSurrogate, SMT
  <2> HIDE DEF a, b, c, x, y, z
  <2>3. DecodesTo(<<224 + y, 128 + b, 128 + a>>, wc)
    <3>1. wc = (y * 64 + b) * 64 + a
      BY ONLY <1>0, SMT
    <3>2. y \in Nat /\ a \in 0..63 /\ b \in 0..63
      BY ONLY <1>0, SMT
    <3>3. DecodesTo(<<224 + y, 128 + b, 128 + a>>, (y * 64 + b) * 64 + a)
      BY ONLY <3>2, ReadThree, Zenon
    <3> QED BY ONLY <3>1, <3>3, SMT
  <2> QED BY ONLY <1>e, <2>1, <2>2, <2>3, SMT
<1>4. CASE wc >= 2048 /\ ~IsThree(wc) /\ wc >= 65536 /\ wc - 65536 < 1048576
  <2>1. Encoded(wc) = <<240 + z, Following(y), Following(x), Following(wc)>>
    BY <1>4, FourBytes, SMT
  <2>2. ~(IsSurrogate(wc) \/ wc > 1114111)
    BY <1>4, SMT DEF IsSurrogate
  <2> HIDE DEF a, b, c, x, y, z
  <2>3. DecodesTo(<<240 + z, 128 + c, 128 + b, 128 + a>>, wc)
    <3>1. wc = ((z * 64 + c) * 64 + b) * 64 + a
      BY ONLY <1>0, SMT
    <3>2. DecodesTo(<<240 + z, 128 + c, 128 + b, 128 + a>>, ((z * 64 + c) * 64 + b) * 64 + a)
      BY ONLY <1>0, ReadFour, Zenon
    <3> QED BY ONLY <3>1, <3>2, SMT
  <2> QED BY ONLY <1>e, <2>1, <2>2, <2>3, SMT
<1>5. CASE wc >= 2048 /\ ~IsThree(wc) /\ ~(wc >= 65536 /\ wc - 65536 < 1048576)
  <2>1. IsSurrogate(wc) \/ wc > 1114111
    BY <1>5, SMT DEF IsThree, IsSurrogate
  <2> QED BY <1>5, <2>1, NoBytes, SMT
<1>6. wc < 128 \/ (wc >= 128 /\ wc < 2048) \/ wc >= 2048
  BY SMT
<1> QED BY ONLY <1>1, <1>2, <1>3, <1>4, <1>5, <1>6, SMT

-----------------------------------------------------------------------------
(* All four.                                                               *)

\* The functions start with the invariant.
LEMMA UserMemInitInv ==
    ASSUME NEW run \in BOOLEAN, UserMemInit(run)
    PROVE  MemInv
<1>0. /\ place = "start" /\ to = 0 /\ from = 0 /\ left = given.n /\ ahead = <<>>
      /\ stored = Untouched /\ aligned = TRUE
  BY DEF UserMemInit
<1>1. /\ fn = "memcpy" => given \in MemcpyArgs
      /\ fn = "memset" => given \in MemsetArgs
      /\ fn = "memchr" => given \in MemchrArgs
      /\ fn = "wcrtomb" => given \in WideArgs
  BY DEF UserMemInit
<1>2. \A o \in Offsets : o \in Int
  BY UserMemAssumption DEF Offsets
<1>3. ASSUME fn = "memcpy" PROVE MemcpyInv
  <2>1. given \in MemcpyArgs /\ given.n \in Nat
    BY <1>1, <1>3, UserMemAssumption DEF MemcpyArgs
  <2>2. stored = CopiedUpTo(0)
    BY <1>0, <1>2 DEF Untouched, CopiedUpTo
  <2> QED BY <1>0, <2>1, <2>2, TailsAre DEF MemcpyInv, Counting
<1>4. ASSUME fn = "memset" PROVE MemsetInv
  <2>1. given \in MemsetArgs /\ given.n \in Nat
    BY <1>1, <1>4, UserMemAssumption DEF MemsetArgs
  <2>2. stored \in [Offsets -> Int] /\ \A x \in Offsets : stored[x] = -1
    BY <1>0 DEF Untouched
  <2> QED BY <1>0, <2>1, <2>2 DEF MemsetInv
<1>5. ASSUME fn = "memchr" PROVE MemchrInv
  <2>1. given \in MemchrArgs /\ given.n \in 0..MaxChr /\ given.found \in SUBSET (0..MaxChr)
    BY <1>1, <1>5 DEF MemchrArgs
  <2>2. given.n \in Nat /\ \A o \in given.found : o >= 0
    BY <2>1, UserMemAssumption
  <2> QED BY <1>0, <2>1, <2>2 DEF MemchrInv
<1> QED BY <1>0, <1>1, <1>3, <1>4, <1>5 DEF MemInv, WcrtombInv

\* Every step keeps it.
LEMMA UserMemNextInv ==
    ASSUME MemInv, UserMemNext
    PROVE  MemInv'
<1>0. aligned = TRUE
  BY DEF MemInv
<1>1. CASE MemcpyHead
  <2>1. fn = "memcpy" /\ fn' = fn
    BY <1>1, Zenon DEF MemcpyHead
  <2> QED BY <1>0, <1>1, <2>1, MemcpyHeadInv DEF MemInv
<1>2. CASE MemcpyWords
  <2>1. fn = "memcpy" /\ fn' = fn
    BY <1>2, Zenon DEF MemcpyWords
  <2> QED BY <1>0, <1>2, <2>1, MemcpyWordsInv DEF MemInv
<1>3. CASE MemcpySkew
  <2>1. fn = "memcpy" /\ fn' = fn
    BY <1>3, Zenon DEF MemcpySkew
  <2> QED BY <1>0, <1>3, <2>1, MemcpySkewInv DEF MemInv
<1>4. CASE MemcpyShift
  <2>1. fn = "memcpy" /\ fn' = fn
    BY <1>4, Zenon DEF MemcpyShift
  <2> QED BY <1>0, <1>4, <2>1, MemcpyShiftInv DEF MemInv
<1>5. CASE MemcpyTail
  <2>1. fn = "memcpy" /\ fn' = fn
    BY <1>5, Zenon DEF MemcpyTail
  <2> QED BY <1>0, <1>5, <2>1, MemcpyTailInv DEF MemInv
<1>6. CASE MemsetBytes
  <2>1. fn = "memset" /\ fn' = fn
    BY <1>6, Zenon DEF MemsetBytes
  <2> QED BY <1>0, <1>6, <2>1, MemsetBytesInv DEF MemInv
<1>7. CASE MemsetWords
  <2>1. fn = "memset" /\ fn' = fn
    BY <1>7, Zenon DEF MemsetWords
  <2> QED BY <1>0, <1>7, <2>1, MemsetWordsInv DEF MemInv
<1>8. CASE MemsetDouble
  <2>1. fn = "memset" /\ fn' = fn
    BY <1>8, Zenon DEF MemsetDouble
  <2> QED BY <1>0, <1>8, <2>1, MemsetDoubleInv DEF MemInv
<1>9. CASE Memchr
  <2>1. fn = "memchr" /\ fn' = fn
    BY <1>9, Zenon DEF Memchr
  <2> QED BY <1>0, <1>9, <2>1, MemchrStepInv DEF MemInv
<1>10. CASE wcrtomb
  BY <1>0, <1>10 DEF MemInv, wcrtomb, WcrtombInv
<1> QED BY <1>1, <1>2, <1>3, <1>4, <1>5, <1>6, <1>7, <1>8, <1>9, <1>10 DEF UserMemNext

\* It gives what the functions promise.
LEMMA MemInvRight == MemInv => BytesRight
<1> SUFFICES ASSUME MemInv PROVE BytesRight
  OBVIOUS
<1>1. MemcpyCopies
  <2> SUFFICES ASSUME fn = "memcpy", place = "done", NEW o \in Offsets
               PROVE  stored[o] = IF o \in 0..given.n - 1 THEN o ELSE -1
    BY DEF MemcpyCopies
  <2>1. stored = CopiedUpTo(given.n)
    BY DEF MemInv, MemcpyInv
  <2> QED BY <2>1 DEF CopiedUpTo
<1>2. MemsetFills
  <2> SUFFICES ASSUME fn = "memset", place = "done", NEW o \in Offsets
               PROVE  stored[o] = IF o \in 0..given.n - 1 THEN o ELSE -1
    BY DEF MemsetFills
  <2>1. /\ stored[o] = -1 \/ (o \in 0..given.n - 1 /\ stored[o] = o)
        /\ \A x \in 0..given.n - 1 : stored[x] = x
    BY DEF MemInv, MemsetInv
  <2> QED BY <2>1, Zenon
<1>3. MemchrFinds
  <2> DEFINE hits == {o \in given.found : o < given.n}
  <2> SUFFICES ASSUME fn = "memchr", place = "done"
               PROVE  answer = <<IF hits = {} THEN NULL
                                 ELSE CHOOSE o \in hits : \A p \in hits : o <= p>>
    BY DEF MemchrFinds
  <2>0. MemchrInv
    BY DEF MemInv
  <2>1. given.n \in 0..MaxChr /\ given.found \in SUBSET (0..MaxChr)
    BY <2>0 DEF MemchrInv, MemchrArgs
  <2>2. /\ given.n \in Nat /\ \A o \in given.found : o \in Nat
        /\ from \in Nat /\ left \in Nat /\ from + left = given.n
        /\ \A o \in given.found : o >= from
        /\ left > 0 => from \in given.found
        /\ answer = <<IF left > 0 THEN from ELSE NULL>>
    BY <2>0, <2>1, UserMemAssumption DEF MemchrInv
  <2>3. CASE left > 0
    <3>1. from \in hits /\ \A p \in hits : from <= p
      BY <2>2, <2>3
    <3>2. \A o \in hits : (\A p \in hits : o <= p) => o = from
      BY <2>2, <3>1
    <3> HIDE DEF hits
    <3>3. (CHOOSE o \in hits : \A p \in hits : o <= p) = from
      BY ONLY <3>1, <3>2
    <3> QED BY <2>2, <2>3, <3>1, <3>3
  <2>4. CASE ~(left > 0)
    <3>1. hits = {}
      BY <2>2, <2>4
    <3> QED BY <2>2, <2>4, <3>1
  <2> QED BY ONLY <2>3, <2>4
<1>4. WcrtombDecodes
  <2> SUFFICES ASSUME fn = "wcrtomb", place = "done" PROVE WcrtombDecodes
    BY DEF WcrtombDecodes
  <2>1. answer = Encoded(given.wc) /\ given.wc \in Nat
    BY UserMemAssumption DEF MemInv, WcrtombInv, WideArgs
  <2>2. IF IsSurrogate(given.wc) \/ given.wc > 1114111 THEN answer = <<>>
        ELSE DecodesTo(answer, given.wc)
    <3>1. \A wc \in Nat : IF IsSurrogate(wc) \/ wc > 1114111 THEN Encoded(wc) = <<>>
                          ELSE DecodesTo(Encoded(wc), wc)
      BY EncodedDecodes, SMT
    <3>2. IF IsSurrogate(given.wc) \/ given.wc > 1114111 THEN Encoded(given.wc) = <<>>
          ELSE DecodesTo(Encoded(given.wc), given.wc)
      BY ONLY <2>1, <3>1, SMT
    <3> QED BY ONLY <2>1, <3>2, SMT
  <2> QED BY ONLY <2>2, SMT DEF WcrtombDecodes, DecodesTo
<1>5. WordsAligned
  BY DEF MemInv, WordsAligned
<1> QED BY <1>1, <1>2, <1>3, <1>4, <1>5 DEF BytesRight

-----------------------------------------------------------------------------
(* FlattenSeq.                                                             *)

\* A set of natural numbers has a least element.
LEMMA LeastNumber ==
    ASSUME NEW T, T \subseteq Nat, T # {}
    PROVE  \E x \in T : \A y \in T : x <= y
<1> DEFINE R == OpToRel(<, Nat)
<1>1. IsWellFoundedOn(R, Nat)
  BY NatLessThanWellFounded
<1>2. \A x, y \in Nat : x < y => <<x, y>> \in R
  BY DEF OpToRel
<1> HIDE DEF R
<1>3. PICK x \in T : \A y \in T : ~(<<y, x>> \in R)
  BY <1>1, WFMin
<1>4. ASSUME NEW y \in T PROVE x <= y
  <2>1. x \in Nat /\ y \in Nat
    OBVIOUS
  <2>2. ~(y < x)
    BY <1>2, <1>3, <2>1, Zenon
  <2> QED BY ONLY <2>1, <2>2, SMT
<1> QED BY <1>4, Zenon

\* What holds at n where it holds at every smaller number holds everywhere.
LEMMA StrongInduction ==
    ASSUME NEW T, \A n \in Nat : (\A m \in 0 .. n - 1 : m \in T) => n \in T
    PROVE  Nat \subseteq T
<1> DEFINE U == {k \in Nat : k \notin T}
<1>1. SUFFICES ASSUME U # {} PROVE FALSE
  OBVIOUS
<1>2. PICK x \in U : \A y \in U : x <= y
  <2>1. U \subseteq Nat /\ U # {}
    BY <1>1
  <2> HIDE DEF U
  <2> QED BY <2>1, LeastNumber
<1>3. \A m \in 0 .. x - 1 : m \in T
  BY <1>2
<1> QED BY <1>2, <1>3

\* The recursive function behind FlattenSeq, on the first n of the sequences.
IsFlat(g, seqs, n) ==
    g = [i \in 1 .. n |-> IF i = 1 THEN seqs[i] ELSE g[i - 1] \o seqs[i]]

\* Two sequences agree as far as n.
Agree(s, t, n) == \A i \in 1 .. n : s[i] = t[i]

\* Two of them agree where the sequences do.
LEMMA FlatUnique ==
    ASSUME NEW m \in Nat, NEW n \in Nat, NEW f, NEW g, NEW s, NEW t, NEW k \in Nat,
           IsFlat(f, s, m), IsFlat(g, t, n), k <= m, k <= n,
           Agree(s, t, k)
    PROVE  Agree(f, g, k)
<1> DEFINE T == {i \in Nat : i \in 1 .. k => f[i] = g[i]}
<1>1. /\ \A i \in 1 .. m : f[i] = IF i = 1 THEN s[i] ELSE f[i - 1] \o s[i]
      /\ \A i \in 1 .. n : g[i] = IF i = 1 THEN t[i] ELSE g[i - 1] \o t[i]
  BY Zenon DEF IsFlat
<1>2. ASSUME NEW i \in Nat, \A j \in 0 .. i - 1 : j \in T PROVE i \in T
  <2>1. SUFFICES ASSUME i \in 1 .. k PROVE f[i] = g[i]
    OBVIOUS
  <2>2. i \in 1 .. m /\ i \in 1 .. n /\ s[i] = t[i]
    BY <2>1 DEF Agree
  <2>3. CASE i = 1
    BY <1>1, <2>2, <2>3
  <2>4. CASE i # 1
    <3>1. i - 1 \in 0 .. i - 1 /\ i - 1 \in 1 .. k
      BY <2>1, <2>4
    <3>2. f[i - 1] = g[i - 1]
      BY <1>2, <3>1
    <3> QED BY <1>1, <2>2, <2>4, <3>2
  <2> QED BY <2>3, <2>4
<1> HIDE DEF T
<1>3. Nat \subseteq T
  BY <1>2, StrongInduction
<1> QED BY <1>3 DEF T, Agree

\* There is one for every length.
LEMMA FlatExists ==
    ASSUME NEW s
    PROVE  \A n \in Nat : \E g : IsFlat(g, s, n)
<1> DEFINE T == {n \in Nat : \E g : IsFlat(g, s, n)}
<1>1. ASSUME NEW n \in Nat, \A j \in 0 .. n - 1 : j \in T PROVE n \in T
  <2>1. CASE n = 0
    <3> DEFINE g == [i \in 1 .. n |-> 0]
    <3>1. IsFlat(g, s, n)
      BY <2>1 DEF IsFlat
    <3> QED BY <3>1
  <2>2. CASE n # 0
    <3>1. n - 1 \in T /\ n - 1 \in Nat
      BY <1>1, <2>2
    <3>2. PICK f : IsFlat(f, s, n - 1)
      BY <3>1
    <3>3. \A i \in 1 .. n - 1 : f[i] = IF i = 1 THEN s[i] ELSE f[i - 1] \o s[i]
      BY <3>2, Zenon DEF IsFlat
    <3> DEFINE new == IF n = 1 THEN s[n] ELSE f[n - 1] \o s[n]
               g == [i \in 1 .. n |-> IF i = n THEN new ELSE f[i]]
    <3> HIDE DEF new
    <3>4. g[n] = new /\ \A i \in 1 .. n - 1 : g[i] = f[i]
      BY <2>2
    <3>5. g = [i \in 1 .. n |-> g[i]]
      OBVIOUS
    <3> HIDE DEF g
    <3>6. ASSUME NEW i \in 1 .. n PROVE g[i] = IF i = 1 THEN s[i] ELSE g[i - 1] \o s[i]
      <4>1. i # 1 => i - 1 \in 1 .. n - 1
        OBVIOUS
      <4>2. i # 1 => g[i - 1] = f[i - 1]
        BY <3>4, <4>1
      <4>3. CASE i = n
        BY <3>4, <4>2, <4>3 DEF new
      <4>4. CASE i # n
        <5>1. i \in 1 .. n - 1
          BY <4>4
        <5> QED BY <3>3, <3>4, <4>2, <5>1
      <4> QED BY <4>3, <4>4
    <3>7. IsFlat(g, s, n)
      BY <3>5, <3>6 DEF IsFlat
    <3> QED BY <3>7
  <2> QED BY <2>1, <2>2
<1> HIDE DEF T
<1>2. Nat \subseteq T
  BY <1>1, StrongInduction
<1> QED BY <1>2 DEF T

\* FlattenSeq is the last value of that function.
LEMMA FlattenIsFlat ==
    ASSUME NEW s, Len(s) \in Nat \ {0}
    PROVE  \E g : IsFlat(g, s, Len(s)) /\ FlattenSeq(s) = g[Len(s)]
<1> DEFINE g == CHOOSE f : IsFlat(f, s, Len(s))
<1>1. FlattenSeq(s) = g[Len(s)]
  BY DEF FlattenSeq, IsFlat
<1>2. IsFlat(g, s, Len(s))
  BY FlatExists
<1> QED BY <1>1, <1>2

\* FlattenSeq of nothing, and of a sequence that is made one longer.
LEMMA FlattenAppend ==
    ASSUME NEW S, NEW s \in Seq(Seq(S)), NEW t \in Seq(S)
    PROVE  FlattenSeq(Append(s, t)) = IF s = <<>> THEN t ELSE FlattenSeq(s) \o t
<1> DEFINE a == Append(s, t)
<1>1. /\ a \in Seq(Seq(S)) /\ Len(a) = Len(s) + 1 /\ a[Len(s) + 1] = t
      /\ \A i \in 1 .. Len(s) : a[i] = s[i]
      /\ Len(s) \in Nat
  BY AppendProperties, LenProperties
<1> HIDE DEF a
<1>2. PICK g : IsFlat(g, a, Len(a)) /\ FlattenSeq(a) = g[Len(a)]
  BY <1>1, FlattenIsFlat
<1>3. \A i \in 1 .. Len(a) : g[i] = IF i = 1 THEN a[i] ELSE g[i - 1] \o a[i]
  BY <1>2, Zenon DEF IsFlat
<1>4. CASE s = <<>>
  <2>1. Len(s) = 0 /\ Len(a) = 1
    BY <1>1, <1>4
  <2> QED BY <1>1, <1>2, <1>3, <1>4, <2>1 DEF a
<1>5. CASE s # <<>>
  <2>1. Len(s) \in Nat \ {0}
    BY <1>5, EmptySeq
  <2>2. PICK f : IsFlat(f, s, Len(s)) /\ FlattenSeq(s) = f[Len(s)]
    BY <2>1, FlattenIsFlat
  <2>3. Len(s) \in 1 .. Len(s) /\ Len(s) <= Len(a)
    BY <1>1, <2>1
  <2>4. \A i \in 1 .. Len(s) : f[i] = g[i]
    <3>1. PICK m \in Nat, n \in Nat : m = Len(s) /\ n = Len(a)
      BY <1>1
    <3>2. \A i \in 1 .. Len(s) : s[i] = a[i]
      BY <1>1, Zenon
    <3>3. Agree(s, a, m)
      BY <3>1, <3>2, Zenon DEF Agree
    <3>4. m <= m /\ m <= n /\ Agree(s, a, m)
      BY <2>3, <3>1, <3>3
    <3>5. IsFlat(g, a, n) /\ IsFlat(f, s, m)
      BY <1>2, <2>2, <3>1
    <3>6. Agree(f, g, m)
      BY <3>4, <3>5, FlatUnique
    <3> QED BY <3>1, <3>6 DEF Agree
  <2>5. Len(a) \in 1 .. Len(a) /\ Len(a) # 1 /\ Len(a) - 1 = Len(s)
    BY <1>1, <2>1
  <2>6. g[Len(a)] = g[Len(s)] \o t
    BY <1>1, <1>3, <2>5
  <2> QED BY <1>2, <1>5, <2>2, <2>3, <2>4, <2>6 DEF a
<1> QED BY <1>4, <1>5

\* FlattenSeq of one sequence and of two.
LEMMA FlattenFew ==
    ASSUME NEW S
    PROVE  /\ FlattenSeq(<<>>) = <<>>
           /\ \A a \in Seq(S) : FlattenSeq(<<a>>) = a
           /\ \A a, b \in Seq(S) : FlattenSeq(<<a, b>>) = a \o b
<1>1. FlattenSeq(<<>>) = <<>>
  BY DEF FlattenSeq
<1>2. ASSUME NEW a \in Seq(S) PROVE FlattenSeq(<<a>>) = a
  <2>1. <<a>> = Append(<<>>, a) /\ <<>> \in Seq(Seq(S))
    OBVIOUS
  <2> QED BY <2>1, FlattenAppend
<1>3. ASSUME NEW a \in Seq(S), NEW b \in Seq(S) PROVE FlattenSeq(<<a, b>>) = a \o b
  <2>1. <<a, b>> = Append(<<a>>, b) /\ <<a>> \in Seq(Seq(S)) /\ <<a>> # <<>>
    OBVIOUS
  <2> QED BY <1>2, <2>1, FlattenAppend
<1> QED BY <1>1, <1>2, <1>3

\* How a sequence of sequences lies in what it is flattened to: the first i of them
\* are the first g[i] of it.
LEMMA FlatParts ==
    ASSUME NEW S, NEW s \in Seq(Seq(S)), s # <<>>
    PROVE  \E g : /\ FlattenSeq(s) = g[Len(s)]
                  /\ \A i \in 1 .. Len(s) : g[i] \in Seq(S)
                  /\ g[1] = s[1]
                  /\ \A i \in 2 .. Len(s) : g[i] = g[i - 1] \o s[i]
<1>1. Len(s) \in Nat \ {0} /\ \A i \in 1 .. Len(s) : s[i] \in Seq(S)
  BY EmptySeq, ElementOfSeq
<1>2. PICK g : IsFlat(g, s, Len(s)) /\ FlattenSeq(s) = g[Len(s)]
  BY <1>1, FlattenIsFlat
<1>3. \A i \in 1 .. Len(s) : g[i] = IF i = 1 THEN s[i] ELSE g[i - 1] \o s[i]
  BY <1>2, Zenon DEF IsFlat
<1> DEFINE T == {i \in Nat : i \in 1 .. Len(s) => g[i] \in Seq(S)}
<1>4. ASSUME NEW i \in Nat, \A j \in 0 .. i - 1 : j \in T PROVE i \in T
  <2>1. SUFFICES ASSUME i \in 1 .. Len(s) PROVE g[i] \in Seq(S)
    OBVIOUS
  <2>2. CASE i = 1
    BY <1>1, <1>3, <2>1, <2>2
  <2>3. CASE i # 1
    <3>1. i - 1 \in 0 .. i - 1 /\ i - 1 \in 1 .. Len(s)
      BY <2>1, <2>3
    <3>2. g[i - 1] \in Seq(S)
      BY <1>4, <3>1
    <3>3. g[i - 1] \o s[i] \in Seq(S)
      BY <1>1, <2>1, <3>2, ConcatProperties
    <3> QED BY <1>3, <2>1, <2>3, <3>3
  <2> QED BY <2>2, <2>3
<1> HIDE DEF T
<1>5. Nat \subseteq T
  BY <1>4, StrongInduction
<1>6. \A i \in 1 .. Len(s) : g[i] \in Seq(S)
  BY <1>5 DEF T
<1>7. g[1] = s[1]
  <2>1. 1 \in 1 .. Len(s)
    BY <1>1
  <2> QED BY <1>3, <2>1
<1>8. \A i \in 2 .. Len(s) : g[i] = g[i - 1] \o s[i]
  <2>1. \A i \in 2 .. Len(s) : i \in 1 .. Len(s) /\ i # 1
    OBVIOUS
  <2> QED BY <1>3, <2>1
<1> QED BY <1>2, <1>6, <1>7, <1>8

\* FlattenSeq is a sequence of the elements.
LEMMA FlattenType ==
    ASSUME NEW S, NEW s \in Seq(Seq(S))
    PROVE  FlattenSeq(s) \in Seq(S)
<1>1. CASE s = <<>>
  BY <1>1, FlattenFew, EmptySeq
<1>2. CASE s # <<>>
  <2>1. Len(s) \in 1 .. Len(s)
    BY <1>2, EmptySeq
  <2> QED BY <1>2, <2>1, FlatParts
<1> QED BY <1>1, <1>2

\* FlattenSeq of a sequence that is made one longer ends in what was added.
LEMMA FlattenGrows ==
    ASSUME NEW S, NEW s \in Seq(Seq(S)), NEW t \in Seq(S)
    PROVE  FlattenSeq(Append(s, t)) = FlattenSeq(s) \o t
<1>1. CASE s = <<>>
  <2>1. FlattenSeq(s) = <<>>
    BY <1>1, FlattenFew
  <2>2. <<>> \o t = t
    BY ConcatEmptySeq
  <2> QED BY <1>1, <2>1, <2>2, FlattenAppend
<1>2. CASE s # <<>>
  BY <1>2, FlattenAppend
<1> QED BY <1>1, <1>2

-----------------------------------------------------------------------------
(* The stream of stdout.                                                   *)

StreamByte == [call : Nat, at : Nat, nl : BOOLEAN]
StdioFile == [pending : Seq(StreamByte), room : 0 .. BUFSIZ, active : BOOLEAN, err : BOOLEAN]
Fwritten == [text : Seq(StreamByte), ret : Int, failed : BOOLEAN]

\* What has been taken, and what is on its way.
UnderWay == IF op.by = "nobody" THEN file.pending ELSE FlattenSeq(op.iov) \o op.rest
Stream == sent \o UnderWay

Before(a, b) == a.call < b.call \/ (a.call = b.call /\ a.at < b.at)
Ascending(s) == \A i, j \in 1 .. Len(s) : i < j => Before(s[i], s[j])

StdioTyped ==
    /\ file \in StdioFile
    /\ ~file.active => file.pending = <<>>
    /\ sent \in Seq(StreamByte)
    /\ calls \in Seq(Fwritten)
    /\ exiting \in BOOLEAN

\* A write that runs has two iovecs, the first of them the buffer, until the buffer
\* is gone and a part of the caller's bytes with it.
IovInv(o, f) ==
    /\ o.iov \in Seq(Seq(StreamByte)) /\ Len(o.iov) \in {1, 2} /\ o.len \in Nat
    /\ Len(o.iov) = 2 => Len(o.iov[2]) = o.len /\ f.pending = o.iov[1]
    /\ Len(o.iov) = 1 => o.iov[1] # <<>> /\ Len(o.iov[1]) <= o.len /\ f.pending = <<>>

\* What the write is a part of: fwrite of a text that does not fit, or of a text
\* whose lines are written and whose rest is kept.
CallerInv(o, c) ==
    /\ ~c.failed /\ c.ret = Len(c.text) /\ o.len > 0
    /\ o.len + Len(o.rest) = Len(c.text)
    /\ Len(o.rest) <= BUFSIZ
    /\ o.by = "fwrite" => o.rest = <<>>
    /\ o.by = "line" /\ o.rest = <<>> => Last(c.text).nl

WriteInv ==
    \/ op = NoWrite
    \/ /\ op = [by |-> op.by, iov |-> op.iov, len |-> op.len, rest |-> op.rest]
       /\ op.by \in {"fwrite", "line", "exit"}
       /\ file.active /\ IovInv(op, file) /\ op.rest \in Seq(StreamByte)
       /\ op.by = "exit" => exiting /\ op.rest = <<>>
       /\ op.by # "exit" => calls # <<>> /\ ~exiting /\ CallerInv(op, calls[Len(calls)])

OrderInv ==
    /\ ~file.err => Stream = AllBytes
    /\ Ascending(Stream)
    /\ \A i \in 1 .. Len(Stream) : Stream[i].call <= Len(calls)

StdioInv ==
    /\ StdioTyped /\ WriteInv /\ OrderInv
    /\ LossReported /\ LostWhereSeen /\ FlushedAtExit

\* A sequence is its front and its rest.
LEMMA CutInTwo ==
    ASSUME NEW S, NEW s \in Seq(S), NEW c \in 0 .. Len(s)
    PROVE  /\ SubSeq(s, 1, c) \in Seq(S) /\ Len(SubSeq(s, 1, c)) = c
           /\ SubSeq(s, c + 1, Len(s)) \in Seq(S) /\ Len(SubSeq(s, c + 1, Len(s))) = Len(s) - c
           /\ SubSeq(s, 1, c) \o SubSeq(s, c + 1, Len(s)) = s
           /\ \A i \in 1 .. Len(s) - c : SubSeq(s, c + 1, Len(s))[i] = s[c + i]
<1>1. Len(s) \in Nat /\ \A i \in 1 .. Len(s) : s[i] \in S
  BY LenProperties
<1>2. \A i \in 1 .. c : s[i] \in S
  BY <1>1
<1>3. SubSeq(s, 1, c) \in Seq(S) /\ Len(SubSeq(s, 1, c)) = c
      /\ \A i \in 1 .. c : SubSeq(s, 1, c)[i] = s[i]
  BY <1>1, <1>2, SubSeqProperties
<1>4. \A i \in c + 1 .. Len(s) : s[i] \in S
  BY <1>1
<1>5. SubSeq(s, c + 1, Len(s)) \in Seq(S) /\ Len(SubSeq(s, c + 1, Len(s))) = Len(s) - c
      /\ \A i \in 1 .. Len(s) - c : SubSeq(s, c + 1, Len(s))[i] = s[c + i]
  BY <1>1, <1>4, SubSeqProperties
<1>6. SubSeq(s, 1, c) \o SubSeq(s, c + 1, Len(s)) = s
  <2> DEFINE u == SubSeq(s, 1, c)
             v == SubSeq(s, c + 1, Len(s))
  <2> HIDE DEF u, v
  <2>1. /\ u \in Seq(S) /\ Len(u) = c /\ \A i \in 1 .. c : u[i] = s[i]
        /\ v \in Seq(S) /\ Len(v) = Len(s) - c /\ \A i \in 1 .. Len(s) - c : v[i] = s[c + i]
    BY <1>3, <1>5 DEF u, v
  <2>2. u \o v \in Seq(S) /\ Len(u \o v) = Len(s)
    BY <1>1, <2>1, ConcatProperties
  <2>3. ASSUME NEW i \in 1 .. Len(s) PROVE (u \o v)[i] = s[i]
    <3>1. (u \o v)[i] = IF i <= Len(u) THEN u[i] ELSE v[i - Len(u)]
      BY <1>1, <2>1, ConcatProperties
    <3> QED BY <1>1, <2>1, <3>1
  <2>4. u \o v = s
    BY <2>2, <2>3, SeqEqual
  <2> QED BY <2>4 DEF u, v
<1> QED BY <1>3, <1>5, <1>6

\* Three sequences in a row.
LEMMA ThreeJoined ==
    \A a, b, c \in Seq(StreamByte) : (a \o b) \o c = a \o (b \o c)
BY ConcatAssociative

\* Two sequences of one element.
LEMMA OneAndOne ==
    ASSUME NEW S, NEW x \in S, NEW y \in S
    PROVE  <<x>> \o <<y>> = <<x, y>>
<1> DEFINE u == <<x>>
           v == <<y>>
           w == <<x, y>>
<1>1. /\ u \in Seq(S) /\ Len(u) = 1 /\ u[1] = x
      /\ v \in Seq(S) /\ Len(v) = 1 /\ v[1] = y
      /\ w \in Seq(S) /\ Len(w) = 2 /\ w[1] = x /\ w[2] = y
  OBVIOUS
<1> HIDE DEF u, v, w
<1>2. /\ u \o v \in Seq(S) /\ Len(u \o v) = Len(u) + Len(v)
      /\ \A i \in 1 .. Len(u) + Len(v) :
           (u \o v)[i] = IF i <= Len(u) THEN u[i] ELSE v[i - Len(u)]
  BY <1>1, ConcatProperties
<1>3. (u \o v)[1] = x /\ (u \o v)[2] = y /\ Len(u \o v) = 2
  BY <1>1, <1>2
<1>4. \A i \in 1 .. Len(u \o v) : (u \o v)[i] = w[i]
  BY <1>1, <1>3
<1>5. u \o v = w
  BY <1>1, <1>2, <1>3, <1>4, SeqEqual
<1> QED BY <1>5 DEF u, v, w

\* The longest front that ends in a newline exists.
LEMMA LineEndFacts ==
    ASSUME NEW text \in Seq(StreamByte)
    PROVE  LineEnd(text) \in 0 .. Len(text) /\ (LineEnd(text) > 0 => text[LineEnd(text)].nl)
<1> DEFINE Q(i) == /\ i > 0 => text[i].nl
                   /\ \A j \in i + 1 .. Len(text) : ~text[j].nl
           T == {k \in Nat : k <= Len(text) /\ \A j \in k + 1 .. Len(text) : ~text[j].nl}
<1>1. Len(text) \in Nat
  BY LenProperties
<1>2. Len(text) \in T
  BY <1>1
<1>3. T \subseteq Nat
  OBVIOUS
<1>4. PICK k \in T : \A y \in T : k <= y
  <2> HIDE DEF T
  <2> QED BY <1>2, <1>3, LeastNumber
<1>5. k \in 0 .. Len(text) /\ \A j \in k + 1 .. Len(text) : ~text[j].nl
  BY <1>1, <1>4
<1>6. k > 0 => text[k].nl
  <2>1. SUFFICES ASSUME k > 0, ~text[k].nl PROVE FALSE
    OBVIOUS
  <2>2. \A j \in (k - 1) + 1 .. Len(text) : ~text[j].nl
    BY <1>1, <1>5, <2>1
  <2>3. k - 1 \in T
    BY <1>1, <1>5, <2>1, <2>2
  <2> HIDE DEF T
  <2> QED BY <1>3, <1>4, <1>5, <2>3
<1>7. Q(k)
  BY <1>5, <1>6
<1> HIDE DEF Q
<1>8. LineEnd(text) = CHOOSE i \in 0 .. Len(text) : Q(i)
  BY DEF LineEnd, Q
<1>9. LineEnd(text) \in 0 .. Len(text) /\ Q(LineEnd(text))
  BY <1>5, <1>7, <1>8
<1> QED BY <1>9 DEF Q

\* What a call adds comes behind all the others.
LEMMA AscendingGrows ==
    ASSUME NEW s \in Seq(StreamByte), NEW t \in Seq(StreamByte), NEW n \in Nat,
           Ascending(s), \A i \in 1 .. Len(s) : s[i].call <= n,
           \A i \in 1 .. Len(t) : t[i].call = n + 1 /\ t[i].at = i
    PROVE  /\ Ascending(s \o t)
           /\ \A i \in 1 .. Len(s \o t) : (s \o t)[i].call <= n + 1
<1>1. /\ Len(s) \in Nat /\ Len(t) \in Nat /\ Len(s \o t) = Len(s) + Len(t)
      /\ \A i \in 1 .. Len(s) : s[i] \in StreamByte
  BY LenProperties, ConcatProperties
<1>2. \A i \in 1 .. Len(s) : s[i].call \in Nat
  BY <1>1 DEF StreamByte
<1>3. \A i \in 1 .. Len(s) + Len(t) : (s \o t)[i] = IF i <= Len(s) THEN s[i] ELSE t[i - Len(s)]
  BY ConcatProperties
<1> DEFINE w == s \o t
<1> HIDE DEF w
<1>4. ASSUME NEW i \in 1 .. Len(s) + Len(t), NEW j \in 1 .. Len(s) + Len(t), i < j
      PROVE  Before(w[i], w[j])
  <2>1. CASE j <= Len(s)
    <3>1. w[i] = s[i] /\ w[j] = s[j] /\ i \in 1 .. Len(s) /\ j \in 1 .. Len(s)
      BY <1>1, <1>3, <1>4, <2>1 DEF w
    <3> QED BY <1>4, <3>1 DEF Ascending
  <2>2. CASE i <= Len(s) /\ j > Len(s)
    <3>1. w[i] = s[i] /\ w[j] = t[j - Len(s)] /\ i \in 1 .. Len(s) /\ j - Len(s) \in 1 .. Len(t)
      BY <1>1, <1>3, <2>2 DEF w
    <3>2. s[i].call <= n /\ t[j - Len(s)].call = n + 1 /\ s[i].call \in Nat
      BY <1>2, <3>1
    <3> QED BY <3>1, <3>2 DEF Before
  <2>3. CASE i > Len(s)
    <3>1. /\ w[i] = t[i - Len(s)] /\ w[j] = t[j - Len(s)]
          /\ i - Len(s) \in 1 .. Len(t) /\ j - Len(s) \in 1 .. Len(t)
      BY <1>1, <1>3, <1>4, <2>3 DEF w
    <3>2. /\ w[i].call = w[j].call
          /\ w[i].at = i - Len(s) /\ w[j].at = j - Len(s)
      BY <3>1
    <3> QED BY <1>1, <1>4, <3>2 DEF Before
  <2> QED BY <1>1, <2>1, <2>2, <2>3
<1>5. Ascending(w)
  BY <1>1, <1>4 DEF Ascending, w
<1>6. ASSUME NEW i \in 1 .. Len(s) + Len(t) PROVE w[i].call <= n + 1
  <2>1. CASE i <= Len(s)
    <3>1. w[i] = s[i] /\ i \in 1 .. Len(s)
      BY <1>1, <1>3, <2>1 DEF w
    <3> QED BY <1>2, <3>1
  <2>2. CASE i > Len(s)
    <3>1. w[i] = t[i - Len(s)] /\ i - Len(s) \in 1 .. Len(t)
      BY <1>1, <1>3, <2>2 DEF w
    <3> QED BY <3>1
  <2> QED BY <1>1, <2>1, <2>2
<1> QED BY <1>1, <1>5, <1>6 DEF w

\* What is cut off at the end changes no order.
LEMMA AscendingPrefix ==
    ASSUME NEW s \in Seq(StreamByte), NEW t \in Seq(StreamByte), NEW n \in Nat,
           Ascending(s \o t), \A i \in 1 .. Len(s \o t) : (s \o t)[i].call <= n
    PROVE  Ascending(s) /\ \A i \in 1 .. Len(s) : s[i].call <= n
<1>1. /\ Len(s) \in Nat /\ Len(t) \in Nat /\ Len(s \o t) = Len(s) + Len(t)
      /\ \A i \in 1 .. Len(s) : (s \o t)[i] = s[i]
  BY LenProperties, ConcatProperties
<1>2. \A i \in 1 .. Len(s) : i \in 1 .. Len(s \o t)
  BY <1>1
<1> QED BY <1>1, <1>2 DEF Ascending

-----------------------------------------------------------------------------
(* The steps of the stream.                                                *)

TextsOf(c) == [i \in 1 .. Len(c) |-> c[i].text]

\* What the calls have handed over, as a sequence of texts.
LEMMA TextsTyped ==
    ASSUME NEW c \in Seq(Fwritten)
    PROVE  TextsOf(c) \in Seq(Seq(StreamByte)) /\ Len(TextsOf(c)) = Len(c)
<1>1. Len(c) \in Nat /\ \A i \in 1 .. Len(c) : c[i] \in Fwritten
  BY LenProperties
<1>2. \A i \in 1 .. Len(c) : c[i].text \in Seq(StreamByte)
  BY <1>1 DEF Fwritten
<1> QED BY <1>1, <1>2, IsASeq DEF TextsOf

\* A call more is a text more.
LEMMA TextsGrow ==
    ASSUME NEW c \in Seq(Fwritten), NEW r \in Fwritten
    PROVE  TextsOf(Append(c, r)) = Append(TextsOf(c), r.text)
<1> DEFINE d == Append(c, r)
<1>1. /\ d \in Seq(Fwritten) /\ Len(d) = Len(c) + 1 /\ d[Len(c) + 1] = r
      /\ \A i \in 1 .. Len(c) : d[i] = c[i]
      /\ Len(c) \in Nat
  BY AppendProperties, LenProperties
<1> HIDE DEF d
<1>2. r.text \in Seq(StreamByte)
  BY DEF Fwritten
<1> DEFINE e == Append(TextsOf(c), r.text)
<1>3. /\ e \in Seq(Seq(StreamByte)) /\ Len(e) = Len(c) + 1 /\ e[Len(c) + 1] = r.text
      /\ \A i \in 1 .. Len(c) : e[i] = TextsOf(c)[i]
  BY <1>2, TextsTyped, AppendProperties
<1> HIDE DEF e
<1>4. TextsOf(d) \in Seq(Seq(StreamByte)) /\ Len(TextsOf(d)) = Len(c) + 1
  BY <1>1, TextsTyped
<1>5. ASSUME NEW i \in 1 .. Len(c) + 1 PROVE TextsOf(d)[i] = e[i]
  <2>1. TextsOf(d)[i] = d[i].text
    BY <1>1 DEF TextsOf
  <2>2. CASE i \in 1 .. Len(c)
    BY <1>1, <1>3, <2>1, <2>2 DEF TextsOf
  <2>3. CASE i = Len(c) + 1
    BY <1>1, <1>3, <2>1, <2>3
  <2> QED BY <1>1, <2>2, <2>3
<1>6. TextsOf(d) = e
  BY <1>3, <1>4, <1>5, SeqEqual
<1> QED BY <1>6 DEF d, e

KeepsText(c, d, n, b) ==
    /\ TextsOf(d) = TextsOf(c) /\ Len(d) = Len(c)
    /\ d[Len(c)] = [text |-> c[Len(c)].text, ret |-> n, failed |-> b]
    /\ \A i \in 1 .. Len(c) - 1 : d[i] = c[i]
    /\ n \in Int /\ b \in BOOLEAN => d \in Seq(Fwritten)

\* What a call returns is none of its text.
LEMMA TextsKept ==
    \A c \in Seq(Fwritten) : \A n, b :
        c # <<>> => KeepsText(c, [c EXCEPT ![Len(c)].ret = n, ![Len(c)].failed = b], n, b)
<1> SUFFICES ASSUME NEW c \in Seq(Fwritten), NEW n, NEW b, c # <<>>
             PROVE  KeepsText(c, [c EXCEPT ![Len(c)].ret = n, ![Len(c)].failed = b], n, b)
  OBVIOUS
<1> DEFINE d == [c EXCEPT ![Len(c)].ret = n, ![Len(c)].failed = b]
           r == [c[Len(c)] EXCEPT !.ret = n, !.failed = b]
<1>1. Len(c) \in Nat \ {0} /\ \A i \in 1 .. Len(c) : c[i] \in Fwritten
  BY EmptySeq, LenProperties
<1>2. DOMAIN c = 1 .. Len(c) /\ c = [i \in 1 .. Len(c) |-> c[i]]
  BY LenProperties
<1>3. r = [text |-> c[Len(c)].text, ret |-> n, failed |-> b]
  <2>1. PICK x \in Fwritten : x = c[Len(c)]
    BY <1>1
  <2>2. x = [text |-> x.text, ret |-> x.ret, failed |-> x.failed]
    BY DEF Fwritten
  <2>3. PICK t, m, k : x = [text |-> t, ret |-> m, failed |-> k] /\ x.text = t
    BY <2>2
  <2>4. [x EXCEPT !.ret = n, !.failed = b] = [[x EXCEPT !.ret = n] EXCEPT !.failed = b]
    OBVIOUS
  <2>5. [x EXCEPT !.ret = n] = [text |-> t, ret |-> n, failed |-> k]
    BY <2>3
  <2>6. [[text |-> t, ret |-> n, failed |-> k] EXCEPT !.failed = b]
          = [text |-> t, ret |-> n, failed |-> b]
    OBVIOUS
  <2> QED BY <2>1, <2>3, <2>4, <2>5, <2>6
<1>4. d = [i \in 1 .. Len(c) |-> IF i = Len(c) THEN r ELSE c[i]]
  BY <1>1, <1>2
<1> HIDE DEF d, r
<1>5. Len(d) = Len(c)
  BY <1>1, <1>4
<1>6. d[Len(c)] = r /\ \A i \in 1 .. Len(c) - 1 : d[i] = c[i]
  BY <1>1, <1>4
<1>7. \A i \in 1 .. Len(c) : d[i].text = c[i].text
  BY <1>1, <1>3, <1>4
<1>8. TextsOf(d) = TextsOf(c)
  BY <1>5, <1>7 DEF TextsOf
<1>9. n \in Int /\ b \in BOOLEAN => d \in Seq(Fwritten)
  <2>1. HAVE n \in Int /\ b \in BOOLEAN
  <2>2. r \in Fwritten
    BY <1>1, <1>3, <2>1 DEF Fwritten
  <2>3. \A i \in 1 .. Len(c) : (IF i = Len(c) THEN r ELSE c[i]) \in Fwritten
    BY <1>1, <2>2
  <2> QED BY <1>1, <1>4, <2>3, IsASeq
<1>10. KeepsText(c, d, n, b)
  BY <1>3, <1>5, <1>6, <1>8, <1>9 DEF KeepsText
<1> QED BY <1>10 DEF d

\* The bytes of a call.
LEMMA BytesTyped ==
    ASSUME NEW pattern \in Pattern, Len(calls) \in Nat
    PROVE  /\ Bytes(pattern) \in Seq(StreamByte) /\ Len(Bytes(pattern)) = Len(pattern)
           /\ \A i \in 1 .. Len(Bytes(pattern)) :
                Bytes(pattern)[i].call = Len(calls) + 1 /\ Bytes(pattern)[i].at = i
<1>1. pattern \in Seq(BOOLEAN)
  BY StdioAssumption
<1>2. Len(pattern) \in Nat /\ \A i \in 1 .. Len(pattern) : pattern[i] \in BOOLEAN
  BY <1>1, LenProperties
<1> DEFINE e(i) == [call |-> Len(calls) + 1, at |-> i, nl |-> pattern[i]]
<1>3. \A i \in 1 .. Len(pattern) : e(i) \in StreamByte
  BY <1>2 DEF StreamByte
<1>4. Bytes(pattern) = [i \in 1 .. Len(pattern) |-> e(i)]
  BY DEF Bytes
<1>5. \A i \in 1 .. Len(pattern) : e(i).call = Len(calls) + 1 /\ e(i).at = i
  OBVIOUS
<1> HIDE DEF e
<1>6. Bytes(pattern) \in Seq(StreamByte)
  BY <1>2, <1>3, <1>4, IsASeq
<1>7. Len(Bytes(pattern)) = Len(pattern)
  BY <1>2, <1>4
<1> QED BY <1>4, <1>5, <1>6, <1>7

StreamHasType ==
    /\ UnderWay \in Seq(StreamByte) /\ Stream \in Seq(StreamByte)
    /\ AllBytes \in Seq(StreamByte) /\ AllBytes = FlattenSeq(TextsOf(calls))
    /\ Len(calls) \in Nat

\* The stream and what it is made of are sequences of bytes.
LEMMA StreamTyped ==
    StdioTyped /\ WriteInv => StreamHasType
<1> SUFFICES ASSUME StdioTyped, WriteInv
             PROVE  /\ UnderWay \in Seq(StreamByte) /\ Stream \in Seq(StreamByte)
                    /\ AllBytes \in Seq(StreamByte) /\ AllBytes = FlattenSeq(TextsOf(calls))
                    /\ Len(calls) \in Nat
  BY DEF StreamHasType
<1>1. sent \in Seq(StreamByte) /\ file.pending \in Seq(StreamByte) /\ calls \in Seq(Fwritten)
  BY DEF StdioTyped, StdioFile
<1>2. AllBytes = FlattenSeq(TextsOf(calls))
  BY DEF AllBytes, TextsOf
<1>3. AllBytes \in Seq(StreamByte)
  BY <1>1, <1>2, TextsTyped, FlattenType
<1>4. UnderWay \in Seq(StreamByte)
  <2>1. CASE op.by = "nobody"
    BY <1>1, <2>1 DEF UnderWay
  <2>2. CASE op.by # "nobody"
    <3>1. op.iov \in Seq(Seq(StreamByte)) /\ op.rest \in Seq(StreamByte)
      BY <2>2 DEF WriteInv, NoWrite, IovInv
    <3>2. FlattenSeq(op.iov) \in Seq(StreamByte)
      BY <3>1, FlattenType
    <3> QED BY <2>2, <3>1, <3>2, ConcatProperties DEF UnderWay
  <2> QED BY <2>1, <2>2
<1>5. Stream \in Seq(StreamByte)
  BY <1>1, <1>4, ConcatProperties DEF Stream
<1>6. Len(calls) \in Nat
  BY <1>1, LenProperties
<1> QED BY <1>2, <1>3, <1>4, <1>5, <1>6

\* A FILE whose fields are p, r, a and e.
FILE(p, r, a, e) == [pending |-> p, room |-> r, active |-> a, err |-> e]

\* Assigning fields of the FILE.
LEMMA FileFields ==
    ASSUME NEW f \in StdioFile, NEW p, NEW r
    PROVE  /\ [f EXCEPT !.pending = p] = FILE(p, f.room, f.active, f.err)
           /\ [f EXCEPT !.pending = p, !.room = r] = FILE(p, r, f.active, f.err)
           /\ [f EXCEPT !.pending = p, !.room = r, !.active = TRUE] = FILE(p, r, TRUE, f.err)
<1>1. f = [pending |-> f.pending, room |-> f.room, active |-> f.active, err |-> f.err]
  BY DEF StdioFile
<1>2. PICK q, s, b, d : /\ f = [pending |-> q, room |-> s, active |-> b, err |-> d]
                        /\ s = f.room /\ b = f.active /\ d = f.err
  BY <1>1, Zenon
<1>3. f = [pending |-> q, room |-> s, active |-> b, err |-> d]
  BY <1>2
<1>4. [f EXCEPT !.pending = p] = [pending |-> p, room |-> s, active |-> b, err |-> d]
  BY ONLY <1>3
<1>5. [[pending |-> p, room |-> s, active |-> b, err |-> d] EXCEPT !.room = r]
        = [pending |-> p, room |-> r, active |-> b, err |-> d]
  OBVIOUS
<1>6. [[pending |-> p, room |-> r, active |-> b, err |-> d] EXCEPT !.active = TRUE]
        = [pending |-> p, room |-> r, active |-> TRUE, err |-> d]
  <2>1. \A x : [[pending |-> p, room |-> r, active |-> b, err |-> d] EXCEPT !.active = x]
          = [pending |-> p, room |-> r, active |-> x, err |-> d]
    OBVIOUS
  <2> QED BY <2>1, Zenon
<1>7. /\ [f EXCEPT !.pending = p, !.room = r] = [[f EXCEPT !.pending = p] EXCEPT !.room = r]
      /\ [f EXCEPT !.pending = p, !.room = r, !.active = TRUE]
           = [[[f EXCEPT !.pending = p] EXCEPT !.room = r] EXCEPT !.active = TRUE]
  OBVIOUS
<1> QED BY <1>2, <1>4, <1>5, <1>6, <1>7, Zenon DEF FILE

\* Assigning all the fields of the FILE, when a write has failed.
LEMMA FileLost ==
    \A f \in StdioFile :
        [f EXCEPT !.pending = <<>>, !.room = 0, !.active = FALSE, !.err = TRUE]
          = FILE(<<>>, 0, FALSE, TRUE)
<1> TAKE f \in StdioFile
<1>1. PICK g : g = [f EXCEPT !.pending = <<>>, !.room = 0, !.active = FALSE, !.err = TRUE]
  OBVIOUS
<1>2. DOMAIN g = DOMAIN f /\ DOMAIN f = {"pending", "room", "active", "err"}
  BY <1>1 DEF StdioFile
<1>3. /\ g.pending = <<>> /\ g.room = 0 /\ g.active = FALSE /\ g.err = TRUE
      /\ g = [x \in DOMAIN g |-> g[x]]
  BY <1>1, <1>2
<1>4. g = FILE(<<>>, 0, FALSE, TRUE)
  BY <1>2, <1>3 DEF FILE
<1> QED BY <1>1, <1>4

\* The fields of a FILE.
LEMMA FileOf ==
    ASSUME NEW p, NEW r, NEW a, NEW e
    PROVE  /\ FILE(p, r, a, e).pending = p /\ FILE(p, r, a, e).room = r
           /\ FILE(p, r, a, e).active = a /\ FILE(p, r, a, e).err = e
BY DEF FILE

\* The type of a FILE.
LEMMA FileType ==
    ASSUME NEW p \in Seq(StreamByte), NEW r \in 0 .. BUFSIZ, NEW a \in BOOLEAN, NEW e \in BOOLEAN
    PROVE  FILE(p, r, a, e) \in StdioFile
BY DEF FILE, StdioFile

\* A record of a write.
WRITE(by, v, n, rest) == [by |-> by, iov |-> v, len |-> n, rest |-> rest]

\* The fields of such a record.
LEMMA WriteOf ==
    ASSUME NEW by, NEW v, NEW n, NEW rest
    PROVE  /\ WRITE(by, v, n, rest).by = by /\ WRITE(by, v, n, rest).iov = v
           /\ WRITE(by, v, n, rest).len = n /\ WRITE(by, v, n, rest).rest = rest
           /\ WRITE(by, v, n, rest) =
                [by |-> WRITE(by, v, n, rest).by, iov |-> WRITE(by, v, n, rest).iov,
                 len |-> WRITE(by, v, n, rest).len, rest |-> WRITE(by, v, n, rest).rest]
BY DEF WRITE

\* The FILE after __towrite has what it had in the buffer.
LEMMA ToWrite ==
    ASSUME NEW f \in StdioFile, ~f.active => f.pending = <<>>
    PROVE  /\ __towrite(f) \in StdioFile /\ __towrite(f).active
           /\ __towrite(f).pending = f.pending /\ __towrite(f).err = f.err
<1>1. CASE f.active
  BY <1>1 DEF __towrite
<1>2. CASE ~f.active
  <2>1. __towrite(f) = FILE(<<>>, BUFSIZ, TRUE, f.err)
    <3>1. __towrite(f) = [f EXCEPT !.pending = <<>>, !.room = BUFSIZ, !.active = TRUE]
      BY <1>2 DEF __towrite
    <3> QED BY <3>1, FileFields, Zenon
  <2>2. f.err \in BOOLEAN /\ BUFSIZ \in 0 .. BUFSIZ /\ <<>> \in Seq(StreamByte)
    BY StdioAssumption, EmptySeq DEF StdioFile
  <2>3. FILE(<<>>, BUFSIZ, TRUE, f.err) \in StdioFile
    BY <2>2 DEF FILE, StdioFile
  <2> QED BY <1>2, <2>1, <2>3 DEF FILE
<1> QED BY <1>1, <1>2

\* Bytes for which there is room go into the buffer.
LEMMA BufferedFacts ==
    ASSUME NEW f \in StdioFile, NEW t \in Seq(StreamByte), Len(t) <= f.room
    PROVE  /\ Buffered(f, t) = FILE(f.pending \o t, f.room - Len(t), f.active, f.err)
           /\ Buffered(f, t) \in StdioFile
<1>1. Buffered(f, t) = FILE(f.pending \o t, f.room - Len(t), f.active, f.err)
  BY FileFields DEF Buffered
<1>2. f.pending \o t \in Seq(StreamByte)
  BY ConcatProperties DEF StdioFile
<1>3. f.room - Len(t) \in 0 .. BUFSIZ
  <2>1. f.room \in 0 .. BUFSIZ /\ Len(t) \in Nat
    BY LenProperties DEF StdioFile
  <2> QED BY <2>1, StdioAssumption
<1>4. f.active \in BOOLEAN /\ f.err \in BOOLEAN
  BY DEF StdioFile
<1>5. FILE(f.pending \o t, f.room - Len(t), f.active, f.err) \in StdioFile
  BY <1>2, <1>3, <1>4, FileType
<1> QED BY <1>1, <1>5

\* Nothing is written: what is under way is the buffer.
LEMMA UnderWayIdle == op = NoWrite => UnderWay = file.pending
BY DEF UnderWay, NoWrite

\* The parts of the invariant that are about the order, from what a step does to the
\* stream and to the calls.
LEMMA OrderStep ==
    ASSUME StdioTyped, WriteInv, OrderInv,
           StdioTyped', WriteInv',
           NEW t \in Seq(StreamByte),
           \/ /\ Stream = Stream' \o t /\ file'.err
              /\ Len(calls') = Len(calls)
           \/ /\ Stream' = Stream /\ file'.err = file.err
              /\ Len(calls') = Len(calls) /\ TextsOf(calls') = TextsOf(calls)
           \/ /\ Stream' = Stream \o t /\ file'.err = file.err
              /\ Len(calls') = Len(calls) + 1
              /\ TextsOf(calls') = Append(TextsOf(calls), t)
              /\ \A i \in 1 .. Len(t) : t[i].call = Len(calls) + 1 /\ t[i].at = i
    PROVE  OrderInv'
<1>1. /\ Stream \in Seq(StreamByte) /\ Len(calls) \in Nat
      /\ AllBytes = FlattenSeq(TextsOf(calls))
  BY StreamTyped DEF StreamHasType
<1>2. /\ Stream' \in Seq(StreamByte)
      /\ AllBytes' = FlattenSeq(TextsOf(calls'))
  <2>1. StreamHasType'
    BY StreamTyped, PTL
  <2> QED BY <2>1 DEF StreamHasType
<1>3. /\ ~file.err => Stream = AllBytes
      /\ Ascending(Stream)
      /\ \A i \in 1 .. Len(Stream) : Stream[i].call <= Len(calls)
  BY DEF OrderInv
<1> DEFINE Goal == /\ ~file'.err => Stream' = AllBytes'
                   /\ Ascending(Stream')
                   /\ \A i \in 1 .. Len(Stream') : Stream'[i].call <= Len(calls')
<1>4. CASE Stream = Stream' \o t /\ file'.err /\ Len(calls') = Len(calls)
  <2>1. PICK u \in Seq(StreamByte) : u = Stream'
    BY <1>2
  <2>2. Ascending(u) /\ \A i \in 1 .. Len(u) : u[i].call <= Len(calls)
    <3>1. Ascending(u \o t) /\ \A i \in 1 .. Len(u \o t) : (u \o t)[i].call <= Len(calls)
      BY <1>3, <1>4, <2>1
    <3> QED BY <1>1, <3>1, AscendingPrefix
  <2> QED BY <1>4, <2>1, <2>2 DEF OrderInv
<1>5. CASE /\ Stream' = Stream /\ file'.err = file.err
           /\ Len(calls') = Len(calls) /\ TextsOf(calls') = TextsOf(calls)
  BY <1>1, <1>2, <1>3, <1>5 DEF OrderInv
<1>6. CASE /\ Stream' = Stream \o t /\ file'.err = file.err
           /\ Len(calls') = Len(calls) + 1
           /\ TextsOf(calls') = Append(TextsOf(calls), t)
           /\ \A i \in 1 .. Len(t) : t[i].call = Len(calls) + 1 /\ t[i].at = i
  <2>1. AllBytes' = AllBytes \o t
    <3>1. TextsOf(calls) \in Seq(Seq(StreamByte))
      BY TextsTyped DEF StdioTyped
    <3> QED BY <1>1, <1>2, <1>6, <3>1, FlattenGrows
  <2>2. PICK u \in Seq(StreamByte) : u = Stream
    BY <1>1
  <2>3. Ascending(u \o t) /\ \A i \in 1 .. Len(u \o t) : (u \o t)[i].call <= Len(calls) + 1
    <3>1. Ascending(u) /\ \A i \in 1 .. Len(u) : u[i].call <= Len(calls)
      BY <1>3, <2>2
    <3> QED BY <1>1, <1>6, <3>1, AscendingGrows
  <2> QED BY <1>3, <1>6, <2>1, <2>2, <2>3 DEF OrderInv
<1> QED BY <1>4, <1>5, <1>6

\* A write of the buffer a and the bytes b, behind which there is the rest.
IsWrite(o, a, b, rest) == o.iov = <<a, b>> /\ o.len = Len(b) /\ o.rest = rest
FlowIs(o, a, b, rest) == FlattenSeq(o.iov) \o o.rest = a \o (b \o rest)

\* The write that has begun, with two iovecs.
LEMMA IovBegins ==
    ASSUME NEW a \in Seq(StreamByte), NEW b \in Seq(StreamByte), NEW rest \in Seq(StreamByte),
           NEW o, IsWrite(o, a, b, rest)
    PROVE  (\A f : f.pending = a => IovInv(o, f)) /\ FlowIs(o, a, b, rest)
<1>1. o.iov = <<a, b>> /\ o.len = Len(b) /\ o.rest = rest
  BY DEF IsWrite
<1>2. <<a, b>> \in Seq(Seq(StreamByte)) /\ Len(<<a, b>>) = 2 /\ Len(b) \in Nat
      /\ <<a, b>>[1] = a /\ <<a, b>>[2] = b
  BY LenProperties
<1>3. ASSUME NEW f, f.pending = a PROVE IovInv(o, f)
  <2>1. PICK v : /\ v = <<a, b>> /\ v \in Seq(Seq(StreamByte)) /\ Len(v) = 2
                 /\ v[1] = a /\ v[2] = b
    BY <1>2
  <2>2. o.iov = v
    BY <1>1, <2>1
  <2>3. Len(v) \in {1, 2} /\ Len(v[2]) = Len(b) /\ f.pending = v[1] /\ Len(v) # 1
    BY <1>3, <2>1
  <2> QED BY ONLY <1>1, <1>2, <2>1, <2>2, <2>3 DEF IovInv
<1>4. FlattenSeq(o.iov) \o o.rest = a \o (b \o rest)
  <2>1. FlattenSeq(<<a, b>>) = a \o b
    BY FlattenFew
  <2>2. (a \o b) \o rest = a \o (b \o rest)
    BY ConcatAssociative
  <2> QED BY <1>1, <2>1, <2>2
<1> QED BY <1>3, <1>4 DEF FlowIs

\* What fwrite does, whichever way it goes.
LEMMA FwriteOutcome ==
    ASSUME StdioInv, NEW pattern \in Pattern, fwrite(pattern)
    PROVE  /\ op = NoWrite /\ ~exiting /\ UNCHANGED <<sent, exiting>>
           /\ calls' = Append(calls, [text |-> Bytes(pattern), ret |-> Len(Bytes(pattern)),
                                      failed |-> FALSE])
           /\ file' \in StdioFile /\ file'.err = file.err /\ file'.active
           /\ WriteInv'
           /\ UnderWay' = file.pending \o Bytes(pattern)
<1> DEFINE text == Bytes(pattern)
           f == __towrite(file)
           i == LineEnd(text)
           r == [text |-> text, ret |-> Len(text), failed |-> FALSE]
<1>1. op = NoWrite /\ op.by = "nobody"
  BY DEF fwrite, StdioInv, WriteInv
<1>2. /\ ~exiting /\ ~exiting' /\ UNCHANGED <<sent, exiting>> /\ calls' = Append(calls, r)
  BY DEF fwrite
<1>3. f \in StdioFile /\ f.active /\ f.pending = file.pending /\ f.err = file.err
  BY ToWrite DEF StdioInv, StdioTyped
<1>4. calls \in Seq(Fwritten) /\ Len(calls) \in Nat
  BY LenProperties DEF StdioInv, StdioTyped
<1>5. text \in Seq(StreamByte) /\ Len(text) \in Nat
  BY <1>4, BytesTyped, LenProperties
<1>6. f.room \in 0 .. BUFSIZ /\ f.pending \in Seq(StreamByte)
  BY <1>3 DEF StdioFile
<1>7. i \in 0 .. Len(text) /\ (i > 0 => text[i].nl)
  BY <1>5, LineEndFacts
<1>8. r \in Fwritten /\ r.text = text /\ r.ret = Len(text) /\ r.failed = FALSE
  BY <1>5 DEF Fwritten
<1> DEFINE Whole == Len(text) > f.room /\ Write(f, "fwrite", text, <<>>) /\ file' = f
           Lines == /\ Len(text) <= f.room /\ i > 0 /\ file' = f
                    /\ Write(f, "line", SubSeq(text, 1, i), SubSeq(text, i + 1, Len(text)))
           Kept == Len(text) <= f.room /\ file' = Buffered(f, text) /\ UNCHANGED op
<1>9. Whole \/ Lines \/ Kept
  <2>1. Len(text) \in Int /\ f.room \in Int
    BY <1>5, <1>6
  <2> QED BY <2>1, <1>7 DEF fwrite
<1> HIDE DEF text, f, i, r, Whole, Lines, Kept
<1>10. /\ calls' # <<>> /\ calls'[Len(calls')] = r
  BY <1>2, <1>4, <1>8, AppendProperties
<1> DEFINE Goal == /\ file' \in StdioFile /\ file'.err = file.err /\ file'.active
                   /\ WriteInv'
                   /\ UnderWay' = file.pending \o text
<1> HIDE DEF Goal
<1> DEFINE Begins(by, b, rest) ==
             /\ op' = WRITE(by, <<f.pending, b>>, Len(b), rest) /\ file' = f
             /\ b \o rest = text /\ CallerInv(op', r)
<1> HIDE DEF Begins
<1>11. ASSUME NEW by \in {"fwrite", "line"}, NEW b \in Seq(StreamByte), NEW rest \in Seq(StreamByte),
              Begins(by, b, rest)
       PROVE  Goal
  <2>1. PICK o : o = WRITE(by, <<f.pending, b>>, Len(b), rest)
    OBVIOUS
  <2>2. IovInv(o, f) /\ FlattenSeq(o.iov) \o o.rest = f.pending \o text
    <3>1. PICK a \in Seq(StreamByte) : \E g : a = f.pending /\ g = f /\ g.pending = a
      BY <1>6
    <3>2. IsWrite(o, a, b, rest)
      BY <2>1, <3>1, WriteOf DEF IsWrite
    <3>3. /\ \A h : h.pending = a => IovInv(o, h)
          /\ FlowIs(o, a, b, rest)
      BY <3>2, IovBegins
    <3> QED BY <1>11, <3>1, <3>3 DEF Begins, FlowIs
  <2>3. o.by = by /\ o.rest = rest
        /\ o = [by |-> o.by, iov |-> o.iov, len |-> o.len, rest |-> o.rest]
    BY <2>1, WriteOf
  <2>4. op' = o /\ file' = f
    BY <1>11, <2>1 DEF Begins
  <2>5. WriteInv'
    <3>1. o.by \in {"fwrite", "line", "exit"} /\ o.by # "exit" /\ o.rest \in Seq(StreamByte)
      BY <2>3
    <3>2. CallerInv(o, calls'[Len(calls')])
      BY <1>10, <1>11, <2>4 DEF Begins
    <3>3. IovInv(o, file')
      BY <2>2, <2>4
    <3> QED BY <1>2, <1>3, <1>10, <2>3, <2>4, <3>1, <3>2, <3>3, Zenon DEF WriteInv
  <2>6. UnderWay' = file.pending \o text
    <3>1. o.by # "nobody"
      BY <2>3
    <3> QED BY <1>3, <2>2, <2>4, <3>1 DEF UnderWay
  <2> QED BY <1>3, <2>4, <2>5, <2>6 DEF Goal
<1>12. ASSUME Whole PROVE Goal
  <2>1. op' = WRITE("fwrite", <<f.pending, text>>, Len(text), <<>>)
    BY <1>12 DEF Write, WRITE, Whole
  <2>2. <<>> \in Seq(StreamByte) /\ text \o <<>> = text /\ Len(<<>>) = 0
    BY <1>5, EmptySeq, ConcatEmptySeq
  <2>3. op'.by = "fwrite" /\ op'.len = Len(text) /\ op'.rest = <<>>
    BY <2>1, WriteOf
  <2>4. Len(text) > 0 /\ Len(text) + Len(<<>>) = Len(text) /\ Len(<<>>) <= BUFSIZ
    BY <1>5, <1>6, <1>12, <2>2, StdioAssumption DEF Whole
  <2>5. CallerInv(op', r)
    BY <1>8, <2>3, <2>4 DEF CallerInv
  <2>6. Begins("fwrite", text, <<>>)
    BY <1>12, <2>1, <2>2, <2>5 DEF Begins, Whole
  <2> QED BY <1>5, <1>11, <2>2, <2>6
<1>13. ASSUME Lines PROVE Goal
  <2> DEFINE b == SubSeq(text, 1, i)
             rest == SubSeq(text, i + 1, Len(text))
  <2>1. op' = WRITE("line", <<f.pending, b>>, Len(b), rest)
    BY <1>13 DEF Write, WRITE, Lines
  <2>2. b \in Seq(StreamByte) /\ rest \in Seq(StreamByte) /\ b \o rest = text
        /\ Len(b) = i /\ Len(rest) = Len(text) - i
    BY <1>5, <1>7, CutInTwo
  <2> HIDE DEF b, rest
  <2>3. op'.by = "line" /\ op'.len = i /\ op'.rest = rest
    BY <2>1, <2>2, WriteOf
  <2>4. i + Len(rest) = Len(text) /\ Len(rest) <= BUFSIZ
    BY <1>5, <1>6, <1>7, <1>13, <2>2, StdioAssumption DEF Lines
  <2>5. rest = <<>> => Last(text).nl
    <3>1. HAVE rest = <<>>
    <3>2. Len(rest) = 0
      BY <3>1
    <3>3. i = Len(text)
      BY <1>5, <1>7, <2>2, <3>2
    <3> QED BY <1>7, <1>13, <3>3 DEF Last, Lines
  <2>6. CallerInv(op', r)
    BY <1>8, <1>13, <2>3, <2>4, <2>5 DEF CallerInv, Lines
  <2>7. Begins("line", b, rest)
    BY <1>13, <2>1, <2>2, <2>6 DEF Begins, Lines
  <2> QED BY <1>11, <2>2, <2>7
<1>14. ASSUME Kept PROVE Goal
  <2>1. file' \in StdioFile /\ file' = FILE(f.pending \o text, f.room - Len(text), f.active, f.err)
    BY <1>3, <1>5, <1>14, BufferedFacts DEF Kept
  <2>2. file'.pending = f.pending \o text /\ file'.active = f.active /\ file'.err = f.err
    BY <2>1 DEF FILE
  <2>3. op' = NoWrite /\ op'.by = "nobody"
    BY <1>1, <1>14 DEF Kept
  <2>4. UnderWay' = file.pending \o text
    BY <1>3, <2>2, <2>3 DEF UnderWay
  <2>5. WriteInv'
    BY <2>3 DEF WriteInv
  <2>6. file'.active /\ file'.err = file.err
    BY <1>3, <2>2
  <2> QED BY <2>1, <2>4, <2>5, <2>6 DEF Goal
<1>15. Goal
  BY <1>9, <1>12, <1>13, <1>14
<1> QED BY <1>1, <1>2, <1>15 DEF r, text, Goal

\* fwrite keeps the invariant.
LEMMA FwriteInv ==
    ASSUME StdioInv, NEW pattern \in Pattern, fwrite(pattern)
    PROVE  StdioInv'
<1> DEFINE text == Bytes(pattern)
           r == [text |-> text, ret |-> Len(text), failed |-> FALSE]
<1>1. /\ op = NoWrite /\ ~exiting /\ UNCHANGED <<sent, exiting>>
      /\ calls' = Append(calls, r)
      /\ file' \in StdioFile /\ file'.err = file.err /\ file'.active
      /\ WriteInv'
      /\ UnderWay' = file.pending \o text
  BY FwriteOutcome
<1>2. StdioTyped /\ WriteInv /\ OrderInv /\ LossReported /\ LostWhereSeen
  BY DEF StdioInv
<1>3. calls \in Seq(Fwritten) /\ Len(calls) \in Nat /\ sent \in Seq(StreamByte)
      /\ file.pending \in Seq(StreamByte)
  BY <1>2, LenProperties DEF StdioTyped, StdioFile
<1>4. text \in Seq(StreamByte) /\ Len(text) \in Nat
      /\ \A i \in 1 .. Len(text) : text[i].call = Len(calls) + 1 /\ text[i].at = i
  BY <1>3, BytesTyped, LenProperties
<1> HIDE DEF text
<1>5. r \in Fwritten /\ r.text = text /\ ~r.failed
  BY <1>4 DEF Fwritten
<1> HIDE DEF r
<1>6. /\ calls' \in Seq(Fwritten) /\ Len(calls') = Len(calls) + 1 /\ calls'[Len(calls) + 1] = r
      /\ \A i \in 1 .. Len(calls) : calls'[i] = calls[i]
  BY <1>1, <1>3, <1>5, AppendProperties
<1>7. StdioTyped'
  BY <1>1, <1>2, <1>6 DEF StdioTyped
<1>8. OrderInv'
  <2>1. TextsOf(calls') = Append(TextsOf(calls), text)
    BY <1>1, <1>3, <1>5, TextsGrow
  <2>2. Stream' = Stream \o text
    <3>1. Stream = sent \o file.pending
      BY <1>1, UnderWayIdle DEF Stream
    <3>2. Stream' = sent \o (file.pending \o text)
      BY <1>1 DEF Stream
    <3>3. (sent \o file.pending) \o text = sent \o (file.pending \o text)
      BY <1>3, <1>4, ThreeJoined
    <3> QED BY <3>1, <3>2, <3>3
  <2> QED BY <1>1, <1>2, <1>4, <1>6, <1>7, <2>1, <2>2, OrderStep
<1>9. LostWhereSeen'
  <2>1. SUFFICES ASSUME file'.err PROVE exiting' \/ \E i \in 1 .. Len(calls') : calls'[i].failed
    BY DEF LostWhereSeen
  <2>2. PICK i \in 1 .. Len(calls) : calls[i].failed
    BY <1>1, <1>2, <2>1 DEF LostWhereSeen
  <2>3. i \in 1 .. Len(calls') /\ calls'[i].failed
    BY <1>3, <1>6, <2>2
  <2> QED BY <2>3
<1>10. FlushedAtExit'
  BY <1>1 DEF FlushedAtExit
<1>11. LossReported'
  <2>1. SUFFICES ASSUME NEW i \in 1 .. Len(calls'), calls'[i].failed,
                        calls'[i].ret = Len(calls'[i].text)
                 PROVE  Last(calls'[i].text).nl
    BY DEF LossReported
  <2>2. CASE i \in 1 .. Len(calls)
    BY <1>2, <1>6, <2>1, <2>2 DEF LossReported
  <2>3. CASE i = Len(calls) + 1
    BY <1>5, <1>6, <2>1, <2>3
  <2> QED BY <1>3, <1>6, <2>2, <2>3
<1> QED BY <1>1, <1>7, <1>8, <1>9, <1>10, <1>11 DEF StdioInv

\* What is known of a write that runs.
LEMMA RunningWrite ==
    ASSUME StdioInv, op.by # "nobody"
    PROVE  /\ op = WRITE(op.by, op.iov, op.len, op.rest)
           /\ op.by \in {"fwrite", "line", "exit"} /\ op.rest \in Seq(StreamByte)
           /\ file \in StdioFile /\ file.active /\ IovInv(op, file)
           /\ FlattenSeq(op.iov) \in Seq(StreamByte)
           /\ UnderWay = FlattenSeq(op.iov) \o op.rest
           /\ op.by # "line" => op.rest = <<>>
           /\ op.by = "exit" => exiting
           /\ op.by # "exit" => calls # <<>> /\ ~exiting /\ CallerInv(op, calls[Len(calls)])
           /\ calls \in Seq(Fwritten) /\ sent \in Seq(StreamByte)
           /\ Remaining = Len(FlattenSeq(op.iov)) /\ Remaining \in Nat
<1>1. WriteInv /\ StdioTyped
  BY DEF StdioInv
<1>2. op # NoWrite
  BY DEF NoWrite
<1>3. /\ op = [by |-> op.by, iov |-> op.iov, len |-> op.len, rest |-> op.rest]
      /\ op.by \in {"fwrite", "line", "exit"}
      /\ file.active /\ IovInv(op, file) /\ op.rest \in Seq(StreamByte)
      /\ op.by = "exit" => exiting /\ op.rest = <<>>
      /\ op.by # "exit" => calls # <<>> /\ ~exiting /\ CallerInv(op, calls[Len(calls)])
  BY <1>1, <1>2, Zenon DEF WriteInv
<1>4. FlattenSeq(op.iov) \in Seq(StreamByte)
  BY <1>3, FlattenType DEF IovInv
<1>5. op.by # "line" => op.rest = <<>>
  BY <1>3 DEF CallerInv
<1>6. Remaining = Len(FlattenSeq(op.iov)) /\ Remaining \in Nat
  BY <1>4, LenProperties DEF Remaining
<1>7. op = WRITE(op.by, op.iov, op.len, op.rest)
  BY <1>3, Zenon DEF WRITE
<1> QED BY <1>1, <1>3, <1>4, <1>5, <1>6, <1>7 DEF StdioTyped, UnderWay

\* The iovecs and what they hold.
LEMMA IovParts ==
    ASSUME NEW o, NEW f, IovInv(o, f)
    PROVE  \/ \E a, b \in Seq(StreamByte) :
                /\ o.iov = <<a, b>> /\ Len(b) = o.len /\ f.pending = a
                /\ FlattenSeq(o.iov) = a \o b
           \/ \E a \in Seq(StreamByte) :
                /\ o.iov = <<a>> /\ a # <<>> /\ Len(a) <= o.len /\ f.pending = <<>>
                /\ FlattenSeq(o.iov) = a
<1>1. o.iov \in Seq(Seq(StreamByte)) /\ Len(o.iov) \in {1, 2}
  BY DEF IovInv
<1>2. CASE Len(o.iov) = 2
  <2>1. PICK v \in Seq(Seq(StreamByte)) : v = o.iov /\ Len(v) = 2
    BY <1>1, <1>2
  <2>2. v = <<v[1], v[2]>> /\ v[1] \in Seq(StreamByte) /\ v[2] \in Seq(StreamByte)
    BY <2>1
  <2>3. FlattenSeq(<<v[1], v[2]>>) = v[1] \o v[2]
    BY <2>2, FlattenFew
  <2>4. Len(v[2]) = o.len /\ f.pending = v[1]
    BY <1>2, <2>1 DEF IovInv
  <2> QED BY <2>1, <2>2, <2>3, <2>4
<1>3. CASE Len(o.iov) = 1
  <2>1. PICK v \in Seq(Seq(StreamByte)) : v = o.iov /\ Len(v) = 1
    BY <1>1, <1>3
  <2>2. v = <<v[1]>> /\ v[1] \in Seq(StreamByte)
    BY <2>1
  <2>3. FlattenSeq(<<v[1]>>) = v[1]
    BY <2>2, FlattenFew
  <2>4. v[1] # <<>> /\ Len(v[1]) <= o.len /\ f.pending = <<>>
    BY <1>3, <2>1 DEF IovInv
  <2> QED BY <2>1, <2>2, <2>3, <2>4
<1> QED BY <1>1, <1>2, <1>3

\* The iovecs after cnt bytes, fewer than all, hold the rest of the bytes.
LEMMA AdvanceFacts ==
    ASSUME StdioInv, op.by # "nobody", NEW cnt \in 0 .. Remaining - 1
    PROVE  LET F == FlattenSeq(op.iov)
               v == Advance(cnt) IN
           /\ v \in Seq(Seq(StreamByte)) /\ Len(v) \in {1, 2}
           /\ Len(v) = 2 => Len(v[2]) = op.len
           /\ Len(v) = 1 => v[1] # <<>> /\ Len(v[1]) <= op.len
           /\ FlattenSeq(v) = SubSeq(F, cnt + 1, Len(F))
<1> DEFINE F == FlattenSeq(op.iov)
           v == Advance(cnt)
           Goal == /\ v \in Seq(Seq(StreamByte)) /\ Len(v) \in {1, 2}
                   /\ Len(v) = 2 => Len(v[2]) = op.len
                   /\ Len(v) = 1 => v[1] # <<>> /\ Len(v[1]) <= op.len
                   /\ FlattenSeq(v) = SubSeq(F, cnt + 1, Len(F))
<1>1. IovInv(op, file) /\ F \in Seq(StreamByte) /\ Remaining = Len(F)
  BY RunningWrite
<1>2. cnt \in Nat /\ cnt < Len(F) /\ Len(F) \in Nat
  BY <1>1, LenProperties
<1>3. ASSUME NEW a \in Seq(StreamByte), op.iov = <<a>>, a # <<>>, Len(a) <= op.len, F = a
      PROVE  Goal
  <2> DEFINE w == SubSeq(a, cnt + 1, Len(a))
  <2>1. w \in Seq(StreamByte) /\ Len(w) = Len(a) - cnt
    BY <1>2, <1>3, CutInTwo
  <2>2. v = <<w>>
    <3>1. op.iov[1] = a /\ Tail(op.iov) = <<>>
      BY <1>3
    <3>2. ~(cnt > Len(a))
      BY <1>2, <1>3
    <3>3. v = <<w>> \o <<>>
      BY <3>1, <3>2 DEF Advance
    <3> QED BY <3>3
  <2> HIDE DEF w, v, F
  <2>3. FlattenSeq(<<w>>) = w
    BY <2>1, FlattenFew
  <2>4. w # <<>> /\ Len(w) <= op.len
    <3>1. op.len \in Nat
      BY <1>1 DEF IovInv
    <3>2. Len(w) > 0
      BY <1>2, <1>3, <2>1
    <3> QED BY <1>2, <1>3, <2>1, <3>1, <3>2
  <2>5. <<w>> \in Seq(Seq(StreamByte)) /\ Len(<<w>>) = 1 /\ <<w>>[1] = w
    BY <2>1
  <2>6. w = SubSeq(F, cnt + 1, Len(F))
    BY <1>3 DEF w
  <2>7. v \in Seq(Seq(StreamByte)) /\ Len(v) = 1 /\ v[1] = w /\ FlattenSeq(v) = w
    BY <2>2, <2>3, <2>5
  <2> QED BY <2>4, <2>6, <2>7
<1>4. ASSUME NEW a \in Seq(StreamByte), NEW b \in Seq(StreamByte), op.iov = <<a, b>>,
             Len(b) = op.len, F = a \o b
      PROVE  Goal
  <2>1. Len(a) \in Nat /\ Len(b) \in Nat /\ Len(F) = Len(a) + Len(b)
    BY <1>4, LenProperties, ConcatProperties
  <2>2. op.iov[1] = a /\ op.iov[2] = b /\ Tail(op.iov) = <<b>>
    BY <1>4
  <2>5. \A i \in 1 .. Len(a) + Len(b) : F[i] = IF i <= Len(a) THEN a[i] ELSE b[i - Len(a)]
    <3>1. \A i \in 1 .. Len(a) + Len(b) :
            (a \o b)[i] = IF i <= Len(a) THEN a[i] ELSE b[i - Len(a)]
      BY ConcatProperties
    <3> HIDE DEF F
    <3> QED BY <1>4, <3>1
  <2>3. CASE cnt > Len(a)
    <3> DEFINE w == SubSeq(b, cnt - Len(a) + 1, Len(b))
    <3>1. v = <<w>>
      BY <2>2, <2>3 DEF Advance
    <3>2. cnt - Len(a) \in 0 .. Len(b)
      BY <1>2, <2>1, <2>3
    <3>3. w \in Seq(StreamByte) /\ Len(w) = Len(b) - (cnt - Len(a))
      BY <3>2, CutInTwo
    <3>4. w = SubSeq(F, cnt + 1, Len(F))
      <4>1. cnt + 1 \in Len(a) + 1 .. Len(a) + Len(b) + 1 /\ Len(F) \in 0 .. Len(a) + Len(b)
        BY <1>2, <2>1, <2>3
      <4>2. F \in Seq(StreamByte) /\ SubSeq(F, cnt + 1, Len(F)) \in Seq(StreamByte)
            /\ Len(SubSeq(F, cnt + 1, Len(F))) = Len(F) - cnt
            /\ \A i \in 1 .. Len(F) - cnt : SubSeq(F, cnt + 1, Len(F))[i] = F[cnt + i]
        <5>1. cnt \in 0 .. Len(F)
          BY <1>2
        <5> QED BY <1>1, <5>1, CutInTwo
      <4>3. \A i \in 1 .. Len(b) - (cnt - Len(a)) : w[i] = b[(cnt - Len(a)) + i]
        BY <3>2, CutInTwo
      <4>4. \A i \in 1 .. Len(a) + Len(b) : F[i] = IF i <= Len(a) THEN a[i] ELSE b[i - Len(a)]
        BY <2>5
      <4> HIDE DEF w, F
      <4>5. Len(F) - cnt = Len(b) - (cnt - Len(a))
        BY <1>2, <2>1
      <4>6. ASSUME NEW i \in 1 .. Len(w) PROVE w[i] = SubSeq(F, cnt + 1, Len(F))[i]
        <5>1. i \in 1 .. Len(F) - cnt /\ cnt + i \in 1 .. Len(a) + Len(b) /\ ~(cnt + i <= Len(a))
              /\ (cnt + i) - Len(a) = (cnt - Len(a)) + i
          BY <1>2, <2>1, <2>3, <3>3
        <5> QED BY <3>3, <4>2, <4>3, <4>4, <4>5, <5>1
      <4> QED BY <3>3, <4>2, <4>5, <4>6, SeqEqual
    <3> HIDE DEF w, v, F
    <3>5. FlattenSeq(<<w>>) = w
      BY <3>3, FlattenFew
    <3>6. w # <<>> /\ Len(w) <= op.len
      <4>1. Len(w) > 0 /\ Len(w) <= op.len
        BY <1>2, <1>4, <2>1, <2>3, <3>3
      <4> QED BY <4>1
    <3>7. <<w>> \in Seq(Seq(StreamByte)) /\ Len(<<w>>) = 1 /\ <<w>>[1] = w
      BY <3>3
    <3>8. v \in Seq(Seq(StreamByte)) /\ Len(v) = 1 /\ v[1] = w /\ FlattenSeq(v) = w
      BY <3>1, <3>5, <3>7
    <3> QED BY <3>4, <3>6, <3>8
  <2>4. CASE cnt <= Len(a)
    <3> DEFINE w == SubSeq(a, cnt + 1, Len(a))
    <3>2. cnt \in 0 .. Len(a)
      BY <1>2, <2>1, <2>4
    <3>3. w \in Seq(StreamByte) /\ Len(w) = Len(a) - cnt
          /\ \A i \in 1 .. Len(a) - cnt : w[i] = a[cnt + i]
      BY <3>2, CutInTwo
    <3>1. v = <<w, b>>
      <4>1. ~(cnt > Len(a))
        BY <1>2, <2>1, <2>4
      <4>2. v = <<w>> \o <<b>>
        BY <2>2, <4>1 DEF Advance
      <4> HIDE DEF w, v
      <4>3. <<w>> \o <<b>> = <<w, b>>
        BY <3>3, OneAndOne
      <4> QED BY <4>2, <4>3
    <3> HIDE DEF w, v
    <3>4. w \o b = SubSeq(F, cnt + 1, Len(F))
      <4>1. SubSeq(F, cnt + 1, Len(F)) \in Seq(StreamByte)
            /\ Len(SubSeq(F, cnt + 1, Len(F))) = Len(F) - cnt
            /\ \A i \in 1 .. Len(F) - cnt : SubSeq(F, cnt + 1, Len(F))[i] = F[cnt + i]
        <5>1. cnt \in 0 .. Len(F)
          BY <1>2
        <5> QED BY <1>1, <5>1, CutInTwo
      <4>2. /\ w \o b \in Seq(StreamByte) /\ Len(w \o b) = Len(w) + Len(b)
            /\ \A i \in 1 .. Len(w) + Len(b) :
                 (w \o b)[i] = IF i <= Len(w) THEN w[i] ELSE b[i - Len(w)]
        BY <3>3, ConcatProperties
      <4>3. \A i \in 1 .. Len(a) + Len(b) : F[i] = IF i <= Len(a) THEN a[i] ELSE b[i - Len(a)]
        BY <2>5
      <4> DEFINE u == w \o b
                 t == SubSeq(F, cnt + 1, Len(F))
      <4> HIDE DEF F, u, t
      <4>4. Len(u) = Len(F) - cnt /\ Len(t) = Len(F) - cnt
        BY <2>1, <3>2, <3>3, <4>1, <4>2 DEF u, t
      <4>5. ASSUME NEW i \in 1 .. Len(F) - cnt PROVE u[i] = t[i]
        <5>1. cnt + i \in 1 .. Len(a) + Len(b) /\ i \in 1 .. Len(w) + Len(b) /\ i \in Nat
          BY <1>2, <2>1, <3>2, <3>3
        <5>2. t[i] = F[cnt + i]
          BY <4>1 DEF t
        <5>3. CASE i <= Len(w)
          <6>1. i \in 1 .. Len(a) - cnt /\ cnt + i <= Len(a)
            BY <2>1, <3>2, <3>3, <5>1, <5>3
          <6>2. u[i] = w[i]
            BY <4>2, <5>1, <5>3 DEF u
          <6> QED BY <3>3, <4>3, <5>1, <5>2, <6>1, <6>2
        <5>4. CASE ~(i <= Len(w))
          <6>1. ~(cnt + i <= Len(a)) /\ (cnt + i) - Len(a) = i - Len(w)
            BY <2>1, <3>2, <3>3, <5>1, <5>4
          <6>2. u[i] = b[i - Len(w)]
            BY <4>2, <5>1, <5>4 DEF u
          <6> QED BY <4>3, <5>1, <5>2, <6>1, <6>2
        <5> QED BY <5>3, <5>4
      <4>6. u \in Seq(StreamByte) /\ t \in Seq(StreamByte)
        BY <4>1, <4>2 DEF u, t
      <4>7. u = t
        BY <4>4, <4>5, <4>6, SeqEqual
      <4> QED BY <4>7 DEF u, t
    <3> HIDE DEF F
    <3>5. FlattenSeq(<<w, b>>) = w \o b
      BY <3>3, FlattenFew
    <3>6. <<w, b>> \in Seq(Seq(StreamByte)) /\ Len(<<w, b>>) = 2 /\ <<w, b>>[2] = b
      BY <3>3
    <3>7. v \in Seq(Seq(StreamByte)) /\ Len(v) = 2 /\ v[2] = b /\ FlattenSeq(v) = w \o b
      BY <3>1, <3>5, <3>6
    <3> QED BY <1>4, <3>4, <3>7
  <2> QED BY <1>2, <2>1, <2>3, <2>4
<1> HIDE DEF F, v, Goal
<1>5. Goal
  <2>1. \/ \E a, b \in Seq(StreamByte) : op.iov = <<a, b>> /\ Len(b) = op.len /\ F = a \o b
        \/ \E a \in Seq(StreamByte) :
             op.iov = <<a>> /\ a # <<>> /\ Len(a) <= op.len /\ F = a
    <3>1. PICK o, f : o = op /\ f = file /\ IovInv(o, f)
      BY <1>1
    <3>2. F = FlattenSeq(o.iov)
      BY <3>1 DEF F
    <3> QED BY <3>1, <3>2, IovParts
  <2> QED BY <1>3, <1>4, <2>1
<1> QED BY <1>5 DEF Goal, F, v

\* What a call returns is stored, and its text is not touched.
LEMMA ReturnStored ==
    ASSUME StdioInv, calls # <<>>, NEW m \in Int, NEW b \in BOOLEAN,
           calls' = [calls EXCEPT ![Len(calls)].ret = m, ![Len(calls)].failed = b],
           b /\ m = Len(calls[Len(calls)].text) => Last(calls[Len(calls)].text).nl
    PROVE  /\ LossReported' /\ calls' \in Seq(Fwritten)
           /\ TextsOf(calls') = TextsOf(calls) /\ Len(calls') = Len(calls)
           /\ b => \E i \in 1 .. Len(calls') : calls'[i].failed
           /\ (\E i \in 1 .. Len(calls) - 1 : calls[i].failed)
                 => \E i \in 1 .. Len(calls') : calls'[i].failed
<1>1. calls \in Seq(Fwritten) /\ Len(calls) \in Nat \ {0} /\ LossReported
  BY EmptySeq, LenProperties DEF StdioInv, StdioTyped
<1> DEFINE r == [text |-> calls[Len(calls)].text, ret |-> m, failed |-> b]
<1>2. /\ TextsOf(calls') = TextsOf(calls) /\ Len(calls') = Len(calls)
      /\ calls'[Len(calls)] = r
      /\ \A i \in 1 .. Len(calls) - 1 : calls'[i] = calls[i]
      /\ calls' \in Seq(Fwritten)
  <2>1. KeepsText(calls, calls', m, b)
    BY <1>1, TextsKept, Zenon
  <2> QED BY <2>1 DEF KeepsText
<1>3. r.text = calls[Len(calls)].text /\ r.ret = m /\ r.failed = b
  OBVIOUS
<1> HIDE DEF r
<1>4. ASSUME NEW i \in 1 .. Len(calls), calls'[i].failed, calls'[i].ret = Len(calls'[i].text)
      PROVE  Last(calls'[i].text).nl
  <2>1. CASE i = Len(calls)
    BY <1>2, <1>3, <1>4, <2>1
  <2>2. CASE i \in 1 .. Len(calls) - 1
    <3>1. calls'[i] = calls[i]
      BY <1>2, <2>2
    <3> QED BY <1>1, <1>4, <3>1 DEF LossReported
  <2> QED BY <1>1, <2>1, <2>2
<1>5. LossReported'
  BY <1>2, <1>4 DEF LossReported
<1>6. b => \E i \in 1 .. Len(calls') : calls'[i].failed
  <2>1. Len(calls) \in 1 .. Len(calls')
    BY <1>1, <1>2
  <2> QED BY <1>2, <1>3, <2>1
<1>7. ASSUME NEW i \in 1 .. Len(calls) - 1, calls[i].failed
      PROVE  \E j \in 1 .. Len(calls') : calls'[j].failed
  <2>1. i \in 1 .. Len(calls') /\ calls'[i].failed
    BY <1>1, <1>2, <1>7
  <2> QED BY <2>1
<1> QED BY <1>2, <1>5, <1>6, <1>7

\* The buffer at exit, after a round of a write.
LEMMA ExitStep ==
    ASSUME StdioInv, op.by # "nobody", UNCHANGED exiting,
           op.by = "exit" /\ op'.by = "nobody" => file'.pending = <<>>
    PROVE  FlushedAtExit'
<1>1. op.by # "exit" => ~exiting
  BY RunningWrite
<1> QED BY <1>1 DEF FlushedAtExit

\* All the bytes were taken: what comes behind them is in the buffer.
LEMMA WriteDone ==
    ASSUME StdioInv, op.by # "nobody",
           WriteReturns([file EXCEPT !.pending = <<>>, !.room = BUFSIZ], op.len),
           UNCHANGED exiting
    PROVE  /\ op' = NoWrite /\ LostWhereSeen'
           /\ file' \in StdioFile /\ file'.active /\ file'.err = file.err
           /\ file'.pending = op.rest
           /\ LossReported' /\ calls' \in Seq(Fwritten)
           /\ TextsOf(calls') = TextsOf(calls) /\ Len(calls') = Len(calls)
<1> DEFINE f == [file EXCEPT !.pending = <<>>, !.room = BUFSIZ]
           failed == op.len < op.len \/ (f.err /\ ~file.err)
<1>1. /\ op.by \in {"fwrite", "line", "exit"} /\ op.rest \in Seq(StreamByte)
      /\ file \in StdioFile /\ file.active /\ IovInv(op, file)
      /\ op.by # "line" => op.rest = <<>>
      /\ op.by = "exit" => exiting
      /\ op.by # "exit" => calls # <<>> /\ ~exiting /\ CallerInv(op, calls[Len(calls)])
      /\ calls \in Seq(Fwritten)
  BY RunningWrite
<1>2. op.len \in Nat
  BY <1>1 DEF IovInv
<1>3. f = FILE(<<>>, BUFSIZ, file.active, file.err)
  BY <1>1, FileFields
<1>4. file.active \in BOOLEAN /\ file.err \in BOOLEAN /\ BUFSIZ \in 0 .. BUFSIZ
      /\ <<>> \in Seq(StreamByte)
  BY <1>1, StdioAssumption, EmptySeq DEF StdioFile
<1>5. f \in StdioFile
  <2> HIDE DEF f
  <2> QED BY <1>3, <1>4 DEF FILE, StdioFile
<1>6. f.pending = <<>> /\ f.room = BUFSIZ /\ f.active = file.active /\ f.err = file.err
  BY <1>3, FileOf
<1>7. op' = NoWrite
  BY DEF WriteReturns
<1>8. /\ op.by = "exit" => file' = f /\ calls' = calls
      /\ op.by = "fwrite" =>
           /\ file' = f
           /\ calls' = [calls EXCEPT ![Len(calls)].ret = op.len, ![Len(calls)].failed = failed]
      /\ op.by = "line" =>
           /\ file' = IF op.len < op.len THEN f ELSE Buffered(f, op.rest)
           /\ calls' = [calls EXCEPT ![Len(calls)].ret = IF op.len < op.len THEN op.len ELSE @,
                                     ![Len(calls)].failed = failed]
  BY DEF WriteReturns
<1> HIDE DEF f
<1>9. ~failed /\ failed \in BOOLEAN /\ ~(op.len < op.len)
  BY <1>2, <1>4, <1>6
<1> HIDE DEF failed
<1>13. ~exiting /\ file.err => \E i \in 1 .. Len(calls) - 1 : calls[i].failed
  <2>1. SUFFICES ASSUME ~exiting, file.err PROVE \E i \in 1 .. Len(calls) - 1 : calls[i].failed
    OBVIOUS
  <2>2. PICK i \in 1 .. Len(calls) : calls[i].failed
    BY <2>1 DEF StdioInv, LostWhereSeen
  <2>3. ~calls[Len(calls)].failed
    BY <1>1, <2>1 DEF CallerInv
  <2>4. i \in 1 .. Len(calls) - 1
    <3>1. Len(calls) \in Nat /\ i # Len(calls)
      BY <1>1, <2>2, <2>3, LenProperties
    <3> QED BY <3>1
  <2> QED BY <2>2, <2>4
<1>10. CASE op.by = "exit"
  <2>1. file' = f /\ calls' = calls
    BY <1>8, <1>10
  <2>2. LossReported'
    BY <2>1 DEF StdioInv, LossReported
  <2>3. LostWhereSeen'
    BY <1>1, <1>10 DEF LostWhereSeen
  <2> QED BY <1>1, <1>5, <1>6, <1>7, <1>10, <2>1, <2>2, <2>3
<1>11. CASE op.by = "fwrite"
  <2>1. /\ file' = f
        /\ calls' = [calls EXCEPT ![Len(calls)].ret = op.len, ![Len(calls)].failed = failed]
    BY <1>8, <1>11
  <2>2. calls # <<>> /\ op.len \in Int
    BY <1>1, <1>2, <1>11
  <2>3. /\ LossReported' /\ calls' \in Seq(Fwritten)
        /\ TextsOf(calls') = TextsOf(calls) /\ Len(calls') = Len(calls)
        /\ (\E i \in 1 .. Len(calls) - 1 : calls[i].failed)
              => \E i \in 1 .. Len(calls') : calls'[i].failed
    BY <1>9, <2>1, <2>2, ReturnStored
  <2>4. LostWhereSeen'
    BY <1>6, <1>13, <2>1, <2>3 DEF LostWhereSeen
  <2> QED BY <1>1, <1>5, <1>6, <1>7, <1>11, <2>1, <2>3, <2>4
<1>12. CASE op.by = "line"
  <2>1. /\ file' = Buffered(f, op.rest)
        /\ calls' = [calls EXCEPT ![Len(calls)].ret = calls[Len(calls)].ret,
                                  ![Len(calls)].failed = failed]
    <3>1. file' = IF op.len < op.len THEN f ELSE Buffered(f, op.rest)
      BY <1>8, <1>12
    <3>2. calls' = [calls EXCEPT ![Len(calls)].ret =
                                     IF op.len < op.len THEN op.len ELSE calls[Len(calls)].ret,
                                 ![Len(calls)].failed = failed]
      BY <1>8, <1>12
    <3> QED BY <1>9, <3>1, <3>2
  <2>2. calls # <<>> /\ CallerInv(op, calls[Len(calls)])
    BY <1>1, <1>12
  <2>3. calls[Len(calls)].ret \in Int
    <3>1. Len(calls) \in Nat \ {0}
      BY <1>1, <2>2, EmptySeq, LenProperties
    <3>2. calls[Len(calls)] \in Fwritten
      BY <1>1, <3>1, LenProperties
    <3> QED BY <3>2 DEF Fwritten
  <2>4. /\ LossReported' /\ calls' \in Seq(Fwritten)
        /\ TextsOf(calls') = TextsOf(calls) /\ Len(calls') = Len(calls)
        /\ (\E i \in 1 .. Len(calls) - 1 : calls[i].failed)
              => \E i \in 1 .. Len(calls') : calls'[i].failed
    BY <1>9, <2>1, <2>2, <2>3, ReturnStored
  <2>5. Len(op.rest) <= f.room
    BY <1>6, <2>2 DEF CallerInv
  <2>6. /\ file' = FILE(f.pending \o op.rest, f.room - Len(op.rest), f.active, f.err)
        /\ file' \in StdioFile
    BY <1>1, <1>5, <2>1, <2>5, BufferedFacts
  <2>7. file'.pending = <<>> \o op.rest /\ file'.active = file.active /\ file'.err = file.err
    BY <1>6, <2>6, FileOf
  <2>8. <<>> \o op.rest = op.rest
    BY <1>1, ConcatEmptySeq
  <2>9. LostWhereSeen'
    BY <1>13, <2>4, <2>7 DEF LostWhereSeen
  <2> QED BY <1>1, <1>7, <2>4, <2>6, <2>7, <2>8, <2>9
<1> QED BY <1>1, <1>10, <1>11, <1>12

\* writev has failed: the buffer is gone, and the call shows it.
LEMMA WriteFails ==
    ASSUME StdioInv, op.by # "nobody",
           WriteReturns([file EXCEPT !.pending = <<>>, !.room = 0, !.active = FALSE,
                                     !.err = TRUE], ErrorCount),
           UNCHANGED exiting
    PROVE  /\ op' = NoWrite /\ LostWhereSeen'
           /\ file' \in StdioFile /\ file'.err /\ file'.pending = <<>>
           /\ LossReported' /\ calls' \in Seq(Fwritten) /\ Len(calls') = Len(calls)
<1> DEFINE f == [file EXCEPT !.pending = <<>>, !.room = 0, !.active = FALSE, !.err = TRUE]
           failed == ErrorCount < op.len \/ (f.err /\ ~file.err)
<1>1. /\ op.by \in {"fwrite", "line", "exit"} /\ op.rest \in Seq(StreamByte)
      /\ file \in StdioFile /\ IovInv(op, file)
      /\ op.by = "exit" => exiting
      /\ op.by # "exit" => calls # <<>> /\ ~exiting /\ CallerInv(op, calls[Len(calls)])
      /\ calls \in Seq(Fwritten)
  BY RunningWrite
<1>2. f = FILE(<<>>, 0, FALSE, TRUE)
  BY <1>1, FileLost
<1>3. FILE(<<>>, 0, FALSE, TRUE) \in StdioFile
  <2>1. 0 \in 0 .. BUFSIZ /\ <<>> \in Seq(StreamByte)
    BY StdioAssumption, EmptySeq
  <2> QED BY <2>1 DEF FILE, StdioFile
<1>4. f.pending = <<>> /\ f.err = TRUE
  <2>1. \A a, e : FILE(<<>>, 0, a, e).pending = <<>> /\ FILE(<<>>, 0, a, e).err = e
    BY FileOf
  <2> QED BY <1>2, <2>1, Zenon
<1>5. op' = NoWrite
  BY DEF WriteReturns
<1>6. /\ op.by = "exit" => file' = f /\ calls' = calls
      /\ op.by = "fwrite" =>
           /\ file' = f
           /\ calls' = [calls EXCEPT ![Len(calls)].ret = ErrorCount,
                                     ![Len(calls)].failed = failed]
      /\ op.by = "line" =>
           /\ file' = IF ErrorCount < op.len THEN f ELSE Buffered(f, op.rest)
           /\ calls' = [calls EXCEPT ![Len(calls)].ret =
                                         IF ErrorCount < op.len THEN op.len
                                         ELSE calls[Len(calls)].ret,
                                     ![Len(calls)].failed = failed]
  BY DEF WriteReturns
<1>7. f \in StdioFile
  BY <1>2, <1>3
<1> HIDE DEF f
<1>8. op.by # "exit" => ErrorCount \in Int /\ ErrorCount < op.len
  <2>1. HAVE op.by # "exit"
  <2>2. op.len \in Nat /\ op.len > 0
    BY <1>1, <2>1 DEF IovInv, CallerInv
  <2>3. CASE Len(op.iov) = 2
    BY <2>2, <2>3 DEF ErrorCount
  <2>4. CASE Len(op.iov) # 2
    <3>1. op.iov[1] # <<>> /\ op.iov[1] \in Seq(StreamByte) /\ ErrorCount = op.len - Len(op.iov[1])
      <4>1. op.iov \in Seq(Seq(StreamByte)) /\ Len(op.iov) = 1 /\ op.iov[1] # <<>>
        BY <1>1, <2>4 DEF IovInv
      <4>2. op.iov[1] \in Seq(StreamByte)
        BY <4>1, LenProperties
      <4> QED BY <2>4, <4>1, <4>2 DEF ErrorCount
    <3>2. Len(op.iov[1]) \in Nat \ {0}
      BY <3>1, EmptySeq, LenProperties
    <3> QED BY <2>2, <3>1, <3>2
  <2> QED BY <2>3, <2>4
<1>9. failed \in BOOLEAN /\ (op.by # "exit" => failed)
  BY <1>8
<1> HIDE DEF failed
<1>10. CASE op.by = "exit"
  <2>1. file' = f /\ calls' = calls
    BY <1>6, <1>10
  <2>2. LossReported'
    BY <2>1 DEF StdioInv, LossReported
  <2>3. LostWhereSeen'
    BY <1>1, <1>10 DEF LostWhereSeen
  <2> QED BY <1>1, <1>4, <1>5, <1>7, <2>1, <2>2, <2>3
<1>11. CASE op.by # "exit"
  <2>1. calls # <<>> /\ CallerInv(op, calls[Len(calls)]) /\ ErrorCount < op.len
        /\ ErrorCount \in Int /\ op.len \in Nat
    BY <1>1, <1>8, <1>11 DEF IovInv
  <2>2. op.len + Len(op.rest) = Len(calls[Len(calls)].text) /\ Len(op.rest) \in Nat
    BY <1>1, <2>1, LenProperties DEF CallerInv
  <2>3. PICK m \in Int :
          /\ file' = f
          /\ calls' = [calls EXCEPT ![Len(calls)].ret = m, ![Len(calls)].failed = failed]
          /\ \/ m = ErrorCount /\ op.by = "fwrite"
             \/ m = op.len /\ op.by = "line"
    <3>1. CASE op.by = "fwrite"
      BY <1>6, <2>1, <3>1
    <3>2. CASE op.by = "line"
      BY <1>6, <2>1, <3>2
    <3> QED BY <1>1, <1>11, <3>1, <3>2
  <2>4. m = Len(calls[Len(calls)].text) => Last(calls[Len(calls)].text).nl
    <3>1. HAVE m = Len(calls[Len(calls)].text)
    <3>2. m = op.len /\ op.by = "line" /\ Len(op.rest) = 0
      BY <2>1, <2>2, <2>3, <3>1
    <3>3. op.rest = <<>>
      BY <1>1, <3>2, EmptySeq
    <3> QED BY <2>1, <3>2, <3>3 DEF CallerInv
  <2>5. /\ LossReported' /\ calls' \in Seq(Fwritten) /\ Len(calls') = Len(calls)
        /\ failed => \E i \in 1 .. Len(calls') : calls'[i].failed
    BY <1>9, <2>1, <2>3, <2>4, ReturnStored
  <2>6. LostWhereSeen'
    BY <1>9, <1>11, <2>5 DEF LostWhereSeen
  <2> QED BY <1>4, <1>5, <1>7, <2>3, <2>5, <2>6
<1> QED BY <1>10, <1>11

\* writev has taken cnt bytes, fewer than all: the write goes on with the others.
LEMMA WriteGoesOn ==
    ASSUME StdioInv, op.by # "nobody", NEW cnt \in 0 .. Remaining - 1,
           op' = [op EXCEPT !.iov = Advance(cnt)],
           file' = IF Len(op'.iov) = 2 THEN [file EXCEPT !.pending = op'.iov[1]]
                   ELSE [file EXCEPT !.pending = <<>>],
           UNCHANGED <<calls, exiting>>
    PROVE  /\ op'.by = op.by /\ file' \in StdioFile /\ file'.active /\ file'.err = file.err
           /\ WriteInv'
           /\ UnderWay' = SubSeq(FlattenSeq(op.iov), cnt + 1, Len(FlattenSeq(op.iov))) \o op.rest
<1> DEFINE F == FlattenSeq(op.iov)
           v == Advance(cnt)
<1>1. /\ op = WRITE(op.by, op.iov, op.len, op.rest)
      /\ op.by \in {"fwrite", "line", "exit"} /\ op.rest \in Seq(StreamByte)
      /\ file \in StdioFile /\ file.active /\ IovInv(op, file)
      /\ op.by # "line" => op.rest = <<>>
      /\ op.by = "exit" => exiting
      /\ op.by # "exit" => calls # <<>> /\ ~exiting /\ CallerInv(op, calls[Len(calls)])
  BY RunningWrite
<1>2. /\ v \in Seq(Seq(StreamByte)) /\ Len(v) \in {1, 2}
      /\ Len(v) = 2 => Len(v[2]) = op.len
      /\ Len(v) = 1 => v[1] # <<>> /\ Len(v[1]) <= op.len
      /\ FlattenSeq(v) = SubSeq(F, cnt + 1, Len(F))
  BY AdvanceFacts
<1> HIDE DEF v, F
<1>3. op' = WRITE(op.by, v, op.len, op.rest)
  <2>1. PICK b, w, l, e : /\ op = [by |-> b, iov |-> w, len |-> l, rest |-> e]
                          /\ b = op.by /\ l = op.len /\ e = op.rest
    BY <1>1 DEF WRITE
  <2>2. op' = [op EXCEPT !.iov = v]
    BY DEF v
  <2> QED BY <2>1, <2>2 DEF WRITE
<1>4. PICK o : o = op' /\ o.by = op.by /\ o.iov = v /\ o.len = op.len /\ o.rest = op.rest
               /\ o = [by |-> o.by, iov |-> o.iov, len |-> o.len, rest |-> o.rest]
  BY <1>3, WriteOf
<1>5. v[1] \in Seq(StreamByte)
  BY <1>2, LenProperties
<1>6. PICK p \in Seq(StreamByte) : /\ file' = [file EXCEPT !.pending = p]
                                   /\ Len(v) = 2 => p = v[1]
                                   /\ Len(v) = 1 => p = <<>>
  <2>1. CASE Len(v) = 2
    BY <1>4, <1>5, <2>1
  <2>2. CASE Len(v) = 1
    <3>1. <<>> \in Seq(StreamByte)
      BY EmptySeq
    <3>2. op'.iov = v /\ Len(v) # 2
      BY <1>4, <2>2
    <3>3. file' = [file EXCEPT !.pending = <<>>]
      BY <3>2
    <3> QED BY <2>2, <3>1, <3>2, <3>3, Zenon
  <2> QED BY <1>2, <2>1, <2>2
<1>7. file' = FILE(p, file.room, file.active, file.err)
  BY <1>1, <1>6, FileFields
<1>8. file' \in StdioFile /\ file'.pending = p /\ file'.active = file.active
      /\ file'.err = file.err
  <2>1. file.room \in 0 .. BUFSIZ /\ file.active \in BOOLEAN /\ file.err \in BOOLEAN
    BY <1>1 DEF StdioFile
  <2>2. file' \in StdioFile
    BY <1>7, <2>1 DEF FILE, StdioFile
  <2> QED BY <1>7, <2>2 DEF FILE
<1>9. op.len \in Nat
  BY <1>1 DEF IovInv
<1>10. IovInv(o, file')
  BY <1>2, <1>4, <1>6, <1>8, <1>9 DEF IovInv
<1>11. op.by # "exit" => CallerInv(o, calls[Len(calls)])
  BY <1>1, <1>4 DEF CallerInv
<1>12. WriteInv'
  <2>1. /\ o.by \in {"fwrite", "line", "exit"} /\ file'.active /\ o.rest \in Seq(StreamByte)
        /\ o.by = "exit" => exiting' /\ o.rest = <<>>
    BY <1>1, <1>4, <1>8
  <2>2. o.by # "exit" => calls' # <<>> /\ ~exiting' /\ CallerInv(o, calls'[Len(calls')])
    BY <1>1, <1>4, <1>11
  <2> QED BY <1>4, <1>10, <2>1, <2>2, Zenon DEF WriteInv
<1>13. UnderWay' = SubSeq(F, cnt + 1, Len(F)) \o op.rest
  BY <1>1, <1>2, <1>4 DEF UnderWay
<1> QED BY <1>1, <1>4, <1>8, <1>12, <1>13 DEF F

\* A round of __stdio_write keeps the invariant.
LEMMA WriteRound ==
    ASSUME StdioInv, NEW cnt \in -1 .. Remaining, __stdio_write(cnt)
    PROVE  StdioInv'
<1> DEFINE F == FlattenSeq(op.iov)
<1>1. /\ op.by # "nobody" /\ UNCHANGED exiting /\ sent' = sent \o SubSeq(F, 1, cnt)
  BY DEF __stdio_write
<1>2. /\ op.rest \in Seq(StreamByte) /\ F \in Seq(StreamByte)
      /\ UnderWay = F \o op.rest
      /\ op.by # "line" => op.rest = <<>>
      /\ calls \in Seq(Fwritten) /\ sent \in Seq(StreamByte)
      /\ Remaining = Len(F) /\ Remaining \in Nat
  BY <1>1, RunningWrite
<1>3. StdioTyped /\ WriteInv /\ OrderInv /\ LossReported /\ LostWhereSeen
  BY DEF StdioInv
<1>4. Stream = sent \o (F \o op.rest)
  BY <1>2 DEF Stream
<1> HIDE DEF F
<1>5. cnt \in Int /\ (cnt = Remaining \/ cnt = -1 \/ cnt \in 0 .. Remaining - 1)
  BY <1>2
<1>6. <<>> \in Seq(StreamByte)
  BY EmptySeq
<1>7. CASE cnt = Remaining
  <2>1. WriteReturns([file EXCEPT !.pending = <<>>, !.room = BUFSIZ], op.len)
    BY <1>7 DEF __stdio_write
  <2>2. /\ op' = NoWrite /\ LostWhereSeen'
        /\ file' \in StdioFile /\ file'.active /\ file'.err = file.err
        /\ file'.pending = op.rest
        /\ LossReported' /\ calls' \in Seq(Fwritten)
        /\ TextsOf(calls') = TextsOf(calls) /\ Len(calls') = Len(calls)
    BY <1>1, <2>1, WriteDone
  <2>3. SubSeq(F, 1, cnt) = F
    BY <1>2, <1>7
  <2>4. sent' = sent \o F /\ sent' \in Seq(StreamByte)
    BY <1>1, <1>2, <2>3, ConcatProperties
  <2>5. StdioTyped'
    BY <1>1, <1>3, <2>2, <2>4 DEF StdioTyped
  <2>6. WriteInv'
    BY <2>2 DEF WriteInv
  <2>7. Stream' = Stream
    <3>1. UnderWay' = op.rest
      BY <2>2 DEF UnderWay, NoWrite
    <3>2. Stream' = (sent \o F) \o op.rest
      BY <2>4, <3>1 DEF Stream
    <3> QED BY <1>2, <1>4, <3>2, ThreeJoined
  <2>8. OrderInv'
    BY <1>3, <1>6, <2>2, <2>5, <2>6, <2>7, OrderStep
  <2>9. FlushedAtExit'
    BY <1>1, <1>2, <2>2, ExitStep
  <2> QED BY <2>2, <2>5, <2>6, <2>8, <2>9 DEF StdioInv
<1>8. CASE cnt = -1
  <2>1. WriteReturns([file EXCEPT !.pending = <<>>, !.room = 0, !.active = FALSE,
                                  !.err = TRUE], ErrorCount)
    <3>1. cnt # Remaining /\ cnt < 0
      BY <1>2, <1>8
    <3> QED BY <3>1 DEF __stdio_write
  <2>2. /\ op' = NoWrite /\ LostWhereSeen'
        /\ file' \in StdioFile /\ file'.err /\ file'.pending = <<>>
        /\ LossReported' /\ calls' \in Seq(Fwritten) /\ Len(calls') = Len(calls)
    BY <1>1, <2>1, WriteFails
  <2>3. sent' = sent
    <3>1. SubSeq(F, 1, cnt) = <<>>
      BY <1>2, <1>8
    <3> QED BY <1>1, <1>2, <3>1, ConcatEmptySeq
  <2>4. StdioTyped'
    BY <1>1, <1>3, <2>2, <2>3 DEF StdioTyped
  <2>5. WriteInv'
    BY <2>2 DEF WriteInv
  <2>6. Stream' = sent
    <3>1. UnderWay' = <<>>
      BY <2>2 DEF UnderWay, NoWrite
    <3> QED BY <1>2, <2>3, <3>1, ConcatEmptySeq DEF Stream
  <2>7. OrderInv'
    <3>1. PICK t \in Seq(StreamByte) : t = F \o op.rest
      BY <1>2, ConcatProperties
    <3>2. Stream = Stream' \o t
      BY <1>4, <2>6, <3>1
    <3> QED BY <1>3, <2>2, <2>4, <2>5, <3>2, OrderStep
  <2>8. FlushedAtExit'
    BY <1>1, <2>2, ExitStep
  <2> QED BY <2>2, <2>4, <2>5, <2>7, <2>8 DEF StdioInv
<1>9. CASE cnt \in 0 .. Remaining - 1
  <2> DEFINE u == SubSeq(F, 1, cnt)
             w == SubSeq(F, cnt + 1, Len(F))
  <2>1. /\ op' = [op EXCEPT !.iov = Advance(cnt)]
        /\ file' = IF Len(op'.iov) = 2 THEN [file EXCEPT !.pending = op'.iov[1]]
                   ELSE [file EXCEPT !.pending = <<>>]
        /\ UNCHANGED <<calls, exiting>>
    <3>1. cnt # Remaining /\ ~(cnt < 0)
      BY <1>2, <1>9
    <3> QED BY <1>1, <3>1 DEF __stdio_write
  <2>2. /\ op'.by = op.by /\ file' \in StdioFile /\ file'.active /\ file'.err = file.err
        /\ WriteInv'
        /\ UnderWay' = w \o op.rest
    BY <1>1, <1>9, <2>1, WriteGoesOn DEF F
  <2>3. u \in Seq(StreamByte) /\ w \in Seq(StreamByte) /\ u \o w = F
    <3>1. cnt \in 0 .. Len(F)
      BY <1>2, <1>9
    <3> QED BY <1>2, <3>1, CutInTwo
  <2>4. sent' = sent \o u
    BY <1>1
  <2> HIDE DEF u, w
  <2>5. sent' \in Seq(StreamByte)
    BY <1>2, <2>3, <2>4, ConcatProperties
  <2>6. StdioTyped'
    BY <1>1, <1>3, <2>1, <2>2, <2>5 DEF StdioTyped
  <2>7. Stream' = Stream
    <3>1. Stream' = (sent \o u) \o (w \o op.rest)
      BY <2>2, <2>4 DEF Stream
    <3>2. PICK z \in Seq(StreamByte) : z = w \o op.rest
      BY <1>2, <2>3, ConcatProperties
    <3>3. (sent \o u) \o z = sent \o (u \o z)
      <4>1. PICK v \in Seq(StreamByte) : v = sent
        BY <1>2
      <4>2. (v \o u) \o z = v \o (u \o z)
        BY ONLY <2>3, <3>2, <4>1, ThreeJoined
      <4> QED BY ONLY <4>1, <4>2
    <3>4. u \o z = (u \o w) \o op.rest
      <4>1. PICK r \in Seq(StreamByte) : r = op.rest
        BY <1>2
      <4>2. (u \o w) \o r = u \o (w \o r)
        BY <2>3, ThreeJoined
      <4> QED BY <3>2, <4>1, <4>2
    <3> QED BY <1>4, <2>3, <3>1, <3>2, <3>3, <3>4
  <2>8. OrderInv'
    <3>1. Len(calls') = Len(calls) /\ TextsOf(calls') = TextsOf(calls)
      BY <2>1
    <3> QED BY <1>3, <1>6, <2>2, <2>6, <2>7, <3>1, OrderStep
  <2>9. FlushedAtExit'
    BY <1>1, <2>2, ExitStep
  <2>10. LossReported' /\ LostWhereSeen'
    BY <1>3, <2>1, <2>2 DEF LossReported, LostWhereSeen
  <2> QED BY <2>2, <2>6, <2>8, <2>9, <2>10 DEF StdioInv
<1> QED BY <1>5, <1>7, <1>8, <1>9

\* exit begins to write what is in the buffer.
LEMMA ExitCall ==
    ASSUME StdioInv, exit
    PROVE  StdioInv'
<1> USE DEF StdioTyped
<1>1. op = NoWrite /\ op.by = "nobody"
  BY DEF exit, StdioInv, WriteInv
<1>2. StdioTyped /\ WriteInv /\ OrderInv /\ LossReported /\ LostWhereSeen /\ FlushedAtExit
  BY DEF StdioInv
<1>3. ~exiting /\ exiting' /\ UNCHANGED <<file, sent, calls>>
  BY DEF exit
<1>4. StdioTyped' /\ LossReported' /\ LostWhereSeen'
  BY <1>2, <1>3 DEF LossReported, LostWhereSeen
<1>5. file.pending \in Seq(StreamByte) /\ file \in StdioFile
  BY <1>2 DEF StdioFile
<1>6. WriteInv' /\ UnderWay' = UnderWay /\ FlushedAtExit'
  <2>1. CASE file.pending = <<>>
    <3>1. op' = op
      BY <2>1 DEF exit, HasOutput
    <3>2. WriteInv' /\ UnderWay' = UnderWay
      BY <1>1, <1>3, <3>1 DEF WriteInv, UnderWay
    <3>3. FlushedAtExit'
      BY <1>3, <2>1 DEF FlushedAtExit
    <3> QED BY <3>2, <3>3
  <2>2. CASE file.pending # <<>>
    <3>1. op' = WRITE("exit", <<file.pending, <<>>>>, Len(<<>>), <<>>)
      BY <2>2 DEF exit, HasOutput, Write, WRITE
    <3>2. PICK o, a, e : /\ o = op' /\ a = file.pending /\ e = <<>>
                         /\ o = WRITE("exit", <<a, e>>, Len(e), e)
      BY <3>1
    <3>3. a \in Seq(StreamByte) /\ e \in Seq(StreamByte)
      BY <1>5, <3>2, EmptySeq
    <3>4. IsWrite(o, a, e, e) /\ o.by = "exit" /\ o.rest = e
          /\ o = [by |-> o.by, iov |-> o.iov, len |-> o.len, rest |-> o.rest]
      BY <3>2, WriteOf DEF IsWrite
    <3>5. (\A f : f.pending = a => IovInv(o, f)) /\ FlowIs(o, a, e, e)
      BY <3>3, <3>4, IovBegins
    <3>6. IovInv(o, file') /\ FlattenSeq(o.iov) \o o.rest = a
      <4>1. IovInv(o, file')
        BY <1>3, <3>2, <3>5
      <4>2. a \o (e \o e) = a
        BY <3>2, <3>3, ConcatEmptySeq
      <4> QED BY <3>5, <4>1, <4>2 DEF FlowIs
    <3>7. file'.active
      BY <1>2, <1>3, <1>5, <2>2 DEF StdioFile
    <3>8. WriteInv'
      <4>1. o.by \in {"fwrite", "line", "exit"} /\ o.rest \in Seq(StreamByte) /\ o.rest = <<>>
        BY <3>2, <3>3, <3>4
      <4> QED BY <1>3, <3>2, <3>4, <3>6, <3>7, <4>1, Zenon DEF WriteInv
    <3>9. UnderWay' = UnderWay
      BY <1>1, <3>2, <3>4, <3>6 DEF UnderWay
    <3>10. FlushedAtExit'
      BY <3>2, <3>4 DEF FlushedAtExit
    <3> QED BY <3>8, <3>9, <3>10
  <2> QED BY <2>1, <2>2
<1>7. OrderInv'
  <2>1. Stream' = Stream /\ AllBytes' = AllBytes
    BY <1>3, <1>6 DEF Stream, AllBytes
  <2> QED BY <1>2, <1>3, <2>1 DEF OrderInv
<1> QED BY <1>4, <1>6, <1>7 DEF StdioInv

\* The stream as it is before main.
LEMMA StdioInitInv == StdioInit => StdioInv
<1> SUFFICES ASSUME StdioInit PROVE StdioInv
  OBVIOUS
<1> DEFINE a == file.active
<1>1. /\ file = [pending |-> <<>>, room |-> 0, active |-> FALSE, err |-> FALSE]
      /\ op = NoWrite /\ sent = <<>> /\ calls = <<>> /\ exiting = FALSE
  BY DEF StdioInit
<1>2. <<>> \in Seq(StreamByte) /\ <<>> \in Seq(Fwritten) /\ 0 \in 0 .. BUFSIZ
      /\ Len(<<>>) = 0 /\ <<>> \o <<>> = <<>>
  BY StdioAssumption, EmptySeq
<1>3. file \in StdioFile /\ file.pending = <<>>
  BY <1>1, <1>2 DEF StdioFile
<1>4. StdioTyped
  BY <1>1, <1>2, <1>3 DEF StdioTyped
<1>5. Stream = <<>> /\ UnderWay = <<>>
  BY <1>1, <1>2, <1>3 DEF Stream, UnderWay, NoWrite
<1>6. AllBytes = <<>>
  <2>1. [i \in 1 .. Len(calls) |-> calls[i].text] = <<>>
    BY <1>1, <1>2
  <2> QED BY <2>1, FlattenFew DEF AllBytes
<1>7. OrderInv
  BY <1>2, <1>5, <1>6 DEF OrderInv, Ascending
<1>8. LostWhereSeen /\ FlushedAtExit
  BY <1>1, <1>3 DEF LostWhereSeen, FlushedAtExit
<1>9. LossReported
  BY <1>1, <1>2 DEF LossReported
<1>10. WriteInv
  BY <1>1 DEF WriteInv
<1> QED BY <1>4, <1>7, <1>8, <1>9, <1>10 DEF StdioInv

\* A step of another part does not touch the stream.
LEMMA StdioStutters == StdioInv /\ UNCHANGED stdiovars => StdioInv'
<1> SUFFICES ASSUME StdioInv, UNCHANGED stdiovars PROVE StdioInv'
  OBVIOUS
<1>1. UNCHANGED <<file, op, sent, calls, exiting>>
  BY DEF stdiovars
<1>2. UnderWay' = UnderWay /\ AllBytes' = AllBytes
  BY <1>1 DEF UnderWay, AllBytes
<1>3. Stream' = Stream
  BY <1>1, <1>2 DEF Stream
<1>4. StdioTyped' /\ WriteInv'
  BY <1>1 DEF StdioInv, StdioTyped, WriteInv
<1>5. OrderInv'
  BY <1>1, <1>2, <1>3 DEF StdioInv, OrderInv
<1>6. LossReported' /\ FlushedAtExit' /\ LostWhereSeen'
  BY <1>1 DEF StdioInv, LossReported, FlushedAtExit, LostWhereSeen
<1> QED BY <1>4, <1>5, <1>6 DEF StdioInv

\* A step of the stream keeps the invariant.
LEMMA StdioStep == StdioInv /\ StdioNext => StdioInv'
BY FwriteInv, WriteRound, ExitCall DEF StdioNext

\* The invariant says that the stream is kept.
LEMMA StdioInvKept == StdioInv => StreamKept
<1> SUFFICES ASSUME StdioInv PROVE StreamKept
  OBVIOUS
<1>1. StreamHasType /\ sent \in Seq(StreamByte)
  BY StreamTyped DEF StdioInv, StdioTyped
<1>2. OrderInv /\ LossReported /\ FlushedAtExit /\ LostWhereSeen
  BY DEF StdioInv
<1>3. StreamInOrder
  <2>1. ~file.err => sent \o UnderWay = AllBytes
    BY <1>2 DEF OrderInv, Stream
  <2> QED BY <2>1 DEF StreamInOrder, UnderWay
<1>4. NothingTwice
  <2>1. PICK u \in Seq(StreamByte) : u = UnderWay
    BY <1>1 DEF StreamHasType
  <2>2. /\ Ascending(sent \o u) /\ Len(calls) \in Nat
        /\ \A i \in 1 .. Len(sent \o u) : (sent \o u)[i].call <= Len(calls)
    BY <1>1, <1>2, <2>1 DEF OrderInv, Stream, StreamHasType
  <2>3. Ascending(sent)
    BY <1>1, <2>2, AscendingPrefix
  <2> QED BY <2>3 DEF NothingTwice, Ascending, Before
<1> QED BY <1>2, <1>3, <1>4 DEF StreamKept

-----------------------------------------------------------------------------
(* Machine.                                                                *)

\* A step of Machine is a step of one part, or leaves all alone.
LEMMA StepOfPart ==
    ASSUME [Next]_machvars
    PROVE  /\ part' = part
           /\ (part = "boot" /\ BootNext) \/ UNCHANGED bootvars
           /\ (part = "mmci" /\ MmciNext) \/ UNCHANGED mmcivars
           /\ (part = "sys" /\ SyscallsNext) \/ UNCHANGED sysvars
           /\ (part = "mem" /\ UserMemNext) \/ UNCHANGED umvars
           /\ (part = "stdio" /\ StdioNext) \/ UNCHANGED stdiovars
BY DEF Next, Step, machvars, notboot, notsys

-----------------------------------------------------------------------------
(* The boot sequence.                                                      *)

\* While detect_memory searches without having skipped the region, r0 responds and
\* r3 is a step; when it is done r0 + 1 does not respond, or enough was found.
SearchInv ==
    /\ part = "boot" => ram \in Nat
    /\ r0 \in Int /\ r3 \in Nat
    /\ stage = "detect_memory" => r3 > 0
    /\ part # "boot" => stage = "detect_memory"
    /\ skipped \in BOOLEAN
    /\ ~skipped => r0 = 0 \/ r0 + WordSize <= ram
    /\ ~skipped /\ stage # "detect_memory" => r0 >= MaxMemory \/ ~Responds(r0 + 1)

\* What is set up at which stage: printing always finds a function and a UART, and
\* the timer is unmasked only when everything that an interrupt needs exists.
SetUpInv ==
    /\ fault = "none"
    /\ stage = "init_chipset" => board = "RaspBerryPiTwo"
    /\ \/ /\ chipset.uart_putc = "stub"
          /\ stage \in {"detect_memory", "mmu", "stacks", "init_hardwareinfo", "init_chipset", "halted"}
          /\ vectors = "low"
       \/ /\ chipset = [uart_putc |-> "bcm2836", handle_irq |-> "bcm2836"] /\ uart
          /\ stage \notin {"detect_memory", "mmu", "stacks", "init_hardwareinfo", "init_chipset"}
    /\ stage \in {"init_heap", "splash", "enable_interrupt", "late_init", "running"} =>
          vectors = "handlers"
    /\ signal = "unmasked" => timers /\ vectors = "handlers" /\ chipset.handle_irq # "NULL"
    /\ timers => stage \in {"running", "halted"}

BootInv == SearchInv /\ SetUpInv

\* At reset nothing has been set up and the search for memory is at its first step.
LEMMA InitBootInv == Init => BootInv
<1> SUFFICES ASSUME Init PROVE BootInv
  OBVIOUS
<1>1. /\ ram \in Only("boot", Ram) /\ r0 = 0 /\ r3 = FirstStep /\ skipped = FALSE
      /\ stage = "detect_memory" /\ vectors = "low"
      /\ chipset = [uart_putc |-> "stub", handle_irq |-> "NULL"]
      /\ uart = FALSE /\ heap = FALSE /\ timers = FALSE /\ signal = "off" /\ fault = "none"
  BY DEF Init, BootInit
<1>2. part = "boot" => ram \in Nat
  BY <1>1, BootAssumption DEF Only
<1>3. SearchInv
  <2>1. r0 \in Int /\ r3 \in Nat /\ r3 > 0
    BY <1>1, BootAssumption
  <2> QED BY <1>1, <1>2, <2>1, Zenon DEF SearchInv
<1>4. SetUpInv
  BY <1>1 DEF SetUpInv
<1> QED BY <1>3, <1>4 DEF BootInv

\* One round of detect_memory.
LEMMA SearchStep ==
    ASSUME SearchInv, part = "boot", part' = part, detect_memory
    PROVE  SearchInv'
<1> DEFINE a == r0 + r3
           forbidden == RegionStart <= a /\ a < RegionEnd
           at == IF forbidden THEN RegionEnd ELSE a
<1>1. /\ ram \in Nat /\ ram' = ram /\ stage = "detect_memory"
      /\ r0 \in Int /\ r3 \in Nat /\ r3 > 0 /\ WordSize \in Nat \ {0} /\ MaxMemory \in Nat
      /\ RegionEnd \in Nat /\ RegionStart \in Nat
  BY BootAssumption DEF SearchInv, detect_memory
<1>2. a \in Int /\ at \in Int /\ forbidden \in BOOLEAN
  BY <1>1
<1>3. CASE Responds(at)
  <2>1. /\ r0' = at /\ r3' = r3 /\ skipped' = skipped
        /\ stage' = IF at < MaxMemory THEN "detect_memory" ELSE "mmu"
    BY <1>3 DEF detect_memory
  <2>2. r0' + WordSize <= ram'
    BY <1>1, <1>3, <2>1 DEF Responds
  <2>3. stage' # "detect_memory" => r0' >= MaxMemory
    BY <1>1, <1>2, <2>1
  <2> HIDE DEF at
  <2> QED BY <1>1, <1>2, <2>1, <2>2, <2>3 DEF SearchInv
<1>4. CASE ~Responds(at)
  <2>1. /\ r0' = at - r3 /\ r3' = r3 \div 2
        /\ stage' = IF r3' = 0 THEN "mmu" ELSE "detect_memory"
        /\ skipped' = (skipped \/ forbidden)
    BY <1>4 DEF detect_memory, NotThere
  <2>2. r0' \in Int /\ r3' \in Nat /\ (stage' = "detect_memory" => r3' > 0)
    BY <1>1, <1>2, <2>1
  <2>3. skipped' \in BOOLEAN
    BY <1>2, <2>1 DEF SearchInv
  <2>4. ASSUME ~skipped'
        PROVE  /\ r0' = 0 \/ r0' + WordSize <= ram'
               /\ stage' # "detect_memory" => ~(r0' + 1 + WordSize <= ram')
    <3>1. ~skipped /\ ~forbidden
      BY <2>1, <2>4
    <3>2. at = r0 + r3 /\ r0' = r0
      BY <1>1, <2>1, <3>1
    <3>3. r0 = 0 \/ r0 + WordSize <= ram
      BY <3>1 DEF SearchInv
    <3>4. stage' # "detect_memory" => r3 = 1
      BY <1>1, <2>1
    <3>5. ~(r0 + r3 + WordSize <= ram)
      BY <1>4, <3>2 DEF Responds
    <3> QED BY <1>1, <3>2, <3>3, <3>4, <3>5
  <2> QED BY <1>1, <2>2, <2>3, <2>4 DEF SearchInv, Responds
<1> QED BY <1>3, <1>4

\* Every step of the boot sequence after another leaves what was set up so far set up.
LEMMA SetUpStep ==
    ASSUME SetUpInv, BootNext
    PROVE  SetUpInv'
<1>1. CASE detect_memory
  BY <1>1 DEF detect_memory, SetUpInv, machinevars
<1>2. CASE EnableMmu \/ stacks
  BY <1>2 DEF EnableMmu, stacks, SetUpInv, machinevars, detectvars
<1>3. CASE init_hardwareinfo
  BY <1>3 DEF init_hardwareinfo, panic, disable_interrupt, kprintf, Output, SetUpInv, machinevars, detectvars
<1>4. CASE init_chipset
  BY <1>4 DEF init_chipset, Output, SetUpInv, machinevars, detectvars
<1>5. CASE vm2_start \/ init_vector_table
  BY <1>5 DEF vm2_start, init_vector_table, kprintf, Output, SetUpInv, machinevars, detectvars
<1>6. CASE init_heap \/ splash
  BY <1>6 DEF init_heap, splash, kprintf, Output, SetUpInv, machinevars, detectvars
<1>7. CASE enable_interrupt
  BY <1>7 DEF enable_interrupt, kprintf, Output, SetUpInv, detectvars
<1>8. CASE Schedule
  <2>1. CASE timers
    BY <1>8, <2>1 DEF Schedule, SetUpInv, detectvars
  <2>2. CASE ~timers
    <3>1. panic /\ UNCHANGED <<detectvars, board>> /\ stage = "running"
      BY <1>8, <2>2 DEF Schedule
    <3>2. stage' = "halted" /\ fault' = fault
      BY <3>1 DEF panic, disable_interrupt, kprintf, Output, SetUpInv
    <3> QED BY <3>1, <3>2 DEF panic, disable_interrupt, SetUpInv, detectvars
  <2> QED BY <2>1, <2>2
<1>9. CASE Irq
  BY <1>9 DEF Irq, kprintf, Output, SetUpInv, detectvars
<1>10. CASE undef_instruction_handler \/ prefetch_abort_handler
  BY <1>10 DEF undef_instruction_handler, prefetch_abort_handler, Fatal, panic, disable_interrupt, kprintf,
               Output, SetUpInv, detectvars
<1>11. CASE bcm2836_timer_init
  <2>1. stage = "late_init" /\ stage' = "running" /\ signal' = "masked"
        /\ chipset' = chipset /\ vectors' = vectors /\ (uart' = uart) /\ board' = board
    BY <1>11 DEF bcm2836_timer_init, TimerSignal
  <2>2. fault' = fault
    BY <1>11, <2>1 DEF bcm2836_timer_init, kprintf, Output, SetUpInv
  <2> QED BY <2>1, <2>2 DEF SetUpInv
<1> QED BY <1>1, <1>2, <1>3, <1>4, <1>5, <1>6, <1>7, <1>8, <1>9, <1>10, <1>11 DEF BootNext, BootStep

\* A step of the boot sequence keeps its invariant; steps of other parts leave its state alone.
LEMMA NextBootInv ==
    ASSUME BootInv, [Next]_machvars
    PROVE  BootInv'
<1>1. part' = part /\ ((part = "boot" /\ BootNext) \/ UNCHANGED bootvars)
  BY StepOfPart
<1>2. CASE UNCHANGED bootvars
  BY <1>1, <1>2 DEF bootvars, BootInv, SearchInv, SetUpInv, Responds
<1>3. CASE part = "boot" /\ BootNext
  <2>1. SetUpInv'
    BY <1>3, SetUpStep DEF BootInv
  <2>2. CASE detect_memory
    BY <1>1, <1>3, <2>1, <2>2, SearchStep DEF BootInv
  <2>3. CASE ~detect_memory
    <3>1. UNCHANGED detectvars /\ stage # "detect_memory" /\ stage' # "detect_memory"
      BY <1>3, <2>3 DEF BootNext, BootStep, EnableMmu, stacks, init_hardwareinfo, init_chipset, vm2_start,
             init_vector_table, init_heap, splash, enable_interrupt, bcm2836_timer_init, Schedule, Irq,
             undef_instruction_handler, prefetch_abort_handler, Fatal, panic, BootInv, SetUpInv
    <3>2. SearchInv'
      BY <1>1, <1>3, <3>1 DEF BootInv, SearchInv, Responds, detectvars
    <3> QED BY <2>1, <3>2 DEF BootInv
  <2> QED BY <2>2, <2>3
<1> QED BY <1>1, <1>2, <1>3

\* The invariant of the boot sequence implies what the run checks of it.
LEMMA BootInvSafe == BootInv => BootSafe
<1> SUFFICES ASSUME BootInv PROVE BootSafe
  OBVIOUS
<1>1. DetectedSize
  <2> SUFFICES ASSUME stage # "detect_memory", ~skipped, r0 < MaxMemory
               PROVE  (r0 + WordSize <= ram \/ r0 = 0) /\ ram - r0 <= WordSize
    BY DEF DetectedSize
  <2>1. /\ ram \in Nat /\ r0 \in Int /\ WordSize \in Nat /\ MaxMemory \in Nat
        /\ r0 = 0 \/ r0 + WordSize <= ram
        /\ ~(r0 + 1 + WordSize <= ram)
    BY BootAssumption DEF BootInv, SearchInv, Responds
  <2> QED BY <2>1
<1>2. PrintsSafely /\ InterruptsHandled
  BY DEF BootInv, SetUpInv, PrintsSafely, InterruptsHandled
<1> QED BY <1>1, <1>2 DEF BootSafe

\* Whatever memory and board there are and whenever an exception or an interrupt
\* comes: detect_memory finds the size of the memory, and nothing is printed or
\* handled through what is not set up yet.
THEOREM BootAlwaysSafe == Spec => []BootSafe
<1>1. BootInv /\ [Next]_machvars => BootInv'
  BY NextBootInv
<1> QED BY InitBootInv, BootInvSafe, <1>1, PTL DEF Spec

-----------------------------------------------------------------------------
(* The SD card.                                                            *)

Jobs == {j \in [kind : {"none", "transmit", "receive"}, address : Block \cup {0}, number : Nat] :
            j.kind # "none" => j.address \in Block}

MmciTypeOK ==
    /\ data_len \in {0, SD_BLOCK_SIZE}
    /\ fifo \in Seq(Nat)
    /\ fifo_cnt \in 0 .. SD_BLOCK_SIZE
    /\ card \in [Block -> [1 .. SD_BLOCK_SIZE -> Nat]]
    /\ job \in Jobs
    /\ begun \in BOOLEAN
    /\ ctl \in [job : Jobs, lacks : 0 .. SD_BLOCK_SIZE]
    /\ aim \in [job : Jobs, place : 1 .. SD_BLOCK_SIZE + 1]
    /\ buffer \in Seq(Nat)
    /\ disturbed \in BOOLEAN
    /\ spoiled \in SUBSET Block
    /\ result \in [job : Jobs, ret : {0, -1}, disturbed : BOOLEAN, ready : BOOLEAN]

\* The transfer that is under way, or the last one.
Current == IF job.kind = "none" THEN result.job ELSE job

\* The controller works on the current transfer, and the card was told of it; one of
\* them is behind when the driver has run only the first half of its commands.
SameJob ==
    /\ ctl.job = IF begun /\ job.kind = "transmit" THEN result.job ELSE Current
    /\ aim.job = IF begun /\ job.kind = "receive" THEN result.job ELSE Current
    /\ begun => job.kind # "none"
    /\ job.kind # "none" => job.number = result.job.number + 1

\* The current transfer was started with DATA_LEN set.
Loaded == IF job.kind = "none" THEN result.ready ELSE data_len # 0

\* The card was told of the current transfer to write a block, whose words so far
\* are all of it.
Writing == aim.job.kind = "transmit" /\ ~(begun /\ job.kind = "receive")
Clean == aim.job.address \notin spoiled \/ ~disturbed

\* No word on the card is of a transfer to come, and the words in front of the one
\* that the card writes next are of the transfer that it was told of.
CardWritten ==
    /\ \A b \in Block : \A i \in 1 .. SD_BLOCK_SIZE : card[b][i] <= Current.number
    /\ Writing /\ Clean =>
          \A i \in 1 .. aim.place - 1 : card[aim.job.address][i] = aim.job.number

\* A word to be written is of the transfer that the controller works on, and a
\* transfer that was started without DATA_LEN moves nothing.
WordsToWrite ==
    /\ ctl.job.kind = "transmit" => \A i \in 1 .. Len(fifo) : fifo[i] = ctl.job.number
    /\ ~begun /\ ~Loaded => ctl.lacks = 0

\* What was pushed is on the card or in the FIFO, unless the transfer was disturbed;
\* what the controller has read is in the buffer or in the FIFO.
WordsOnTheWay ==
    ~begun =>
        /\ ctl.job.kind = "transmit" =>
              /\ Loaded /\ ~disturbed =>
                    /\ fifo_cnt + Len(fifo) = ctl.lacks
                    /\ ctl.lacks = SD_BLOCK_SIZE + 1 - aim.place
              /\ job.kind = "none" => fifo_cnt = 0
              /\ job.kind = "none" /\ disturbed => result.disturbed
        /\ ctl.job.kind = "receive" /\ Loaded /\ ~disturbed =>
              /\ ctl.lacks = SD_BLOCK_SIZE + 1 - aim.place
              /\ Len(buffer) + Len(fifo) = aim.place - 1
              /\ \A i \in 1 .. Len(buffer) : buffer[i] = card[ctl.job.address][i]
              /\ \A i \in 1 .. Len(fifo) : fifo[i] = card[ctl.job.address][Len(buffer) + i]
        /\ ctl.job.kind = "receive" /\ job.kind = "none" /\ ~result.disturbed =>
              ~disturbed /\ ctl.lacks = 0 /\ fifo = <<>>

\* While only the first half of the commands has been run and no word has moved, the
\* card is at the first word of the block that sd_transmit told it of, and the FIFO
\* that sd_receive has emptied is empty.
HalfBegun ==
    begun =>
        /\ job.kind = "transmit" /\ ~disturbed => aim.place = 1
        /\ job.kind = "receive" =>
              /\ buffer = <<>> /\ ctl.lacks <= data_len
              /\ ~disturbed => fifo = <<>> /\ ctl.lacks = data_len

MmciInv ==
    /\ MmciTypeOK /\ SameJob /\ CardWritten /\ WordsToWrite /\ WordsOnTheWay /\ HalfBegun
    /\ NoMixedWords

\* What a word written to the back of the FIFO does to it.
LEMMA AppendWord ==
    ASSUME NEW s \in Seq(Nat), NEW x \in Nat
    PROVE  /\ Append(s, x) \in Seq(Nat) /\ Len(s) \in Nat /\ Len(Append(s, x)) = Len(s) + 1
           /\ \A i \in 1 .. Len(s) : Append(s, x)[i] = s[i]
           /\ Append(s, x)[Len(s) + 1] = x
OBVIOUS

\* What a word read from the front of the FIFO does to it.
LEMMA TakeWord ==
    ASSUME NEW s \in Seq(Nat), s # <<>>
    PROVE  /\ Tail(s) \in Seq(Nat) /\ Len(s) \in Nat /\ Len(s) >= 1 /\ Len(Tail(s)) = Len(s) - 1
           /\ \A i \in 1 .. Len(s) - 1 : Tail(s)[i] = s[i + 1]
           /\ Head(s) = s[1] /\ Head(s) \in Nat
OBVIOUS

\* What the invariant says of the types, in the form the steps use it.
LEMMA MmciTypes ==
    ASSUME MmciTypeOK
    PROVE  /\ SD_BLOCK_SIZE \in Nat \ {0} /\ Len(fifo) \in Nat /\ Len(buffer) \in Nat
           /\ ctl.job \in Jobs /\ ctl.lacks \in 0 .. SD_BLOCK_SIZE /\ ctl.job.number \in Nat
           /\ ctl.job.kind # "none" => ctl.job.address \in Block
           /\ aim.job \in Jobs /\ aim.place \in 1 .. SD_BLOCK_SIZE + 1 /\ aim.job.number \in Nat
           /\ aim.job.kind # "none" => aim.job.address \in Block
           /\ result.job \in Jobs /\ result.job.number \in Nat
           /\ job \in Jobs /\ job.number \in Nat /\ fifo_cnt \in Nat
           /\ Current.number \in Nat
           /\ \A b \in Block : \A i \in 1 .. SD_BLOCK_SIZE : card[b][i] \in Nat
<1>1. SD_BLOCK_SIZE \in Nat \ {0} /\ Len(fifo) \in Nat /\ Len(buffer) \in Nat /\ fifo_cnt \in Nat
  BY MmciAssumption DEF MmciTypeOK
<1>2. /\ ctl.job \in Jobs /\ ctl.lacks \in 0 .. SD_BLOCK_SIZE
      /\ aim.job \in Jobs /\ aim.place \in 1 .. SD_BLOCK_SIZE + 1
      /\ result.job \in Jobs /\ job \in Jobs
  BY DEF MmciTypeOK
<1>3. \A j \in Jobs : j.number \in Nat /\ (j.kind # "none" => j.address \in Block)
  BY DEF Jobs
<1>4. \A b \in Block : \A i \in 1 .. SD_BLOCK_SIZE : card[b][i] \in Nat
  <2>1. card \in [Block -> [1 .. SD_BLOCK_SIZE -> Nat]]
    BY DEF MmciTypeOK
  <2> QED BY ONLY <2>1
<1>5. Current.number \in Nat
  BY <1>2, <1>3 DEF Current
<1> QED BY <1>1, <1>2, <1>3, <1>4, <1>5

\* Before the first transfer the FIFO is empty and nothing is on its way.
LEMMA InitMmciInv == Init => MmciInv
<1> SUFFICES ASSUME Init PROVE MmciInv
  OBVIOUS
<1>0. MmciInit /\ SD_BLOCK_SIZE \in Nat \ {0}
  BY MmciAssumption DEF Init
<1>1. /\ data_len = 0 /\ fifo = <<>> /\ fifo_cnt = 0 /\ job = Idle /\ begun = FALSE
      /\ buffer = <<>> /\ disturbed = FALSE /\ spoiled = {}
      /\ card \in [Block -> [1 .. SD_BLOCK_SIZE -> Nat]]
      /\ \A b \in Block : \A i \in 1 .. SD_BLOCK_SIZE : card[b][i] = 0
      /\ ctl = [job |-> Idle, lacks |-> 0]
      /\ aim = [job |-> Idle, place |-> 1]
      /\ result = [job |-> Idle, ret |-> 0, disturbed |-> FALSE, ready |-> FALSE]
  BY <1>0 DEF MmciInit, EmptyBlock
<1>2. Idle \in Jobs /\ Idle.kind = "none" /\ Idle.number = 0
  BY DEF Idle, Jobs
<1>3. MmciTypeOK
  <2>1. /\ fifo \in Seq(Nat) /\ buffer \in Seq(Nat) /\ fifo_cnt \in 0 .. SD_BLOCK_SIZE
        /\ 0 \in 0 .. SD_BLOCK_SIZE /\ 1 \in 1 .. SD_BLOCK_SIZE + 1
    BY <1>0, <1>1
  <2>2. /\ ctl \in [job : Jobs, lacks : 0 .. SD_BLOCK_SIZE]
        /\ aim \in [job : Jobs, place : 1 .. SD_BLOCK_SIZE + 1]
    BY <1>1, <1>2, <2>1
  <2>3. result \in [job : Jobs, ret : {0, -1}, disturbed : BOOLEAN, ready : BOOLEAN]
    BY <1>1, <1>2
  <2> QED BY <1>1, <1>2, <2>1, <2>2, <2>3, Zenon DEF MmciTypeOK
<1>4. SameJob /\ CardWritten /\ HalfBegun
  BY <1>0, <1>1, <1>2 DEF SameJob, CardWritten, HalfBegun, Current, Writing
<1>5. WordsOnTheWay /\ WordsToWrite
  BY <1>1, <1>2 DEF WordsOnTheWay, WordsToWrite
<1>6. NoMixedWords
  BY <1>1 DEF NoMixedWords
<1> QED BY <1>3, <1>4, <1>5, <1>6 DEF MmciInv

\* A step that moves no word and keeps the transfers apart from `disturbed`.
LEMMA MmciFrame ==
    ASSUME MmciInv,
           UNCHANGED <<fifo, fifo_cnt, card, job, begun, ctl, aim, buffer, disturbed, spoiled,
                       result>>,
           data_len' \in {0, SD_BLOCK_SIZE}, job.kind = "none" \/ data_len' = data_len
    PROVE  MmciInv'
<1>1. MmciTypeOK' /\ NoMixedWords'
  BY DEF MmciInv, MmciTypeOK, NoMixedWords
<1>2. (Loaded' <=> Loaded) /\ Current' = Current
  BY DEF Loaded, Current
<1>3. SameJob'
  BY <1>2 DEF MmciInv, SameJob
<1>4. CardWritten'
  BY <1>2 DEF MmciInv, CardWritten, Writing, Clean
<1>5. WordsOnTheWay'
  BY <1>2 DEF MmciInv, WordsOnTheWay
<1>6. WordsToWrite' /\ HalfBegun'
  BY <1>2 DEF MmciInv, WordsToWrite, HalfBegun
<1> QED BY <1>1, <1>3, <1>4, <1>5, <1>6 DEF MmciInv

\* The new transfer of sd_transmit or sd_receive.
LEMMA BeginFacts ==
    ASSUME MmciInv, NEW kind \in {"transmit", "receive"}, NEW address \in Block,
           Begin(kind, address)
    PROVE  /\ job.kind = "none" /\ begun' = TRUE /\ ~begun /\ buffer' = <<>> /\ disturbed' = FALSE
           /\ UNCHANGED <<data_len, card, spoiled, result>>
           /\ job' \in Jobs /\ job'.kind = kind /\ job'.number = result.job.number + 1
           /\ job'.address = address
           /\ Current = result.job /\ Current' = job'
           /\ ctl.job = result.job /\ aim.job = result.job /\ result.job.number \in Nat
           /\ data_len \in {0, SD_BLOCK_SIZE} /\ SD_BLOCK_SIZE \in Nat \ {0}
           /\ \A b \in Block : \A i \in 1 .. SD_BLOCK_SIZE : card[b][i] <= Current'.number
           /\ NoMixedWords'
<1> DEFINE next == [kind |-> kind, address |-> address, number |-> result.job.number + 1]
<1>1. /\ job.kind = "none" /\ job' = next /\ begun' = TRUE /\ buffer' = <<>> /\ disturbed' = FALSE
      /\ UNCHANGED <<data_len, card, spoiled, result>>
  BY DEF Begin
<1>2. MmciTypeOK /\ SameJob /\ CardWritten /\ NoMixedWords
  BY DEF MmciInv
<1>3. /\ SD_BLOCK_SIZE \in Nat \ {0} /\ result.job.number \in Nat /\ data_len \in {0, SD_BLOCK_SIZE}
  BY <1>2, MmciTypes DEF MmciTypeOK
<1>4. next \in Jobs /\ next.kind = kind /\ next.number = result.job.number + 1
      /\ next.address = address
  BY <1>3 DEF Jobs
<1> HIDE DEF next
<1>5. Current = result.job /\ Current' = next
  BY <1>1, <1>4 DEF Current
<1>6. ~begun /\ ctl.job = result.job /\ aim.job = result.job
  BY <1>1, <1>2, <1>5 DEF SameJob
<1>7. ASSUME NEW b \in Block, NEW i \in 1 .. SD_BLOCK_SIZE PROVE card[b][i] <= Current'.number
  <2>1. card[b][i] <= result.job.number /\ card[b][i] \in Nat
    BY <1>2, <1>5, MmciTypes DEF CardWritten
  <2> QED BY <1>3, <1>4, <1>5, <2>1
<1>8. NoMixedWords'
  BY <1>1, <1>2 DEF NoMixedWords
<1> QED BY <1>1, <1>3, <1>4, <1>5, <1>6, <1>7, <1>8

\* sd_transmit tells the card of the block; the words that are left go on to it.
LEMMA TransmitInv ==
    ASSUME MmciInv, NEW b \in Block, sd_transmit(b)
    PROVE  MmciInv'
<1>1. /\ job.kind = "none" /\ begun' = TRUE /\ ~begun /\ buffer' = <<>> /\ disturbed' = FALSE
      /\ UNCHANGED <<data_len, card, spoiled, result>>
      /\ job' \in Jobs /\ job'.kind = "transmit" /\ job'.number = result.job.number + 1
      /\ job'.address = b
      /\ Current = result.job /\ Current' = job'
      /\ ctl.job = result.job /\ aim.job = result.job /\ result.job.number \in Nat
      /\ data_len \in {0, SD_BLOCK_SIZE} /\ SD_BLOCK_SIZE \in Nat \ {0}
      /\ \A c \in Block : \A i \in 1 .. SD_BLOCK_SIZE : card[c][i] <= Current'.number
      /\ NoMixedWords'
  BY BeginFacts DEF sd_transmit
<1>2. aim' = [job |-> job', place |-> 1] /\ UNCHANGED <<fifo, fifo_cnt, ctl>>
  BY DEF sd_transmit, Address
<1>3. MmciTypeOK /\ WordsToWrite
  BY DEF MmciInv
<1>4. aim'.job = job' /\ aim'.place = 1
  BY <1>2
<1>5. MmciTypeOK'
  <2>1. aim' \in [job : Jobs, place : 1 .. SD_BLOCK_SIZE + 1] /\ buffer' \in Seq(Nat)
    BY <1>1, <1>2
  <2> QED BY <1>1, <1>2, <1>3, <2>1 DEF MmciTypeOK
<1>6. SameJob'
  BY <1>1, <1>2, <1>4 DEF SameJob
<1>7. CardWritten'
  BY <1>1, <1>4 DEF CardWritten
<1>8. WordsToWrite' /\ WordsOnTheWay' /\ HalfBegun'
  BY <1>1, <1>2, <1>3 DEF WordsToWrite, WordsOnTheWay, HalfBegun
<1> QED BY <1>1, <1>5, <1>6, <1>7, <1>8 DEF MmciInv

\* sd_receive empties the FIFO; the card goes on with what it was told before.
LEMMA ReceiveInv ==
    ASSUME MmciInv, NEW b \in Block, sd_receive(b)
    PROVE  MmciInv'
<1>1. /\ job.kind = "none" /\ begun' = TRUE /\ ~begun /\ buffer' = <<>> /\ disturbed' = FALSE
      /\ UNCHANGED <<data_len, card, spoiled, result>>
      /\ job' \in Jobs /\ job'.kind = "receive" /\ job'.number = result.job.number + 1
      /\ job'.address = b
      /\ Current = result.job /\ Current' = job'
      /\ ctl.job = result.job /\ aim.job = result.job /\ result.job.number \in Nat
      /\ data_len \in {0, SD_BLOCK_SIZE} /\ SD_BLOCK_SIZE \in Nat \ {0}
      /\ \A c \in Block : \A i \in 1 .. SD_BLOCK_SIZE : card[c][i] <= Current'.number
      /\ NoMixedWords'
  BY BeginFacts DEF sd_receive
<1>2. fifo' = <<>> /\ fifo_cnt' = data_len /\ ctl' = [job |-> job', lacks |-> data_len] /\ aim' = aim
  BY DEF sd_receive, Enable
<1>3. MmciTypeOK
  BY DEF MmciInv
<1>4. ctl'.job = job' /\ ctl'.lacks = data_len
  BY <1>2
<1>5. MmciTypeOK'
  <2>1. data_len \in 0 .. SD_BLOCK_SIZE /\ fifo' \in Seq(Nat) /\ buffer' \in Seq(Nat)
    BY <1>1, <1>2
  <2>2. ctl' \in [job : Jobs, lacks : 0 .. SD_BLOCK_SIZE]
    BY <1>1, <1>2, <2>1
  <2> QED BY <1>1, <1>2, <1>3, <2>1, <2>2 DEF MmciTypeOK
<1>6. SameJob'
  BY <1>1, <1>2, <1>4 DEF SameJob
<1>7. CardWritten'
  BY <1>1 DEF CardWritten, Writing
<1>8. WordsToWrite' /\ WordsOnTheWay' /\ HalfBegun'
  BY <1>1, <1>2, <1>4 DEF WordsToWrite, WordsOnTheWay, HalfBegun
<1> QED BY <1>1, <1>5, <1>6, <1>7, <1>8 DEF MmciInv

\* The second half of the commands: the card and the controller are at one again.
LEMMA RestInv ==
    ASSUME MmciInv, RestOfCommands
    PROVE  MmciInv'
<1>1. /\ begun /\ ~begun' /\ job.kind # "none"
      /\ UNCHANGED <<data_len, card, job, buffer, disturbed, spoiled, result>>
  BY DEF RestOfCommands, MmciInv, SameJob
<1>2. MmciTypeOK /\ SameJob /\ CardWritten /\ WordsToWrite /\ HalfBegun /\ NoMixedWords
  BY DEF MmciInv
<1>3. /\ SD_BLOCK_SIZE \in Nat \ {0} /\ job \in Jobs /\ data_len \in {0, SD_BLOCK_SIZE}
      /\ data_len \in 0 .. SD_BLOCK_SIZE /\ <<>> \in Seq(Nat) /\ begun' \in BOOLEAN
  <2>1. begun' = FALSE
    BY DEF RestOfCommands
  <2>2. SD_BLOCK_SIZE \in Nat \ {0} /\ job \in Jobs /\ data_len \in {0, SD_BLOCK_SIZE}
    BY <1>2, MmciTypes DEF MmciTypeOK
  <2>3. data_len \in 0 .. SD_BLOCK_SIZE /\ <<>> \in Seq(Nat)
    BY ONLY <2>2
  <2> QED BY ONLY <2>1, <2>2, <2>3
<1>4. Current = job /\ Current' = job /\ (Loaded' <=> data_len # 0) /\ NoMixedWords'
  BY <1>1, <1>2 DEF Current, Loaded, NoMixedWords
<1>5. \A b \in Block : \A i \in 1 .. SD_BLOCK_SIZE : card'[b][i] <= Current'.number
  BY <1>1, <1>2, <1>4 DEF CardWritten
<1>6. CASE job.kind = "transmit" /\ Enable(job)
  <2>1. fifo' = <<>> /\ fifo_cnt' = data_len /\ ctl' = [job |-> job, lacks |-> data_len] /\ aim' = aim
    BY <1>6 DEF Enable
  <2>2. ctl'.job = job /\ ctl'.lacks = data_len /\ aim.job = job
    BY <1>2, <1>4, <1>6, <2>1 DEF SameJob
  <2>3. MmciTypeOK'
    <3>1. ctl' \in [job : Jobs, lacks : 0 .. SD_BLOCK_SIZE]
      BY <1>3, <2>1
    <3> QED BY <1>1, <1>2, <1>3, <2>1, <3>1 DEF MmciTypeOK
  <2>4. SameJob'
    BY <1>1, <1>2, <1>4, <2>1, <2>2 DEF SameJob
  <2>5. CardWritten'
    BY <1>1, <1>2, <1>5, <1>6, <2>1 DEF CardWritten, Writing, Clean
  <2>6. WordsToWrite'
    BY <1>4, <2>1, <2>2 DEF WordsToWrite
  <2>7. Loaded' /\ ~disturbed' => fifo_cnt' + Len(fifo') = ctl'.lacks /\ aim'.place = 1
    BY <1>1, <1>2, <1>3, <1>4, <1>6, <2>1, <2>2 DEF HalfBegun
  <2>8. WordsOnTheWay'
    BY <1>1, <1>3, <1>4, <1>6, <2>1, <2>2, <2>7 DEF WordsOnTheWay
  <2> QED BY <1>1, <1>4, <2>3, <2>4, <2>5, <2>6, <2>8 DEF MmciInv, HalfBegun
<1>7. CASE job.kind = "receive" /\ Address(job)
  <2>1. aim' = [job |-> job, place |-> 1] /\ UNCHANGED <<fifo, fifo_cnt, ctl>>
    BY <1>7 DEF Address
  <2>2. aim'.job = job /\ aim'.place = 1 /\ ctl.job = job
    BY <1>2, <1>4, <1>7, <2>1 DEF SameJob
  <2>3. MmciTypeOK'
    <3>1. aim' \in [job : Jobs, place : 1 .. SD_BLOCK_SIZE + 1]
      BY <1>3, <2>1
    <3> QED BY <1>1, <1>2, <1>3, <2>1, <3>1 DEF MmciTypeOK
  <2>4. SameJob'
    BY <1>1, <1>2, <1>4, <2>1, <2>2 DEF SameJob
  <2>5. CardWritten'
    BY <1>5, <1>7, <2>2 DEF CardWritten, Writing
  <2>6. WordsToWrite'
    <3>1. ctl.lacks \in Nat /\ ctl.lacks <= data_len
      BY <1>1, <1>2, <1>3, <1>7, MmciTypes DEF HalfBegun
    <3>2. data_len = 0 => ctl.lacks = 0
      BY ONLY <3>1
    <3> QED BY <1>1, <1>4, <1>7, <2>1, <2>2, <3>2 DEF WordsToWrite
  <2>8. WordsOnTheWay'
    BY <1>1, <1>2, <1>3, <1>4, <1>7, <2>1, <2>2 DEF WordsOnTheWay, HalfBegun
  <2> QED BY <1>1, <1>4, <2>3, <2>4, <2>5, <2>6, <2>8 DEF MmciInv, HalfBegun
<1> QED BY <1>6, <1>7 DEF RestOfCommands

\* push_bytes writes one word of the block to the FIFO.
LEMMA PushInv ==
    ASSUME MmciInv, push_bytes
    PROVE  MmciInv'
<1>1. /\ job.kind = "transmit" /\ ~begun /\ fifo_cnt > 0 /\ fifo_cnt' = fifo_cnt - 1
      /\ UNCHANGED <<data_len, card, job, begun, ctl, aim, buffer, spoiled, result>>
      /\ \/ fifo' = Append(fifo, job.number) /\ disturbed' = disturbed
         \/ disturbed' = TRUE /\ fifo' = fifo
  BY DEF push_bytes
<1>2. /\ MmciTypeOK /\ SameJob /\ CardWritten /\ NoMixedWords /\ WordsToWrite /\ WordsOnTheWay
      /\ HalfBegun
  BY DEF MmciInv
<1>3. /\ ctl.job = job /\ job.number \in Nat /\ Len(fifo) \in Nat
      /\ ctl.lacks \in Nat /\ fifo_cnt \in 0 .. SD_BLOCK_SIZE
  BY <1>1, <1>2, MmciTypes DEF SameJob, MmciTypeOK, Current
<1>4. /\ NoMixedWords' /\ (Loaded' <=> Loaded) /\ Current' = Current /\ (Clean' => Clean)
      /\ (disturbed => disturbed')
  BY <1>1, <1>2 DEF NoMixedWords, Loaded, Current, Clean
<1>5. SameJob' /\ CardWritten' /\ HalfBegun'
  BY <1>1, <1>2, <1>4 DEF SameJob, CardWritten, Writing, HalfBegun
<1>6. fifo' \in Seq(Nat) /\ disturbed' \in BOOLEAN
  <2>1. fifo \in Seq(Nat) /\ disturbed \in BOOLEAN
    BY <1>2 DEF MmciTypeOK
  <2>2. disturbed' \in BOOLEAN
    BY <1>1, <2>1, Zenon
  <2>3. fifo' \in Seq(Nat)
    BY <1>1, <1>3, <2>1, AppendWord
  <2> QED BY <2>2, <2>3
<1>7. fifo_cnt' \in 0 .. SD_BLOCK_SIZE
  BY <1>1, <1>3, MmciAssumption
<1>8. MmciTypeOK'
  BY <1>1, <1>2, <1>6, <1>7 DEF MmciTypeOK
<1>9. CASE fifo' = Append(fifo, job.number) /\ disturbed' = disturbed
  <2>1. /\ Len(fifo') = Len(fifo) + 1
        /\ \A i \in 1 .. Len(fifo) : fifo'[i] = fifo[i]
        /\ fifo'[Len(fifo) + 1] = job.number
    BY <1>2, <1>3, <1>9, AppendWord DEF MmciTypeOK
  <2>2. \A i \in 1 .. Len(fifo') : fifo'[i] = ctl'.job.number
    BY <1>1, <1>2, <1>3, <2>1 DEF WordsToWrite
  <2>3. WordsToWrite'
    BY <1>1, <1>2, <1>4, <2>2 DEF WordsToWrite
  <2>4. Loaded' /\ ~disturbed' =>
           fifo_cnt' + Len(fifo') = ctl'.lacks /\ ctl'.lacks = SD_BLOCK_SIZE + 1 - aim'.place
    BY <1>1, <1>2, <1>3, <1>4, <1>9, <2>1 DEF WordsOnTheWay
  <2>5. WordsOnTheWay'
    BY <1>1, <1>3, <2>4 DEF WordsOnTheWay
  <2> QED BY <1>4, <1>5, <1>8, <2>3, <2>5 DEF MmciInv
<1>10. CASE disturbed' = TRUE /\ fifo' = fifo
  <2>1. WordsToWrite' /\ WordsOnTheWay'
    BY <1>1, <1>2, <1>3, <1>4, <1>10 DEF WordsToWrite, WordsOnTheWay
  <2> QED BY <1>4, <1>5, <1>8, <2>1 DEF MmciInv
<1> QED BY <1>1, <1>9, <1>10

\* The controller lacks one word less, and the card goes to its next one.
LEMMA OneLess ==
    /\ \A c \in [job : Jobs, lacks : 0 .. SD_BLOCK_SIZE] :
          c.lacks > 0 =>
             LET d == [c EXCEPT !.lacks = @ - 1]
             IN  d.job = c.job /\ d.lacks = c.lacks - 1 /\ d \in [job : Jobs, lacks : 0 .. SD_BLOCK_SIZE]
    /\ \A c \in [job : Jobs, place : 1 .. SD_BLOCK_SIZE + 1] :
          c.place <= SD_BLOCK_SIZE =>
             LET d == [c EXCEPT !.place = @ + 1]
             IN  /\ d.job = c.job /\ d.place = c.place + 1
                 /\ d \in [job : Jobs, place : 1 .. SD_BLOCK_SIZE + 1]
<1>1. SD_BLOCK_SIZE \in Nat
  BY MmciAssumption
<1>2. ASSUME NEW c \in [job : Jobs, lacks : 0 .. SD_BLOCK_SIZE], c.lacks > 0
      PROVE  LET d == [c EXCEPT !.lacks = @ - 1]
             IN  d.job = c.job /\ d.lacks = c.lacks - 1 /\ d \in [job : Jobs, lacks : 0 .. SD_BLOCK_SIZE]
  <2>1. c.lacks - 1 \in 0 .. SD_BLOCK_SIZE
    BY <1>1, <1>2
  <2> QED BY <2>1
<1>3. ASSUME NEW c \in [job : Jobs, place : 1 .. SD_BLOCK_SIZE + 1], c.place <= SD_BLOCK_SIZE
      PROVE  LET d == [c EXCEPT !.place = @ + 1]
             IN  /\ d.job = c.job /\ d.place = c.place + 1
                 /\ d \in [job : Jobs, place : 1 .. SD_BLOCK_SIZE + 1]
  <2>1. c.place + 1 \in 1 .. SD_BLOCK_SIZE + 1
    BY <1>1, <1>3
  <2> QED BY <2>1
<1> QED BY <1>2, <1>3

\* The controller takes one word from the FIFO, and the card writes it.
LEMMA CardTakesInv ==
    ASSUME MmciInv, CardTakes
    PROVE  MmciInv'
<1> DEFINE S == SD_BLOCK_SIZE
           b == aim.job.address
           n == aim.job.number
           h == Head(fifo)
           p == aim.place
<1>1. /\ ctl.job.kind = "transmit" /\ fifo # <<>> /\ ctl.lacks > 0
      /\ fifo' = Tail(fifo) /\ ctl' = [ctl EXCEPT !.lacks = @ - 1]
      /\ disturbed' = (disturbed \/ begun)
      /\ UNCHANGED <<data_len, fifo_cnt, job, begun, buffer, result>>
  BY DEF CardTakes, Moves
<1>2. /\ MmciTypeOK /\ SameJob /\ CardWritten /\ NoMixedWords /\ WordsToWrite /\ WordsOnTheWay
      /\ HalfBegun
  BY DEF MmciInv
<1>3. /\ aim.job = Current /\ (begun => job.kind = "transmit") /\ (~begun => ctl.job = aim.job)
      /\ aim.job.kind = "transmit" /\ Writing
      /\ (begun => ctl.job = result.job /\ aim.job = job /\ job.number = result.job.number + 1)
  <2>1. CASE begun
    BY <1>1, <1>2, <2>1 DEF SameJob, Current, Writing, MmciTypeOK, Jobs
  <2>2. CASE ~begun
    BY <1>1, <1>2, <2>2 DEF SameJob, Current, Writing
  <2> QED BY <2>1, <2>2
<1>4. /\ S \in Nat \ {0} /\ b \in Block /\ n \in Nat /\ ctl.lacks \in 1 .. S /\ fifo_cnt \in Nat
      /\ fifo \in Seq(Nat) /\ card \in [Block -> [1 .. S -> Nat]] /\ p \in 1 .. S + 1
      /\ ctl.job.number \in Nat /\ result.job.number \in Nat
      /\ disturbed \in BOOLEAN /\ begun \in BOOLEAN /\ spoiled \in SUBSET Block
  BY <1>1, <1>2, <1>3, MmciTypes DEF MmciTypeOK
<1>5. /\ fifo' \in Seq(Nat) /\ Len(fifo) \in Nat /\ Len(fifo) >= 1 /\ Len(fifo') = Len(fifo) - 1
      /\ \A i \in 1 .. Len(fifo) - 1 : fifo'[i] = fifo[i + 1]
      /\ h = ctl.job.number
  <2>1. /\ Tail(fifo) \in Seq(Nat) /\ Len(fifo) \in Nat /\ Len(fifo) >= 1
        /\ Len(Tail(fifo)) = Len(fifo) - 1
        /\ \A i \in 1 .. Len(fifo) - 1 : Tail(fifo)[i] = fifo[i + 1]
        /\ Head(fifo) = fifo[1]
    BY <1>1, <1>4, TakeWord
  <2>2. fifo[1] = ctl.job.number
    <3>1. \A i \in 1 .. Len(fifo) : fifo[i] = ctl.job.number
      BY <1>1, <1>2 DEF WordsToWrite
    <3>2. 1 \in 1 .. Len(fifo)
      BY ONLY <2>1
    <3> QED BY ONLY <3>1, <3>2
  <2> QED BY <1>1, <2>1, <2>2
<1>6. h \in Nat /\ h <= n /\ (~begun => h = n)
  BY <1>3, <1>4, <1>5
<1>7. ctl'.job = ctl.job /\ ctl'.lacks = ctl.lacks - 1 /\ ctl' \in [job : Jobs, lacks : 0 .. S]
  BY <1>1, <1>2, OneLess DEF MmciTypeOK
<1>8. Current' = Current /\ (Loaded' <=> Loaded) /\ (~begun => Loaded) /\ disturbed' \in BOOLEAN
  BY <1>1, <1>2, <1>4 DEF Current, Loaded, WordsToWrite
<1>9. WordsToWrite'
  <2>1. \A i \in 1 .. Len(fifo') : fifo'[i] = ctl.job.number
    <3>1. \A i \in 1 .. Len(fifo) : fifo[i] = ctl.job.number
      BY <1>1, <1>2 DEF WordsToWrite
    <3> QED BY ONLY <1>5, <3>1
  <2> QED BY <1>1, <1>7, <1>8, <2>1 DEF WordsToWrite
<1>10. HalfBegun'
  BY <1>1, <1>3 DEF HalfBegun
<1>11. ASSUME p <= S PROVE MmciInv'
  <2>1. /\ card' = [card EXCEPT ![b][p] = h] /\ aim' = [aim EXCEPT !.place = @ + 1]
        /\ spoiled' = Spoiled
    BY <1>11 DEF CardTakes
  <2>2. aim'.job = aim.job /\ aim'.place = p + 1 /\ aim' \in [job : Jobs, place : 1 .. S + 1]
    BY <1>2, <1>11, <2>1, OneLess DEF MmciTypeOK
  <2>3. p \in 1 .. S
    BY <1>4, <1>11
  <2>4. /\ card' \in [Block -> [1 .. S -> Nat]]
        /\ \A c \in Block : \A i \in 1 .. S : card'[c][i] = IF c = b /\ i = p THEN h ELSE card[c][i]
    BY <1>4, <1>6, <2>1, <2>3
  <2>5. /\ spoiled' \in SUBSET Block
        /\ begun => b \in spoiled' /\ disturbed'
        /\ ~begun /\ (b \notin spoiled' \/ ~disturbed') => Clean
        /\ \A c \in Block : c # b /\ c \notin spoiled' => c \notin spoiled
        /\ b \notin spoiled' => b \notin spoiled \/ p = S
    BY <1>1, <1>4, <2>1 DEF Spoiled, Clean
  <2>6. MmciTypeOK'
    BY <1>1, <1>2, <1>5, <1>7, <1>8, <2>2, <2>4, <2>5 DEF MmciTypeOK
  <2>7. SameJob'
    BY <1>1, <1>2, <1>7, <1>8, <2>2 DEF SameJob
  <2>8. WordsOnTheWay'
    <3>1. SUFFICES ASSUME ~begun
                   PROVE  /\ Loaded /\ ~disturbed =>
                               /\ fifo_cnt + Len(fifo') = ctl'.lacks
                               /\ ctl'.lacks = SD_BLOCK_SIZE + 1 - aim'.place
                          /\ job.kind = "none" => fifo_cnt = 0
                          /\ job.kind = "none" /\ disturbed' => result.disturbed
      BY <1>1, <1>7, <1>8 DEF WordsOnTheWay
    <3>2. /\ Loaded /\ ~disturbed => /\ fifo_cnt + Len(fifo) = ctl.lacks
                                    /\ ctl.lacks = S + 1 - p
          /\ job.kind = "none" => fifo_cnt = 0
          /\ job.kind = "none" /\ disturbed => result.disturbed
      BY <1>1, <1>2, <3>1 DEF WordsOnTheWay
    <3>3. disturbed' = disturbed
      BY <1>1, <1>4, <3>1
    <3>4. fifo_cnt + Len(fifo) = ctl.lacks => fifo_cnt + Len(fifo') = ctl'.lacks
      BY <1>4, <1>5, <1>7
    <3>5. ctl.lacks = S + 1 - p => ctl'.lacks = S + 1 - aim'.place
      BY <1>4, <1>7, <2>2, <2>3
    <3> QED BY <3>2, <3>3, <3>4, <3>5
  <2> HIDE DEF S, b, n, h, p
  <2>9. \A c \in Block : \A i \in 1 .. S : card[c][i] <= n /\ card[c][i] \in Nat
    BY <1>2, <1>3, MmciTypes DEF CardWritten, S, n
  <2>10. Clean => \A i \in 1 .. p - 1 : card[b][i] = n
    BY <1>2, <1>3 DEF CardWritten, b, n, p
  <2>11. CardWritten'
    <3>1. ASSUME NEW c \in Block, NEW i \in 1 .. S PROVE card'[c][i] <= n
      <4>1. card'[c][i] \in {h, card[c][i]}
        BY <2>4
      <4> QED BY <1>6, <2>9, <4>1
    <3>2. ASSUME ~begun, b \notin spoiled' \/ ~disturbed', NEW i \in 1 .. p PROVE card'[b][i] = n
      <4>1. i \in 1 .. S /\ (i = p \/ i \in 1 .. p - 1)
        BY <1>4, <2>3
      <4>2. card'[b][i] = IF i = p THEN h ELSE card[b][i]
        BY <1>4, <2>4, <4>1
      <4> QED BY <1>6, <2>5, <2>10, <3>2, <4>1, <4>2
    <3>3. Clean' => b \notin spoiled' \/ ~disturbed'
      BY <2>2 DEF Clean, b
    <3>4. Clean' => ~begun
      BY <1>4, <2>5, <3>3
    <3>5. aim'.place - 1 = p
      BY <1>4, <2>2
    <3>6. \A c \in Block : \A i \in 1 .. SD_BLOCK_SIZE : card'[c][i] <= Current'.number
      BY <1>3, <1>8, <3>1 DEF S, n
    <3>7. Clean' => \A i \in 1 .. aim'.place - 1 : card'[aim'.job.address][i] = aim'.job.number
      BY <2>2, <3>2, <3>3, <3>4, <3>5 DEF b, n
    <3> QED BY <3>6, <3>7 DEF CardWritten
  <2>12. NoMixedWords'
    <3>1. SUFFICES ASSUME NEW c \in Block, c \notin spoiled', NEW i \in 1 .. S, NEW j \in 1 .. S, i < j
                   PROVE  card'[c][i] >= card'[c][j]
      BY DEF NoMixedWords, S
    <3>2. card'[c][i] = (IF c = b /\ i = p THEN h ELSE card[c][i])
          /\ card'[c][j] = (IF c = b /\ j = p THEN h ELSE card[c][j])
      BY <2>4
    <3>3. \A d \in Block \ spoiled : card[d][i] >= card[d][j]
      BY <1>2, <3>1 DEF NoMixedWords, S
    <3>4. CASE c # b
      BY <2>5, <3>1, <3>2, <3>3, <3>4
    <3>5. CASE c = b
      <4>1. ~begun /\ Clean
        BY <1>4, <2>5, <3>1, <3>5
      <4>2. h = n /\ n \in Nat /\ \A k \in 1 .. p - 1 : card[b][k] = n
        BY <1>4, <1>6, <2>10, <4>1
      <4>3. i \in Nat /\ j \in Nat /\ p \in Nat /\ j <= S /\ S \in Nat
        BY <1>4, <3>1
      <4>4. CASE j <= p
        <5>1. i \in 1 .. p - 1 /\ (j = p \/ j \in 1 .. p - 1)
          BY <3>1, <4>3, <4>4
        <5>2. card'[c][i] = n
          BY <3>2, <3>5, <4>2, <4>3, <5>1
        <5>3. card'[c][j] = n
          BY <3>2, <3>5, <4>2, <4>3, <5>1
        <5> QED BY <4>2, <5>2, <5>3
      <4>5. CASE i = p
        <5>1. card'[c][i] = n /\ card'[c][j] = card[b][j]
          BY <3>1, <3>2, <3>5, <4>2, <4>3, <4>5
        <5>2. card[b][j] <= n /\ card[b][j] \in Nat
          BY <1>4, <2>9, <3>1
        <5> QED BY <4>2, <5>1, <5>2
      <4>6. CASE j > p /\ i # p
        <5>1. b \notin spoiled
          BY <2>3, <2>5, <3>1, <3>5, <4>3, <4>6
        <5>2. card'[c][i] = card[b][i] /\ card'[c][j] = card[b][j]
          BY <3>2, <3>5, <4>3, <4>6
        <5> QED BY <1>4, <3>3, <5>1, <5>2
      <4> QED BY <4>3, <4>4, <4>5, <4>6
    <3> QED BY <3>4, <3>5
  <2> QED BY <1>9, <1>10, <2>6, <2>7, <2>8, <2>11, <2>12 DEF MmciInv
<1>12. ASSUME ~(p <= S) PROVE MmciInv'
  <2>1. UNCHANGED <<card, aim, spoiled>>
    BY <1>12 DEF CardTakes
  <2>2. p = S + 1
    BY <1>4, <1>12
  <2>3. MmciTypeOK'
    BY <1>1, <1>2, <1>5, <1>7, <1>8, <2>1 DEF MmciTypeOK
  <2>4. SameJob' /\ NoMixedWords'
    BY <1>1, <1>2, <1>7, <1>8, <2>1 DEF SameJob, NoMixedWords
  <2>5. CardWritten'
    BY <1>1, <1>2, <1>3, <1>8, <2>1 DEF CardWritten, Writing, Clean
  <2>6. WordsOnTheWay'
    <3>1. ~begun => disturbed
      BY <1>1, <1>2, <1>4, <1>8, <2>2 DEF WordsOnTheWay
    <3> QED BY <1>1, <1>2, <1>7, <1>8, <2>1, <3>1 DEF WordsOnTheWay
  <2> QED BY <1>9, <1>10, <2>3, <2>4, <2>5, <2>6 DEF MmciInv
<1> QED BY <1>11, <1>12

\* The card gives one word, and the controller puts it into the FIFO.
LEMMA CardGivesInv ==
    ASSUME MmciInv, CardGives
    PROVE  MmciInv'
<1> DEFINE S == SD_BLOCK_SIZE
           b == aim.job.address
           p == aim.place
<1>1. /\ ctl.job.kind = "receive" /\ aim.job.kind = "receive" /\ ctl.lacks > 0 /\ p <= S
      /\ fifo' = Append(fifo, card[b][p]) /\ ctl' = [ctl EXCEPT !.lacks = @ - 1]
      /\ aim' = [aim EXCEPT !.place = @ + 1]
      /\ disturbed' = (disturbed \/ begun)
      /\ UNCHANGED <<data_len, fifo_cnt, card, job, begun, buffer, spoiled, result>>
  BY DEF CardGives, Moves
<1>2. /\ MmciTypeOK /\ SameJob /\ CardWritten /\ NoMixedWords /\ WordsToWrite /\ WordsOnTheWay
      /\ HalfBegun
  BY DEF MmciInv
<1>3. /\ begun => job.kind = "receive"
      /\ ~begun => ctl.job = aim.job
  <2>1. CASE begun
    <3>1. job.kind # "transmit"
      BY <1>1, <1>2, <2>1 DEF SameJob, Current
    <3> QED BY <1>2, <2>1, <3>1 DEF SameJob, MmciTypeOK, Jobs
  <2>2. CASE ~begun
    BY <1>2, <2>2 DEF SameJob
  <2> QED BY <2>1, <2>2
<1>4. /\ S \in Nat \ {0} /\ b \in Block /\ ctl.lacks \in 1 .. S /\ p \in 1 .. S
      /\ fifo \in Seq(Nat) /\ Len(fifo) \in Nat /\ Len(buffer) \in Nat
      /\ data_len \in Nat /\ begun \in BOOLEAN /\ disturbed \in BOOLEAN
  <2>1. /\ S \in Nat \ {0} /\ b \in Block /\ ctl.lacks \in 0 .. S /\ p \in 1 .. S + 1
        /\ Len(fifo) \in Nat /\ Len(buffer) \in Nat
    BY <1>1, <1>2, MmciTypes
  <2>2. /\ fifo \in Seq(Nat) /\ begun \in BOOLEAN /\ disturbed \in BOOLEAN
        /\ data_len \in {0, S}
    BY <1>2 DEF MmciTypeOK
  <2>3. ctl.lacks > 0 /\ p <= S
    BY <1>1
  <2>4. ctl.lacks \in 1 .. S /\ p \in 1 .. S /\ data_len \in Nat
    <3> HIDE DEF S, p
    <3> QED BY ONLY <2>1, <2>2, <2>3
  <2> QED BY <2>1, <2>2, <2>4
<1>5. /\ ctl'.job = ctl.job /\ ctl'.lacks = ctl.lacks - 1 /\ ctl' \in [job : Jobs, lacks : 0 .. S]
      /\ aim'.job = aim.job /\ aim'.place = p + 1 /\ aim' \in [job : Jobs, place : 1 .. S + 1]
  BY <1>1, <1>2, OneLess DEF MmciTypeOK
<1>6. Current' = Current /\ (Loaded' <=> Loaded) /\ (~begun => Loaded) /\ disturbed' \in BOOLEAN
  BY <1>1, <1>2, <1>4 DEF Current, Loaded, WordsToWrite
<1>7. /\ fifo' \in Seq(Nat) /\ Len(fifo') = Len(fifo) + 1
      /\ \A i \in 1 .. Len(fifo) : fifo'[i] = fifo[i]
      /\ fifo'[Len(fifo) + 1] = card[b][p]
  <2>1. card[b][p] \in Nat
    BY <1>2, <1>4, MmciTypes
  <2>2. fifo \in Seq(Nat) /\ fifo' = Append(fifo, card[b][p])
    BY <1>1, <1>4
  <2> HIDE DEF b, p
  <2> QED BY ONLY <2>1, <2>2, AppendWord
<1>8. MmciTypeOK'
  BY <1>1, <1>2, <1>5, <1>6, <1>7 DEF MmciTypeOK
<1>9. SameJob' /\ NoMixedWords'
  BY <1>1, <1>2, <1>5, <1>6 DEF SameJob, NoMixedWords
<1>10. CardWritten' /\ WordsToWrite'
  BY <1>1, <1>2, <1>5, <1>6 DEF CardWritten, Writing, WordsToWrite
<1>11. HalfBegun'
  <2>1. ASSUME begun
        PROVE  buffer = <<>> /\ ctl.lacks <= data_len /\ job.kind = "receive"
    BY <1>2, <1>3, <2>1 DEF HalfBegun
  <2>2. ASSUME begun
        PROVE  ctl'.lacks <= data_len
    BY <1>4, <1>5, <2>1, <2>2
  <2> QED BY <1>1, <2>1, <2>2 DEF HalfBegun
<1>12. ASSUME ~begun
       PROVE  /\ ~(job.kind = "none" /\ ~result.disturbed)
              /\ ~disturbed => /\ ctl.lacks = S + 1 - p /\ Len(buffer) + Len(fifo) = p - 1
                               /\ \A i \in 1 .. Len(buffer) : buffer[i] = card[b][i]
                               /\ \A i \in 1 .. Len(fifo) : fifo[i] = card[b][Len(buffer) + i]
  <2>1. ctl.job.kind = "receive" /\ ctl.job.address = b /\ Loaded
    BY <1>1, <1>3, <1>6, <1>12
  <2>2. /\ ~disturbed => /\ ctl.lacks = S + 1 - p /\ Len(buffer) + Len(fifo) = p - 1
                         /\ \A i \in 1 .. Len(buffer) : buffer[i] = card[b][i]
                         /\ \A i \in 1 .. Len(fifo) : fifo[i] = card[b][Len(buffer) + i]
        /\ job.kind = "none" /\ ~result.disturbed => ctl.lacks = 0
    BY <1>2, <1>12, <2>1 DEF WordsOnTheWay
  <2>3. ctl.lacks # 0
    BY <1>4
  <2> QED BY <2>2, <2>3
<1> HIDE DEF S, b, p
<1>13. ASSUME ~begun, ~disturbed
       PROVE  /\ Len(buffer) + Len(fifo') = p /\ ctl'.lacks = S + 1 - aim'.place
              /\ \A i \in 1 .. Len(fifo') : fifo'[i] = card[b][Len(buffer) + i]
  <2>1. p \in Nat /\ Len(buffer) + (Len(fifo) + 1) = p
    BY <1>4, <1>12, <1>13
  <2>2. \A i \in 1 .. Len(fifo') : i \in 1 .. Len(fifo) \/ i = Len(fifo) + 1
    BY <1>4, <1>7
  <2>3. ASSUME NEW i \in 1 .. Len(fifo') PROVE fifo'[i] = card[b][Len(buffer) + i]
    <3>1. CASE i \in 1 .. Len(fifo)
      BY <1>7, <1>12, <1>13, <3>1
    <3>2. CASE i = Len(fifo) + 1
      BY <1>7, <2>1, <3>2
    <3> QED BY <2>2, <3>1, <3>2
  <2>4. ctl'.lacks = S + 1 - aim'.place
    BY <1>4, <1>5, <1>12, <1>13
  <2> QED BY <1>7, <2>1, <2>3, <2>4
<1>14. WordsOnTheWay'
  <2>1. SUFFICES ASSUME ~begun
                 PROVE  /\ ~disturbed' =>
                              /\ ctl'.lacks = S + 1 - aim'.place
                              /\ Len(buffer) + Len(fifo') = aim'.place - 1
                              /\ \A i \in 1 .. Len(buffer) : buffer[i] = card[b][i]
                              /\ \A i \in 1 .. Len(fifo') : fifo'[i] = card[b][Len(buffer) + i]
                        /\ ~(job.kind = "none" /\ ~result.disturbed)
    BY <1>1, <1>3, <1>5 DEF WordsOnTheWay, S, b
  <2>2. disturbed' = disturbed /\ aim'.place - 1 = p
    BY <1>1, <1>4, <1>5, <2>1
  <2> QED BY <1>12, <1>13, <2>1, <2>2
<1> QED BY <1>8, <1>9, <1>10, <1>11, <1>14 DEF MmciInv

\* pull_bytes reads one word of the block from the FIFO.
LEMMA PullInv ==
    ASSUME MmciInv, pull_bytes
    PROVE  MmciInv'
<1> DEFINE b == ctl.job.address
<1>1. /\ job.kind = "receive" /\ ~begun /\ fifo # <<>>
      /\ buffer' = Append(buffer, Head(fifo)) /\ fifo' = Tail(fifo)
      /\ UNCHANGED <<data_len, fifo_cnt, card, job, begun, ctl, aim, disturbed, spoiled, result>>
  BY DEF pull_bytes
<1>2. /\ MmciTypeOK /\ SameJob /\ CardWritten /\ NoMixedWords /\ WordsToWrite /\ WordsOnTheWay
      /\ HalfBegun
  BY DEF MmciInv
<1>3. ctl.job = job /\ fifo \in Seq(Nat) /\ buffer \in Seq(Nat) /\ Len(buffer) \in Nat
  BY <1>1, <1>2, MmciTypes DEF SameJob, MmciTypeOK, Current
<1>4. /\ fifo' \in Seq(Nat) /\ Len(fifo) \in Nat /\ Len(fifo) >= 1 /\ Len(fifo') = Len(fifo) - 1
      /\ \A i \in 1 .. Len(fifo) - 1 : fifo'[i] = fifo[i + 1]
      /\ Head(fifo) = fifo[1] /\ Head(fifo) \in Nat
  BY <1>1, <1>3, TakeWord
<1>5. /\ buffer' \in Seq(Nat) /\ Len(buffer') = Len(buffer) + 1
      /\ \A i \in 1 .. Len(buffer) : buffer'[i] = buffer[i]
      /\ buffer'[Len(buffer) + 1] = fifo[1]
  BY <1>1, <1>3, <1>4, AppendWord
<1>6. MmciTypeOK'
  BY <1>1, <1>2, <1>4, <1>5 DEF MmciTypeOK
<1>7. /\ NoMixedWords' /\ (Loaded' <=> Loaded) /\ Current' = Current
  BY <1>1, <1>2 DEF NoMixedWords, Loaded, Current
<1>8. SameJob' /\ CardWritten' /\ WordsToWrite' /\ HalfBegun'
  BY <1>1, <1>2, <1>3, <1>7
     DEF SameJob, CardWritten, Writing, Clean, WordsToWrite, HalfBegun
<1>9. WordsOnTheWay'
  <2>1. SUFFICES ASSUME Loaded, ~disturbed
                 PROVE  /\ ctl.lacks = SD_BLOCK_SIZE + 1 - aim.place
                        /\ Len(buffer') + Len(fifo') = aim.place - 1
                        /\ \A i \in 1 .. Len(buffer') : buffer'[i] = card[b][i]
                        /\ \A i \in 1 .. Len(fifo') : fifo'[i] = card[b][Len(buffer') + i]
    BY <1>1, <1>2, <1>3, <1>7 DEF WordsOnTheWay
  <2>2. /\ ctl.lacks = SD_BLOCK_SIZE + 1 - aim.place
        /\ Len(buffer) + Len(fifo) = aim.place - 1
        /\ \A i \in 1 .. Len(buffer) : buffer[i] = card[b][i]
        /\ \A i \in 1 .. Len(fifo) : fifo[i] = card[b][Len(buffer) + i]
    BY <1>1, <1>2, <1>3, <2>1 DEF WordsOnTheWay
  <2> HIDE DEF b
  <2>3. fifo[1] = card[b][Len(buffer) + 1]
    BY <1>4, <2>2
  <2>4. \A i \in 1 .. Len(buffer') : buffer'[i] = card[b][i]
    <3>1. \A i \in 1 .. Len(buffer') : i \in 1 .. Len(buffer) \/ i = Len(buffer) + 1
      BY <1>3, <1>5
    <3> QED BY <1>5, <2>2, <2>3, <3>1
  <2>5. \A i \in 1 .. Len(fifo') : fifo'[i] = card[b][Len(buffer') + i]
    <3> SUFFICES ASSUME NEW i \in 1 .. Len(fifo') PROVE fifo'[i] = card[b][Len(buffer') + i]
      OBVIOUS
    <3>1. i + 1 \in 1 .. Len(fifo) /\ fifo'[i] = fifo[i + 1]
      BY <1>4
    <3>2. Len(buffer) + (i + 1) = Len(buffer') + i
      BY <1>3, <1>4, <1>5
    <3> QED BY <2>2, <3>1, <3>2
  <2>6. Len(buffer') + Len(fifo') = Len(buffer) + Len(fifo)
    BY <1>3, <1>4, <1>5
  <2> QED BY <2>2, <2>4, <2>5, <2>6
<1> QED BY <1>6, <1>7, <1>8, <1>9 DEF MmciInv

\* The driver returns: what it knew of the transfer becomes its result.
LEMMA ReturnsInv ==
    ASSUME MmciInv, TransferReturns
    PROVE  MmciInv'
<1>1. /\ (job.kind = "transmit" /\ fifo_cnt = 0) \/ (job.kind = "receive" /\ fifo = <<>>)
      /\ ~begun
      /\ result' = [job |-> job, ret |-> status(status_err),
                    disturbed |-> disturbed \/ (job.kind = "receive" /\ ctl.lacks > 0),
                    ready |-> data_len # 0]
      /\ job' = Idle
      /\ UNCHANGED <<data_len, fifo, fifo_cnt, card, begun, ctl, aim, buffer, disturbed, spoiled>>
  BY DEF TransferReturns, MayReturn
<1>2. /\ MmciTypeOK /\ SameJob /\ CardWritten /\ NoMixedWords /\ WordsToWrite /\ WordsOnTheWay
      /\ HalfBegun
  BY DEF MmciInv
<1>3. /\ ctl.job = job /\ aim.job = job /\ Current = job
      /\ ctl.lacks \in Nat /\ job.kind # "none" /\ job \in Jobs
  BY <1>1, <1>2, MmciTypes DEF SameJob, MmciTypeOK, Current
<1>4. Idle \in Jobs /\ job'.kind = "none"
  BY <1>1 DEF Idle, Jobs
<1>5. /\ result'.job = job
      /\ result'.disturbed <=> disturbed \/ (job.kind = "receive" /\ ctl.lacks > 0)
      /\ result'.ready <=> data_len # 0
  BY <1>1
<1>6. (Loaded' <=> Loaded) /\ Current' = Current
  BY <1>3, <1>4, <1>5 DEF Loaded, Current
<1>7. MmciTypeOK'
  <2>1. status(status_err) \in {0, -1}
    BY DEF status
  <2>2. (disturbed \/ (job.kind = "receive" /\ ctl.lacks > 0)) \in BOOLEAN /\ (data_len # 0) \in BOOLEAN
    OBVIOUS
  <2>3. result' \in [job : Jobs, ret : {0, -1}, disturbed : BOOLEAN, ready : BOOLEAN]
    BY <1>1, <1>3, <2>1, <2>2, Zenon
  <2> QED BY <1>1, <1>2, <1>4, <2>3 DEF MmciTypeOK
<1>8. SameJob' /\ NoMixedWords'
  BY <1>1, <1>2, <1>3, <1>4, <1>5, <1>6 DEF SameJob, NoMixedWords
<1>9. CardWritten' /\ WordsToWrite' /\ HalfBegun'
  BY <1>1, <1>2, <1>6 DEF CardWritten, Writing, Clean, WordsToWrite, HalfBegun
<1>10. WordsOnTheWay'
  <2>2. ctl'.job.kind = "transmit" =>
           /\ Loaded' /\ ~disturbed' =>
                 fifo_cnt' + Len(fifo') = ctl'.lacks /\ ctl'.lacks = SD_BLOCK_SIZE + 1 - aim'.place
           /\ job'.kind = "none" => fifo_cnt' = 0
           /\ job'.kind = "none" /\ disturbed' => result'.disturbed
    BY <1>1, <1>2, <1>3, <1>5, <1>6 DEF WordsOnTheWay
  <2>3. ctl'.job.kind = "receive" /\ Loaded' /\ ~disturbed' =>
           /\ ctl'.lacks = SD_BLOCK_SIZE + 1 - aim'.place
           /\ Len(buffer') + Len(fifo') = aim'.place - 1
           /\ \A i \in 1 .. Len(buffer') : buffer'[i] = card'[ctl'.job.address][i]
           /\ \A i \in 1 .. Len(fifo') : fifo'[i] = card'[ctl'.job.address][Len(buffer') + i]
    BY <1>1, <1>2, <1>6 DEF WordsOnTheWay
  <2>4. ctl'.job.kind = "receive" /\ ~result'.disturbed =>
           ~disturbed' /\ ctl'.lacks = 0 /\ fifo' = <<>>
    BY <1>1, <1>3, <1>5
  <2> QED BY <2>2, <2>3, <2>4 DEF WordsOnTheWay
<1> QED BY <1>7, <1>8, <1>9, <1>10 DEF MmciInv

\* Every step of the driver and of the controller keeps the invariant of the transfers.
LEMMA NextMmciInv ==
    ASSUME MmciInv, [Next]_machvars
    PROVE  MmciInv'
<1>1. CASE UNCHANGED mmcivars
  <2>1. data_len' \in {0, SD_BLOCK_SIZE}
    BY <1>1 DEF mmcivars, MmciInv, MmciTypeOK
  <2> QED BY <1>1, <2>1, MmciFrame DEF mmcivars
<1>2. CASE init_sd
  BY <1>2, MmciFrame DEF init_sd
<1>3. CASE clear
  <2>1. data_len' \in {0, SD_BLOCK_SIZE}
    BY <1>3 DEF clear, MmciInv, MmciTypeOK
  <2> QED BY <1>3, <2>1, MmciFrame DEF clear
<1>4. CASE MmciNext
  BY <1>2, <1>3, <1>4, TransmitInv, ReceiveInv, RestInv, PushInv, CardTakesInv, CardGivesInv, PullInv,
     ReturnsInv DEF MmciNext
<1> QED BY <1>1, <1>4, StepOfPart

\* The invariant of the transfers implies what the run checks of them.
LEMMA MmciInvSound == MmciInv => TransferSound
<1> SUFFICES ASSUME MmciInv PROVE TransferSound
  OBVIOUS
<1>1. MmciTypeOK /\ SameJob /\ CardWritten /\ NoMixedWords /\ WordsOnTheWay
  BY DEF MmciInv
<1>2. ASSUME result.ready, ~result.disturbed, job.kind = "none", result.job.kind = "transmit"
      PROVE  LET b == card[result.job.address] IN
             /\ ctl.lacks = Len(fifo)
             /\ \A i \in 1 .. SD_BLOCK_SIZE - ctl.lacks : b[i] = result.job.number
  <2>1. /\ ~begun /\ Loaded /\ ctl.job = result.job /\ aim.job = result.job
        /\ Current = result.job
    BY <1>1, <1>2 DEF Loaded, SameJob, Current
  <2>2. ~disturbed /\ fifo_cnt = 0 /\ fifo_cnt + Len(fifo) = ctl.lacks
        /\ ctl.lacks = SD_BLOCK_SIZE + 1 - aim.place
    BY <1>1, <1>2, <2>1 DEF WordsOnTheWay
  <2>3. Writing /\ Clean
    BY <1>2, <2>1, <2>2 DEF Writing, Clean
  <2>4. \A i \in 1 .. aim.place - 1 : card[aim.job.address][i] = aim.job.number
    BY <1>1, <2>3 DEF CardWritten
  <2>5. /\ Len(fifo) \in Nat /\ SD_BLOCK_SIZE \in Nat /\ aim.place \in 1 .. SD_BLOCK_SIZE + 1
    BY <1>1, MmciTypes
  <2>6. SD_BLOCK_SIZE - ctl.lacks = aim.place - 1 /\ ctl.lacks = Len(fifo)
    BY <2>2, <2>5
  <2> QED BY <2>1, <2>4, <2>6
<1>3. ASSUME result.ready, ~result.disturbed, job.kind = "none", result.job.kind = "receive"
      PROVE  buffer = card[result.job.address]
  <2> DEFINE b == result.job.address
  <2>1. ~begun /\ Loaded /\ ctl.job = result.job
    BY <1>1, <1>3 DEF Loaded, SameJob, Current
  <2>2. ~disturbed /\ ctl.lacks = 0 /\ fifo = <<>>
    BY <1>1, <1>3, <2>1 DEF WordsOnTheWay
  <2>3. /\ ctl.lacks = SD_BLOCK_SIZE + 1 - aim.place
        /\ Len(buffer) + Len(fifo) = aim.place - 1
        /\ \A i \in 1 .. Len(buffer) : buffer[i] = card[b][i]
    BY <1>1, <1>3, <2>1, <2>2 DEF WordsOnTheWay
  <2>4. SD_BLOCK_SIZE \in Nat /\ b \in Block /\ aim.place \in 1 .. SD_BLOCK_SIZE + 1
        /\ Len(buffer) \in Nat
    BY <1>1, <1>3, <2>1, MmciTypes
  <2>5. Len(buffer) = SD_BLOCK_SIZE
    <3>1. Len(fifo) = 0
      BY <2>2
    <3> QED BY <2>2, <2>3, <2>4, <3>1
  <2>6. /\ buffer = [i \in 1 .. SD_BLOCK_SIZE |-> buffer[i]]
        /\ card[b] = [i \in 1 .. SD_BLOCK_SIZE |-> card[b][i]]
    <3>1. buffer \in Seq(Nat) /\ card[b] \in [1 .. SD_BLOCK_SIZE -> Nat]
      BY <1>1, <2>4 DEF MmciTypeOK
    <3>2. buffer \in [1 .. Len(buffer) -> Nat]
      BY <3>1
    <3> HIDE DEF b
    <3> QED BY <2>5, <3>1, <3>2
  <2> HIDE DEF b
  <2>7. buffer = card[b]
    BY <2>3, <2>5, <2>6
  <2> QED BY <2>7 DEF b
<1> QED BY <1>1, <1>2, <1>3 DEF TransferSound, TransferComplete

\* At whatever pace the controller works, also between the two halves of a transfer's
\* commands, whatever its FIFO holds and whatever transfer came before: a block that
\* sd_transmit or sd_receive has answered for is that block and no other, where nothing
\* has disturbed the transfer; and the only blocks to mix words of a later transfer
\* behind those of an earlier one are those of a transfer during whose commands a word
\* of the one before was still moved.
THEOREM TransfersAlwaysSound == Spec => []TransferSound
<1>1. MmciInv /\ [Next]_machvars => MmciInv'
  BY NextMmciInv
<1> QED BY InitMmciInv, MmciInvSound, <1>1, PTL DEF Spec

-----------------------------------------------------------------------------
(* The memory functions of user space.                                     *)

\* memcpy, memset, memchr and wcrtomb of user/libc do what they would do byte by
\* byte, for every alignment and every n up to MaxMem, whatever MaxMem is: the words,
\* the words put together from two, and the stores that overlap at both ends leave
\* each byte in its place and touch no other, and no word lies across a boundary.
THEOREM WordsDoAsBytes == Spec => []BytesRight
<1>1. Init => MemInv
  BY UserMemInitInv DEF Init
<1>2. MemInv /\ [Next]_machvars => MemInv'
  <2> SUFFICES ASSUME MemInv, [Next]_machvars PROVE MemInv'
    OBVIOUS
  <2>1. UserMemNext \/ UNCHANGED umvars
    BY StepOfPart
  <2>2. CASE UserMemNext
    BY <2>2, UserMemNextInv
  <2>3. CASE UNCHANGED umvars
    <3>1. /\ fn' = fn /\ given' = given /\ place' = place /\ to' = to /\ from' = from
          /\ left' = left /\ ahead' = ahead /\ stored' = stored /\ aligned' = aligned
          /\ answer' = answer
      BY <2>3 DEF umvars
    <3> QED BY <3>1 DEF MemInv, MemcpyInv, MemsetInv, MemchrInv, WcrtombInv
  <2> QED BY <2>1, <2>2, <2>3
<1>3. MemInv => BytesRight
  BY MemInvRight
<1> QED BY <1>1, <1>2, <1>3, PTL DEF Spec

-----------------------------------------------------------------------------
(* The output stream of user space.                                        *)

\* Whatever texts fwrite is given, in a process of one thread, wherever writev cuts or
\* fails: what was given to fwrite leaves the process in order and once, and all of it
\* before the process exits, unless a call of fwrite has failed, which shows in what
\* it returns except for a line that it counts as written, or the flush of exit has,
\* which nothing reports.
THEOREM StreamAlwaysKept == Spec => []StreamKept
<1>1. Init => StdioInv
  BY StdioInitInv DEF Init
<1>2. StdioInv /\ [Next]_machvars => StdioInv'
  <2> SUFFICES ASSUME StdioInv, [Next]_machvars PROVE StdioInv'
    OBVIOUS
  <2>1. StdioNext \/ UNCHANGED stdiovars
    BY StepOfPart
  <2> QED BY <2>1, StdioStep, StdioStutters
<1> QED BY <1>1, <1>2, StdioInvKept, PTL DEF Spec

-----------------------------------------------------------------------------
(* The start of a process.                                                 *)

\* The greatest and the least of a set.
LEMMA GreatestIs ==
    ASSUME NEW T \in SUBSET Int, NEW m \in T, \A y \in T : m >= y
    PROVE  Max(T) = m
<1>1. \A x \in T : (\A y \in T : x >= y) => x = m
  OBVIOUS
<1> QED BY <1>1 DEF Max

\* The least of a set.
LEMMA LeastIs ==
    ASSUME NEW T \in SUBSET Int, NEW m \in T, \A y \in T : m <= y
    PROVE  Min(T) = m
<1>1. \A x \in T : (\A y \in T : x <= y) => x = m
  OBVIOUS
<1> QED BY <1>1 DEF Min

\* The greatest of a finite range of numbers that has something in it.
LEMMA GreatestIn ==
    ASSUME NEW n \in Nat, NEW T \in SUBSET (0 .. n), T # {}
    PROVE  Max(T) \in T /\ \A y \in T : Max(T) >= y
<1> DEFINE U == {n - x : x \in T}
<1>0. \A x \in T : x \in Nat /\ x <= n
  OBVIOUS
<1>1. PICK u \in U : \A y \in U : u <= y
  <2>1. U \subseteq Nat
    <3>1. \A x \in T : n - x \in Nat
      BY <1>0
    <3> QED BY <3>1
  <2>2. U # {}
    OBVIOUS
  <2> HIDE DEF U
  <2> QED BY <2>1, <2>2, LeastNumber
<1>2. PICK x \in T : u = n - x
  BY <1>1
<1>3. ASSUME NEW y \in T PROVE x >= y
  <2>1. n - y \in U
    OBVIOUS
  <2>2. n - x <= n - y
    BY <1>1, <1>2, <2>1
  <2> QED BY <1>0, <2>2
<1>4. T \in SUBSET Int
  OBVIOUS
<1>5. Max(T) = x
  BY <1>3, <1>4, GreatestIs
<1> QED BY <1>3, <1>5

\* What the pairs of a sequence are flattened to.
PairsIn(f, s, n) ==
    /\ f \in Seq(Nat) /\ Len(f) = 2 * n
    /\ \A k \in 1 .. n : f[2 * k - 1] = s[k][1] /\ f[2 * k] = s[k][2]

\* A pair is put behind pairs.
LEMMA PairBehind ==
    ASSUME NEW s, NEW n \in Nat, NEW f, NEW e, PairsIn(f, s, n),
           e \in Seq(Nat), Len(e) = 2, e[1] = s[n + 1][1], e[2] = s[n + 1][2]
    PROVE  PairsIn(f \o e, s, n + 1)
<1>1. /\ f \in Seq(Nat) /\ Len(f) = 2 * n
      /\ \A k \in 1 .. n : f[2 * k - 1] = s[k][1] /\ f[2 * k] = s[k][2]
  BY DEF PairsIn
<1> DEFINE w == f \o e
<1>2. /\ w \in Seq(Nat) /\ Len(w) = 2 * (n + 1)
      /\ \A i \in 1 .. 2 * (n + 1) : w[i] = IF i <= 2 * n THEN f[i] ELSE e[i - 2 * n]
  <2>1. /\ w \in Seq(Nat) /\ Len(w) = Len(f) + Len(e)
        /\ \A i \in 1 .. Len(f) + Len(e) : w[i] = IF i <= Len(f) THEN f[i] ELSE e[i - Len(f)]
    BY <1>1, ConcatProperties
  <2>2. Len(f) + Len(e) = 2 * (n + 1)
    BY <1>1
  <2> QED BY <1>1, <2>1, <2>2
<1> HIDE DEF w
<1>3. ASSUME NEW k \in 1 .. n + 1
      PROVE  w[2 * k - 1] = s[k][1] /\ w[2 * k] = s[k][2]
  <2>1. 2 * k - 1 \in 1 .. 2 * (n + 1) /\ 2 * k \in 1 .. 2 * (n + 1)
    OBVIOUS
  <2>2. CASE k = n + 1
    BY <1>2, <2>1, <2>2
  <2>3. CASE k # n + 1
    <3>1. k \in 1 .. n /\ 2 * k - 1 <= 2 * n /\ 2 * k <= 2 * n
      BY <2>3
    <3> QED BY <1>1, <1>2, <2>1, <3>1
  <2> QED BY <2>2, <2>3
<1> QED BY <1>2, <1>3 DEF PairsIn, w

\* The auxiliary vector, word by word.
LEMMA FlatPairs ==
    ASSUME NEW s \in Seq(Nat \X Nat)
    PROVE  PairsIn(FlattenSeq(s), s, Len(s))
<1>1. Len(s) \in Nat /\ \A i \in 1 .. Len(s) : s[i] \in Nat \X Nat
  BY ElementOfSeq
<1>2. ASSUME NEW i \in 1 .. Len(s)
      PROVE  s[i] \in Seq(Nat) /\ Len(s[i]) = 2
  <2>1. s[i] \in Nat \X Nat
    BY <1>1
  <2>2. PICK x \in Nat, y \in Nat : s[i] = <<x, y>>
    BY <2>1
  <2>3. <<x, y>> \in Seq(Nat) /\ Len(<<x, y>>) = 2
    OBVIOUS
  <2> QED BY <2>2, <2>3
<1>3. CASE s = <<>>
  <2>1. FlattenSeq(s) = <<>> /\ Len(s) = 0
    BY <1>3, FlattenFew
  <2> QED BY <2>1 DEF PairsIn
<1>4. CASE s # <<>>
  <2>0. s \in Seq(Seq(Nat)) /\ Len(s) \in Nat \ {0}
    <3>1. s \in [1 .. Len(s) -> Seq(Nat)]
      BY <1>2, LenProperties
    <3>2. s \in Seq(Seq(Nat))
      <4>1. \A m \in Nat : [1 .. m -> Seq(Nat)] \subseteq Seq(Seq(Nat))
        OBVIOUS
      <4> QED BY <1>1, <3>1, <4>1
    <3> QED BY <1>4, <3>2, EmptySeq
  <2>1. PICK g : /\ FlattenSeq(s) = g[Len(s)]
                 /\ \A i \in 1 .. Len(s) : g[i] \in Seq(Nat)
                 /\ g[1] = s[1]
                 /\ \A i \in 2 .. Len(s) : g[i] = g[i - 1] \o s[i]
    BY <1>4, <2>0, FlatParts
  <2> DEFINE T == {i \in Nat : i \in 1 .. Len(s) => PairsIn(g[i], s, i)}
  <2>2. ASSUME NEW i \in Nat, \A j \in 0 .. i - 1 : j \in T PROVE i \in T
    <3>1. SUFFICES ASSUME i \in 1 .. Len(s) PROVE PairsIn(g[i], s, i)
      OBVIOUS
    <3>2. CASE i = 1
      BY <1>2, <2>1, <3>1, <3>2 DEF PairsIn
    <3>3. CASE i # 1
      <4>1. i - 1 \in 0 .. i - 1 /\ i - 1 \in 1 .. Len(s) /\ i \in 2 .. Len(s)
        BY <3>1, <3>3
      <4>2. PairsIn(g[i - 1], s, i - 1)
        BY <2>2, <4>1
      <4>3. PICK n \in Nat : n = i - 1
        BY <4>1
      <4>4. PICK e : e = s[i]
        OBVIOUS
      <4>5. PairsIn(g[n], s, n) /\ e \in Seq(Nat) /\ Len(e) = 2 /\ i = n + 1
        BY <1>2, <3>1, <4>2, <4>3, <4>4
      <4>6. PairsIn(g[n] \o e, s, n + 1)
        BY <4>4, <4>5, PairBehind
      <4>7. g[i] = g[n] \o e
        BY <2>1, <4>1, <4>3, <4>4
      <4> QED BY <4>5, <4>6, <4>7
    <3> QED BY <3>2, <3>3
  <2> HIDE DEF T
  <2>3. Nat \subseteq T
    BY <2>2, StrongInduction
  <2>4. Len(s) \in T /\ Len(s) \in 1 .. Len(s)
    BY <2>0, <2>3
  <2> QED BY <2>1, <2>4 DEF T
<1> QED BY <1>3, <1>4

\* w is s, which has m words, and t, which has n.
IsJoined(w, s, m, t, n) ==
    /\ w \in Seq(Nat) /\ Len(w) = m + n
    /\ \A i \in 1 .. m : w[i] = s[i]
    /\ \A i \in 1 .. n : w[m + i] = t[i]

\* Where the words of two sequences lie when they are put together.
LEMMA WordsJoined ==
    ASSUME NEW s \in Seq(Nat), NEW t \in Seq(Nat)
    PROVE  IsJoined(s \o t, s, Len(s), t, Len(t))
<1>1. /\ s \o t \in Seq(Nat) /\ Len(s \o t) = Len(s) + Len(t)
      /\ \A i \in 1 .. Len(s) + Len(t) :
           (s \o t)[i] = IF i <= Len(s) THEN s[i] ELSE t[i - Len(s)]
      /\ Len(s) \in Nat /\ Len(t) \in Nat
  BY ConcatProperties, LenProperties
<1> DEFINE w == s \o t
<1> HIDE DEF w
<1>2. ASSUME NEW i \in 1 .. Len(s) PROVE w[i] = s[i]
  <2>1. i \in 1 .. Len(s) + Len(t) /\ i <= Len(s)
    BY <1>1
  <2> QED BY <1>1, <2>1 DEF w
<1>3. ASSUME NEW i \in 1 .. Len(t) PROVE w[Len(s) + i] = t[i]
  <2>1. Len(s) + i \in 1 .. Len(s) + Len(t) /\ ~(Len(s) + i <= Len(s)) /\ (Len(s) + i) - Len(s) = i
    BY <1>1
  <2> QED BY <1>1, <2>1 DEF w
<1> QED BY <1>1, <1>2, <1>3 DEF w, IsJoined

\* The words on the stack: a pointers and a 0, e pointers and a 0, and from v on the
\* n pairs of x and a 0.
StackIs(w, a, e, v, n, x) ==
    /\ a \in Nat /\ e \in Nat /\ n \in Nat /\ v = a + e + 3
    /\ Len(w) = v + 2 * n + 1
    /\ w[a + 1] = 0 /\ w[v - 1] = 0 /\ w[v + 2 * n] = 0
    /\ \A i \in 1 .. e : w[a + 1 + i] = i
    /\ \A q \in 0 .. n - 1 : w[v + 2 * q] = x[q + 1][1] /\ w[v + 2 * q + 1] = x[q + 1][2]

\* That is what lies there.
LEMMA StackRead ==
    ASSUME image \in Image
    PROVE  StackIs(Words, Len(image.argv), image.envs,
                   Len(image.argv) + image.envs + 3, Len(image.aux), image.aux)
<1>1. PICK a \in Nat, e \in Nat, n \in Nat :
        a = Len(image.argv) /\ e = image.envs /\ n = Len(image.aux)
  BY ProcessAssumption, LenProperties
<1> DEFINE A == [i \in 1 .. a |-> i]
           B == [i \in 1 .. e |-> i]
           F == FlattenSeq(image.aux)
           O == <<0>>
           P == <<0, 0>>
<1>2. PairsIn(F, image.aux, n)
  <2>1. image.aux \in Seq(Nat \X Nat)
    <3>1. image.aux \in Seq((Nat \ {0}) \X Nat)
      BY ProcessAssumption
    <3>2. (Nat \ {0}) \X Nat \subseteq Nat \X Nat
      OBVIOUS
    <3> QED BY <3>1, <3>2, SeqMonotonic
  <2> QED BY <1>1, <2>1, FlatPairs
<1>3. /\ F \in Seq(Nat) /\ Len(F) = 2 * n
      /\ \A k \in 1 .. n : F[2 * k - 1] = image.aux[k][1] /\ F[2 * k] = image.aux[k][2]
  BY <1>2 DEF PairsIn
<1>4. A \in Seq(Nat) /\ Len(A) = a /\ B \in Seq(Nat) /\ Len(B) = e /\ \A i \in 1 .. e : B[i] = i
  OBVIOUS
<1>5. O \in Seq(Nat) /\ Len(O) = 1 /\ O[1] = 0 /\ P \in Seq(Nat) /\ Len(P) = 2 /\ P[1] = 0
  OBVIOUS
<1> DEFINE u == A \o O
           w == u \o B
           x == w \o O
           y == x \o F
           z == y \o P
<1>6. Words = z
  BY <1>1 DEF Words
<1> HIDE DEF A, B, F, O, P
<1>7. u \in Seq(Nat) /\ Len(u) = a + 1 /\ u[a + 1] = 0
  <2>1. IsJoined(u, A, a, O, 1)
    BY <1>4, <1>5, WordsJoined
  <2> HIDE DEF u
  <2> QED BY <1>1, <1>5, <2>1 DEF IsJoined
<1>8. /\ w \in Seq(Nat) /\ Len(w) = a + 1 + e /\ w[a + 1] = 0
      /\ \A i \in 1 .. e : w[a + 1 + i] = i
  <2> HIDE DEF u
  <2>1. IsJoined(w, u, a + 1, B, e)
    BY <1>4, <1>7, WordsJoined
  <2> HIDE DEF w
  <2>2. \A i \in 1 .. a + 1 : w[i] = u[i]
    BY <2>1 DEF IsJoined
  <2>3. \A i \in 1 .. e : w[a + 1 + i] = B[i]
    BY <2>1 DEF IsJoined
  <2>4. a + 1 \in 1 .. a + 1
    BY ONLY a \in Nat
  <2>5. w \in Seq(Nat) /\ Len(w) = a + 1 + e
    BY <2>1 DEF IsJoined
  <2> QED BY <1>4, <1>7, <2>2, <2>3, <2>4, <2>5
<1>9. /\ x \in Seq(Nat) /\ Len(x) = a + e + 2 /\ x[a + 1] = 0 /\ x[a + e + 2] = 0
      /\ \A i \in 1 .. e : x[a + 1 + i] = i
  <2> HIDE DEF w
  <2>1. IsJoined(x, w, a + 1 + e, O, 1)
    BY <1>5, <1>8, WordsJoined
  <2> HIDE DEF x
  <2>2. \A i \in 1 .. a + 1 + e : x[i] = w[i]
    BY <2>1 DEF IsJoined
  <2>3. x[a + e + 2] = 0
    <3>1. x[a + 1 + e + 1] = O[1]
      <4>1. \A i \in 1 .. 1 : x[a + 1 + e + i] = O[i]
        BY <2>1 DEF IsJoined
      <4> QED BY ONLY <4>1
    <3>2. a + 1 + e + 1 = a + e + 2
      BY ONLY a \in Nat, e \in Nat
    <3> QED BY <1>5, <3>1, <3>2
  <2>4. \A i \in 1 .. e : a + 1 + i \in 1 .. a + 1 + e
    BY ONLY a \in Nat, e \in Nat
  <2>5. a + 1 \in 1 .. a + 1 + e
    BY ONLY a \in Nat, e \in Nat
  <2>6. x \in Seq(Nat) /\ Len(x) = a + 1 + e + 1
    BY <2>1 DEF IsJoined
  <2>7. a + 1 + e + 1 = a + e + 2
    BY ONLY a \in Nat, e \in Nat
  <2> QED BY <1>8, <2>2, <2>3, <2>4, <2>5, <2>6, <2>7
<1>10. /\ y \in Seq(Nat) /\ Len(y) = a + e + 2 + 2 * n /\ y[a + 1] = 0 /\ y[a + e + 2] = 0
       /\ \A i \in 1 .. e : y[a + 1 + i] = i
       /\ \A j \in 1 .. 2 * n : y[a + e + 2 + j] = F[j]
  <2> HIDE DEF x
  <2>1. IsJoined(y, x, a + e + 2, F, 2 * n)
    BY <1>3, <1>9, WordsJoined
  <2> HIDE DEF y
  <2>2. \A i \in 1 .. a + e + 2 : y[i] = x[i]
    BY <2>1 DEF IsJoined
  <2>3. \A i \in 1 .. e : a + 1 + i \in 1 .. a + e + 2
    BY ONLY a \in Nat, e \in Nat
  <2>4. a + 1 \in 1 .. a + e + 2 /\ a + e + 2 \in 1 .. a + e + 2
    BY ONLY a \in Nat, e \in Nat
  <2> QED BY <1>9, <2>1, <2>2, <2>3, <2>4 DEF IsJoined
<1>11. /\ Len(z) = a + e + 2 * n + 4 /\ z[a + e + 3 + 2 * n] = 0
       /\ \A i \in 1 .. a + e + 2 + 2 * n : z[i] = y[i]
  <2> HIDE DEF y
  <2>1. IsJoined(z, y, a + e + 2 + 2 * n, P, 2)
    BY <1>5, <1>10, WordsJoined
  <2> HIDE DEF z
  <2>2. z[a + e + 2 + 2 * n + 1] = P[1] /\ a + e + 2 + 2 * n + 1 = a + e + 3 + 2 * n
    <3>1. a + e + 2 + 2 * n + 1 = a + e + 3 + 2 * n
      BY ONLY a \in Nat, e \in Nat, n \in Nat
    <3>2. z[a + e + 2 + 2 * n + 1] = P[1]
      <4>1. \A i \in 1 .. 2 : z[a + e + 2 + 2 * n + i] = P[i]
        BY <2>1 DEF IsJoined
      <4> QED BY ONLY <4>1
    <3> QED BY <3>1, <3>2
  <2>3. Len(z) = a + e + 2 + 2 * n + 2
    BY <2>1 DEF IsJoined
  <2>4. a + e + 2 + 2 * n + 2 = a + e + 2 * n + 4
    BY ONLY a \in Nat, e \in Nat, n \in Nat
  <2>5. \A i \in 1 .. a + e + 2 + 2 * n : z[i] = y[i]
    BY <2>1 DEF IsJoined
  <2> QED BY <1>5, <2>2, <2>3, <2>4, <2>5
<1> HIDE DEF z, y
<1>12. \A i \in 1 .. e : z[a + 1 + i] = i
  BY <1>10, <1>11
<1>13. ASSUME NEW k \in 1 .. n
       PROVE  z[a + e + 2 * k + 1] = image.aux[k][1] /\ z[a + e + 2 * k + 2] = image.aux[k][2]
  <2>1. /\ 2 * k - 1 \in 1 .. 2 * n /\ 2 * k \in 1 .. 2 * n
        /\ a + e + 2 + (2 * k - 1) = a + e + 2 * k + 1
        /\ a + e + 2 + 2 * k = a + e + 2 * k + 2
    OBVIOUS
  <2>2. y[a + e + 2 * k + 1] = F[2 * k - 1] /\ y[a + e + 2 * k + 2] = F[2 * k]
    BY <1>10, <2>1
  <2>3. /\ a + e + 2 * k + 1 \in 1 .. a + e + 2 + 2 * n
        /\ a + e + 2 * k + 2 \in 1 .. a + e + 2 + 2 * n
    OBVIOUS
  <2> QED BY <1>3, <1>11, <2>2, <2>3
<1>14. z[a + 1] = 0 /\ z[a + e + 2] = 0
  BY <1>10, <1>11
<1>15. PICK v \in Nat : v = a + e + 3
  OBVIOUS
<1>16. ASSUME NEW q \in 0 .. n - 1
       PROVE  z[v + 2 * q] = image.aux[q + 1][1] /\ z[v + 2 * q + 1] = image.aux[q + 1][2]
  <2>1. PICK k \in 1 .. n : k = q + 1
    OBVIOUS
  <2>2. v + 2 * q = a + e + 2 * k + 1 /\ v + 2 * q + 1 = a + e + 2 * k + 2
    BY <1>15, <2>1
  <2> QED BY <1>13, <2>1, <2>2
<1>17. Len(z) = v + 2 * n + 1 /\ z[v + 2 * n] = 0 /\ z[v - 1] = 0
  BY <1>11, <1>14, <1>15
<1>18. StackIs(z, a, e, v, n, image.aux)
  BY <1>12, <1>14, <1>15, <1>16, <1>17 DEF StackIs
<1> QED BY <1>1, <1>6, <1>15, <1>18

\* The short name begins behind the last slash.
LEMMA NameAfterSlash ==
    ASSUME NEW S, NEW pn \in Seq(S)
    PROVE  /\ NameFrom(pn) \in 1 .. Len(pn) + 1
           /\ \A i \in NameFrom(pn) .. Len(pn) : pn[i] # "/"
           /\ NameFrom(pn) = 1 \/ pn[NameFrom(pn) - 1] = "/"
<1> DEFINE H == {0} \cup {i \in DOMAIN pn : pn[i] = "/"}
<1>1. Len(pn) \in Nat /\ DOMAIN pn = 1 .. Len(pn)
  BY LenProperties
<1>2. H \in SUBSET (0 .. Len(pn)) /\ H # {}
  BY <1>1
<1>3. PICK m : m = Max(H)
  OBVIOUS
<1>4. m \in H /\ \A y \in H : m >= y
  <2> HIDE DEF H
  <2> QED BY <1>1, <1>2, <1>3, GreatestIn
<1>5. NameFrom(pn) = m + 1 /\ m \in Nat
  BY <1>1, <1>2, <1>3, <1>4 DEF NameFrom
<1>6. ASSUME NEW i \in m + 1 .. Len(pn) PROVE pn[i] # "/"
  <2>1. i \notin H /\ i \in DOMAIN pn
    BY <1>1, <1>4, <1>5
  <2> QED BY <2>1
<1>7. m = 0 \/ pn[m] = "/"
  BY <1>4
<1>8. m + 1 \in 1 .. Len(pn) + 1
  BY <1>2, <1>4
<1> QED BY <1>5, <1>6, <1>7, <1>8

\* Going on by two words from v ends at the first of them that is 0, behind n pairs.
LEMMA PairsBeforeZero ==
    ASSUME NEW w, NEW v \in Nat, NEW n \in Nat, Len(w) \in Nat, Len(w) >= v + 2 * n,
           w[v + 2 * n] = 0, \A q \in 0 .. n - 1 : w[v + 2 * q] # 0
    PROVE  \A k : (/\ k \in v .. Len(w) /\ (k - v) % 2 = 0
                   /\ \A j \in v .. k : (j - v) % 2 = 0 => w[j] # 0)
                  <=> \E q \in 0 .. n - 1 : k = v + 2 * q
<1>1. ASSUME NEW j \in Nat, (j - v) % 2 = 0, j >= v
      PROVE  \E q \in Nat : j = v + 2 * q
  <2>1. PICK d \in Nat : d = j - v
    BY <1>1
  <2>2. d = 2 * (d \div 2) /\ d \div 2 \in Nat
    BY <1>1, <2>1
  <2>3. j = v + 2 * (d \div 2)
    BY <2>1, <2>2
  <2> QED BY <2>2, <2>3
<1>2. ASSUME NEW q \in Nat
      PROVE  v + 2 * q \in Nat /\ v + 2 * q >= v /\ (v + 2 * q - v) % 2 = 0
  <2>1. v + 2 * q - v = 2 * q
    OBVIOUS
  <2> QED BY <2>1
<1>3. ASSUME NEW k, k \in v .. Len(w), (k - v) % 2 = 0,
             \A j \in v .. k : (j - v) % 2 = 0 => w[j] # 0
      PROVE  \E q \in 0 .. n - 1 : k = v + 2 * q
  <2>1. k \in Nat /\ k >= v
    BY <1>3
  <2>2. PICK q \in Nat : k = v + 2 * q
    BY <1>1, <1>3, <2>1
  <2>3. q < n
    <3>1. SUFFICES ASSUME q >= n PROVE FALSE
      OBVIOUS
    <3>2. v + 2 * n \in v .. k
      BY <2>2, <3>1
    <3> QED BY <1>2, <1>3, <3>2
  <2> QED BY <2>2, <2>3
<1>4. ASSUME NEW q \in 0 .. n - 1, NEW k, k = v + 2 * q
      PROVE  /\ k \in v .. Len(w) /\ (k - v) % 2 = 0
             /\ \A j \in v .. k : (j - v) % 2 = 0 => w[j] # 0
  <2>1. q \in Nat /\ k \in v .. Len(w) /\ k \in Nat
    BY <1>4
  <2>2. (k - v) % 2 = 0
    BY <1>2, <1>4, <2>1
  <2>3. ASSUME NEW j \in v .. k, (j - v) % 2 = 0 PROVE w[j] # 0
    <3>1. j \in Nat /\ j >= v /\ j <= k
      BY <2>1
    <3>2. PICK p \in Nat : j = v + 2 * p
      BY <1>1, <2>3, <3>1
    <3>3. p \in 0 .. n - 1
      BY <1>4, <3>1, <3>2
    <3> QED BY <3>2, <3>3
  <2> QED BY <2>1, <2>2, <2>3
<1> QED BY <1>3, <1>4

\* Where the entries of the auxiliary vector lie: every pair, and no word behind them.
LEMMA EntriesAre ==
    ASSUME image \in Image, NEW v \in Nat, NEW n \in Nat, n = Len(image.aux),
           Len(Words) \in Nat, Len(Words) >= v + 2 * n, Words[v + 2 * n] = 0,
           \A q \in 0 .. n - 1 : Words[v + 2 * q] = image.aux[q + 1][1]
    PROVE  \A k : k \in Entries(v) <=> \E q \in 0 .. n - 1 : k = v + 2 * q
<1>1. PICK w : w = Words
  OBVIOUS
<1>2. \A q \in 1 .. n : image.aux[q][1] # 0
  <2>1. image.aux \in Seq((Nat \ {0}) \X Nat)
    BY ProcessAssumption
  <2>2. \A q \in 1 .. n : image.aux[q] \in (Nat \ {0}) \X Nat
    BY <2>1, ElementOfSeq
  <2> QED BY <2>2
<1>3. \A q \in 0 .. n - 1 : w[v + 2 * q] # 0
  <2>1. \A q \in 0 .. n - 1 : q + 1 \in 1 .. n
    OBVIOUS
  <2> QED BY <1>1, <1>2, <2>1
<1>4. Entries(v) = {k \in v .. Len(w) :
                      /\ (k - v) % 2 = 0
                      /\ \A j \in v .. k : (j - v) % 2 = 0 => w[j] # 0}
  BY <1>1 DEF Entries, AuxStep
<1>5. Len(w) \in Nat /\ Len(w) >= v + 2 * n /\ w[v + 2 * n] = 0
  BY <1>1
<1>6. \A k : (/\ k \in v .. Len(w) /\ (k - v) % 2 = 0
              /\ \A j \in v .. k : (j - v) % 2 = 0 => w[j] # 0)
             <=> \E q \in 0 .. n - 1 : k = v + 2 * q
  BY ONLY <1>3, <1>5, v \in Nat, n \in Nat, PairsBeforeZero, ZenonT(40)
<1> QED BY ONLY <1>4, <1>6

\* The last of the places in St at which the tag lies is that of the last pair with it.
LastTagged(w, v, n, x, St, tag) ==
    LET page == {k \in St : w[k] = tag}
        asked == {k \in 1 .. n : x[k][1] = tag} IN
    /\ page = {} <=> asked = {}
    /\ asked # {} => w[Max(page) + 1] = x[Max(asked)][2]

\* The page size is the value of the last tag that asks for it.
LEMMA LastPage ==
    ASSUME NEW w, NEW v \in Nat, NEW n \in Nat, NEW x, NEW St, NEW tag,
           \A q \in 0 .. n - 1 : w[v + 2 * q] = x[q + 1][1] /\ w[v + 2 * q + 1] = x[q + 1][2],
           \A k : k \in St /\ w[k] = tag <=> \E q \in 0 .. n - 1 : k = v + 2 * q /\ w[k] = tag
    PROVE  LastTagged(w, v, n, x, St, tag)
<1> DEFINE page == {k \in St : w[k] = tag}
           asked == {k \in 1 .. n : x[k][1] = tag}
<1>1. \A k : k \in page <=> \E q \in 0 .. n - 1 : k = v + 2 * q /\ w[k] = tag
  OBVIOUS
<1>2. ASSUME NEW k \in 1 .. n
      PROVE  k \in asked <=> v + 2 * (k - 1) \in page
  <2>1. PICK q \in 0 .. n - 1 : q = k - 1
    OBVIOUS
  <2>2. w[v + 2 * q] = x[k][1]
    BY <2>1
  <2> QED BY <1>1, <2>1, <2>2
<1>3. ASSUME NEW y \in page PROVE \E k \in asked : y = v + 2 * (k - 1)
  <2>1. PICK q \in 0 .. n - 1 : y = v + 2 * q
    BY <1>1
  <2>2. PICK k \in 1 .. n : q = k - 1
    <3>1. q + 1 \in 1 .. n /\ q = (q + 1) - 1
      OBVIOUS
    <3> QED BY <3>1
  <2> QED BY <1>2, <2>1, <2>2
<1>4. page = {} <=> asked = {}
  <2>1. \A k \in asked : k \in 1 .. n
    OBVIOUS
  <2> HIDE DEF page, asked
  <2> QED BY <1>2, <1>3, <2>1
<1>5. ASSUME asked # {} PROVE w[Max(page) + 1] = x[Max(asked)][2]
  <2>1. PICK m \in asked : m = Max(asked) /\ \A y \in asked : m >= y
    <3>1. asked \in SUBSET (0 .. n)
      OBVIOUS
    <3> HIDE DEF asked
    <3> QED BY <1>5, <3>1, GreatestIn
  <2>2. m \in 1 .. n
    BY <2>1
  <2>3. PICK q \in 0 .. n - 1 : q = m - 1
    BY <2>2
  <2>4. v + 2 * q \in page
    BY <1>2, <2>1, <2>2, <2>3
  <2>5. ASSUME NEW y \in page PROVE y \in Int /\ v + 2 * q >= y
    <3>1. PICK k \in asked : y = v + 2 * (k - 1)
      BY <1>3
    <3>2. k \in 1 .. n /\ k <= m
      BY <2>1
    <3> QED BY <2>2, <2>3, <3>1, <3>2
  <2>6. PICK z \in Nat : z = v + 2 * q
    OBVIOUS
  <2>7. z \in page /\ \A y \in page : y \in Int /\ z >= y
    BY <2>4, <2>5, <2>6
  <2> HIDE DEF page
  <2>8. page \in SUBSET Int
    BY <2>7
  <2>9. Max(page) = z
    BY <2>7, <2>8, GreatestIs
  <2>10. w[v + 2 * q + 1] = x[q + 1][2] /\ q + 1 = m
    BY <2>2, <2>3
  <2> QED BY <2>1, <2>6, <2>9, <2>10
<1> QED BY <1>4, <1>5 DEF LastTagged

\* Behind the arguments come the environment and, where it ends, the pairs.
LEMMA AuxvIs ==
    ASSUME NEW w, NEW a, NEW e, NEW v, NEW n, NEW x, StackIs(w, a, e, v, n, x)
    PROVE  Min({i \in a + 2 .. Len(w) : w[i] = 0}) + 1 = v
<1> DEFINE T == {i \in a + 2 .. Len(w) : w[i] = 0}
<1>0. /\ a \in Nat /\ e \in Nat /\ n \in Nat /\ v = a + e + 3
      /\ Len(w) = v + 2 * n + 1 /\ w[v - 1] = 0
      /\ \A i \in 1 .. e : w[a + 1 + i] = i
  BY ZenonT(30) DEF StackIs
<1>1. /\ a \in Nat /\ e \in Nat /\ n \in Nat /\ v \in Nat /\ v = a + e + 3
      /\ Len(w) = v + 2 * n + 1 /\ w[v - 1] = 0
      /\ \A i \in 1 .. e : w[a + 1 + i] = i
  <2>1. v \in Nat
    BY ONLY <1>0
  <2> QED BY <1>0, <2>1, ZenonT(30)
<1>2. v - 1 \in T
  BY <1>1
<1>3. ASSUME NEW y \in T PROVE v - 1 <= y
  <2>1. SUFFICES ASSUME y < v - 1 PROVE FALSE
    BY <1>1
  <2>2. PICK i \in 1 .. e : y = a + 1 + i
    <3>1. y - (a + 1) \in 1 .. e /\ y = a + 1 + (y - (a + 1))
      BY <1>1, <2>1
    <3> QED BY <3>1
  <2>3. w[y] = i /\ i # 0
    BY <1>1, <2>2
  <2> QED BY <2>3
<1>4. T \in SUBSET Int
  BY <1>1
<1> HIDE DEF T
<1>5. Min(T) = v - 1
  BY <1>1, <1>2, <1>3, <1>4, LeastIs
<1> QED BY <1>1, <1>5 DEF T

\* __init_libc reads what the loader has put on the stack.
LEMMA InitLibcReads ==
    ASSUME image \in Image, __init_libc
    PROVE  ImageRead' /\ environ' # 0
<1>1. PICK a, e, v, n, x, w :
        /\ a = Len(image.argv) /\ e = image.envs /\ v = a + e + 3 /\ x = image.aux
        /\ n = Len(x) /\ w = Words
  OBVIOUS
<1>2. StackIs(w, a, e, v, n, x)
  BY <1>1, StackRead
<1>3. /\ a \in Nat /\ e \in Nat /\ n \in Nat /\ v \in Nat
      /\ Len(w) = v + 2 * n + 1 /\ w[v + 2 * n] = 0 /\ w[a + 1] = 0
      /\ \A q \in 0 .. n - 1 : w[v + 2 * q] = x[q + 1][1] /\ w[v + 2 * q + 1] = x[q + 1][2]
  BY <1>2 DEF StackIs
<1>4. Min({i \in a + 2 .. Len(w) : w[i] = 0}) + 1 = v
  BY <1>2, AuxvIs
<1> DEFINE page == {k \in Stored(v) : w[k] = AT_PAGESZ}
<1>5. /\ environ' = a + 2
      /\ tags' = {w[k] : k \in Stored(v)}
      /\ page_size' = IF page = {} THEN 0 ELSE w[Max(page) + 1]
      /\ progname' = IF image.argv = <<>> THEN 0 ELSE NameFrom(image.argv[1])
      /\ image' = image
  BY <1>1, <1>4 DEF __init_libc
<1>6. \A k : k \in Entries(v) <=> \E q \in 0 .. n - 1 : k = v + 2 * q
  <2>1. /\ Len(w) \in Nat /\ Len(w) >= v + 2 * n /\ w[v + 2 * n] = 0
        /\ \A q \in 0 .. n - 1 : w[v + 2 * q] = x[q + 1][1]
    <3>1. v \in Nat /\ n \in Nat /\ Len(w) = v + 2 * n + 1
      BY <1>3
    <3>2. Len(w) \in Nat /\ Len(w) >= v + 2 * n
      BY ONLY <3>1
    <3> QED BY <1>3, <3>2, Zenon
  <2>2. /\ image \in Image /\ v \in Nat /\ n \in Nat /\ n = Len(image.aux)
        /\ Len(Words) \in Nat /\ Len(Words) >= v + 2 * n /\ Words[v + 2 * n] = 0
        /\ \A q \in 0 .. n - 1 : Words[v + 2 * q] = image.aux[q + 1][1]
    BY <1>1, <1>3, <2>1, Zenon
  <2> QED BY ONLY <2>2, EntriesAre
<1>7. \A k : k \in Stored(v) <=> k \in Entries(v) /\ w[k] < AUX_CNT
  BY <1>1 DEF Stored
<1>8. AT_PAGESZ < AUX_CNT /\ AUX_CNT \in Nat
  BY ProcessAssumption
<1>9. \A k : k \in Stored(v) /\ w[k] = AT_PAGESZ
             <=> \E q \in 0 .. n - 1 : k = v + 2 * q /\ w[k] = AT_PAGESZ
  BY <1>6, <1>7, <1>8
<1> DEFINE asked == {k \in 1 .. n : x[k][1] = AT_PAGESZ}
<1>10. /\ page = {} <=> asked = {}
       /\ asked # {} => w[Max(page) + 1] = x[Max(asked)][2]
  <2>1. PICK St : St = Stored(v)
    OBVIOUS
  <2>2. /\ \A q \in 0 .. n - 1 : w[v + 2 * q] = x[q + 1][1] /\ w[v + 2 * q + 1] = x[q + 1][2]
        /\ \A k : k \in St /\ w[k] = AT_PAGESZ
                  <=> \E q \in 0 .. n - 1 : k = v + 2 * q /\ w[k] = AT_PAGESZ
    BY <1>3, <1>9, <2>1
  <2>3. LastTagged(w, v, n, x, St, AT_PAGESZ)
    BY <1>3, <2>2, LastPage
  <2> QED BY <2>1, <2>3 DEF LastTagged
<1>11. page_size' = IF asked = {} THEN 0 ELSE x[Max(asked)][2]
  BY <1>5, <1>10
<1>12. tags' \subseteq 0 .. AUX_CNT - 1
  <2>1. \A k \in 1 .. n : x[k][1] \in Nat
    <3>1. x \in Seq((Nat \ {0}) \X Nat)
      BY <1>1, ProcessAssumption
    <3>2. \A k \in 1 .. n : x[k] \in (Nat \ {0}) \X Nat
      BY <1>1, <3>1, ElementOfSeq
    <3> QED BY <3>2
  <2>2. ASSUME NEW k \in Stored(v) PROVE w[k] \in 0 .. AUX_CNT - 1
    <3>1. PICK q \in 0 .. n - 1 : k = v + 2 * q
      BY <1>6, <1>7
    <3>2. w[k] = x[q + 1][1] /\ q + 1 \in 1 .. n
      BY <1>3, <3>1
    <3>3. w[k] \in Nat /\ w[k] < AUX_CNT
      BY <1>7, <2>1, <3>2
    <3> QED BY <1>8, <3>3
  <2> QED BY <1>5, <2>2
<1>13. image.argv # <<>> =>
         LET pn == image.argv[1] IN
         /\ progname' \in 1 .. Len(pn) + 1
         /\ \A i \in progname' .. Len(pn) : pn[i] # "/"
         /\ progname' = 1 \/ pn[progname' - 1] = "/"
  <2>1. SUFFICES ASSUME image.argv # <<>> PROVE image.argv[1] \in Seq(STRING)
    BY <1>5, NameAfterSlash
  <2>2. image.argv \in Seq(Seq(STRING))
    BY ProcessAssumption
  <2>3. 1 \in 1 .. Len(image.argv)
    BY <2>1, <2>2, EmptySeq
  <2> QED BY <2>2, <2>3, ElementOfSeq
<1>14. DOMAIN x = 1 .. n
  <2>1. x \in Seq((Nat \ {0}) \X Nat)
    BY <1>1, ProcessAssumption
  <2> QED BY <1>1, <2>1, LenProperties
<1>15. Words' = w
  BY <1>1, <1>5 DEF Words
<1>16. /\ environ' - 1 = a + 1 /\ environ' - 2 = a /\ environ' # 0
  BY <1>3, <1>5
<1>17. Words'[environ' - 1] = 0 /\ environ' - 2 = Len(image'.argv)
  BY <1>1, <1>3, <1>5, <1>15, <1>16
<1> HIDE DEF page
<1> QED BY <1>1, <1>5, <1>11, <1>12, <1>13, <1>14, <1>16, <1>17 DEF ImageRead

-----------------------------------------------------------------------------
(* The messages of strerror.                                               *)

\* What the messages are made of.
MessageChar == STRING \cup {"NUL"}
Messages == [i \in DOMAIN ErrorList |-> Append(ErrorList[i].msg, "NUL")]

\* The i-th message lies in f behind the first end[i - 1] characters, and its NUL is
\* the character end[i].
MessageLies(f, end, i) ==
    LET msg == ErrorList[i].msg IN
    /\ end[i] = end[i - 1] + Len(msg) + 1 /\ end[i] <= Len(f)
    /\ \A j \in 1 .. Len(msg) : f[end[i - 1] + j] = msg[j]
    /\ f[end[i]] = "NUL"

\* What the list of errors is.
LEMMA ErrorsTyped ==
    /\ Len(ErrorList) \in Nat \ {0} /\ DOMAIN ErrorList = 1 .. Len(ErrorList)
    /\ \A i \in 1 .. Len(ErrorList) :
         /\ ErrorList[i].id \in 0 .. 255
         /\ ErrorList[i].id = 0 <=> i = Len(ErrorList)
         /\ ErrorList[i].msg \in Seq(MessageChar)
         /\ \A j \in 1 .. Len(ErrorList[i].msg) : ErrorList[i].msg[j] # "NUL"
<1>1. /\ ErrorList \in Seq([id : 0 .. 255, msg : Seq(STRING \ {"NUL"})]) /\ ErrorList # <<>>
      /\ \A i \in 1 .. Len(ErrorList) : ErrorList[i].id = 0 <=> i = Len(ErrorList)
  BY ProcessAssumption
<1>2. Len(ErrorList) \in Nat \ {0} /\ DOMAIN ErrorList = 1 .. Len(ErrorList)
  BY <1>1, EmptySeq, LenProperties
<1>3. ASSUME NEW i \in 1 .. Len(ErrorList)
      PROVE  /\ ErrorList[i].id \in 0 .. 255
             /\ ErrorList[i].msg \in Seq(MessageChar)
             /\ \A j \in 1 .. Len(ErrorList[i].msg) : ErrorList[i].msg[j] # "NUL"
  <2>1. ErrorList[i] \in [id : 0 .. 255, msg : Seq(STRING \ {"NUL"})]
    BY <1>1, ElementOfSeq, ZenonT(40)
  <2>2. PICK m : m = ErrorList[i].msg
    OBVIOUS
  <2>3. m \in Seq(STRING \ {"NUL"}) /\ ErrorList[i].id \in 0 .. 255
    BY <2>1, <2>2
  <2>4. STRING \ {"NUL"} \subseteq MessageChar
    BY DEF MessageChar
  <2>5. m \in Seq(MessageChar)
    BY <2>3, <2>4, SeqMonotonic
  <2>6. \A j \in 1 .. Len(m) : m[j] \in STRING \ {"NUL"}
    BY <2>3, ElementOfSeq
  <2> QED BY <2>2, <2>3, <2>5, <2>6
<1> QED BY <1>1, <1>2, <1>3

\* A message is put behind others.
LEMMA MessageBehind ==
    ASSUME NEW f \in Seq(MessageChar), NEW m \in Seq(MessageChar)
    PROVE  LET w == f \o Append(m, "NUL") IN
           /\ w \in Seq(MessageChar) /\ Len(w) = Len(f) + Len(m) + 1
           /\ \A j \in 1 .. Len(f) : w[j] = f[j]
           /\ \A j \in 1 .. Len(m) : w[Len(f) + j] = m[j]
           /\ w[Len(f) + Len(m) + 1] = "NUL"
<1>1. PICK t : t = Append(m, "NUL")
  OBVIOUS
<1>2. /\ t \in Seq(MessageChar) /\ Len(t) = Len(m) + 1 /\ t[Len(m) + 1] = "NUL"
      /\ \A j \in 1 .. Len(m) : t[j] = m[j]
      /\ Len(m) \in Nat /\ Len(f) \in Nat
  <2>1. PICK x \in MessageChar : x = "NUL"
    BY DEF MessageChar
  <2>2. /\ Append(m, x) \in Seq(MessageChar) /\ Len(Append(m, x)) = Len(m) + 1
        /\ \A i \in 1 .. Len(m) : Append(m, x)[i] = m[i]
        /\ Append(m, x)[Len(m) + 1] = x
    BY AppendProperties
  <2>3. Len(m) \in Nat /\ Len(f) \in Nat
    BY LenProperties
  <2> QED BY <1>1, <2>1, <2>2, <2>3
<1>3. PICK w : w = f \o t
  OBVIOUS
<1>4. /\ w \in Seq(MessageChar) /\ Len(w) = Len(f) + Len(t)
      /\ \A i \in 1 .. Len(f) + Len(t) : w[i] = IF i <= Len(f) THEN f[i] ELSE t[i - Len(f)]
  BY <1>2, <1>3, ConcatProperties
<1>5. ASSUME NEW j \in 1 .. Len(t) PROVE w[Len(f) + j] = t[j]
  <2>1. Len(f) + j \in 1 .. Len(f) + Len(t) /\ ~(Len(f) + j <= Len(f)) /\ (Len(f) + j) - Len(f) = j
    BY <1>2
  <2> QED BY <1>4, <2>1
<1>6. \A j \in 1 .. Len(f) : w[j] = f[j]
  <2>1. \A j \in 1 .. Len(f) : j \in 1 .. Len(f) + Len(t) /\ j <= Len(f)
    BY <1>2
  <2> QED BY <1>4, <2>1
<1>7. \A j \in 1 .. Len(m) : w[Len(f) + j] = m[j]
  <2>1. \A j \in 1 .. Len(m) : j \in 1 .. Len(t)
    BY <1>2
  <2> QED BY <1>2, <1>5, <2>1
<1>8. w[Len(f) + (Len(m) + 1)] = "NUL"
  <2>1. Len(m) + 1 \in 1 .. Len(t)
    BY <1>2
  <2> QED BY <1>2, <1>5, <2>1
<1>9. Len(f) + (Len(m) + 1) = Len(f) + Len(m) + 1 /\ Len(w) = Len(f) + Len(m) + 1
  BY <1>2, <1>4
<1> QED BY <1>1, <1>3, <1>4, <1>6, <1>7, <1>8, <1>9

\* One more message: those before it lie where they lay.
LEMMA MessageAdded ==
    ASSUME NEW m \in 1 .. Len(ErrorList), NEW f \in Seq(MessageChar), NEW end,
           \A i \in 0 .. m : end[i] \in Nat,
           \A i \in 1 .. m - 1 : MessageLies(f, end, i),
           end[m - 1] = Len(f), end[m] = Len(f \o Append(ErrorList[m].msg, "NUL"))
    PROVE  \A i \in 1 .. m : MessageLies(f \o Append(ErrorList[m].msg, "NUL"), end, i)
<1>1. PICK msg \in Seq(MessageChar) : msg = ErrorList[m].msg
  BY ErrorsTyped
<1>2. PICK w : w = f \o Append(msg, "NUL")
  OBVIOUS
<1>3. /\ w \in Seq(MessageChar) /\ Len(w) = Len(f) + Len(msg) + 1
      /\ \A j \in 1 .. Len(f) : w[j] = f[j]
      /\ \A j \in 1 .. Len(msg) : w[Len(f) + j] = msg[j]
      /\ w[Len(f) + Len(msg) + 1] = "NUL"
  BY <1>2, MessageBehind
<1>4. Len(f) \in Nat /\ Len(msg) \in Nat /\ m \in Nat
  <2>1. Len(f) \in Nat /\ Len(msg) \in Nat
    BY LenProperties
  <2> QED BY <2>1
<1>5. MessageLies(w, end, m)
  BY <1>1, <1>2, <1>3, <1>4 DEF MessageLies
<1>6. ASSUME NEW i \in 1 .. m - 1 PROVE MessageLies(w, end, i)
  <2>1. PICK n \in Seq(MessageChar) : n = ErrorList[i].msg
    <3>1. Len(ErrorList) \in Nat
      BY ErrorsTyped
    <3>2. i \in 1 .. Len(ErrorList)
      BY <1>4, <3>1
    <3> QED BY <3>2, ErrorsTyped
  <2>2. PICK b \in Nat, c \in Nat : b = end[i - 1] /\ c = end[i]
    <3>1. i - 1 \in 0 .. m /\ i \in 0 .. m
      BY <1>4
    <3> QED BY <3>1
  <2>3. /\ c = b + Len(n) + 1 /\ c <= Len(f) /\ f[c] = "NUL"
        /\ \A j \in 1 .. Len(n) : f[b + j] = n[j]
    <3>1. MessageLies(f, end, i)
      OBVIOUS
    <3> QED BY <2>1, <2>2, <3>1 DEF MessageLies
  <2>4. Len(n) \in Nat
    BY LenProperties
  <2>5. c \in 1 .. Len(f) /\ \A j \in 1 .. Len(n) : b + j \in 1 .. Len(f)
    BY <1>4, <2>3, <2>4
  <2>6. w[c] = "NUL" /\ c <= Len(w) /\ \A j \in 1 .. Len(n) : w[b + j] = n[j]
    BY <1>3, <1>4, <2>3, <2>5, SMTT(30)
  <2> QED BY <2>1, <2>2, <2>3, <2>6 DEF MessageLies
<1>7. \A i \in 1 .. m : i = m \/ i \in 1 .. m - 1
  BY <1>4
<1> QED BY <1>1, <1>2, <1>5, <1>6, <1>7

\* Where the messages lie in errmsg.
LEMMA MessagesLie ==
    \E end : /\ end[0] = 0
             /\ \A i \in 0 .. Len(ErrorList) : end[i] \in Nat
             /\ \A i \in 1 .. Len(ErrorList) : MessageLies(errmsg, end, i)
             /\ errmsg \in Seq(MessageChar) /\ Len(errmsg) \in Nat
<1>1. PICK N \in Nat \ {0} : N = Len(ErrorList)
  BY ErrorsTyped
<1>2. /\ Messages = [i \in 1 .. N |-> Append(ErrorList[i].msg, "NUL")]
      /\ errmsg = FlattenSeq(Messages)
  BY <1>1, ErrorsTyped DEF Messages, errmsg
<1>3. ASSUME NEW i \in 1 .. N
      PROVE  Messages[i] = Append(ErrorList[i].msg, "NUL") /\ Messages[i] \in Seq(MessageChar)
  <2>1. PICK msg \in Seq(MessageChar) : msg = ErrorList[i].msg
    BY <1>1, ErrorsTyped
  <2>2. PICK x \in MessageChar : x = "NUL"
    BY DEF MessageChar
  <2>3. Append(msg, x) \in Seq(MessageChar)
    BY AppendProperties
  <2> QED BY <1>2, <2>1, <2>2, <2>3
<1>4. Messages \in Seq(Seq(MessageChar)) /\ Len(Messages) = N /\ Messages # <<>>
  <2>1. Messages \in [1 .. N -> Seq(MessageChar)]
    BY <1>2, <1>3
  <2>2. \A m \in Nat : [1 .. m -> Seq(MessageChar)] \subseteq Seq(Seq(MessageChar))
    OBVIOUS
  <2>3. Messages \in Seq(Seq(MessageChar))
    BY <2>1, <2>2
  <2>4. DOMAIN Messages = 1 .. N
    BY <2>1
  <2>5. Len(Messages) = N
    BY <2>3, <2>4, LenProperties
  <2> QED BY <2>3, <2>5, EmptySeq
<1>5. PICK g : /\ FlattenSeq(Messages) = g[N]
               /\ \A i \in 1 .. N : g[i] \in Seq(MessageChar)
               /\ g[1] = Messages[1]
               /\ \A i \in 2 .. N : g[i] = g[i - 1] \o Messages[i]
  <2>1. PICK g : /\ FlattenSeq(Messages) = g[Len(Messages)]
                 /\ \A i \in 1 .. Len(Messages) : g[i] \in Seq(MessageChar)
                 /\ g[1] = Messages[1]
                 /\ \A i \in 2 .. Len(Messages) : g[i] = g[i - 1] \o Messages[i]
    BY <1>4, FlatParts
  <2> QED BY <1>4, <2>1
<1> DEFINE end == [i \in 0 .. N |-> IF i = 0 THEN 0 ELSE Len(g[i])]
<1>6. /\ end[0] = 0 /\ \A i \in 1 .. N : end[i] = Len(g[i])
      /\ \A i \in 0 .. N : end[i] \in Nat
  BY <1>5, LenProperties
<1> HIDE DEF end
<1> DEFINE T == {m \in Nat : m \in 1 .. N => \A i \in 1 .. m : MessageLies(g[m], end, i)}
<1>7. ASSUME NEW m \in Nat, \A j \in 0 .. m - 1 : j \in T PROVE m \in T
  <2>1. SUFFICES ASSUME m \in 1 .. N PROVE \A i \in 1 .. m : MessageLies(g[m], end, i)
    OBVIOUS
  <2>2. \A i \in 0 .. m : end[i] \in Nat
    BY <1>6, <2>1
  <2>3. PICK f \in Seq(MessageChar) : /\ f = IF m = 1 THEN <<>> ELSE g[m - 1]
                                /\ end[m - 1] = Len(f)
    <3>1. CASE m = 1
      <4>1. <<>> \in Seq(MessageChar) /\ Len(<<>>) = 0
        BY EmptySeq
      <4>2. end[m - 1] = 0
        BY <1>6, <3>1
      <4> QED BY <3>1, <4>1, <4>2
    <3>2. CASE m # 1
      <4>1. m - 1 \in 1 .. N
        BY <2>1, <3>2
      <4> QED BY <1>5, <1>6, <3>2, <4>1
    <3> QED BY <3>1, <3>2
  <2>4. g[m] = f \o Append(ErrorList[m].msg, "NUL")
    <3>1. CASE m = 1
      <4>1. PICK t \in Seq(MessageChar) : t = Append(ErrorList[m].msg, "NUL") /\ t = g[m]
        BY <1>3, <1>5, <2>1, <3>1
      <4>2. <<>> \o t = t
        BY ConcatEmptySeq
      <4> QED BY <2>3, <3>1, <4>1, <4>2
    <3>2. CASE m # 1
      <4>1. m \in 2 .. N
        BY <2>1, <3>2
      <4> QED BY <1>3, <1>5, <2>1, <2>3, <3>2, <4>1
    <3> QED BY <3>1, <3>2
  <2>5. \A i \in 1 .. m - 1 : MessageLies(f, end, i)
    <3>1. CASE m = 1
      BY <3>1
    <3>2. CASE m # 1
      <4>1. m - 1 \in 0 .. m - 1 /\ m - 1 \in 1 .. N
        BY <2>1, <3>2
      <4>2. \A i \in 1 .. m - 1 : MessageLies(g[m - 1], end, i)
        BY <1>7, <4>1
      <4> QED BY <2>3, <3>2, <4>2
    <3> QED BY <3>1, <3>2
  <2>6. end[m] = Len(f \o Append(ErrorList[m].msg, "NUL"))
    BY <1>6, <2>1, <2>4
  <2>7. \A i \in 1 .. m : MessageLies(f \o Append(ErrorList[m].msg, "NUL"), end, i)
    BY <1>1, <2>1, <2>2, <2>3, <2>5, <2>6, MessageAdded
  <2> QED BY <2>4, <2>7
<1> HIDE DEF T
<1>8. Nat \subseteq T
  BY <1>7, StrongInduction
<1>9. N \in T /\ N \in 1 .. N
  BY <1>8
<1>10. \A i \in 1 .. N : MessageLies(g[N], end, i)
  BY <1>9 DEF T
<1>11. errmsg = g[N] /\ errmsg \in Seq(MessageChar) /\ Len(errmsg) \in Nat
  <2>1. errmsg = g[N] /\ g[N] \in Seq(MessageChar)
    BY <1>2, <1>5, <1>9
  <2> QED BY <2>1, LenProperties
<1> QED BY <1>1, <1>6, <1>10, <1>11

\* The NUL behind a message is the first one from where the message begins.
LEMMA NulBehind ==
    ASSUME NEW i \in 1 .. Len(ErrorList), NEW end, MessageLies(errmsg, end, i),
           end[i - 1] \in Nat, Len(errmsg) \in Nat
    PROVE  NulFrom(end[i - 1] + 1) = end[i]
<1>0. PICK msg, w : msg = ErrorList[i].msg /\ w = errmsg
  OBVIOUS
<1>1. PICK b \in Nat : msg = ErrorList[i].msg /\ b = end[i - 1] /\ w = errmsg
  BY <1>0
<1>2. Len(msg) \in Nat /\ \A j \in 1 .. Len(msg) : msg[j] # "NUL"
  <2>1. msg \in Seq(MessageChar) /\ \A j \in 1 .. Len(msg) : msg[j] # "NUL"
    BY <1>1, ErrorsTyped
  <2> QED BY <2>1, LenProperties
<1>3. PICK c \in Nat : c = b + Len(msg) + 1
  BY <1>2
<1>4. /\ end[i] = c /\ c <= Len(w) /\ w[c] = "NUL"
      /\ \A j \in 1 .. Len(msg) : w[b + j] = msg[j]
  BY <1>1, <1>3 DEF MessageLies
<1> DEFINE K == {k \in b + 1 .. Len(w) : w[k] = "NUL"}
<1>5. c \in K
  BY <1>1, <1>2, <1>3, <1>4, SMTT(30)
<1>6. ASSUME NEW k \in K PROVE c <= k
  <2>1. SUFFICES ASSUME k < c PROVE FALSE
    BY <1>1
  <2>2. PICK j \in 1 .. Len(msg) : k = b + j
    <3>1. k - b \in 1 .. Len(msg) /\ k = b + (k - b)
      BY <1>2, <1>3, <2>1
    <3> QED BY <3>1
  <2> QED BY <1>2, <1>4, <2>2
<1>7. K \in SUBSET Int
  BY <1>1
<1> HIDE DEF K
<1>8. Min(K) = c
  BY <1>5, <1>6, <1>7, LeastIs
<1> QED BY <1>1, <1>4, <1>8 DEF K, NulFrom

\* Skipping messages one by one comes to where the next one begins.
LEMMA MessagesSkipped ==
    ASSUME NEW end, end[0] = 0, \A i \in 0 .. Len(ErrorList) : end[i] \in Nat,
           \A i \in 1 .. Len(ErrorList) : MessageLies(errmsg, end, i), Len(errmsg) \in Nat
    PROVE  \A i \in 0 .. Len(ErrorList) - 1 : MessageAt[i] = end[i] + 1
<1>1. PICK N \in Nat \ {0} : N = Len(ErrorList)
  BY ErrorsTyped
<1>2. \A i \in 1 .. N : NulFrom(end[i - 1] + 1) = end[i]
  <2>1. \A i \in 1 .. N : i - 1 \in 0 .. N
    OBVIOUS
  <2> QED BY <1>1, <2>1, NulBehind
<1> DEFINE IsSkip(f) == f = [i \in 0 .. N - 1 |-> IF i = 0 THEN 1 ELSE NulFrom(f[i - 1]) + 1]
           places == [i \in 0 .. N - 1 |-> end[i] + 1]
<1>3. IsSkip(places)
  <2>1. ASSUME NEW i \in 0 .. N - 1
        PROVE  places[i] = IF i = 0 THEN 1 ELSE NulFrom(places[i - 1]) + 1
    <3>1. CASE i = 0
      BY <3>1
    <3>2. CASE i # 0
      <4>1. i \in 1 .. N /\ i - 1 \in 0 .. N - 1
        BY <3>2
      <4> QED BY <1>2, <3>2, <4>1
    <3> QED BY <3>1, <3>2
  <2>2. places = [i \in 0 .. N - 1 |-> places[i]]
    OBVIOUS
  <2> HIDE DEF places
  <2> QED BY <2>1, <2>2
<1>4. MessageAt = CHOOSE f : IsSkip(f)
  BY <1>1 DEF MessageAt
<1> HIDE DEF IsSkip, places
<1>5. IsSkip(MessageAt)
  BY <1>3, <1>4
<1>6. \A i \in 0 .. N - 1 :
        MessageAt[i] = IF i = 0 THEN 1 ELSE NulFrom(MessageAt[i - 1]) + 1
  BY <1>5, Zenon DEF IsSkip
<1> DEFINE T == {i \in Nat : i \in 0 .. N - 1 => MessageAt[i] = end[i] + 1}
<1>7. ASSUME NEW i \in Nat, \A j \in 0 .. i - 1 : j \in T PROVE i \in T
  <2>1. SUFFICES ASSUME i \in 0 .. N - 1 PROVE MessageAt[i] = end[i] + 1
    OBVIOUS
  <2>2. CASE i = 0
    BY <1>6, <2>1, <2>2
  <2>3. CASE i # 0
    <3>1. i - 1 \in 0 .. i - 1 /\ i - 1 \in 0 .. N - 1 /\ i \in 1 .. N
      BY <2>1, <2>3
    <3>2. MessageAt[i - 1] = end[i - 1] + 1
      BY <1>7, <3>1
    <3> QED BY <1>2, <1>6, <2>1, <2>3, <3>1, <3>2
  <2> QED BY <2>2, <2>3
<1> HIDE DEF T
<1>8. Nat \subseteq T
  BY <1>7, StrongInduction
<1> QED BY <1>1, <1>8 DEF T

\* strerror names an error that is in the list, and gives the last message for one
\* that is not.
LEMMA ErrorIsNamed ==
    ASSUME NEW e \in Nat \ {0}
    PROVE  LET named == {i \in DOMAIN ErrorList : ErrorList[i].id = e} IN
           strerror(e) = IF named = {} THEN Last(ErrorList).msg ELSE ErrorList[Min(named)].msg
<1> DEFINE named == {i \in DOMAIN ErrorList : ErrorList[i].id = e}
           hits == {k \in DOMAIN errid : errid[k] \in {0, e}}
<1>1. PICK N \in Nat \ {0} : N = Len(ErrorList) /\ DOMAIN ErrorList = 1 .. N
  BY ErrorsTyped
<1>2. \A i \in 1 .. N : ErrorList[i].id \in 0 .. 255 /\ (ErrorList[i].id = 0 <=> i = N)
  BY <1>1, ErrorsTyped
<1>3. DOMAIN errid = 1 .. N /\ \A i \in 1 .. N : errid[i] = ErrorList[i].id
  <2>1. errid = [i \in 1 .. N |-> ErrorList[i].id % 256]
    BY <1>1 DEF errid
  <2>2. \A x \in 0 .. 255 : x % 256 = x
    OBVIOUS
  <2> QED BY <1>2, <2>1, <2>2, ZenonT(40)
<1>4. \A k : k \in hits <=> k \in named \/ k = N
  BY <1>1, <1>2, <1>3
<1>5. PICK i \in 1 .. N :
        /\ i = Min(hits)
        /\ ErrorList[i] = IF named = {} THEN ErrorList[N] ELSE ErrorList[Min(named)]
  <2>1. named \subseteq 1 .. N
    BY <1>1
  <2>2. CASE named = {}
    <3>0. \A k : k \in hits <=> k = N
      BY <1>4, <2>2, ZenonT(30)
    <3>1. hits = {N}
      <4> HIDE DEF hits
      <4> QED BY ONLY <3>0
    <3>2. Min(hits) = N
      <4>1. {N} \in SUBSET Int /\ N \in {N} /\ \A y \in {N} : N <= y
        OBVIOUS
      <4>2. Min({N}) = N
        BY ONLY <4>1, LeastIs
      <4> HIDE DEF hits
      <4> QED BY <3>1, <4>2
    <3> HIDE DEF hits, named
    <3> WITNESS N \in 1 .. N
    <3> QED BY <2>2, <3>2
  <2>3. CASE named # {}
    <3>1. PICK m \in named : \A y \in named : m <= y
      <4>1. named \subseteq Nat
        BY <2>1
      <4> HIDE DEF named
      <4> QED BY <2>3, <4>1, LeastNumber
    <3>2. m \in 1 .. N /\ named \in SUBSET Int /\ hits \in SUBSET Int
      BY <1>4, <2>1
    <3>3. m \in hits /\ \A y \in hits : m <= y
      BY <1>4, <3>1, <3>2
    <3> HIDE DEF named, hits
    <3>4. Min(named) = m /\ Min(hits) = m
      BY <3>1, <3>2, <3>3, LeastIs
    <3> m \in 1 .. N
      BY <3>2
    <3> WITNESS m \in 1 .. N
    <3> QED BY <2>3, <3>2, <3>4
  <2> QED BY <2>2, <2>3
<1>6. PICK end : /\ end[0] = 0
                 /\ \A j \in 0 .. Len(ErrorList) : end[j] \in Nat
                 /\ \A j \in 1 .. Len(ErrorList) : MessageLies(errmsg, end, j)
                 /\ errmsg \in Seq(MessageChar) /\ Len(errmsg) \in Nat
  BY MessagesLie
<1>7. MessageAt[i - 1] = end[i - 1] + 1
  <2>1. i - 1 \in 0 .. Len(ErrorList) - 1
    BY <1>1
  <2> QED BY <1>6, <2>1, MessagesSkipped
<1>8. NulFrom(end[i - 1] + 1) = end[i]
  <2>1. i \in 1 .. Len(ErrorList) /\ i - 1 \in 0 .. Len(ErrorList)
    BY <1>1
  <2> QED BY <1>6, <2>1, NulBehind
<1>9. strerror(e) = SubSeq(errmsg, end[i - 1] + 1, end[i] - 1)
  BY <1>5, <1>7, <1>8 DEF strerror
<1>10. SubSeq(errmsg, end[i - 1] + 1, end[i] - 1) = ErrorList[i].msg
  <2>1. PICK msg \in Seq(MessageChar) : msg = ErrorList[i].msg
    BY <1>1, ErrorsTyped
  <2>2. PICK b \in Nat, c \in Nat, w \in Seq(MessageChar) : b = end[i - 1] /\ c = end[i] /\ w = errmsg
    <3>1. i - 1 \in 0 .. Len(ErrorList) /\ i \in 0 .. Len(ErrorList)
      BY <1>1
    <3> QED BY <1>6, <3>1
  <2>3. /\ c = b + Len(msg) + 1 /\ c <= Len(w)
        /\ \A j \in 1 .. Len(msg) : w[b + j] = msg[j]
    BY <1>1, <1>6, <2>1, <2>2 DEF MessageLies
  <2>4. Len(msg) \in Nat /\ Len(w) \in Nat
    BY LenProperties
  <2>5. \A j \in b + 1 .. c - 1 : w[j] \in MessageChar
    <3>1. \A j \in b + 1 .. c - 1 : j \in 1 .. Len(w)
      BY <2>3, <2>4
    <3> QED BY <3>1, ElementOfSeq
  <2>6. PICK t : t = SubSeq(w, b + 1, c - 1)
    OBVIOUS
  <2>7. /\ t \in Seq(MessageChar) /\ Len(t) = IF b + 1 <= c - 1 THEN c - 1 - (b + 1) + 1 ELSE 0
        /\ \A j \in 1 .. c - 1 - (b + 1) + 1 : t[j] = w[b + 1 + j - 1]
    BY <2>5, <2>6, SubSeqProperties
  <2>8. Len(t) = Len(msg) /\ \A j \in 1 .. Len(t) : t[j] = msg[j]
    <3>1. Len(t) = Len(msg) /\ c - 1 - (b + 1) + 1 = Len(msg)
      BY <2>3, <2>4, <2>7
    <3>2. \A j \in 1 .. Len(msg) : b + 1 + j - 1 = b + j
      BY <2>4
    <3> QED BY <2>3, <2>7, <3>1, <3>2
  <2>9. t = msg
    BY <2>7, <2>8, SeqEqual
  <2> QED BY <2>1, <2>2, <2>6, <2>9
<1>11. Last(ErrorList) = ErrorList[N]
  BY <1>1 DEF Last
<1> HIDE DEF named
<1>12. ErrorList[i].msg = IF named = {} THEN Last(ErrorList).msg ELSE ErrorList[Min(named)].msg
  BY <1>5, <1>11
<1> QED BY <1>9, <1>10, <1>12 DEF named

-----------------------------------------------------------------------------
(* A process.                                                              *)

\* What is called, and with what.
Called == {"constructor", "main", "exit"} \X Nat

ProcTyped ==
    /\ part = "proc" => image \in Image /\ answered \in SysResult
    /\ part # "proc" => environ = 0
    /\ started \in Seq(Called) /\ Len(started) <= Constructors + 2

\* main runs once, behind the constructors, and it makes the call.
ProcInv ==
    /\ ProcTyped
    /\ environ = 0 => started = <<>>
    /\ returned # -2 <=> Len(started) > Constructors
    /\ returned = -2 => errno = 0
    /\ ImageRead /\ StartedInOrder /\ ErrorsNamed

\* Before __libc_start_main nothing has been read.
LEMMA InitProcInv == Init => ProcInv
<1> SUFFICES ASSUME Init PROVE ProcInv
  OBVIOUS
<1>1. /\ image \in IF part = "proc" THEN Image ELSE {AnyImage}
      /\ answered \in Only("proc", SysResult)
      /\ environ = 0 /\ started = <<>> /\ returned = -2 /\ errno = 0
  BY DEF Init, ProcessInit
<1>2. Constructors \in Nat /\ <<>> \in Seq(Called) /\ Len(started) = 0
  BY <1>1, ProcessAssumption
<1>3. ProcTyped
  BY <1>1, <1>2 DEF ProcTyped, Only
<1>4. StartedInOrder
  BY <1>1 DEF StartedInOrder
<1> QED BY <1>1, <1>2, <1>3, <1>4 DEF ProcInv, ImageRead, ErrorsNamed

\* Something is called behind the others.
LEMMA StartsOneMore ==
    ASSUME started \in Seq(Called), StartedInOrder, NEW x \in Called,
           started' = Append(started, x),
           x = CASE Len(started) + 1 <= Constructors -> <<"constructor", Len(started) + 1>>
               [] Len(started) + 1 = Constructors + 1 -> <<"main", 0>>
               [] OTHER -> <<"exit", 0>>
    PROVE  /\ StartedInOrder' /\ started' \in Seq(Called)
           /\ Len(started') = Len(started) + 1
<1>1. /\ started' \in Seq(Called) /\ Len(started') = Len(started) + 1
      /\ \A i \in 1 .. Len(started) : started'[i] = started[i]
      /\ started'[Len(started) + 1] = x
      /\ Len(started) \in Nat
  BY AppendProperties, LenProperties
<1>2. DOMAIN started = 1 .. Len(started) /\ DOMAIN started' = 1 .. Len(started) + 1
  BY <1>1, LenProperties
<1>3. ASSUME NEW i \in 1 .. Len(started) + 1
      PROVE  started'[i] = CASE i <= Constructors -> <<"constructor", i>>
                           [] i = Constructors + 1 -> <<"main", 0>>
                           [] OTHER -> <<"exit", 0>>
  <2>1. CASE i = Len(started) + 1
    BY <1>1, <2>1
  <2>2. CASE i # Len(started) + 1
    <3>1. i \in 1 .. Len(started)
      BY <1>1, <2>2
    <3> QED BY <1>1, <1>2, <3>1 DEF StartedInOrder
  <2> QED BY <2>1, <2>2
<1> QED BY <1>1, <1>2, <1>3 DEF StartedInOrder

\* What the image has been read to stays as it is, and so does what has become of
\* the call.
LEMMA ProcFrame ==
    /\ ImageRead /\ UNCHANGED <<image, environ, page_size, tags, progname>> => ImageRead'
    /\ ErrorsNamed /\ UNCHANGED <<answered, returned, errno>> => ErrorsNamed'
    /\ StartedInOrder /\ UNCHANGED started => StartedInOrder'
<1>1. ASSUME ImageRead, UNCHANGED <<image, environ, page_size, tags, progname>> PROVE ImageRead'
  <2>1. /\ image' = image /\ environ' = environ /\ page_size' = page_size /\ tags' = tags
        /\ progname' = progname
    BY <1>1
  <2> QED BY <1>1, <2>1 DEF ImageRead, Words
<1>2. ASSUME ErrorsNamed, UNCHANGED <<answered, returned, errno>> PROVE ErrorsNamed'
  BY <1>2 DEF ErrorsNamed
<1>3. ASSUME StartedInOrder, UNCHANGED started PROVE StartedInOrder'
  BY <1>3 DEF StartedInOrder
<1> QED BY <1>1, <1>2, <1>3

\* The result of the call of main.
LEMMA MainLearns ==
    ASSUME answered \in SysResult, errno = 0, Main
    PROVE  ErrorsNamed' /\ returned' # -2
<1>1. PICK r \in Nat : r = answered /\ r < ULONG
  BY ProcessAssumption
<1>2. /\ MAXERR \in Nat /\ ULONG \in Nat /\ MAXERR < ULONG /\ MAXERR > 0
  BY ProcessAssumption
<1>3. /\ returned' = IF r > ULONG - MAXERR THEN -1 ELSE r
      /\ errno' = IF r > ULONG - MAXERR THEN (-r) % ULONG ELSE 0
      /\ answered' = r
  <2>1. /\ returned' = __syscall_ret(r).r /\ errno' = __syscall_ret(r).errno
        /\ answered' = r
    BY <1>1 DEF Main
  <2> QED BY <2>1 DEF __syscall_ret
<1>4. CASE r > ULONG - MAXERR
  <2>1. PICK e \in Nat \ {0} : e = ULONG - r
    BY <1>1, <1>2
  <2>2. (-r) % ULONG = e
    BY <1>1, <1>2, <1>4, <2>1
  <2>3. e < MAXERR /\ r # 0
    BY <1>1, <1>2, <1>4, <2>1
  <2>4. errno' = e /\ returned' = -1 /\ ULONG - answered' = e /\ answered' # 0
    BY <1>3, <1>4, <2>1, <2>2, <2>3
  <2>5. PICK named : /\ named = {i \in DOMAIN ErrorList : ErrorList[i].id = ULONG - answered'}
                     /\ strerror(e) = IF named = {} THEN Last(ErrorList).msg
                                      ELSE ErrorList[Min(named)].msg
    <3>1. {i \in DOMAIN ErrorList : ErrorList[i].id = ULONG - answered'}
            = {i \in DOMAIN ErrorList : ErrorList[i].id = e}
      BY <2>4
    <3> QED BY <3>1, ErrorIsNamed
  <2>6. strerror(errno)' = strerror(e)
    BY <2>4 DEF strerror
  <2>7. (ULONG - answered' < MAXERR) = TRUE
    BY <2>3, <2>4
  <2> QED BY <2>4, <2>5, <2>6, <2>7 DEF ErrorsNamed
<1>5. CASE ~(r > ULONG - MAXERR)
  <2>1. returned' = r /\ errno' = 0 /\ ~(answered' # 0 /\ ULONG - answered' < MAXERR)
    BY <1>1, <1>2, <1>3, <1>5
  <2> QED BY <1>1, <1>3, <2>1 DEF ErrorsNamed
<1> QED BY <1>4, <1>5

\* What can be called.
LEMMA CallsTyped ==
    \A n \in Nat : /\ <<"constructor", n>> \in Called /\ <<"main", n>> \in Called
                  /\ <<"exit", n>> \in Called
BY DEF Called

\* Each step keeps the invariant.
LEMMA ProcStepInv ==
    ASSUME ProcInv, part = "proc", part' = part, ProcessNext
    PROVE  ProcInv'
<1>1. /\ image \in Image /\ answered \in SysResult
      /\ started \in Seq(Called) /\ Len(started) <= Constructors + 2
      /\ environ = 0 => started = <<>>
      /\ returned # -2 <=> Len(started) > Constructors
      /\ returned = -2 => errno = 0
      /\ ImageRead /\ StartedInOrder /\ ErrorsNamed
  BY DEF ProcInv, ProcTyped
<1>2. Len(started) \in Nat /\ DOMAIN started = 1 .. Len(started) /\ Constructors \in Nat
  BY <1>1, LenProperties, ProcessAssumption
<1>3. CASE __init_libc
  <2>1. UNCHANGED <<image, started, answered, returned, errno>>
    BY <1>3 DEF __init_libc
  <2>2. ImageRead' /\ environ' # 0
    BY <1>1, <1>3, InitLibcReads
  <2> QED BY <1>1, <2>1, <2>2, ProcFrame DEF ProcInv, ProcTyped
<1>4. CASE RunConstructor
  <2>1. /\ environ # 0 /\ Len(started) < Constructors
        /\ started' = Append(started, <<"constructor", Len(started) + 1>>)
        /\ UNCHANGED <<image, environ, page_size, tags, progname, answered, returned, errno>>
    BY <1>2, <1>4 DEF RunConstructor, InitArrayEnds
  <2>2. PICK x \in Called : x = <<"constructor", Len(started) + 1>>
    <3>1. Len(started) + 1 \in Nat
      BY <1>2
    <3> QED BY <3>1, CallsTyped, Zenon
  <2>3. x = CASE Len(started) + 1 <= Constructors -> <<"constructor", Len(started) + 1>>
            [] Len(started) + 1 = Constructors + 1 -> <<"main", 0>>
            [] OTHER -> <<"exit", 0>>
    BY <1>2, <2>1, <2>2
  <2>4. /\ StartedInOrder' /\ started' \in Seq(Called)
        /\ Len(started') = Len(started) + 1
    BY <1>1, <2>1, <2>2, <2>3, StartsOneMore
  <2> QED BY <1>1, <1>2, <2>1, <2>4, ProcFrame DEF ProcInv, ProcTyped
<1>5. CASE Main
  <2>1. /\ environ # 0 /\ Len(started) >= Constructors /\ returned = -2
        /\ started' = Append(started, <<"main", 0>>)
        /\ UNCHANGED <<image, environ, page_size, tags, progname, answered>>
    BY <1>2, <1>5 DEF Main, InitArrayEnds
  <2>2. PICK x \in Called : x = <<"main", 0>>
    BY CallsTyped
  <2>3. Len(started) = Constructors
    <3>1. ~(Len(started) > Constructors)
      BY <1>1, <2>1
    <3>2. Len(started) >= Constructors
      BY <2>1
    <3>3. \A c, l \in Nat : l >= c /\ ~(l > c) => l = c
      OBVIOUS
    <3> QED BY <1>2, <3>1, <3>2, <3>3
  <2>4. x = CASE Len(started) + 1 <= Constructors -> <<"constructor", Len(started) + 1>>
            [] Len(started) + 1 = Constructors + 1 -> <<"main", 0>>
            [] OTHER -> <<"exit", 0>>
    BY <1>2, <2>2, <2>3
  <2>5. /\ StartedInOrder' /\ started' \in Seq(Called)
        /\ Len(started') = Len(started) + 1
    BY <1>1, <2>1, <2>2, <2>4, StartsOneMore
  <2>6. ErrorsNamed' /\ returned' # -2
    BY <1>1, <1>5, <2>1, MainLearns
  <2> QED BY <1>1, <1>2, <2>1, <2>3, <2>5, <2>6, ProcFrame DEF ProcInv, ProcTyped
<1>6. CASE Exit
  <2>1. /\ returned # -2 /\ Last(started)[1] = "main"
        /\ started' = Append(started, <<"exit", 0>>)
        /\ UNCHANGED <<image, environ, page_size, tags, progname, answered, returned, errno>>
    BY <1>6 DEF Exit
  <2>2. Len(started) > Constructors
    BY <1>1, <2>1
  <2>3. Len(started) = Constructors + 1
    <3>1. ASSUME Len(started) = Constructors + 2 PROVE FALSE
      <4>1. started[Len(started)] = <<"exit", 0>>
        BY <1>1, <1>2, <3>1 DEF StartedInOrder
      <4>2. Last(started)[1] = "exit"
        BY <4>1 DEF Last
      <4> QED BY <2>1, <4>2
    <3>2. Len(started) <= Constructors + 2
      BY <1>1
    <3>3. \A c, l \in Nat : l > c /\ l <= c + 2 /\ l # c + 2 => l = c + 1
      OBVIOUS
    <3>4. Len(started) # Constructors + 2
      BY <3>1
    <3> QED BY <1>2, <2>2, <3>2, <3>3, <3>4
  <2>4. PICK x \in Called : x = <<"exit", 0>>
    BY CallsTyped
  <2>5. x = CASE Len(started) + 1 <= Constructors -> <<"constructor", Len(started) + 1>>
            [] Len(started) + 1 = Constructors + 1 -> <<"main", 0>>
            [] OTHER -> <<"exit", 0>>
    BY <1>2, <2>3, <2>4
  <2>6. /\ StartedInOrder' /\ started' \in Seq(Called)
        /\ Len(started') = Len(started) + 1
    BY <1>1, <2>1, <2>4, <2>5, StartsOneMore
  <2>7. environ # 0
    BY <1>1, <1>2, <2>3, EmptySeq
  <2> QED BY <1>1, <1>2, <2>1, <2>3, <2>6, <2>7, ProcFrame DEF ProcInv, ProcTyped
<1> QED BY <1>3, <1>4, <1>5, <1>6 DEF ProcessNext

\* Whatever lies on the stack, however many constructors there are and whatever the
\* kernel answers: a process reads its page size and its name, runs its constructors,
\* main and exit in this order, and finds the message of the error it was answered.
THEOREM ProcessAlwaysStarts == Spec => []ProcessStarts
<1>1. ProcInv /\ [Next]_machvars => ProcInv'
  <2> SUFFICES ASSUME ProcInv, [Next]_machvars PROVE ProcInv'
    OBVIOUS
  <2>1. part' = part /\ ((part = "proc" /\ ProcessNext) \/ UNCHANGED procvars)
    BY DEF Next, Step, machvars, notboot, notsys
  <2>2. CASE UNCHANGED procvars
    <3>1. /\ UNCHANGED <<image, environ, page_size, tags, progname>>
          /\ UNCHANGED <<answered, returned, errno>> /\ UNCHANGED started
      BY <2>2 DEF procvars
    <3>2. ImageRead' /\ ErrorsNamed' /\ StartedInOrder'
      BY <3>1, ProcFrame DEF ProcInv
    <3> QED BY <2>1, <3>1, <3>2 DEF ProcInv, ProcTyped
  <2> QED BY <2>1, <2>2, ProcStepInv
<1>2. ProcInv => ProcessStarts
  BY DEF ProcInv, ProcessStarts
<1> QED BY InitProcInv, <1>1, <1>2, PTL DEF Spec

=============================================================================
