----------------------------- MODULE PmmProofs -----------------------------
(***************************************************************************)
(* Proofs about Pmm, for every number of slices, bucket size, number of    *)
(* parts per slice and extent of the reserved region.                      *)
(***************************************************************************)
EXTENDS Pmm, FiniteSetTheorems, TLAPS

-----------------------------------------------------------------------------
(* The list helpers, on any well linked lists.                             *)

LinksType == [head : [Lists -> Slices \cup {NULL}],
              next : [Slices -> Slices \cup {NULL}],
              prev : [Slices -> Slices \cup {NULL}]]

PlacesType == [Slices -> Lists \cup {"none"}]

\* The C null pointer is the number of no slice.
LEMMA NullIsNoSlice == NULL \notin Slices
BY SizesAssumption DEF NULL, Slices

\* "none", for a slice pmm_init has not indexed yet, is no list.
LEMMA NoneIsNoList == "none" \notin Lists
BY DEF Lists

\* push_to_ll puts an entry that is on no list on the list, and keeps every list
\* well linked; that entry's prev is NULL is what makes not writing it correct.
LEMMA PushLinks ==
    ASSUME NEW L \in LinksType, NEW where \in PlacesType,
           WellLinked(L, where), NEW l \in Lists,
           NEW e \in Slices, where[e] = "none"
    PROVE  /\ push_to_ll(L, l, e) \in LinksType
           /\ WellLinked(push_to_ll(L, l, e), [where EXCEPT ![e] = l])
<1> DEFINE P == push_to_ll(L, l, e)
           w == [where EXCEPT ![e] = l]
<1>1. P \in LinksType
  BY NullIsNoSlice DEF push_to_ll, LinksType
<1>2. /\ P.head = [L.head EXCEPT ![l] = e]
      /\ P.next = [L.next EXCEPT ![e] = L.head[l]]
      /\ P.prev = IF L.head[l] # NULL THEN [L.prev EXCEPT ![L.head[l]] = e]
                                      ELSE L.prev
  BY DEF push_to_ll
<1> HIDE DEF P
<1>3. WellLinked(P, w)
  BY <1>1, <1>2, NullIsNoSlice, NoneIsNoList DEF WellLinked, LinksType, PlacesType
<1> QED
  BY <1>1, <1>3 DEF P

\* remove_element_ll takes an entry off the list it is on.
LEMMA RemoveLinks ==
    ASSUME NEW L \in LinksType, NEW where \in PlacesType,
           WellLinked(L, where), NEW l \in Lists,
           NEW e \in Slices, where[e] = l
    PROVE  /\ remove_element_ll(L, l, e) \in LinksType
           /\ WellLinked(remove_element_ll(L, l, e), [where EXCEPT ![e] = "none"])
<1> DEFINE R == remove_element_ll(L, l, e)
           w == [where EXCEPT ![e] = "none"]
           n == L.next[e]
           p == L.prev[e]
<1>1. R \in LinksType
  BY NullIsNoSlice DEF remove_element_ll, LinksType
<1>2. /\ R.head = IF p # NULL THEN L.head ELSE [L.head EXCEPT ![l] = n]
      /\ R.next = [x \in Slices |-> IF x = e THEN NULL
                                    ELSE IF x = p THEN n ELSE L.next[x]]
      /\ R.prev = [x \in Slices |-> IF x = e THEN NULL
                                    ELSE IF x = n THEN p ELSE L.prev[x]]
  BY DEF remove_element_ll
<1> HIDE DEF R
<1>3. WellLinked(R, w)
  BY <1>1, <1>2, NullIsNoSlice, NoneIsNoList DEF WellLinked, LinksType, PlacesType
<1> QED
  BY <1>1, <1>3 DEF R

\* pop_from_ll takes the head off a list that is not empty.
LEMMA PopLinks ==
    ASSUME NEW L \in LinksType, NEW where \in PlacesType,
           WellLinked(L, where), NEW l \in Lists, L.head[l] # NULL
    PROVE  /\ L.head[l] \in Slices
           /\ where[L.head[l]] = l
           /\ pop_from_ll(L, l) \in LinksType
           /\ WellLinked(pop_from_ll(L, l), [where EXCEPT ![L.head[l]] = "none"])
<1> DEFINE R == pop_from_ll(L, l)
           top == L.head[l]
           w == [where EXCEPT ![top] = "none"]
<1>1. top \in Slices /\ where[top] = l
  BY DEF WellLinked, LinksType
<1>2. R \in LinksType
  BY <1>1, NullIsNoSlice DEF pop_from_ll, LinksType
<1>3. /\ R.head = [L.head EXCEPT ![l] = L.next[top]]
      /\ R.next = [L.next EXCEPT ![top] = NULL]
      /\ R.prev = [x \in Slices |-> IF x = top \/ x = L.next[top] THEN NULL
                                                                ELSE L.prev[x]]
  BY DEF pop_from_ll
<1> HIDE DEF R
<1>4. WellLinked(R, w)
  BY <1>1, <1>2, <1>3, NullIsNoSlice, NoneIsNoList, SMTT(30) DEF WellLinked, LinksType, PlacesType
<1> QED
  BY <1>1, <1>2, <1>4 DEF R

\* Moving the head of one list to the front of another.
LEMMA PopPushLinks ==
    ASSUME NEW L \in LinksType, NEW where \in PlacesType,
           WellLinked(L, where), NEW l \in Lists, NEW m \in Lists, L.head[l] # NULL
    PROVE  LET top == L.head[l]
               P   == push_to_ll(pop_from_ll(L, l), m, top)
           IN P \in LinksType /\ WellLinked(P, [where EXCEPT ![top] = m])
<1> DEFINE top == L.head[l]
           R == pop_from_ll(L, l)
           w == [where EXCEPT ![top] = "none"]
<1>1. /\ top \in Slices /\ R \in LinksType /\ WellLinked(R, w)
  BY PopLinks
<1>2. w \in PlacesType /\ w[top] = "none"
  BY <1>1 DEF PlacesType
<1>3. [w EXCEPT ![top] = m] = [where EXCEPT ![top] = m]
  BY <1>1 DEF PlacesType
<1> HIDE DEF R, w, top
<1>4. push_to_ll(R, m, top) \in LinksType /\ WellLinked(push_to_ll(R, m, top), [w EXCEPT ![top] = m])
  BY <1>1, <1>2, PushLinks
<1> QED
  BY <1>3, <1>4 DEF R, top

\* Moving an entry from the list it is on to the front of another.
LEMMA RemovePushLinks ==
    ASSUME NEW L \in LinksType, NEW where \in PlacesType,
           WellLinked(L, where), NEW l \in Lists, NEW m \in Lists,
           NEW e \in Slices, where[e] = l
    PROVE  LET P == push_to_ll(remove_element_ll(L, l, e), m, e)
           IN P \in LinksType /\ WellLinked(P, [where EXCEPT ![e] = m])
<1> DEFINE R == remove_element_ll(L, l, e)
           w == [where EXCEPT ![e] = "none"]
<1>1. R \in LinksType /\ WellLinked(R, w)
  BY RemoveLinks
<1>2. w \in PlacesType /\ w[e] = "none"
  BY DEF PlacesType
<1>3. [w EXCEPT ![e] = m] = [where EXCEPT ![e] = m]
  BY DEF PlacesType
<1> HIDE DEF R, w
<1>4. push_to_ll(R, m, e) \in LinksType /\ WellLinked(push_to_ll(R, m, e), [w EXCEPT ![e] = m])
  BY <1>1, <1>2, PushLinks
<1> QED
  BY <1>3, <1>4 DEF R

-----------------------------------------------------------------------------
(* The arithmetic: free parts and the location of a sliceinfo.             *)

\* In a slice with a free part, first_free names a part that is free.
LEMMA FirstFreeIsFree ==
    ASSUME NEW P \in 1 .. 8, NEW bits \in SUBSET (0 .. P - 1), bits # 0 .. P - 1
    PROVE  first_free(bits) \in 0 .. P - 1 /\ first_free(bits) \notin bits
<1> DEFINE Least(i) == i \notin bits /\ \A j \in 0 .. i - 1 : j \in bits
<1>1. PICK f \in 0 .. P - 1 : f \notin bits
  OBVIOUS
<1>2. \E i \in 0 .. 15 : Least(i)
  <2>1. CASE Least(0) BY <2>1
  <2>2. CASE Least(1) BY <2>2
  <2>3. CASE Least(2) BY <2>3
  <2>4. CASE Least(3) BY <2>4
  <2>5. CASE Least(4) BY <2>5
  <2>6. CASE Least(5) BY <2>6
  <2>7. CASE Least(6) BY <2>7
  <2>8. CASE Least(7) BY <2>8
  <2>9. CASE \A i \in 0 .. 7 : ~Least(i)
    <3>1. 0 \in bits BY <2>9
    <3>2. 1 \in bits BY <2>9, <3>1
    <3>3. 2 \in bits BY <2>9, <3>1, <3>2
    <3>4. 3 \in bits BY <2>9, <3>1, <3>2, <3>3
    <3>5. 4 \in bits BY <2>9, <3>1, <3>2, <3>3, <3>4
    <3>6. 5 \in bits BY <2>9, <3>1, <3>2, <3>3, <3>4, <3>5
    <3>7. 6 \in bits BY <2>9, <3>1, <3>2, <3>3, <3>4, <3>5, <3>6
    <3>8. 7 \in bits BY <2>9, <3>1, <3>2, <3>3, <3>4, <3>5, <3>6, <3>7
    <3> QED BY <1>1, <3>1, <3>2, <3>3, <3>4, <3>5, <3>6, <3>7, <3>8
  <2> HIDE DEF Least
  <2>10. \A i \in 0 .. 7 : i \in {0, 1, 2, 3, 4, 5, 6, 7}
    OBVIOUS
  <2> QED BY <2>1, <2>2, <2>3, <2>4, <2>5, <2>6, <2>7, <2>8, <2>9, <2>10
<1>3. first_free(bits) \in 0 .. 15 /\ Least(first_free(bits))
  <2>1. first_free(bits) = CHOOSE i \in 0 .. 15 : Least(i)
    BY DEF first_free
  <2> HIDE DEF Least
  <2> QED BY <1>2, <2>1
<1> QED
  BY <1>1, <1>3

\* Where the sliceinfo of entry x of bucket b is looked for.
LEMMA LocationInBucket ==
    ASSUME NEW b \in Nat, NEW x \in 0 .. SliceinfoPerSlice - 1
    PROVE  SliceinfoLocation(b * SliceinfoPerSlice + x) =
               <<IF b = 0 THEN 0 ELSE b * SliceinfoPerSlice - 1, x>>
<1> DEFINE K == SliceinfoPerSlice
<1>1. K \in Nat /\ K >= 2
  BY SizesAssumption
<1> HIDE DEF K
<1>2. x \in Nat /\ x < K
  BY <1>1 DEF K
<1>3. (b * K + x) \div K = b /\ b * K \in Nat
  BY <1>1, <1>2
<1>4. SliceinfoLocation(b * K + x) = <<IF b = 0 THEN 0 ELSE b * K - 1, x>>
  BY <1>1, <1>2, <1>3 DEF SliceinfoLocation, K
<1> QED BY <1>4 DEF K

\* Every slice is an entry of a bucket.
LEMMA SliceInBucket ==
    ASSUME NEW s \in Slices
    PROVE  \E b \in Nat, x \in 0 .. SliceinfoPerSlice - 1 :
               /\ s = b * SliceinfoPerSlice + x
               /\ b * SliceinfoPerSlice <= s
               /\ b * SliceinfoPerSlice \in Nat
<1> DEFINE K == SliceinfoPerSlice
<1>1. K \in Nat /\ K >= 2
  BY SizesAssumption
<1>0. s \in Nat
  BY SizesAssumption DEF Slices
<1> HIDE DEF K
<1>2. s \div K \in Nat /\ (s \div K) * K <= s /\ s < (s \div K) * K + K
  BY <1>0, <1>1
<1>3. (s \div K) * K \in Nat /\ s - (s \div K) * K \in 0 .. K - 1
  BY <1>0, <1>1, <1>2
<1> QED BY <1>0, <1>2, <1>3 DEF K

\* A place within bucket b is in bucket b.
LEMMA InBucketQuotient ==
    ASSUME NEW K \in Nat, K >= 2, NEW b \in Nat, b * K \in Nat, NEW x \in 0 .. K - 1
    PROVE  (b * K + x) \div K = b
OBVIOUS

\* pmm_get_sliceinfo_for_slice reads a sliceinfo inside a managed slice.
LEMMA LocationType ==
    ASSUME NEW s \in Slices
    PROVE  /\ SliceinfoLocation(s) \in Slices \X (0 .. SliceinfoPerSlice - 1)
           /\ SliceinfoLocation(s)[1] \in Slices
<1>1. PICK b \in Nat, x \in 0 .. SliceinfoPerSlice - 1 :
          /\ s = b * SliceinfoPerSlice + x
          /\ b * SliceinfoPerSlice <= s
          /\ b * SliceinfoPerSlice \in Nat
  BY SliceInBucket
<1>2. SliceinfoLocation(s) = <<IF b = 0 THEN 0 ELSE b * SliceinfoPerSlice - 1, x>>
  BY <1>1, LocationInBucket
<1>3. b # 0 => b * SliceinfoPerSlice >= 1
  BY SizesAssumption
<1>4. (IF b = 0 THEN 0 ELSE b * SliceinfoPerSlice - 1) \in Slices
  BY <1>1, <1>3, SizesAssumption DEF Slices
<1> QED BY <1>2, <1>4

\* No two slices share the place of their sliceinfo.
LEMMA LocationInjective ==
    ASSUME NEW s \in Slices, NEW t \in Slices,
           SliceinfoLocation(s) = SliceinfoLocation(t)
    PROVE  s = t
<1>1. PICK b \in Nat, x \in 0 .. SliceinfoPerSlice - 1 :
          /\ s = b * SliceinfoPerSlice + x
          /\ b * SliceinfoPerSlice \in Nat
  BY SliceInBucket
<1>2. PICK c \in Nat, y \in 0 .. SliceinfoPerSlice - 1 :
          /\ t = c * SliceinfoPerSlice + y
          /\ c * SliceinfoPerSlice \in Nat
  BY SliceInBucket
<1>3. SliceinfoLocation(s) = <<IF b = 0 THEN 0 ELSE b * SliceinfoPerSlice - 1, x>>
  BY <1>1, LocationInBucket
<1>4. SliceinfoLocation(t) = <<IF c = 0 THEN 0 ELSE c * SliceinfoPerSlice - 1, y>>
  BY <1>2, LocationInBucket
<1> DEFINE B == IF b = 0 THEN 0 ELSE b * SliceinfoPerSlice - 1
           C == IF c = 0 THEN 0 ELSE c * SliceinfoPerSlice - 1
<1>5. x = y /\ B = C
  <2>1. <<B, x>> = <<C, y>>
    BY <1>3, <1>4
  <2> HIDE DEF B, C
  <2> QED BY <2>1
<1>6. /\ b # 0 => b * SliceinfoPerSlice >= 2
      /\ c # 0 => c * SliceinfoPerSlice >= 2
      /\ 0 * SliceinfoPerSlice = 0
  BY SizesAssumption
<1>7. b * SliceinfoPerSlice = c * SliceinfoPerSlice
  BY <1>1, <1>2, <1>5, <1>6
<1> QED BY <1>1, <1>2, <1>5, <1>7, SizesAssumption

-----------------------------------------------------------------------------
(* The list a slice belongs on.                                            *)

\* The parts of a slice fit the 8 bits of `filled`, and part 0 is one of them.
LEMMA PartsTyped ==
    ASSUME NEW k \in Kinds
    PROVE  /\ PartsPerSlice(k) \in 1 .. 8
           /\ k # "L1PageTable" => PartsPerSlice(k) \in 2 .. 8
           /\ FullMask(k) \subseteq Bits /\ 0 \in FullMask(k)
           /\ FullMask("L1PageTable") = {0}
           /\ k # "L1PageTable" => 1 \in FullMask(k)
BY SizesAssumption DEF Kinds, PartsPerSlice, FullMask, Bits

\* Every slice belongs on one of the four lists, or on none before it is indexed.
LEMMA PlacesTyped == TypeOK => ListOf \in PlacesType
BY DEF TypeOK, ListOf, PlacesType, PartialList, Lists

\* A step that touches one slice only can only move that slice.
LEMMA OneSliceMoves ==
    ASSUME TypeOK, TypeOK', boot' = boot, NEW s \in Slices,
           \A t \in Slices \ {s} :
               /\ type'[t] = type[t]
               /\ \A k \in Kinds, i \in Bits : held'[<<k, t, i>>] = held[<<k, t, i>>]
    PROVE  ListOf' = [ListOf EXCEPT ![s] = ListOf'[s]]
<1>1. ASSUME NEW t \in Slices, t # s
      PROVE  ListOf'[t] = ListOf[t]
  <2>1. CASE type[t] = "BucketInfo"
    BY <1>1, <2>1 DEF ListOf
  <2>2. CASE type[t] # "BucketInfo"
    <3>1. type[t] \in Kinds /\ type'[t] = type[t]
      BY <1>1, <2>2 DEF TypeOK, Types, Kinds
    <3>2. PartsHeld(t)' = PartsHeld(t)
      BY <1>1, <3>1 DEF PartsHeld
    <3>3. /\ ListOf'[t] = IF t >= boot.i THEN "none"
                          ELSE IF t \in Reserved \/ type'[t] = "BucketInfo" THEN "allocated"
                          ELSE IF PartsHeld(t)' = {} THEN "unused"
                          ELSE IF PartsHeld(t)' = FullMask(type'[t]) THEN "allocated"
                          ELSE PartialList(type'[t])
      BY DEF ListOf
    <3> QED BY <3>1, <3>2, <3>3 DEF ListOf
  <2> QED BY <2>1, <2>2
<1>2. ListOf' \in PlacesType /\ ListOf \in PlacesType
  BY PlacesTyped DEF PlacesType, TypeOK, ListOf, PartialList, Lists
<1> QED BY <1>1, <1>2 DEF PlacesType

-----------------------------------------------------------------------------
(* The inductive invariant holds initially.                                *)

\* What pmm_init sets up before its loop satisfies the inductive invariant.
LEMMA InitEstablishes == Init => IInv
<1> SUFFICES ASSUME Init PROVE IInv
  OBVIOUS
<1>1. 0 \in Slices /\ 0 \notin Reserved /\ 0 \in 0 .. SliceinfoPerSlice - 1
      /\ 1 \in 0 .. SliceinfoPerSlice - 1 /\ 1 \in 0 .. SliceCount
  BY SizesAssumption, ReservedAssumption DEF Slices
<1>2. TypeOK
  BY <1>1 DEF Init, TypeOK, Types, Bits, Lists
<1>3. \A u \in Units : held[u] = 0
  BY DEF Init
<1>4. ListOf = [s \in Slices |-> IF s >= 1 THEN "none" ELSE "allocated"]
  BY <1>1, SizesAssumption DEF Init, ListOf, Slices
<1>5. WellLinked(ll, ListOf)
  BY <1>1, <1>4, NullIsNoSlice, SizesAssumption DEF Init, WellLinked, Slices, NULL, Lists
<1>6. HandoutsValid
  BY <1>3 DEF HandoutsValid, Units
<1>7. FilledMatchesHeld
  BY DEF Init, FilledMatchesHeld
<1>8. 1 = 0 * SliceinfoPerSlice + 1 /\ 1 \div SliceinfoPerSlice = 0
  BY SizesAssumption
<1>9. BootCursor
  BY <1>1, <1>8, SizesAssumption DEF Init, BootCursor, Slices
<1>10. SliceinfoLocation(0) = <<0, 0>>
  <2>1. 0 * SliceinfoPerSlice + 0 = 0
    BY SizesAssumption
  <2> QED BY <1>1, <2>1, LocationInBucket
<1>11. LookupFindsSliceinfo
  BY <1>1, <1>10, SizesAssumption DEF Init, LookupFindsSliceinfo, pmm_get_sliceinfo_for_slice, Slices
<1>12. SearchedSlicesAreBucketinfo
  BY <1>1, <1>10, SizesAssumption DEF Init, SearchedSlicesAreBucketinfo, Slices
<1> QED
  BY <1>2, <1>5, <1>6, <1>7, <1>9, <1>11, <1>12 DEF IInv, ListsConsistent

-----------------------------------------------------------------------------
(* Allocation and freeing preserve it.                                     *)

\* What being at the front of a list says about a slice.
LEMMA HeadOf ==
    ASSUME IInv, status # "fault", NEW l \in Lists, ll.head[l] # NULL
    PROVE  /\ ll.head[l] \in Slices
           /\ ListOf[ll.head[l]] = l
BY DEF IInv, ListsConsistent, WellLinked, TypeOK

\* A slice on the unused list is indexed, not reserved, and nobody holds any of it.
LEMMA UnusedSlice ==
    ASSUME IInv, NEW s \in Slices, ListOf[s] = "unused"
    PROVE  /\ s < boot.i /\ s \notin Reserved
           /\ type[s] \in Kinds
           /\ \A k \in Kinds, i \in Bits : held[<<k, s, i>>] = 0
<1>1. /\ s < boot.i /\ s \notin Reserved /\ type[s] # "BucketInfo"
  BY SizesAssumption DEF ListOf, IInv, TypeOK, Slices
<1>2. type[s] \in Kinds
  BY <1>1 DEF IInv, TypeOK, Types, Kinds
<1>3. PartsHeld(s) = {}
  BY <1>1, <1>2 DEF ListOf, PartialList
<1>4. ASSUME NEW k \in Kinds, NEW i \in Bits
      PROVE  held[<<k, s, i>>] = 0
  <2>1. held[<<k, s, i>>] \in Nat
    BY DEF IInv, TypeOK, Units
  <2>2. held[<<k, s, i>>] > 0 => type[s] = k
    BY DEF IInv, HandoutsValid
  <2>3. ~(held[<<type[s], s, i>>] > 0)
    BY <1>3 DEF PartsHeld
  <2> QED BY <2>1, <2>2, <2>3
<1> QED BY <1>1, <1>2, <1>4

\* A step after pmm_init that leaves the sliceinfo structs where they are, keeps
\* reserved and bucketinfo slices as they are, and hands out validly, preserves
\* everything about the lookup.
LEMMA LookupKept ==
    ASSUME IInv, status # "booting", status' # "booting",
           UNCHANGED <<infoAt, boot>>, TypeOK',
           status' \in {"ready", "panic"} => status \in {"ready", "panic"},
           \A s \in Slices : type[s] = "BucketInfo" => type'[s] = "BucketInfo"
    PROVE  BootCursor' /\ LookupFindsSliceinfo' /\ SearchedSlicesAreBucketinfo'
<1>1. BootCursor'
  BY DEF IInv, BootCursor
<1>2. LookupFindsSliceinfo'
  BY DEF IInv, LookupFindsSliceinfo, pmm_get_sliceinfo_for_slice
<1>3. SearchedSlicesAreBucketinfo'
  BY LocationType DEF IInv, SearchedSlicesAreBucketinfo
<1> QED BY <1>1, <1>2, <1>3

\* The parts of slice s that clients hold as a k.
PartsHeldAs(k, s) == {i \in Bits : held[<<k, s, i>>] > 0}

\* The list for a slice of kind k of which the parts in `parts` are taken.
PlaceFor(k, parts) == IF parts = {} THEN "unused"
                      ELSE IF parts = FullMask(k) THEN "allocated"
                      ELSE PartialList(k)

\* After a step, a slice in use as a k is on the list its held parts call for.
LEMMA PlaceNext ==
    ASSUME NEW s \in Slices, NEW k \in Kinds, TypeOK',
           type'[s] = k, s < boot'.i, s \notin Reserved
    PROVE  ListOf'[s] = PlaceFor(k, PartsHeldAs(k, s)')
<1>1. k # "BucketInfo" /\ ~(s >= boot'.i)
  BY SizesAssumption DEF Kinds, TypeOK, Slices
<1>2. PartsHeld(s)' = PartsHeldAs(k, s)'
  BY DEF PartsHeld, PartsHeldAs
<1>3. ListOf'[s] = IF s >= boot'.i THEN "none"
                   ELSE IF s \in Reserved \/ type'[s] = "BucketInfo" THEN "allocated"
                   ELSE IF PartsHeld(s)' = {} THEN "unused"
                   ELSE IF PartsHeld(s)' = FullMask(type'[s]) THEN "allocated"
                   ELSE PartialList(type'[s])
  BY DEF ListOf
<1> QED BY <1>1, <1>2, <1>3 DEF PlaceFor

\* What every successful allocation does: part i of slice s, free until now, is
\* handed out as a k, and the slice moves to the list this calls for.
HandOutStep(k, s, i) ==
    /\ status = "ready"
    /\ s < boot.i /\ s \notin Reserved /\ type[s] \in Kinds /\ i \in FullMask(k)
    /\ held[<<k, s, i>>] = 0
    /\ \A j \in Kinds, p \in Bits : j # k => held[<<j, s, p>>] = 0
    /\ held' = [held EXCEPT ![<<k, s, i>>] = @ + 1]
    /\ type' = [type EXCEPT ![s] = k]
    /\ filled' = [filled EXCEPT ![s] = IF k = "L1PageTable" THEN @
                                       ELSE PartsHeldAs(k, s) \cup {i}]
    /\ ll' \in LinksType
    /\ WellLinked(ll', [ListOf EXCEPT ![s] = PlaceFor(k, PartsHeldAs(k, s) \cup {i})])
    /\ UNCHANGED <<infoAt, boot, status>>

\* Handing out one part, whatever function does it, keeps the inductive invariant.
LEMMA HandOutPreserves ==
    ASSUME IInv, NEW k \in Kinds, NEW s \in Slices, NEW i \in Bits, HandOutStep(k, s, i)
    PROVE  IInv'
<1> DEFINE u == <<k, s, i>>
<1>1. u \in Units
  BY DEF Units
<1>2. TypeOK'
  <2>1. PartsHeldAs(k, s) \cup {i} \in SUBSET Bits
    BY DEF PartsHeldAs
  <2>2. filled' \in [Slices -> SUBSET Bits]
    BY <2>1 DEF HandOutStep, IInv, TypeOK
  <2> QED BY <1>1, <2>2 DEF HandOutStep, IInv, TypeOK, LinksType, Types, Kinds
<1>3. \A j \in Kinds, t \in Slices, p \in Bits :
          held'[<<j, t, p>>] = IF j = k /\ t = s /\ p = i THEN 1 ELSE held[<<j, t, p>>]
  BY <1>1 DEF HandOutStep, IInv, TypeOK, Units
<1>4. \A t \in Slices : type'[t] = IF t = s THEN k ELSE type[t]
  BY DEF HandOutStep, IInv, TypeOK
<1>5. ListOf' = [ListOf EXCEPT ![s] = ListOf'[s]]
  <2>1. TypeOK /\ boot' = boot
    BY DEF IInv, HandOutStep
  <2> QED BY <1>2, <1>3, <1>4, <2>1, OneSliceMoves
<1>6. PartsHeldAs(k, s)' = PartsHeldAs(k, s) \cup {i}
  BY <1>3 DEF PartsHeldAs
<1>7. ListOf'[s] = PlaceFor(k, PartsHeldAs(k, s) \cup {i})
  BY <1>2, <1>4, <1>6, PlaceNext DEF HandOutStep
<1>8. ListsConsistent'
  BY <1>5, <1>7 DEF ListsConsistent, HandOutStep
<1>9. HandoutsValid'
  BY <1>3, <1>4 DEF IInv, HandoutsValid, HandOutStep
<1>10. FilledMatchesHeld'
  <2> SUFFICES ASSUME NEW t \in Slices, type'[t] \in {"L2PageTable", "Page"}
               PROVE  filled'[t] = PartsHeld(t)'
    BY DEF FilledMatchesHeld
  <2>1. CASE t = s
    BY <1>4, <1>6, <2>1 DEF PartsHeld, PartsHeldAs, HandOutStep, IInv, TypeOK
  <2>2. CASE t # s
    <3>1. filled'[t] = filled[t] /\ type'[t] = type[t]
      BY <1>4, <2>2 DEF HandOutStep, IInv, TypeOK
    <3>2. PartsHeld(t)' = PartsHeld(t)
      BY <1>3, <2>2, <3>1 DEF PartsHeld, Kinds
    <3> QED BY <3>1, <3>2 DEF IInv, FilledMatchesHeld
  <2> QED BY <2>1, <2>2
<1>11. BootCursor' /\ LookupFindsSliceinfo' /\ SearchedSlicesAreBucketinfo'
  <2>1. \A t \in Slices : type[t] = "BucketInfo" => type'[t] = "BucketInfo"
    BY <1>4 DEF HandOutStep, Kinds
  <2> QED BY <1>2, <2>1, LookupKept DEF HandOutStep
<1> QED
  BY <1>2, <1>8, <1>9, <1>10, <1>11 DEF IInv

\* Unless the kernel has faulted, the list pointers are well typed and well linked.
LEMMA LinksNow ==
    ASSUME IInv, status # "fault"
    PROVE  ll \in LinksType /\ WellLinked(ll, ListOf) /\ ListOf \in PlacesType
BY PlacesTyped DEF IInv, TypeOK, LinksType, ListsConsistent

\* pmm_allocate_l1_pagetable hands out one whole unused slice.
LEMMA AllocateL1HandsOut ==
    ASSUME IInv, pmm_allocate_l1_pagetable
    PROVE  \E s \in Slices : HandOutStep("L1PageTable", s, 0)
<1>1. PICK s \in Slices : s = ll.head["unused"] /\ ListOf[s] = "unused"
  BY HeadOf DEF pmm_allocate_l1_pagetable, Lists
<1>2. /\ s < boot.i /\ s \notin Reserved /\ type[s] \in Kinds
      /\ \A k \in Kinds, i \in Bits : held[<<k, s, i>>] = 0
  BY <1>1, UnusedSlice
<1>3. "L1PageTable" \in Kinds /\ 0 \in Bits
  BY DEF Kinds, Bits
<1>4. PartsHeldAs("L1PageTable", s) \cup {0} = {0}
  BY <1>2, <1>3 DEF PartsHeldAs
<1>5. PlaceFor("L1PageTable", {0}) = "allocated"
  BY <1>3, PartsTyped DEF PlaceFor
<1>6. /\ ll' \in LinksType
      /\ WellLinked(ll', [ListOf EXCEPT ![s] = "allocated"])
  BY <1>1, LinksNow, PopPushLinks DEF pmm_allocate_l1_pagetable, Lists
<1>7. filled' = [filled EXCEPT ![s] = @]
  BY DEF pmm_allocate_l1_pagetable, IInv, TypeOK
<1>8. HandOutStep("L1PageTable", s, 0)
  BY <1>1, <1>2, <1>3, <1>4, <1>5, <1>6, <1>7, PartsTyped
     DEF HandOutStep, pmm_allocate_l1_pagetable, Give
<1> QED BY <1>8

\* Allocating a page or an L2 table from an unused slice hands out its part 0.
LEMMA FromUnusedHandsOut ==
    ASSUME IInv, NEW k \in {"L2PageTable", "Page"}, AllocateFromUnused(k)
    PROVE  \E s \in Slices : HandOutStep(k, s, 0)
<1>1. PICK s \in Slices : s = ll.head["unused"] /\ ListOf[s] = "unused"
  BY HeadOf DEF AllocateFromUnused, Lists
<1>2. /\ s < boot.i /\ s \notin Reserved /\ type[s] \in Kinds
      /\ \A j \in Kinds, i \in Bits : held[<<j, s, i>>] = 0
  BY <1>1, UnusedSlice
<1>3. k \in Kinds /\ 0 \in Bits
  BY DEF Kinds, Bits
<1>4. PartsHeldAs(k, s) \cup {0} = {0}
  BY <1>2, <1>3 DEF PartsHeldAs
<1>5. PlaceFor(k, {0}) = PartialList(k)
  BY <1>3, PartsTyped DEF PlaceFor
<1>6. /\ ll' \in LinksType
      /\ WellLinked(ll', [ListOf EXCEPT ![s] = PartialList(k)])
  BY <1>1, LinksNow, PopPushLinks DEF AllocateFromUnused, Lists, PartialList
<1>7. HandOutStep(k, s, 0)
  BY <1>1, <1>2, <1>3, <1>4, <1>5, <1>6, PartsTyped
     DEF HandOutStep, AllocateFromUnused, Give
<1> QED BY <1>7

\* Allocating from a partially used slice hands out a part nobody holds, and moves
\* the slice to the allocated list exactly when that was the last one.
LEMMA FromPartialHandsOut ==
    ASSUME IInv, NEW k \in {"L2PageTable", "Page"}, AllocateFromPartial(k)
    PROVE  \E s \in Slices, i \in Bits : HandOutStep(k, s, i)
<1>1. PICK s \in Slices : s = ll.head[PartialList(k)] /\ ListOf[s] = PartialList(k)
  BY HeadOf DEF AllocateFromPartial, PartialList, Lists
<1>2. k \in Kinds
  BY DEF Kinds
<1>3. s < boot.i /\ s \notin Reserved /\ type[s] # "BucketInfo"
  BY <1>1, SizesAssumption DEF ListOf, PartialList, IInv, TypeOK, Slices
<1>4. type[s] = k /\ PartsHeld(s) # {} /\ PartsHeld(s) # FullMask(k)
  <2>1. type[s] \in Kinds
    BY <1>3 DEF IInv, TypeOK, Types, Kinds
  <2>2. type[s] # "L1PageTable"
    <3>1. SUFFICES ASSUME type[s] = "L1PageTable", PartsHeld(s) # {} PROVE PartsHeld(s) = FullMask("L1PageTable")
      BY <1>1, <1>3, <2>1 DEF ListOf, PartialList
    <3>2. FullMask("L1PageTable") = {0}
      BY <1>2, PartsTyped
    <3>3. \A i \in PartsHeld(s) : i = 0
      BY <2>1, <3>1, <3>2 DEF IInv, HandoutsValid, PartsHeld
    <3> QED BY <3>1, <3>2, <3>3
  <2> QED BY <1>1, <1>3, <2>1, <2>2 DEF ListOf, PartialList, Kinds
<1>5. filled[s] = PartsHeld(s) /\ PartsHeld(s) = PartsHeldAs(k, s)
  BY <1>4 DEF IInv, FilledMatchesHeld, PartsHeld, PartsHeldAs
<1>6. PartsHeldAs(k, s) \in SUBSET FullMask(k)
  BY <1>2 DEF IInv, HandoutsValid, PartsHeldAs
<1> DEFINE i == first_free(filled[s])
<1>7. i \in FullMask(k) /\ i \notin PartsHeldAs(k, s)
  BY <1>2, <1>4, <1>5, <1>6, PartsTyped, FirstFreeIsFree DEF FullMask
<1> HIDE DEF i
<1>8. i \in Bits
  BY <1>2, <1>7, PartsTyped
<1>9. (filled[s] \cup {i}) \cap Bits = PartsHeldAs(k, s) \cup {i}
  BY <1>5, <1>8 DEF PartsHeldAs
<1>10. held[<<k, s, i>>] = 0
  BY <1>2, <1>7, <1>8 DEF PartsHeldAs, IInv, TypeOK, Units
<1>11. \A j \in Kinds, p \in Bits : j # k => held[<<j, s, p>>] = 0
  BY <1>2, <1>4 DEF IInv, HandoutsValid, TypeOK, Units
<1> DEFINE bits == PartsHeldAs(k, s) \cup {i}
<1>12. ll' = IF bits = FullMask(k)
             THEN push_to_ll(pop_from_ll(ll, PartialList(k)), "allocated", s)
             ELSE ll
  BY <1>1, <1>9 DEF AllocateFromPartial, i
<1>13. ll' \in LinksType /\ WellLinked(ll', [ListOf EXCEPT ![s] = PlaceFor(k, bits)])
  <2>1. status # "fault" /\ ll.head[PartialList(k)] # NULL
    BY DEF AllocateFromPartial
  <2>2. ll \in LinksType /\ WellLinked(ll, ListOf) /\ ListOf \in PlacesType
    BY <2>1, LinksNow
  <2>3. CASE bits = FullMask(k)
    <3>1. PlaceFor(k, bits) = "allocated"
      BY <1>2, <2>3, PartsTyped DEF PlaceFor
    <3> QED BY <1>1, <1>12, <2>1, <2>2, <2>3, <3>1, PopPushLinks DEF Lists, PartialList
  <2>4. CASE bits # FullMask(k)
    <3>1. PlaceFor(k, bits) = PartialList(k)
      BY <2>4 DEF PlaceFor
    <3>2. [ListOf EXCEPT ![s] = PartialList(k)] = ListOf
      BY <1>1, <2>2 DEF PlacesType
    <3> QED BY <1>12, <2>2, <2>4, <3>1, <3>2
  <2> QED BY <2>3, <2>4
<1>14. filled' = [filled EXCEPT ![s] = bits]
  BY <1>1, <1>9 DEF AllocateFromPartial, i
<1>15. held' = [held EXCEPT ![<<k, s, i>>] = @ + 1]
  BY <1>1 DEF AllocateFromPartial, Give, i
<1>16. type' = [type EXCEPT ![s] = k]
  BY <1>4 DEF AllocateFromPartial, IInv, TypeOK
<1>17. HandOutStep(k, s, i)
  <2> HIDE DEF bits
  <2>1. k # "L1PageTable"
    OBVIOUS
  <2> QED
    BY <1>2, <1>3, <1>4, <1>7, <1>10, <1>11, <1>13, <1>14, <1>15, <1>16, <2>1
       DEF HandOutStep, AllocateFromPartial, bits
<1> QED BY <1>8, <1>17

\* What every free does: part i of slice s, held as a k, is taken back, and the
\* slice moves to the list this calls for.
TakeBackStep(k, s, i) ==
    /\ status = "ready"
    /\ held[<<k, s, i>>] > 0
    /\ held' = [held EXCEPT ![<<k, s, i>>] = @ - 1]
    /\ type' = type
    /\ filled' = [filled EXCEPT ![s] = IF k = "L1PageTable" THEN @
                                       ELSE PartsHeldAs(k, s) \ {i}]
    /\ ll' \in LinksType
    /\ WellLinked(ll', [ListOf EXCEPT ![s] = PlaceFor(k, PartsHeldAs(k, s) \ {i})])
    /\ UNCHANGED <<infoAt, boot, status>>

\* What holding a part of a slice says about the slice.
LEMMA HeldSlice ==
    ASSUME IInv, NEW k \in Kinds, NEW s \in Slices, NEW i \in Bits,
           status = "ready", held[<<k, s, i>>] > 0
    PROVE  /\ held[<<k, s, i>>] = 1
           /\ s < boot.i /\ s \notin Reserved /\ type[s] = k /\ i \in FullMask(k)
           /\ pmm_get_sliceinfo_for_slice(s) = s
           /\ PartsHeld(s) = PartsHeldAs(k, s)
           /\ i \in PartsHeldAs(k, s)
           /\ ListOf[s] = IF PartsHeldAs(k, s) = FullMask(k) THEN "allocated"
                                                             ELSE PartialList(k)
<1>1. /\ held[<<k, s, i>>] = 1
      /\ s < boot.i /\ s \notin Reserved /\ type[s] = k /\ i \in FullMask(k)
  BY DEF IInv, HandoutsValid
<1>2. pmm_get_sliceinfo_for_slice(s) = s
  BY <1>1 DEF IInv, LookupFindsSliceinfo
<1>3. PartsHeld(s) = PartsHeldAs(k, s) /\ i \in PartsHeldAs(k, s)
  BY <1>1 DEF PartsHeld, PartsHeldAs
<1>4. ListOf[s] = IF PartsHeldAs(k, s) = FullMask(k) THEN "allocated" ELSE PartialList(k)
  <2>1. ~(s >= boot.i) /\ k # "BucketInfo"
    BY <1>1, SizesAssumption DEF IInv, TypeOK, Slices, Kinds
  <2> QED BY <1>1, <1>3, <2>1 DEF ListOf
<1> QED BY <1>1, <1>2, <1>3, <1>4

\* Taking back one part, whatever function does it, keeps the inductive invariant.
LEMMA TakeBackPreserves ==
    ASSUME IInv, NEW k \in Kinds, NEW s \in Slices, NEW i \in Bits, TakeBackStep(k, s, i)
    PROVE  IInv'
<1>0. /\ held[<<k, s, i>>] = 1
      /\ s < boot.i /\ s \notin Reserved /\ type[s] = k
  BY HeldSlice DEF TakeBackStep
<1>1. <<k, s, i>> \in Units
  BY DEF Units
<1>2. TypeOK'
  <2>1. PartsHeldAs(k, s) \ {i} \in SUBSET Bits
    BY DEF PartsHeldAs
  <2>2. filled' \in [Slices -> SUBSET Bits]
    BY <2>1 DEF TakeBackStep, IInv, TypeOK
  <2>3. held' \in [Units -> Nat]
    BY <1>0, <1>1 DEF TakeBackStep, IInv, TypeOK
  <2> QED BY <2>2, <2>3 DEF TakeBackStep, IInv, TypeOK, LinksType
<1>3. \A j \in Kinds, t \in Slices, p \in Bits :
          held'[<<j, t, p>>] = IF j = k /\ t = s /\ p = i THEN 0 ELSE held[<<j, t, p>>]
  BY <1>0, <1>1 DEF TakeBackStep, IInv, TypeOK, Units
<1>5. ListOf' = [ListOf EXCEPT ![s] = ListOf'[s]]
  <2>1. TypeOK /\ boot' = boot /\ type' = type
    BY DEF IInv, TakeBackStep
  <2> QED BY <1>2, <1>3, <2>1, OneSliceMoves
<1>6. PartsHeldAs(k, s)' = PartsHeldAs(k, s) \ {i}
  BY <1>3 DEF PartsHeldAs
<1>7. ListOf'[s] = PlaceFor(k, PartsHeldAs(k, s) \ {i})
  BY <1>0, <1>2, <1>6, PlaceNext DEF TakeBackStep
<1>8. ListsConsistent'
  BY <1>5, <1>7 DEF ListsConsistent, TakeBackStep
<1>9. HandoutsValid'
  BY <1>3 DEF IInv, HandoutsValid, TakeBackStep
<1>10. FilledMatchesHeld'
  <2> SUFFICES ASSUME NEW t \in Slices, type'[t] \in {"L2PageTable", "Page"}
               PROVE  filled'[t] = PartsHeld(t)'
    BY DEF FilledMatchesHeld
  <2>1. CASE t = s
    BY <1>0, <1>6, <2>1 DEF PartsHeld, PartsHeldAs, TakeBackStep, IInv, TypeOK
  <2>2. CASE t # s
    <3>1. filled'[t] = filled[t] /\ type'[t] = type[t]
      BY <2>2 DEF TakeBackStep, IInv, TypeOK
    <3>2. PartsHeld(t)' = PartsHeld(t)
      BY <1>3, <2>2, <3>1 DEF PartsHeld, Kinds
    <3> QED BY <3>1, <3>2 DEF IInv, FilledMatchesHeld
  <2> QED BY <2>1, <2>2
<1>11. BootCursor' /\ LookupFindsSliceinfo' /\ SearchedSlicesAreBucketinfo'
  BY <1>2, LookupKept DEF TakeBackStep
<1> QED
  BY <1>2, <1>8, <1>9, <1>10, <1>11 DEF IInv

\* pmm_free_l1_pagetable takes back the slice it is given.
LEMMA FreeL1TakesBack ==
    ASSUME IInv, NEW s \in Slices, pmm_free_l1_pagetable(s)
    PROVE  TakeBackStep("L1PageTable", s, 0)
<1> DEFINE k == "L1PageTable"
<1>1. k \in Kinds /\ 0 \in Bits /\ status = "ready" /\ held[<<k, s, 0>>] > 0
  BY DEF Kinds, Bits, pmm_free_l1_pagetable
<1>2. FullMask(k) = {0}
  BY <1>1, PartsTyped
<1>3. /\ s \notin Reserved
      /\ pmm_get_sliceinfo_for_slice(s) = s
      /\ 0 \in PartsHeldAs(k, s)
      /\ ListOf[s] = IF PartsHeldAs(k, s) = FullMask(k) THEN "allocated" ELSE PartialList(k)
  BY <1>1, HeldSlice
<1>4. PartsHeldAs(k, s) = {0}
  <2>1. \A i \in PartsHeldAs(k, s) : i = 0
    BY <1>1, <1>2 DEF PartsHeldAs, IInv, HandoutsValid
  <2> QED BY <1>3, <2>1
<1>5. ListOf[s] = "allocated"
  BY <1>2, <1>3, <1>4
<1> DEFINE moved == push_to_ll(remove_element_ll(ll, "allocated", s), "unused", s)
<1>6. ll \in LinksType /\ WellLinked(ll, ListOf) /\ ListOf \in PlacesType
  BY <1>1, LinksNow
<1>7. moved \in LinksType /\ WellLinked(moved, [ListOf EXCEPT ![s] = "unused"])
  BY <1>5, <1>6, RemovePushLinks DEF Lists
<1>8. moved.head["unused"] = s
  BY <1>6 DEF push_to_ll, remove_element_ll, LinksType, Lists
<1>9. ll' = [head |-> moved.head, next |-> moved.next,
             prev |-> [moved.prev EXCEPT ![s] = NULL]]
  BY <1>3 DEF pmm_free_l1_pagetable
<1> HIDE DEF moved
<1>10. moved.prev[s] = NULL
  BY <1>6, <1>7, <1>8 DEF WellLinked, PlacesType
<1>11. ll' = moved
  <2>1. [moved.prev EXCEPT ![s] = NULL] = moved.prev
    BY <1>7, <1>10 DEF LinksType
  <2> QED BY <1>7, <1>9, <2>1 DEF LinksType
<1>12. PlaceFor(k, PartsHeldAs(k, s) \ {0}) = "unused"
  BY <1>4 DEF PlaceFor
<1>13. filled' = [filled EXCEPT ![s] = @]
  BY DEF pmm_free_l1_pagetable, IInv, TypeOK
<1> QED
  BY <1>1, <1>3, <1>7, <1>11, <1>12, <1>13
     DEF TakeBackStep, pmm_free_l1_pagetable, TakeBack

\* pmm_free_page and pmm_free_l2_pagetable take back the part they are given and put
\* the slice on the list that the remaining parts call for.
LEMMA FreePartTakesBack ==
    ASSUME IInv, NEW k \in {"L2PageTable", "Page"}, NEW s \in Slices, NEW i \in Bits,
           FreePart(k, s, i)
    PROVE  TakeBackStep(k, s, i)
<1>1. k \in Kinds /\ k # "L1PageTable" /\ status = "ready" /\ held[<<k, s, i>>] > 0
  BY DEF Kinds, FreePart
<1>2. /\ s \notin Reserved /\ type[s] = k /\ i \in FullMask(k)
      /\ pmm_get_sliceinfo_for_slice(s) = s
      /\ PartsHeld(s) = PartsHeldAs(k, s)
      /\ ListOf[s] = IF PartsHeldAs(k, s) = FullMask(k) THEN "allocated" ELSE PartialList(k)
  BY <1>1, HeldSlice
<1>3. filled[s] = PartsHeldAs(k, s)
  BY <1>1, <1>2 DEF IInv, FilledMatchesHeld
<1> DEFINE from == IF filled[s] = FullMask(k) THEN "allocated" ELSE PartialList(k)
           bits == filled[s] \ {i}
           to   == IF bits = {} THEN "unused" ELSE PartialList(k)
<1>4. (s - s) * PartsPerSlice(k) + i = i
  <2>1. s \in Int /\ i \in Int /\ PartsPerSlice(k) \in Int
    BY <1>1, PartsTyped, SizesAssumption DEF Slices, Bits
  <2> QED BY <2>1
<1>5. /\ ll' = push_to_ll(remove_element_ll(ll, from, s), to, s)
      /\ filled' = [filled EXCEPT ![s] = bits]
      /\ TakeBack(<<k, s, i>>)
      /\ UNCHANGED <<type, infoAt, boot, status>>
  BY <1>2, <1>4 DEF FreePart
<1>6. ListOf[s] = from /\ from \in Lists /\ to \in Lists
  BY <1>2, <1>3 DEF Lists, PartialList
<1>7. ll \in LinksType /\ WellLinked(ll, ListOf) /\ ListOf \in PlacesType
  BY <1>1, LinksNow
<1>8. ll' \in LinksType /\ WellLinked(ll', [ListOf EXCEPT ![s] = to])
  <2> HIDE DEF from, to
  <2> QED BY <1>5, <1>6, <1>7, RemovePushLinks
<1>9. to = PlaceFor(k, PartsHeldAs(k, s) \ {i})
  BY <1>2, <1>3 DEF PlaceFor
<1> QED
  BY <1>1, <1>3, <1>5, <1>8, <1>9 DEF TakeBackStep, TakeBack

-----------------------------------------------------------------------------
(* The loop of pmm_init preserves it.                                      *)

\* Writing the next sliceinfo makes the lookup find it and disturbs no other.
LEMMA IndexingKeepsLookup ==
    ASSUME IInv, status = "booting", boot.i < SliceCount,
           infoAt' = [infoAt EXCEPT ![<<boot.currentslice, boot.infoindex>>] = boot.i]
    PROVE  /\ infoAt' \in [Slices \X (0 .. SliceinfoPerSlice - 1) -> Slices \cup {NULL}]
           /\ \A s \in Slices \ Reserved :
                 s < boot.i + 1 => /\ infoAt'[SliceinfoLocation(s)] = s
                                   /\ type[SliceinfoLocation(s)[1]] = "BucketInfo"
<1> DEFINE K == SliceinfoPerSlice
           D == Slices \X (0 .. K - 1)
<1>1. PICK i \in Slices, x \in 0 .. K - 1, cs \in Slices, b \in Nat, start \in Nat :
          /\ i = boot.i /\ x = boot.infoindex /\ cs = boot.currentslice
          /\ b = i \div K /\ start = b * K /\ i = start + x
          /\ type[cs] = "BucketInfo"
          /\ b = 0 => cs = 0
          /\ b > 0 /\ start - 1 \notin Reserved => cs = start - 1
          /\ b > 0 /\ start - 1 \in Reserved =>
                \A s \in Slices \ Reserved : SliceinfoLocation(s)[1] # cs
  <2>1. boot.i \in Slices /\ boot.i \in Nat
    BY SizesAssumption DEF IInv, TypeOK, Slices
  <2>2. boot.i \div K \in Nat /\ (boot.i \div K) * K \in Nat
    BY <2>1, SizesAssumption
  <2>3. boot.infoindex \in 0 .. K - 1 /\ boot.currentslice \in Slices
    BY DEF IInv, TypeOK
  <2> QED BY <2>1, <2>2, <2>3 DEF IInv, BootCursor
<1>2. infoAt \in [D -> Slices \cup {NULL}] /\ infoAt' = [infoAt EXCEPT ![<<cs, x>>] = i]
  BY <1>1 DEF IInv, TypeOK
<1>3. infoAt' \in [D -> Slices \cup {NULL}]
  BY <1>1, <1>2
<1>4. SliceinfoLocation(i) = <<IF b = 0 THEN 0 ELSE start - 1, x>>
  BY <1>1, LocationInBucket
<1>5. ASSUME NEW s \in Slices \ Reserved, s < i + 1
      PROVE  infoAt'[SliceinfoLocation(s)] = s /\ type[SliceinfoLocation(s)[1]] = "BucketInfo"
  <2>0. s \in Int /\ i \in Int
    BY SizesAssumption DEF Slices
  <2>1. s < i => /\ infoAt[SliceinfoLocation(s)] = s
                 /\ type[SliceinfoLocation(s)[1]] = "BucketInfo"
    BY <1>1, <1>5 DEF IInv, LookupFindsSliceinfo, SearchedSlicesAreBucketinfo,
                      pmm_get_sliceinfo_for_slice
  <2>2. SliceinfoLocation(s) \in D
    BY LocationType
  <2>3. CASE b = 0 \/ start - 1 \notin Reserved
    <3>1. SliceinfoLocation(i) = <<cs, x>>
      BY <1>1, <1>4, <2>3
    <3>2. CASE s = i
      BY <1>1, <1>2, <2>2, <3>1, <3>2
    <3>3. CASE s < i
      <4>1. SliceinfoLocation(s) # <<cs, x>>
        BY <2>0, <3>1, <3>3, LocationInjective
      <4> QED BY <1>2, <2>1, <2>2, <3>3, <4>1
    <3> QED BY <1>5, <2>0, <3>2, <3>3
  <2>4. CASE ~(b = 0 \/ start - 1 \notin Reserved)
    <3>1. b > 0 /\ start - 1 \in Reserved
      BY <2>4
    <3>2. i \in Reserved
      BY <1>1, <3>1, ReservedAssumption, SizesAssumption DEF Slices
    <3>3. s < i
      BY <1>5, <2>0, <3>2
    <3>4. SliceinfoLocation(s) # <<cs, x>>
      BY <1>1, <3>1
    <3> QED BY <1>2, <2>1, <2>2, <3>3, <3>4
  <2> QED BY <2>3, <2>4
<1> QED BY <1>1, <1>3, <1>5

\* The slice being indexed goes from no list to its first one.
LEMMA IndexingPlaces ==
    ASSUME IInv, status = "booting", boot.i < SliceCount
    PROVE  /\ boot.i \in Slices
           /\ ListOf[boot.i] = "none"
           /\ push_to_ll(ll, InitialList(boot.i), boot.i) \in LinksType
           /\ WellLinked(push_to_ll(ll, InitialList(boot.i), boot.i),
                         [ListOf EXCEPT ![boot.i] = InitialList(boot.i)])
           /\ \A k \in Kinds, s \in Slices, i \in Bits : held[<<k, s, i>>] = 0
<1>1. boot.i \in Slices
  BY SizesAssumption DEF IInv, TypeOK, Slices
<1>2. ListOf[boot.i] = "none"
  BY <1>1, SizesAssumption DEF ListOf, Slices
<1>3. ll \in LinksType /\ WellLinked(ll, ListOf) /\ ListOf \in PlacesType
  BY LinksNow
<1>4. InitialList(boot.i) \in Lists
  BY DEF InitialList, Lists
<1>5. ASSUME NEW k \in Kinds, NEW s \in Slices, NEW i \in Bits
      PROVE  held[<<k, s, i>>] = 0
  <2>1. held[<<k, s, i>>] \in Nat
    BY DEF IInv, TypeOK, Units
  <2>2. ~(held[<<k, s, i>>] > 0)
    BY DEF IInv, HandoutsValid
  <2> QED BY <2>1, <2>2
<1> QED BY <1>1, <1>2, <1>3, <1>4, <1>5, PushLinks

\* An iteration of the loop in pmm_init that does not fill the bucket keeps the
\* inductive invariant.
LEMMA IndexSlicePreserves ==
    ASSUME IInv, IndexSlice
    PROVE  IInv'
<1> DEFINE K == SliceinfoPerSlice
<1>1. /\ status = "booting" /\ boot.i < SliceCount
      /\ infoAt' = [infoAt EXCEPT ![<<boot.currentslice, boot.infoindex>>] = boot.i]
      /\ UNCHANGED <<type, filled, status, held>>
  BY DEF IndexSlice
<1>2. PICK i \in Slices : i = boot.i
  BY <1>1, IndexingPlaces
<1>3. /\ ListOf[i] = "none"
      /\ ll' \in LinksType
      /\ WellLinked(ll', [ListOf EXCEPT ![i] = InitialList(i)])
      /\ \A k \in Kinds, s \in Slices, p \in Bits : held[<<k, s, p>>] = 0
  BY <1>1, <1>2, IndexingPlaces DEF IndexSlice
<1>4. i \in Int /\ boot.infoindex \in 0 .. K - 1 /\ boot.infoindex + 1 < K
  BY SizesAssumption DEF Slices, IInv, TypeOK, IndexSlice
<1>5. boot' = [i |-> i + 1, infoindex |-> boot.infoindex + 1,
               currentslice |-> boot.currentslice]
  BY <1>2 DEF IndexSlice, IInv, TypeOK
<1>6. /\ infoAt' \in [Slices \X (0 .. SliceinfoPerSlice - 1) -> Slices \cup {NULL}]
      /\ \A s \in Slices \ Reserved :
            s < i + 1 => /\ infoAt'[SliceinfoLocation(s)] = s
                         /\ type[SliceinfoLocation(s)[1]] = "BucketInfo"
  BY <1>1, <1>2, IndexingKeepsLookup
<1>7. TypeOK'
  <2>1. boot' \in [i : 0 .. SliceCount, infoindex : 0 .. K - 1, currentslice : Slices]
    BY <1>4, <1>5, SizesAssumption DEF IInv, TypeOK, Slices
  <2> QED BY <1>1, <1>3, <1>6, <2>1 DEF IInv, TypeOK, LinksType
<1>8. ListOf' = [ListOf EXCEPT ![i] = InitialList(i)]
  <2>1. type[i] \in Kinds
    BY <1>1, <1>2, <1>4 DEF IInv, TypeOK, BootCursor, Types, Kinds
  <2>2. PartsHeld(i) = {}
    BY <1>3, <2>1 DEF PartsHeld
  <2>3. \A t \in Slices : PartsHeld(t)' = PartsHeld(t) /\ type'[t] = type[t]
    BY <1>1 DEF PartsHeld
  <2>4. \A t \in Slices : (t >= i + 1 <=> t >= i /\ t # i) /\ ~(i >= i + 1)
    BY <1>4, SizesAssumption DEF Slices
  <2>5. ListOf'[i] = InitialList(i)
    BY <1>5, <2>1, <2>2, <2>3, <2>4 DEF ListOf, InitialList, Kinds
  <2>6. ASSUME NEW t \in Slices, t # i PROVE ListOf'[t] = ListOf[t]
    BY <1>2, <1>5, <2>3, <2>4, <2>6 DEF ListOf
  <2> QED BY <2>5, <2>6 DEF ListOf
<1>9. ListsConsistent'
  BY <1>3, <1>8 DEF ListsConsistent
<1>10. HandoutsValid' /\ FilledMatchesHeld'
  BY <1>1, <1>3 DEF IInv, HandoutsValid, FilledMatchesHeld, PartsHeld
<1>11. BootCursor'
  <2> DEFINE b == i \div K
  <2>1. b \in Nat /\ b * K \in Nat /\ i = b * K + boot.infoindex
    <3>1. i \in Nat
      BY SizesAssumption DEF Slices
    <3> QED BY <1>1, <1>2, <3>1, SizesAssumption DEF IInv, BootCursor
  <2>2. (b * K + (boot.infoindex + 1)) \div K = b
    <3>1. K \in Nat /\ K >= 2 /\ boot.infoindex + 1 \in 0 .. K - 1
      BY <1>4, SizesAssumption
    <3> HIDE DEF K, b
    <3> QED BY ONLY <2>1, <3>1, InBucketQuotient
  <2>3. (i + 1) \div K = b /\ i + 1 = b * K + (boot.infoindex + 1)
    BY <1>4, <2>1, <2>2
  <2>4. \A s \in Slices : s >= i + 1 => s >= i
    BY <1>4 DEF Slices
  <2>5. status' = "booting" /\ type' = type
    BY <1>1
  <2> HIDE DEF b
  <2> QED BY <1>1, <1>2, <1>5, <2>3, <2>4, <2>5 DEF IInv, BootCursor, b
<1>12. LookupFindsSliceinfo' /\ SearchedSlicesAreBucketinfo'
  BY <1>1, <1>5, <1>6 DEF LookupFindsSliceinfo, SearchedSlicesAreBucketinfo,
                          pmm_get_sliceinfo_for_slice
<1> QED
  BY <1>7, <1>9, <1>10, <1>11, <1>12 DEF IInv

\* An iteration of the loop in pmm_init that fills the bucket and opens the next one
\* keeps the inductive invariant, inside the reserved region as well.
LEMMA OpenBucketPreserves ==
    ASSUME IInv, IndexSliceAndOpenBucket
    PROVE  IInv'
<1> DEFINE K == SliceinfoPerSlice
<1>1. /\ status = "booting" /\ boot.i < SliceCount
      /\ infoAt' = [infoAt EXCEPT ![<<boot.currentslice, boot.infoindex>>] = boot.i]
      /\ UNCHANGED held
  BY DEF IndexSliceAndOpenBucket
<1>2. PICK i \in Slices : i = boot.i
  BY <1>1, IndexingPlaces
<1>3. PICK pushed \in LinksType :
         /\ pushed = push_to_ll(ll, InitialList(i), i)
         /\ WellLinked(pushed, [ListOf EXCEPT ![i] = InitialList(i)])
  BY <1>1, <1>2, IndexingPlaces
<1>4. /\ ListOf[i] = "none"
      /\ \A k \in Kinds, s \in Slices, p \in Bits : held[<<k, s, p>>] = 0
  BY <1>1, <1>2, IndexingPlaces
<1>5. i \in Nat /\ boot.infoindex \in 0 .. K - 1 /\ boot.infoindex + 1 = K
  BY SizesAssumption DEF Slices, IInv, TypeOK, IndexSliceAndOpenBucket
<1>6. /\ infoAt' \in [Slices \X (0 .. SliceinfoPerSlice - 1) -> Slices \cup {NULL}]
      /\ \A s \in Slices \ Reserved :
            s < i + 1 => /\ infoAt'[SliceinfoLocation(s)] = s
                         /\ type[SliceinfoLocation(s)[1]] = "BucketInfo"
  BY <1>1, <1>2, IndexingKeepsLookup
<1>7. HandoutsValid'
  BY <1>1, <1>4 DEF HandoutsValid
<1>8. CASE pushed.head["unused"] = NULL
  <2>1. /\ status' = "fault" /\ ll' = pushed
        /\ UNCHANGED <<type, filled, boot, held>>
    BY <1>2, <1>3, <1>8 DEF IndexSliceAndOpenBucket
  <2>2. TypeOK'
    BY <1>3, <1>6, <2>1 DEF IInv, TypeOK, LinksType
  <2>3. FilledMatchesHeld'
    BY <2>1 DEF IInv, FilledMatchesHeld, PartsHeld
  <2>4. BootCursor'
    BY <2>1 DEF BootCursor
  <2>5. LookupFindsSliceinfo' /\ SearchedSlicesAreBucketinfo'
    BY <1>2, <1>5, <1>6, <2>1, SizesAssumption
       DEF LookupFindsSliceinfo, SearchedSlicesAreBucketinfo, pmm_get_sliceinfo_for_slice, Slices
  <2>6. ListsConsistent'
    BY <2>1 DEF ListsConsistent
  <2> QED BY <1>7, <2>2, <2>3, <2>4, <2>5, <2>6 DEF IInv
<1>9. CASE pushed.head["unused"] # NULL
  <2> DEFINE where == [ListOf EXCEPT ![i] = InitialList(i)]
  <2>1. where \in PlacesType /\ ListOf \in PlacesType /\ "unused" \in Lists /\ "allocated" \in Lists
    BY PlacesTyped DEF IInv, PlacesType, InitialList, Lists
  <2>2. PICK c \in Slices : c = pushed.head["unused"] /\ where[c] = "unused"
    <3>1. WellLinked(pushed, where)
      BY <1>3
    <3> HIDE DEF where
    <3>2. pushed.head["unused"] \in Slices /\ where[pushed.head["unused"]] = "unused"
      BY <1>9, <2>1, <3>1, PopLinks
    <3> QED BY <3>2
  <2>3. /\ ll' = push_to_ll(pop_from_ll(pushed, "unused"), "allocated", c)
        /\ type' = [type EXCEPT ![c] = "BucketInfo"]
        /\ filled' = [filled EXCEPT ![c] = {}]
        /\ boot' = [i |-> i + 1, infoindex |-> 0, currentslice |-> c]
        /\ UNCHANGED <<status, held>>
    BY <1>2, <1>3, <1>9, <2>2 DEF IndexSliceAndOpenBucket
  <2>4. ll' \in LinksType /\ WellLinked(ll', [where EXCEPT ![c] = "allocated"])
    BY <1>3, <1>9, <2>1, <2>2, <2>3, PopPushLinks
  <2>5. TypeOK'
    <3>1. boot' \in [i : 0 .. SliceCount, infoindex : 0 .. K - 1, currentslice : Slices]
      BY <1>1, <1>2, <1>5, <2>3, SizesAssumption
    <3>2. type' \in [Slices -> Types] /\ filled' \in [Slices -> SUBSET Bits]
      BY <2>3 DEF IInv, TypeOK, Types
    <3>3. status' \in {"booting", "ready", "fault", "panic"} /\ held' \in [Units -> Nat]
      BY <2>3 DEF IInv, TypeOK
    <3> QED BY <1>6, <2>4, <3>1, <3>2, <3>3 DEF TypeOK, LinksType
  <2>6. c <= i /\ c \in Int
    <3>1. CASE c = i
      BY <1>5, <3>1
    <3>2. CASE c # i
      <4>1. ListOf[c] = "unused"
        BY <2>1, <2>2, <3>2 DEF PlacesType
      <4> QED BY <1>2, <1>5, <4>1, UnusedSlice, SizesAssumption DEF Slices
    <3> QED BY <3>1, <3>2
  <2>7. ListOf' = [where EXCEPT ![c] = "allocated"]
    <3>1. type[i] \in Kinds
      BY <1>1, <1>2, <1>5 DEF IInv, TypeOK, BootCursor, Types, Kinds
    <3>2. PartsHeld(i) = {}
      BY <1>4, <3>1 DEF PartsHeld
    <3>3. \A t \in Slices : t # c => PartsHeld(t)' = PartsHeld(t) /\ type'[t] = type[t]
      BY <2>3 DEF PartsHeld, IInv, TypeOK
    <3>4. \A t \in Slices : (t >= i + 1 <=> t >= i /\ t # i) /\ ~(i >= i + 1)
      BY <1>5, SizesAssumption DEF Slices
    <3>5. ListOf'[c] = "allocated"
      <4>1. type'[c] = "BucketInfo" /\ ~(c >= i + 1)
        BY <1>5, <2>3, <2>6 DEF IInv, TypeOK
      <4> QED BY <2>3, <4>1 DEF ListOf
    <3>6. i # c => ListOf'[i] = InitialList(i)
      BY <2>3, <3>1, <3>2, <3>3, <3>4 DEF ListOf, InitialList, Kinds
    <3>7. ASSUME NEW t \in Slices, t # i, t # c PROVE ListOf'[t] = ListOf[t]
      BY <1>2, <2>3, <3>3, <3>4, <3>7 DEF ListOf
    <3> QED BY <2>1, <3>5, <3>6, <3>7 DEF ListOf, PlacesType
  <2>8. ListsConsistent'
    BY <2>4, <2>7 DEF ListsConsistent
  <2>9. FilledMatchesHeld'
    <3> SUFFICES ASSUME NEW t \in Slices, type'[t] \in {"L2PageTable", "Page"}
                 PROVE  filled'[t] = PartsHeld(t)'
      BY DEF FilledMatchesHeld
    <3>1. t # c /\ type'[t] = type[t] /\ filled'[t] = filled[t]
      BY <2>3 DEF IInv, TypeOK
    <3>2. PartsHeld(t)' = PartsHeld(t)
      BY <2>3, <3>1 DEF PartsHeld
    <3> QED BY <3>1, <3>2 DEF IInv, FilledMatchesHeld
  <2>10. BootCursor'
    <3> DEFINE b == i \div K
    <3>1. b \in Nat /\ b * K \in Nat /\ i = b * K + boot.infoindex
      BY <1>1, <1>2, <1>5, SizesAssumption DEF IInv, BootCursor
    <3>2. i + 1 = (b + 1) * K
      BY <1>5, <3>1, SizesAssumption
    <3>3. (i + 1) \div K = b + 1
      BY <3>1, <3>2, SizesAssumption
    <3>4. type'[c] = "BucketInfo"
      BY <2>3 DEF IInv, TypeOK
    <3>5. ASSUME NEW s \in Slices, s >= i + 1 PROVE type'[s] # "BucketInfo"
      <4>1. s # c /\ s >= i
        BY <1>5, <2>6, <3>5, SizesAssumption DEF Slices
      <4> QED BY <1>1, <1>2, <2>3, <4>1 DEF IInv, TypeOK, BootCursor
    <3>6. i \notin Reserved => c = i
      BY <1>3, <2>2, LinksNow, <1>1 DEF InitialList, push_to_ll, LinksType, Lists
    <3>7. ASSUME i \in Reserved, NEW s \in Slices \ Reserved
          PROVE  SliceinfoLocation(s)[1] # c
      <4>1. s < i
        BY <1>5, <3>7, ReservedAssumption, SizesAssumption DEF Slices
      <4>2. type[SliceinfoLocation(s)[1]] = "BucketInfo"
        BY <1>2, <4>1 DEF IInv, SearchedSlicesAreBucketinfo
      <4>3. c # i /\ ListOf[c] = "unused"
        BY <2>1, <2>2, <3>7 DEF PlacesType, InitialList
      <4>4. type[c] # "BucketInfo"
        BY <4>3, UnusedSlice DEF Kinds
      <4> QED BY <4>2, <4>4
    <3>8. /\ b + 1 > 0 /\ (b + 1) * K - 1 = i /\ b + 1 # 0
      BY <3>1, <3>2, <1>5
    <3>9. status' = "booting" /\ boot'.i = i + 1 /\ boot'.infoindex = 0 /\ boot'.currentslice = c
      BY <1>1, <2>3
    <3>10. i + 1 = (b + 1) * K + 0
      BY <3>2, <1>5
    <3> HIDE DEF b
    <3> QED BY <3>3, <3>4, <3>5, <3>6, <3>7, <3>8, <3>9, <3>10 DEF BootCursor
  <2>11. LookupFindsSliceinfo'
    BY <1>6, <2>3 DEF LookupFindsSliceinfo, pmm_get_sliceinfo_for_slice
  <2>12. SearchedSlicesAreBucketinfo'
    BY <1>6, <2>3, LocationType DEF SearchedSlicesAreBucketinfo, IInv, TypeOK
  <2> QED BY <1>7, <2>5, <2>8, <2>9, <2>10, <2>11, <2>12 DEF IInv
<1> QED BY <1>8, <1>9

\* Every step of pmm.c keeps the inductive invariant.
LEMMA NextPreserves == IInv /\ [Next]_vars => IInv'
<1> SUFFICES ASSUME IInv, [Next]_vars PROVE IInv'
  OBVIOUS
<1>0. "L1PageTable" \in Kinds /\ 0 \in Bits /\ {"L2PageTable", "Page"} \subseteq Kinds
  BY DEF Kinds, Bits
<1>1. CASE IndexSlice
  BY <1>1, IndexSlicePreserves
<1>2. CASE IndexSliceAndOpenBucket
  BY <1>2, OpenBucketPreserves
<1>3. CASE PmmReady
  <2>1. /\ status = "booting" /\ boot.i >= SliceCount /\ status' = "ready"
        /\ UNCHANGED <<ll, type, filled, infoAt, boot, held>>
    BY <1>3 DEF PmmReady
  <2>2. TypeOK' /\ HandoutsValid' /\ FilledMatchesHeld'
    BY <2>1 DEF IInv, TypeOK, HandoutsValid, FilledMatchesHeld, PartsHeld
  <2>3. ListOf' = ListOf
    BY <2>1 DEF ListOf, PartsHeld
  <2>4. ListsConsistent'
    BY <2>1, <2>3 DEF IInv, ListsConsistent
  <2>5. boot.i = SliceCount
    BY <2>1, SizesAssumption DEF IInv, TypeOK
  <2>6. BootCursor'
    BY <2>1, <2>5 DEF BootCursor
  <2>7. LookupFindsSliceinfo' /\ SearchedSlicesAreBucketinfo'
    BY <2>1 DEF IInv, LookupFindsSliceinfo, SearchedSlicesAreBucketinfo, pmm_get_sliceinfo_for_slice
  <2> QED BY <2>2, <2>4, <2>6, <2>7 DEF IInv
<1>4. CASE pmm_allocate_l1_pagetable
  BY <1>0, <1>4, AllocateL1HandsOut, HandOutPreserves
<1>5. ASSUME NEW s \in Slices, pmm_free_l1_pagetable(s)
      PROVE  IInv'
  BY <1>0, <1>5, FreeL1TakesBack, TakeBackPreserves
<1>6. ASSUME NEW k \in {"L2PageTable", "Page"}, AllocateFromPartial(k)
      PROVE  IInv'
  BY <1>0, <1>6, FromPartialHandsOut, HandOutPreserves
<1>7. ASSUME NEW k \in {"L2PageTable", "Page"}, AllocateFromUnused(k)
      PROVE  IInv'
  BY <1>0, <1>7, FromUnusedHandsOut, HandOutPreserves
<1>8. ASSUME NEW k \in {"L2PageTable", "Page"}, AllocateExhausted(k)
      PROVE  IInv'
  <2>1. /\ status = "ready" /\ status' = "fault"
        /\ UNCHANGED <<ll, type, filled, infoAt, boot, held>>
    BY <1>8 DEF AllocateExhausted
  <2>2. TypeOK' /\ HandoutsValid' /\ FilledMatchesHeld' /\ ListsConsistent'
    BY <2>1 DEF IInv, TypeOK, HandoutsValid, FilledMatchesHeld, PartsHeld, ListsConsistent
  <2>3. BootCursor' /\ LookupFindsSliceinfo' /\ SearchedSlicesAreBucketinfo'
    BY <2>1, <2>2, LookupKept
  <2> QED BY <2>2, <2>3 DEF IInv
<1>9. ASSUME NEW k \in {"L2PageTable", "Page"}, NEW s \in Slices, NEW i \in Bits,
             FreePart(k, s, i)
      PROVE  IInv'
  BY <1>0, <1>9, FreePartTakesBack, TakeBackPreserves
<1>10. CASE UNCHANGED vars
  <2>1. UNCHANGED <<ll, type, filled, infoAt, boot, status, held>>
    BY <1>10 DEF vars
  <2>2. TypeOK' /\ HandoutsValid' /\ FilledMatchesHeld'
    BY <2>1 DEF IInv, TypeOK, HandoutsValid, FilledMatchesHeld, PartsHeld
  <2>3. ListOf' = ListOf
    BY <2>1 DEF ListOf, PartsHeld
  <2>4. ListsConsistent'
    BY <2>1, <2>3 DEF IInv, ListsConsistent
  <2>5. BootCursor'
    BY <2>1 DEF IInv, BootCursor
  <2>6. LookupFindsSliceinfo' /\ SearchedSlicesAreBucketinfo'
    BY <2>1 DEF IInv, LookupFindsSliceinfo, SearchedSlicesAreBucketinfo, pmm_get_sliceinfo_for_slice
  <2> QED BY <2>2, <2>4, <2>5, <2>6 DEF IInv
<1> QED
  BY <1>1, <1>2, <1>3, <1>4, <1>5, <1>6, <1>7, <1>8, <1>9, <1>10 DEF Next

-----------------------------------------------------------------------------
(* The theorems.                                                           *)

\* The inductive invariant holds in every state the allocator can reach.
THEOREM InductiveInvariant == Spec => []IInv
BY InitEstablishes, NextPreserves, PTL DEF Spec

\* Every field keeps its declared type, whatever the size of memory.
THEOREM TypeCorrect == Spec => []TypeOK
<1>1. IInv => TypeOK
  BY DEF IInv
<1> QED BY <1>1, InductiveInvariant, PTL

\* The doubly linked lists stay consistent with each other and with what
\* clients hold, whatever the order of allocations and frees.
THEOREM ListsAlwaysConsistent == Spec => []ListsConsistent
<1>1. IInv => ListsConsistent
  BY DEF IInv
<1> QED BY <1>1, InductiveInvariant, PTL

\* pmm_get_sliceinfo_for_slice finds the right sliceinfo of every slice that can
\* be handed out, for every bucket size and every extent of the MMIO region.
THEOREM LookupAlwaysFinds == Spec => []LookupFindsSliceinfo
<1>1. IInv => LookupFindsSliceinfo
  BY DEF IInv
<1> QED BY <1>1, InductiveInvariant, PTL

\* No memory is ever handed out twice, in two uses, or from a reserved slice.
THEOREM HandoutsAlwaysDisjoint == Spec => []NoDoubleHandout
<1>1. IInv => NoDoubleHandout
  <2> SUFFICES ASSUME IInv PROVE NoDoubleHandout
    OBVIOUS
  <2>1. ASSUME NEW u \in InUse
        PROVE  \E k \in Kinds, s \in Slices, i \in Bits :
                  u = <<k, s, i>> /\ u[1] = k /\ u[2] = s /\ u[3] = i
                  /\ held[<<k, s, i>>] > 0
    BY <2>1 DEF InUse, Units
  <2>2. ASSUME NEW u \in InUse
        PROVE  held[u] = 1 /\ u[2] \notin Reserved /\ type[u[2]] = u[1]
    <3>1. PICK k \in Kinds, s \in Slices, i \in Bits :
                  u = <<k, s, i>> /\ u[1] = k /\ u[2] = s /\ u[3] = i
                  /\ held[<<k, s, i>>] > 0
      BY <2>1
    <3>2. held[<<k, s, i>>] = 1 /\ s \notin Reserved /\ type[s] = k
      BY <3>1 DEF IInv, HandoutsValid
    <3> QED BY <3>1, <3>2
  <2>3. ASSUME NEW u \in InUse, NEW v \in InUse, Overlap(u, v)
        PROVE  u = v
    <3>1. u[1] = v[1]
      BY <2>2, <2>3 DEF Overlap
    <3>2. u[2] = v[2] /\ u[3] = v[3]
      BY <2>3, <3>1 DEF Overlap
    <3>3. PICK k \in Kinds, s \in Slices, i \in Bits :
              u = <<k, s, i>> /\ u[1] = k /\ u[2] = s /\ u[3] = i
              /\ held[<<k, s, i>>] > 0
      BY <2>1
    <3>4. PICK j \in Kinds, t \in Slices, p \in Bits :
              v = <<j, t, p>> /\ v[1] = j /\ v[2] = t /\ v[3] = p
              /\ held[<<j, t, p>>] > 0
      BY <2>1
    <3>5. k = j /\ s = t /\ i = p
      BY <3>1, <3>2, <3>3, <3>4
    <3> QED BY <3>3, <3>4, <3>5
  <2> QED BY <2>2, <2>3 DEF NoDoubleHandout
<1> QED BY <1>1, InductiveInvariant, PTL

-----------------------------------------------------------------------------
(* Every step is a hand out, a take back, or of no concern to clients.     *)

\* Every step hands out one part, takes back one part, or leaves clients alone and,
\* once pmm_init is done, retypes nothing.
LEMMA StepsSeenByClients ==
    ASSUME IInv, [Next]_vars
    PROVE  \/ \E k \in Kinds, s \in Slices, i \in Bits : HandOutStep(k, s, i)
           \/ \E k \in Kinds, s \in Slices, i \in Bits : TakeBackStep(k, s, i)
           \/ UNCHANGED held /\ (status # "booting" => UNCHANGED type)
<1>0. "L1PageTable" \in Kinds /\ 0 \in Bits /\ {"L2PageTable", "Page"} \subseteq Kinds
  BY DEF Kinds, Bits
<1> DEFINE Seen == \/ \E k \in Kinds, s \in Slices, i \in Bits : HandOutStep(k, s, i)
                   \/ \E k \in Kinds, s \in Slices, i \in Bits : TakeBackStep(k, s, i)
                   \/ UNCHANGED held /\ (status # "booting" => UNCHANGED type)
<1>1. CASE IndexSlice \/ IndexSliceAndOpenBucket \/ PmmReady
  BY <1>1 DEF IndexSlice, IndexSliceAndOpenBucket, PmmReady
<1>2. CASE pmm_allocate_l1_pagetable
  BY <1>0, <1>2, AllocateL1HandsOut
<1>3. ASSUME NEW s \in Slices, pmm_free_l1_pagetable(s) PROVE Seen
  BY <1>0, <1>3, FreeL1TakesBack
<1>4. ASSUME NEW k \in {"L2PageTable", "Page"}, AllocateFromPartial(k) PROVE Seen
  BY <1>0, <1>4, FromPartialHandsOut
<1>5. ASSUME NEW k \in {"L2PageTable", "Page"}, AllocateFromUnused(k) PROVE Seen
  BY <1>0, <1>5, FromUnusedHandsOut
<1>6. ASSUME NEW k \in {"L2PageTable", "Page"}, AllocateExhausted(k) PROVE Seen
  BY <1>6 DEF AllocateExhausted
<1>7. ASSUME NEW k \in {"L2PageTable", "Page"}, NEW s \in Slices, NEW i \in Bits,
             FreePart(k, s, i)
      PROVE  Seen
  BY <1>0, <1>7, FreePartTakesBack
<1>8. CASE UNCHANGED vars
  BY <1>8 DEF vars
<1> HIDE DEF Seen
<1>9. Seen
  BY <1>1, <1>2, <1>3, <1>4, <1>5, <1>6, <1>7, <1>8 DEF Next, Seen
<1> QED BY <1>9 DEF Seen

\* pmm.c implements the abstract allocator.
THEOREM RefinesAllocator == Spec => ImplementsAllocator
<1>0. /\ Allocator!Units = Units
      /\ Allocator!Kinds = Kinds
      /\ \A k \in Kinds : [j \in Kinds |-> FullMask(j)][k] = FullMask(k)
      /\ Bits = 0 .. 7
  BY DEF Allocator!Units, Allocator!Kinds, Units, Bits
<1>1. Init => Allocator!Init
  BY <1>0 DEF Init, Allocator!Init
<1>2. ASSUME IInv, [Next]_vars PROVE [Allocator!Next]_held
  <2>1. ASSUME NEW k \in Kinds, NEW s \in Slices, NEW i \in Bits, HandOutStep(k, s, i)
        PROVE  Allocator!Next
    <3>1. held' = [held EXCEPT ![<<k, s, i>>] = 1]
      BY <2>1 DEF HandOutStep
    <3>2. Allocator!Available(held, k, s, i)
      BY <1>0, <2>1 DEF HandOutStep, Allocator!Available
    <3>3. Allocator!Allocate(k, s, i)
      BY <3>1, <3>2 DEF Allocator!Allocate
    <3> QED BY <1>0, <3>3 DEF Allocator!Next
  <2>2. ASSUME NEW k \in Kinds, NEW s \in Slices, NEW i \in Bits, TakeBackStep(k, s, i)
        PROVE  Allocator!Next
    <3>1. held[<<k, s, i>>] = 1
      BY <1>2, <2>2, HeldSlice DEF TakeBackStep
    <3>2. Allocator!Free(k, s, i)
      BY <2>2, <3>1 DEF TakeBackStep, Allocator!Free
    <3> QED BY <1>0, <3>2 DEF Allocator!Next
  <2> QED BY <1>2, <2>1, <2>2, StepsSeenByClients
<1> QED BY <1>1, <1>2, InductiveInvariant, PTL DEF Spec, ImplementsAllocator, Allocator!Spec

-----------------------------------------------------------------------------
(* No slice is lost. Lists that are well linked may still hold a ring that *)
(* no head leads to, so the invariant also says that there is none: the    *)
(* slices have ranks that fall along `next`.                               *)

Falls(L, rank) == \A s \in Slices : L.next[s] # NULL => rank[L.next[s]] < rank[s]

Acyclic(L) == \E b \in Nat : \E rank \in [Slices -> 0 .. b] : Falls(L, rank)

\* A slice that is pushed gets a rank above all others: no `next` points to it.
LEMMA PushAcyclic ==
    ASSUME NEW L \in LinksType, NEW where \in PlacesType, WellLinked(L, where), Acyclic(L),
           NEW l \in Lists, NEW e \in Slices, where[e] = "none"
    PROVE  Acyclic(push_to_ll(L, l, e))
<1>1. PICK b \in Nat : \E rank \in [Slices -> 0 .. b] : Falls(L, rank)
  BY DEF Acyclic
<1>2. PICK rank \in [Slices -> 0 .. b] : Falls(L, rank)
  BY <1>1
<1> DEFINE P == push_to_ll(L, l, e)
           up == [rank EXCEPT ![e] = b + 1]
<1>3. /\ P.next = [L.next EXCEPT ![e] = L.head[l]]
      /\ L.next \in [Slices -> Slices \cup {NULL}] /\ L.head \in [Lists -> Slices \cup {NULL}]
  BY DEF push_to_ll, LinksType
<1> HIDE DEF P
<1>4. b + 1 \in Nat /\ b + 1 \in 0 .. b + 1 /\ 0 .. b \subseteq 0 .. b + 1
  OBVIOUS
<1>5. up \in [Slices -> 0 .. b + 1] /\ up[e] = b + 1 /\ \A s \in Slices : s # e => up[s] = rank[s]
  BY <1>4
<1> HIDE DEF up
<1>6. ASSUME NEW s \in Slices, P.next[s] # NULL PROVE up[P.next[s]] < up[s]
  <2>1. CASE s = e
    <3>1. P.next[s] = L.head[l] /\ L.head[l] \in Slices /\ L.head[l] # e
      BY <1>3, <1>6, <2>1, NoneIsNoList DEF WellLinked
    <3>2. rank[L.head[l]] \in 0 .. b
      BY <3>1
    <3> QED BY <1>5, <2>1, <3>1, <3>2
  <2>2. CASE s # e
    <3>1. P.next[s] = L.next[s] /\ L.next[s] \in Slices
      BY <1>3, <1>6, <2>2
    <3>2. L.next[s] # e
      BY <1>6, <3>1, NullIsNoSlice DEF WellLinked
    <3>3. rank[L.next[s]] < rank[s]
      BY <1>2, <1>6, <3>1 DEF Falls
    <3> QED BY <1>5, <2>2, <3>1, <3>2, <3>3
  <2> QED BY <2>1, <2>2
<1>7. Falls(P, up)
  BY <1>6 DEF Falls
<1> QED BY <1>4, <1>5, <1>7 DEF Acyclic, P

\* Taking the head off a list leaves the ranks as they are.
LEMMA PopAcyclic ==
    ASSUME NEW L \in LinksType, NEW l \in Lists, L.head[l] \in Slices, Acyclic(L)
    PROVE  Acyclic(pop_from_ll(L, l))
<1>1. PICK b \in Nat : \E rank \in [Slices -> 0 .. b] : Falls(L, rank)
  BY DEF Acyclic
<1>2. PICK rank \in [Slices -> 0 .. b] : Falls(L, rank)
  BY <1>1
<1> DEFINE P == pop_from_ll(L, l)
<1>3. P.next = [L.next EXCEPT ![L.head[l]] = NULL] /\ L.next \in [Slices -> Slices \cup {NULL}]
  BY DEF pop_from_ll, LinksType
<1> HIDE DEF P
<1>4. Falls(P, rank)
  BY <1>2, <1>3 DEF Falls
<1> QED BY <1>4 DEF Acyclic, P

\* So does taking out an entry, whose neighbours become each other's.
LEMMA RemoveAcyclic ==
    ASSUME NEW L \in LinksType, NEW where \in PlacesType, WellLinked(L, where), Acyclic(L),
           NEW l \in Lists, NEW e \in Slices
    PROVE  Acyclic(remove_element_ll(L, l, e))
<1>1. PICK b \in Nat : \E rank \in [Slices -> 0 .. b] : Falls(L, rank)
  BY DEF Acyclic
<1>2. PICK rank \in [Slices -> 0 .. b] : Falls(L, rank)
  BY <1>1
<1> DEFINE P == remove_element_ll(L, l, e)
           n == L.next[e]
           p == L.prev[e]
<1>3. /\ P.next = [x \in Slices |-> IF x = e THEN NULL ELSE IF x = p THEN n ELSE L.next[x]]
      /\ L.next \in [Slices -> Slices \cup {NULL}] /\ L.prev \in [Slices -> Slices \cup {NULL}]
  BY DEF remove_element_ll, LinksType
<1> HIDE DEF P
<1>4. ASSUME NEW s \in Slices, P.next[s] # NULL PROVE rank[P.next[s]] < rank[s]
  <2>1. CASE s # e /\ s = p
    <3>1. P.next[s] = n /\ n \in Slices /\ n # NULL
      BY <1>3, <1>4, <2>1
    <3>2. L.next[s] = e /\ e # NULL
      BY <2>1, NullIsNoSlice DEF WellLinked
    <3>3. rank[n] < rank[e] /\ rank[e] < rank[s]
      BY <1>2, <3>1, <3>2 DEF Falls
    <3>4. rank[n] \in Int /\ rank[e] \in Int /\ rank[s] \in Int
      BY <3>1
    <3> QED BY ONLY <3>1, <3>3, <3>4
  <2>2. CASE s # e /\ s # p
    BY <1>2, <1>3, <1>4, <2>2 DEF Falls
  <2>3. s # e
    BY <1>3, <1>4
  <2> QED BY <2>1, <2>2, <2>3
<1>5. Falls(P, rank)
  BY <1>4 DEF Falls
<1> QED BY <1>5 DEF Acyclic, P

\* Moving the head of one list to the front of another.
LEMMA PopPushAcyclic ==
    ASSUME NEW L \in LinksType, NEW where \in PlacesType, WellLinked(L, where), Acyclic(L),
           NEW l \in Lists, NEW m \in Lists, L.head[l] # NULL
    PROVE  Acyclic(push_to_ll(pop_from_ll(L, l), m, L.head[l]))
<1> DEFINE top == L.head[l]
           R == pop_from_ll(L, l)
           w == [where EXCEPT ![top] = "none"]
<1>1. top \in Slices /\ R \in LinksType /\ WellLinked(R, w)
  BY PopLinks
<1>2. w \in PlacesType /\ w[top] = "none"
  BY <1>1 DEF PlacesType
<1>3. Acyclic(R)
  BY <1>1, PopAcyclic
<1> HIDE DEF R, w, top
<1>4. Acyclic(push_to_ll(R, m, top))
  BY <1>1, <1>2, <1>3, PushAcyclic
<1> QED BY <1>4 DEF R, top

\* Moving an entry from the list it is on to the front of another.
LEMMA RemovePushAcyclic ==
    ASSUME NEW L \in LinksType, NEW where \in PlacesType, WellLinked(L, where), Acyclic(L),
           NEW l \in Lists, NEW m \in Lists, NEW e \in Slices, where[e] = l
    PROVE  Acyclic(push_to_ll(remove_element_ll(L, l, e), m, e))
<1> DEFINE R == remove_element_ll(L, l, e)
           w == [where EXCEPT ![e] = "none"]
<1>1. R \in LinksType /\ WellLinked(R, w)
  BY RemoveLinks
<1>2. w \in PlacesType /\ w[e] = "none"
  BY DEF PlacesType
<1>3. Acyclic(R)
  BY RemoveAcyclic
<1> HIDE DEF R, w
<1>4. Acyclic(push_to_ll(R, m, e))
  BY <1>1, <1>2, <1>3, PushAcyclic
<1> QED BY <1>4 DEF R

NoRing == status # "fault" => Acyclic(ll)

\* No pointer is set before the loop of pmm_init.
LEMMA InitNoRing == Init => NoRing
<1> SUFFICES ASSUME Init PROVE Acyclic(ll)
  BY DEF NoRing
<1> DEFINE rank == [s \in Slices |-> 0]
<1>1. rank \in [Slices -> 0 .. 0] /\ 0 \in Nat
  OBVIOUS
<1>2. Falls(ll, rank)
  BY DEF Falls, Init
<1> QED BY <1>1, <1>2 DEF Acyclic

\* No step of pmm.c closes a ring.
LEMMA NextNoRing == IInv /\ NoRing /\ [Next]_vars => NoRing'
<1> SUFFICES ASSUME IInv, NoRing, [Next]_vars, status' # "fault" PROVE Acyclic(ll')
  BY DEF NoRing
<1>1. CASE status = "fault"
  BY <1>1 DEF Next, IndexSlice, IndexSliceAndOpenBucket, PmmReady, pmm_allocate_l1_pagetable,
     pmm_free_l1_pagetable, AllocateFromPartial, AllocateFromUnused, AllocateExhausted, FreePart, vars
<1>2. CASE status # "fault"
  <2>0. /\ ll \in LinksType /\ WellLinked(ll, ListOf) /\ ListOf \in PlacesType /\ Acyclic(ll)
        /\ Lists = {"unused", "allocated", "l2ptPartialFree", "pagePartialFree"}
        /\ \A k : PartialList(k) \in Lists
    BY <1>2, LinksNow DEF NoRing, Lists, PartialList
  <2>1. CASE IndexSlice
    <3>1. boot.i \in Slices /\ ListOf[boot.i] = "none" /\ InitialList(boot.i) \in Lists
      BY <2>0, <2>1, IndexingPlaces DEF IndexSlice, InitialList
    <3>2. ll' = push_to_ll(ll, InitialList(boot.i), boot.i)
      BY <2>1 DEF IndexSlice
    <3> QED BY <2>0, <3>1, <3>2, PushAcyclic
  <2>2. CASE IndexSliceAndOpenBucket
    <3> DEFINE i == boot.i
               l == InitialList(boot.i)
               w == [ListOf EXCEPT ![i] = l]
               pushed == push_to_ll(ll, l, i)
    <3>1. /\ i \in Slices /\ ListOf[i] = "none" /\ l \in Lists
          /\ pushed \in LinksType /\ WellLinked(pushed, w)
      BY <2>0, <2>2, IndexingPlaces DEF IndexSliceAndOpenBucket, InitialList
    <3>2. /\ pushed.head["unused"] # NULL
          /\ ll' = push_to_ll(pop_from_ll(pushed, "unused"), "allocated", pushed.head["unused"])
      BY <2>2 DEF IndexSliceAndOpenBucket
    <3>3. w \in PlacesType
      BY <2>0, <3>1 DEF PlacesType
    <3> HIDE DEF i, l, w
    <3>4. Acyclic(pushed)
      BY <2>0, <3>1, PushAcyclic
    <3> HIDE DEF pushed
    <3> QED BY <2>0, <3>1, <3>2, <3>3, <3>4, PopPushAcyclic
  <2>3. CASE PmmReady
    BY <2>0, <2>3 DEF PmmReady
  <2>4. CASE pmm_allocate_l1_pagetable
    BY <2>0, <2>4, PopPushAcyclic DEF pmm_allocate_l1_pagetable
  <2>5. ASSUME NEW s \in Slices, pmm_free_l1_pagetable(s) PROVE Acyclic(ll')
    <3> DEFINE moved == push_to_ll(remove_element_ll(ll, "allocated", s), "unused", s)
    <3>1. TakeBackStep("L1PageTable", s, 0)
      BY <2>5, FreeL1TakesBack
    <3>2. status = "ready" /\ "L1PageTable" \in Kinds /\ 0 \in Bits /\ held[<<"L1PageTable", s, 0>>] > 0
      BY <2>5 DEF pmm_free_l1_pagetable, Kinds, Bits
    <3>3. s \notin Reserved /\ pmm_get_sliceinfo_for_slice(s) = s
      BY <3>2, HeldSlice
    <3>4. ll' = [head |-> moved.head, next |-> moved.next, prev |-> [moved.prev EXCEPT ![s] = NULL]]
      BY <2>5, <3>3 DEF pmm_free_l1_pagetable
    <3>5. ListOf[s] = "allocated"
      <4>1. /\ ListOf[s] = IF PartsHeldAs("L1PageTable", s) = FullMask("L1PageTable")
                           THEN "allocated" ELSE PartialList("L1PageTable")
            /\ 0 \in PartsHeldAs("L1PageTable", s)
        BY <3>2, HeldSlice
      <4>2. FullMask("L1PageTable") = {0}
        BY <3>2, PartsTyped
      <4>3. \A j \in PartsHeldAs("L1PageTable", s) : j = 0
        BY <3>2, <4>2 DEF PartsHeldAs, IInv, HandoutsValid
      <4> QED BY <4>1, <4>2, <4>3
    <3>6. Acyclic(moved)
      BY <2>0, <3>5, RemovePushAcyclic
    <3> HIDE DEF moved
    <3>7. ll'.next = moved.next
      BY <3>4
    <3> QED BY <3>6, <3>7 DEF Acyclic, Falls
  <2>6. ASSUME NEW k \in {"L2PageTable", "Page"}, AllocateFromPartial(k) PROVE Acyclic(ll')
    <3> DEFINE s == ll.head[PartialList(k)]
    <3>1. s # NULL /\ PartialList(k) \in Lists
      BY <2>0, <2>6 DEF AllocateFromPartial
    <3>2. ll' = ll \/ ll' = push_to_ll(pop_from_ll(ll, PartialList(k)), "allocated", s)
      BY <2>6 DEF AllocateFromPartial
    <3>3. Acyclic(push_to_ll(pop_from_ll(ll, PartialList(k)), "allocated", s))
      BY <2>0, <3>1, PopPushAcyclic
    <3> QED BY <2>0, <3>2, <3>3
  <2>7. ASSUME NEW k \in {"L2PageTable", "Page"}, AllocateFromUnused(k) PROVE Acyclic(ll')
    BY <2>0, <2>7, PopPushAcyclic DEF AllocateFromUnused
  <2>8. ASSUME NEW k \in {"L2PageTable", "Page"}, AllocateExhausted(k) PROVE Acyclic(ll')
    BY <2>0, <2>8 DEF AllocateExhausted
  <2>9. ASSUME NEW k \in {"L2PageTable", "Page"}, NEW s \in Slices, NEW i \in Bits, FreePart(k, s, i)
        PROVE  Acyclic(ll')
    <3> DEFINE from == IF filled[s] = FullMask(k) THEN "allocated" ELSE PartialList(k)
               bits == filled[s] \ {(s - s) * PartsPerSlice(k) + i}
               to   == IF bits = {} THEN "unused" ELSE PartialList(k)
    <3>1. k \in Kinds /\ status = "ready" /\ held[<<k, s, i>>] > 0
      BY <2>9 DEF Kinds, FreePart
    <3>2. /\ s \notin Reserved /\ type[s] = k /\ pmm_get_sliceinfo_for_slice(s) = s
          /\ PartsHeld(s) = PartsHeldAs(k, s)
          /\ ListOf[s] = IF PartsHeldAs(k, s) = FullMask(k) THEN "allocated" ELSE PartialList(k)
      BY <3>1, HeldSlice
    <3>3. filled[s] = PartsHeldAs(k, s)
      BY <3>1, <3>2 DEF IInv, FilledMatchesHeld
    <3>4. ll' = push_to_ll(remove_element_ll(ll, from, s), to, s)
      BY <2>9, <3>2 DEF FreePart
    <3>5. ListOf[s] = from /\ from \in Lists /\ to \in Lists
      BY <2>0, <3>2, <3>3
    <3> HIDE DEF from, to
    <3> QED BY <2>0, <3>4, <3>5, RemovePushAcyclic
  <2>10. CASE UNCHANGED vars
    BY <2>0, <2>10 DEF vars
  <2> QED
    BY <2>1, <2>2, <2>3, <2>4, <2>5, <2>6, <2>7, <2>8, <2>9, <2>10 DEF Next
<1> QED BY <1>1, <1>2

\* Induction: a set of numbers has a least one.
LEMMA LeastElement ==
    ASSUME NEW T, T \subseteq Nat, T # {}
    PROVE  \E x \in T : \A y \in T : x <= y
<1> DEFINE R == OpToRel(<, Nat)
<1>1. IsWellFoundedOn(R, Nat)
  BY NatLessThanWellFounded
<1>2. \A x, y \in Nat : x < y => <<x, y>> \in R
  BY DEF OpToRel
<1> HIDE DEF R
<1>3. PICK x \in T : \A y \in T : ~(<<y, x>> \in R)
  BY <1>1, WFMin
<1>4. ASSUME NEW y \in T PROVE x <= y
  <2>1. x \in Nat /\ y \in Nat
    OBVIOUS
  <2>2. ~(y < x)
    BY <1>2, <1>3, <2>1, Zenon
  <2> QED BY ONLY <2>1, <2>2, SMT
<1> QED BY <1>4, Zenon

\* What holds at 0, and at k where it holds at k - 1, holds up to n.
LEMMA UpTo ==
    ASSUME NEW T, NEW n \in Nat, 0 \in T, \A k \in 1 .. n : k - 1 \in T => k \in T
    PROVE  \A k \in 0 .. n : k \in T
<1> DEFINE U == {k \in 0 .. n : k \notin T}
<1>1. SUFFICES ASSUME U # {} PROVE FALSE
  OBVIOUS
<1>2. PICK x \in U : \A y \in U : x <= y
  <2>1. U \subseteq Nat /\ U # {}
    BY <1>1
  <2> HIDE DEF U
  <2> QED BY <2>1, LeastElement
<1>3. x # 0 /\ x \in 1 .. n /\ x - 1 \in 0 .. n
  BY <1>2
<1>4. x - 1 \in T
  BY <1>2, <1>3
<1> QED BY <1>2, <1>3, <1>4

\* The walk along list l, of n steps.
IsWalk(g, l, n) ==
    g = [k \in 0 .. n |-> IF k = 0 THEN ll.head[l]
                          ELSE IF g[k - 1] = NULL THEN NULL ELSE ll.next[g[k - 1]]]

\* A list can be followed for any number of steps.
LEMMA WalkExists ==
    ASSUME NEW l, NEW n \in Nat
    PROVE  \E g : IsWalk(g, l, n)
<1> DEFINE T == {m \in Nat : \E g : IsWalk(g, l, m)}
           On(x) == IF x = NULL THEN NULL ELSE ll.next[x]
<1>1. 0 \in T
  <2> DEFINE g == [k \in 0 .. 0 |-> ll.head[l]]
  <2>1. IsWalk(g, l, 0)
    BY DEF IsWalk
  <2> QED BY <2>1
<1>2. ASSUME NEW m \in 1 .. n, m - 1 \in T PROVE m \in T
  <2>1. PICK g : IsWalk(g, l, m - 1)
    BY <1>2
  <2> DEFINE h == [k \in 0 .. m |-> IF k = m THEN On(g[m - 1]) ELSE g[k]]
  <2>2. \A k \in 0 .. m - 1 : h[k] = g[k] /\ g[k] = IF k = 0 THEN ll.head[l] ELSE On(g[k - 1])
    BY <2>1 DEF IsWalk
  <2>3. h[m] = On(g[m - 1]) /\ DOMAIN h = 0 .. m
    OBVIOUS
  <2>4. \A k \in 1 .. m : h[k - 1] = g[k - 1]
    BY <2>2
  <2>5. ASSUME NEW k \in 0 .. m PROVE h[k] = IF k = 0 THEN ll.head[l] ELSE On(h[k - 1])
    <3>1. CASE k = m
      BY <2>3, <2>4, <3>1
    <3>2. CASE k # m
      <4>1. k \in 0 .. m - 1
        BY <3>2
      <4>2. CASE k = 0
        BY <2>2, <4>1, <4>2
      <4>3. CASE k # 0
        <5>1. k \in 1 .. m
          BY <4>3
        <5> HIDE DEF h
        <5> QED BY <2>2, <2>4, <4>1, <4>3, <5>1
      <4> QED BY <4>2, <4>3
    <3> QED BY <3>1, <3>2
  <2>6. h = [k \in 0 .. m |-> h[k]]
    OBVIOUS
  <2> HIDE DEF h
  <2>7. IsWalk(h, l, m)
    BY <2>5, <2>6 DEF IsWalk
  <2> QED BY <2>7
<1> HIDE DEF T
<1>3. n \in T
  BY <1>1, <1>2, UpTo
<1> QED BY <1>3 DEF T

\* Walk(l) is what that walk meets.
LEMMA WalkSteps ==
    ASSUME NEW l
    PROVE  \E g : /\ Walk(l) = {g[k] : k \in 0 .. SliceCount} \ {NULL}
                  /\ g[0] = ll.head[l]
                  /\ \A k \in 1 .. SliceCount :
                        g[k] = IF g[k - 1] = NULL THEN NULL ELSE ll.next[g[k - 1]]
<1> DEFINE g == CHOOSE g : IsWalk(g, l, SliceCount)
<1>1. Walk(l) = {g[k] : k \in 0 .. SliceCount} \ {NULL}
  BY DEF Walk, IsWalk
<1>2. IsWalk(g, l, SliceCount)
  BY WalkExists, SizesAssumption
<1> HIDE DEF g
<1>3. /\ g[0] = ll.head[l]
      /\ \A k \in 1 .. SliceCount : g[k] = IF g[k - 1] = NULL THEN NULL ELSE ll.next[g[k - 1]]
  <2>1. 0 \in 0 .. SliceCount /\ \A k \in 1 .. SliceCount : k \in 0 .. SliceCount /\ k # 0
    BY SizesAssumption
  <2>2. \A k \in 0 .. SliceCount :
           g[k] = IF k = 0 THEN ll.head[l]
                  ELSE IF g[k - 1] = NULL THEN NULL ELSE ll.next[g[k - 1]]
    BY <1>2, Zenon DEF IsWalk
  <2> QED BY <2>1, <2>2
<1> QED BY <1>1, <1>3

\* Along lists without a ring a walk meets every slice of its list, and no other.
LEMMA WalkFinds ==
    ASSUME NEW where \in PlacesType, ll \in LinksType, WellLinked(ll, where), Acyclic(ll),
           NEW l \in Lists
    PROVE  Walk(l) = {s \in Slices : where[s] = l}
<1> DEFINE N == SliceCount
           S == {s \in Slices : where[s] = l}
<1>0. /\ N \in Nat /\ N > 0 /\ NULL \notin Slices /\ Slices = 0 .. N - 1
      /\ ll.next \in [Slices -> Slices \cup {NULL}] /\ ll.prev \in [Slices -> Slices \cup {NULL}]
      /\ ll.head[l] \in Slices \cup {NULL} /\ l # "none"
  BY SizesAssumption, NullIsNoSlice, NoneIsNoList DEF LinksType, Slices
<1>1. PICK g : /\ Walk(l) = {g[k] : k \in 0 .. N} \ {NULL}
               /\ g[0] = ll.head[l]
               /\ \A k \in 1 .. N : g[k] = IF g[k - 1] = NULL THEN NULL ELSE ll.next[g[k - 1]]
  BY WalkSteps
<1>2. PICK b \in Nat : \E rank \in [Slices -> 0 .. b] : Falls(ll, rank)
  BY DEF Acyclic
<1>3. PICK rank \in [Slices -> 0 .. b] : Falls(ll, rank)
  BY <1>2
<1>4. \A s \in S : ll.next[s] # NULL => ll.next[s] \in S
  BY <1>0 DEF WellLinked
<1>5. ll.head[l] # NULL => ll.head[l] \in S
  BY <1>0 DEF WellLinked
<1> HIDE DEF N
<1>6. \A k \in 0 .. N : g[k] # NULL => g[k] \in S
  <2> DEFINE T == {k \in Nat : g[k] # NULL => g[k] \in S}
  <2>1. 0 \in T
    BY <1>1, <1>5
  <2>2. ASSUME NEW k \in 1 .. N, k - 1 \in T PROVE k \in T
    <3>1. k \in Nat
      BY <1>0
    <3> HIDE DEF S
    <3> QED BY <1>1, <1>4, <2>2, <3>1
  <2> HIDE DEF T
  <2>3. \A k \in 0 .. N : k \in T
    BY <1>0, <2>1, <2>2, UpTo
  <2> QED BY <2>3 DEF T
<1>7. Walk(l) \subseteq S
  BY <1>1, <1>6
<1>8. g[N] = NULL
  <2> SUFFICES ASSUME g[N] # NULL PROVE FALSE
    OBVIOUS
  <2>1. \A k \in 0 .. N : g[k] # NULL
    <3> DEFINE T == {k \in Nat : k <= N => g[N - k] # NULL}
    <3>1. 0 \in T
      BY <1>0
    <3>2. ASSUME NEW k \in 1 .. N, k - 1 \in T PROVE k \in T
      <4>1. N - (k - 1) \in 1 .. N /\ (N - (k - 1)) - 1 = N - k /\ k \in Nat /\ k - 1 <= N
        BY <1>0
      <4>2. g[N - (k - 1)] # NULL
        BY <3>2, <4>1
      <4> QED BY <1>1, <4>1, <4>2
    <3> HIDE DEF T
    <3>3. \A k \in 0 .. N : k \in T
      BY <1>0, <3>1, <3>2, UpTo
    <3>4. ASSUME NEW k \in 0 .. N PROVE g[k] # NULL
      <4>1. N - k \in 0 .. N /\ N - (N - k) = k /\ N - k <= N
        BY <1>0
      <4>2. N - k \in T
        BY <3>3, <4>1
      <4> QED BY <4>1, <4>2 DEF T
    <3> QED BY <3>4
  <2>2. \A k \in 0 .. N : g[k] \in Slices /\ rank[g[k]] \in Int
    BY <1>6, <2>1
  <2>3. \A k \in 1 .. N : rank[g[k]] < rank[g[k - 1]]
    <3>1. ASSUME NEW k \in 1 .. N PROVE rank[g[k]] < rank[g[k - 1]]
      <4>1. k \in 0 .. N /\ k - 1 \in 0 .. N
        BY <1>0
      <4>2. g[k] = ll.next[g[k - 1]] /\ g[k - 1] \in Slices /\ ll.next[g[k - 1]] # NULL
        BY <1>1, <2>1, <2>2, <4>1
      <4> QED BY <1>3, <4>2 DEF Falls
    <3> QED BY <3>1
  <2>4. ASSUME NEW i \in 0 .. N, NEW j \in 0 .. N, i < j PROVE rank[g[j]] < rank[g[i]]
    <3> DEFINE T == {k \in Nat : i < k => rank[g[k]] < rank[g[i]]}
    <3>1. 0 \in T
      BY <1>0
    <3>2. ASSUME NEW k \in 1 .. N, k - 1 \in T PROVE k \in T
      <4>1. k \in Nat /\ k \in 0 .. N /\ k - 1 \in 0 .. N /\ k - 1 \in Nat
        BY <1>0
      <4>2. rank[g[k]] < rank[g[k - 1]]
        BY <2>3
      <4>3. rank[g[k]] \in Int /\ rank[g[k - 1]] \in Int /\ rank[g[i]] \in Int
        BY <2>2, <4>1
      <4>4. CASE i < k - 1
        <5>1. rank[g[k - 1]] < rank[g[i]]
          BY <3>2, <4>4
        <5>2. rank[g[k]] < rank[g[i]]
          BY ONLY <4>2, <4>3, <5>1
        <5> QED BY <4>1, <5>2
      <4>5. CASE i = k - 1
        BY <4>1, <4>2, <4>5
      <4>6. CASE i > k - 1
        <5>1. ~(i < k)
          BY <1>0, <4>1, <4>6
        <5> QED BY <4>1, <5>1
      <4> QED BY <1>0, <4>1, <4>4, <4>5, <4>6
    <3> HIDE DEF T
    <3>3. j \in T
      BY <1>0, <3>1, <3>2, UpTo
    <3> QED BY <2>4, <3>3 DEF T
  <2> DEFINE f == [k \in 0 .. N |-> g[k]]
             D == 0 .. N
  <2>5. f \in [D -> Slices] /\ \A k \in D : f[k] = g[k]
    BY <2>2
  <2>6. IsFiniteSet(D) /\ IsFiniteSet(Slices) /\ Cardinality(Slices) < Cardinality(D)
    <3>1. IsFiniteSet(0 .. N) /\ Cardinality(0 .. N) = N + 1
      <4>1. 0 \in Int /\ N \in Int /\ ~(0 > N) /\ N - 0 + 1 = N + 1
        BY <1>0
      <4> QED BY <4>1, FS_Interval
    <3>2. IsFiniteSet(0 .. N - 1) /\ Cardinality(0 .. N - 1) = N
      <4> DEFINE M == N - 1
      <4>1. 0 \in Int /\ M \in Int /\ ~(0 > M) /\ M - 0 + 1 = N
        BY <1>0
      <4> HIDE DEF M
      <4>2. IsFiniteSet(0 .. M) /\ Cardinality(0 .. M) = N
        BY <4>1, FS_Interval
      <4> QED BY <4>2 DEF M
    <3> QED BY <1>0, <3>1, <3>2
  <2> HIDE DEF f, D
  <2>7. PICK i, j \in D : i # j /\ f[i] = f[j]
    BY <2>5, <2>6, FS_PigeonHole
  <2>8. i \in 0 .. N /\ j \in 0 .. N /\ g[i] = g[j] /\ rank[g[i]] \in Int /\ (i < j \/ j < i)
    <3>1. i \in 0 .. N /\ j \in 0 .. N /\ f[i] = g[i] /\ f[j] = g[j]
      BY <2>5 DEF D
    <3>2. \A x, y \in Int : x # y => x < y \/ y < x
      OBVIOUS
    <3>3. i \in Int /\ j \in Int
      BY <1>0, <3>1
    <3>4. i < j \/ j < i
      BY <2>7, <3>2, <3>3
    <3> QED BY <2>2, <2>7, <3>1, <3>4
  <2>9. rank[g[j]] < rank[g[i]] \/ rank[g[i]] < rank[g[j]]
    BY <2>4, <2>8
  <2> QED BY ONLY <2>8, <2>9
<1>9. S \subseteq Walk(l)
  <2> DEFINE Lost == {b - rank[s] : s \in S \ Walk(l)}
  <2> SUFFICES ASSUME S \ Walk(l) # {} PROVE FALSE
    OBVIOUS
  <2>1. \A s \in Slices : rank[s] \in Nat /\ b - rank[s] \in Nat
    OBVIOUS
  <2>2. Lost \subseteq Nat /\ Lost # {}
    BY <2>1
  <2>3. PICK x \in Lost : \A y \in Lost : x <= y
    <3> HIDE DEF Lost
    <3> QED BY <2>2, LeastElement
  <2>4. PICK s \in S \ Walk(l) : x = b - rank[s]
    BY <2>3
  <2> DEFINE p == ll.prev[s]
  <2>5. p # NULL
    <3> SUFFICES ASSUME p = NULL PROVE FALSE
      OBVIOUS
    <3>1. ll.head[l] = s
      BY <1>0 DEF WellLinked
    <3>2. 0 \in 0 .. N /\ s # NULL
      BY <1>0
    <3> QED BY <1>1, <2>4, <3>1, <3>2
  <2>6. p \in Slices /\ ll.next[p] = s /\ where[p] = l /\ s \in Slices /\ s # NULL
    BY <1>0, <2>5 DEF WellLinked
  <2> HIDE DEF p
  <2>7. p \notin Walk(l)
    <3> SUFFICES ASSUME p \in Walk(l) PROVE FALSE
      OBVIOUS
    <3>1. PICK k \in 0 .. N : g[k] = p /\ p # NULL
      BY <1>1
    <3>2. k # N /\ k + 1 \in 1 .. N /\ (k + 1) - 1 = k /\ k + 1 \in 0 .. N
      BY <1>0, <1>8, <3>1
    <3>3. g[k + 1] = s
      BY <1>1, <2>6, <3>1, <3>2
    <3> QED BY <1>1, <2>4, <2>6, <3>2, <3>3
  <2>8. p \in S \ Walk(l) /\ rank[s] < rank[p]
    BY <1>3, <2>6, <2>7 DEF Falls
  <2>9. x <= b - rank[p]
    BY <2>3, <2>8
  <2>10. rank[s] \in Int /\ rank[p] \in Int
    BY <2>1, <2>6
  <2> QED BY ONLY b \in Nat, <2>4, <2>8, <2>9, <2>10
<1> QED BY <1>7, <1>9

\* Following a list of pmm.c from its head finds every slice that belongs on it, and no
\* other, whatever was allocated and freed before.
THEOREM NoSliceEverLost == Spec => []NoSliceLost
<1>1. Init => NoRing
  BY InitNoRing
<1>2. IInv /\ NoRing /\ [Next]_vars => NoRing'
  BY NextNoRing
<1>3. IInv /\ NoRing => NoSliceLost
  <2> SUFFICES ASSUME IInv, NoRing, status # "fault", NEW l \in Lists
               PROVE  Walk(l) = {s \in Slices : ListOf[s] = l}
    BY DEF NoSliceLost
  <2>1. ll \in LinksType /\ WellLinked(ll, ListOf) /\ ListOf \in PlacesType /\ Acyclic(ll)
    BY LinksNow DEF NoRing
  <2> QED BY <2>1, WalkFinds
<1> QED BY <1>1, <1>2, <1>3, InductiveInvariant, PTL DEF Spec

=============================================================================
