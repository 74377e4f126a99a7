---------------------------- MODULE LinkedList ----------------------------
(***************************************************************************)
(* ds/vp_singly_linked_list.c, link by link, and one iterator over it.     *)
(***************************************************************************)
EXTENDS Integers, FiniteSets, SequencesExt

CONSTANTS Link,     \* the addresses of links
          Datum,    \* what the data pointers point to
          Null

ASSUME LinkedListAssumption == IsFiniteSet(Link) /\ Null \notin Link

VARIABLES sll,      \* head and length
          link,     \* next and data of the links that are allocated
          iter,     \* an iterator, NULL when it is at the end
          removed,  \* ghost: the links that vpsll_remove took off the head
          items,    \* ghost: the data in the list, the head first
          sllStatus \* ok, freed, null_read or dangling

sllvars == <<sll, link, iter, removed, items, sllStatus>>

vpsll_create ==
    /\ sll = [head |-> Null, length |-> 0]
    /\ link = [l \in {} |-> Null]
    /\ iter = Null
    /\ removed = {}
    /\ items = <<>>
    /\ sllStatus = "ok"

\* The links from l on, as vpslli_next goes through them.
From(l) ==
    LET walk[n \in 0..Cardinality(Link) + 1] ==
            IF n = 0 THEN <<>>
            ELSE LET done == walk[n - 1]
                     next == IF done = <<>> THEN l
                             ELSE IF Last(done) \in DOMAIN link THEN link[Last(done)].next
                             ELSE Null
                 IN  IF next = Null THEN done ELSE Append(done, next)
    IN  walk[Cardinality(Link) + 1]
Chain == From(sll.head)

Freed(l) == Restrict(link, DOMAIN link \ {l})

vpsll_push(l, d) ==
    /\ sllStatus = "ok" /\ l \notin DOMAIN link
    /\ link' = [x \in DOMAIN link \cup {l} |->
                 IF x = l THEN [next |-> sll.head, data |-> d] ELSE link[x]]
    /\ sll' = [head |-> l, length |-> sll.length + 1]
    /\ items' = <<d>> \o items
    /\ UNCHANGED <<iter, removed, sllStatus>>

\* An empty list is not tested for.
vpsll_pop ==
    /\ sllStatus = "ok"
    /\ \/ /\ sll.head # Null
          /\ sll' = [head |-> link[sll.head].next, length |-> sll.length - 1]
          /\ link' = Freed(sll.head)
          /\ items' = Tail(items)
          /\ UNCHANGED sllStatus
       \/ /\ sll.head = Null
          /\ sllStatus' = "null_read" /\ UNCHANGED <<sll, link, items>>
    /\ UNCHANGED <<iter, removed>>

\* Mutant: the link is freed before its successor is linked to the one before.
RemoveLink_cut(i) ==
    IF i = 1
    THEN /\ sll' = [head |-> link[Chain[1]].next, length |-> sll.length - 1]
         /\ removed' = removed \cup {Chain[1]}
         /\ UNCHANGED link
    ELSE /\ sll' = [sll EXCEPT !.length = @ - 1]
         /\ link' = Freed(Chain[i])
         /\ UNCHANGED removed

\* The head is taken off without being freed.
RemoveLink(i) ==
    IF i = 1
    THEN /\ sll' = [head |-> link[Chain[1]].next, length |-> sll.length - 1]
         /\ removed' = removed \cup {Chain[1]}
         /\ UNCHANGED link
    ELSE /\ sll' = [sll EXCEPT !.length = @ - 1]
         /\ link' = Restrict([link EXCEPT ![Chain[i - 1]].next = link[Chain[i]].next],
                             DOMAIN link \ {Chain[i]})
         /\ UNCHANGED removed

vpsll_remove(d) ==
    /\ sllStatus = "ok"
    /\ LET i == SelectInSeq(Chain, LAMBDA l : link[l].data = d) IN
         /\ i # 0
         /\ RemoveLink(i)
         /\ items' = RemoveFirst(items, d)
    /\ UNCHANGED <<iter, sllStatus>>

\* vpsll_set returns NULL beyond the end.
vpsll_set(index, d) ==
    /\ sllStatus = "ok" /\ index < Len(Chain)
    /\ link' = [link EXCEPT ![Chain[index + 1]].data = d]
    /\ items' = [items EXCEPT ![index + 1] = d]
    /\ UNCHANGED <<sll, iter, removed, sllStatus>>

\* __link_at_index is NULL beyond the end, which vpsll_get reads through.
vpsll_get(index) ==
    /\ sllStatus = "ok" /\ index >= Len(Chain)
    /\ sllStatus' = "null_read"
    /\ UNCHANGED <<sll, link, iter, removed, items>>

vpslli_create ==
    /\ sllStatus = "ok"
    /\ iter' = sll.head
    /\ UNCHANGED <<sll, link, removed, items, sllStatus>>

vpslli_next ==
    /\ sllStatus = "ok" /\ iter # Null
    /\ \/ /\ iter \in DOMAIN link
          /\ iter' = link[iter].next /\ UNCHANGED sllStatus
       \/ /\ iter \notin DOMAIN link
          /\ sllStatus' = "dangling" /\ UNCHANGED iter
    /\ UNCHANGED <<sll, link, removed, items>>

\* Every link that the head leads to, with its data.
vpsll_free ==
    /\ sllStatus = "ok"
    /\ link' = Restrict(link, DOMAIN link \ Range(Chain))
    /\ sllStatus' = "freed"
    /\ UNCHANGED <<sll, iter, removed, items>>

vpsll_contains(d) == \E i \in DOMAIN Chain : link[Chain[i]].data = d

LinkedListNext ==
    \/ \E l \in Link, d \in Datum : vpsll_push(l, d)
    \/ vpsll_pop \/ vpsll_free \/ vpslli_create \/ vpslli_next
    \/ \E d \in Datum : vpsll_remove(d)
    \/ \E i \in 0..Cardinality(Link), d \in Datum : vpsll_set(i, d) \/ vpsll_get(i)

\* The links from the head on are allocated, hold the data in order and are as
\* many as length says; a link that is allocated and not among them was taken off
\* the head by vpsll_remove, which does not free it.
ListHoldsItems ==
    sllStatus # "freed" =>
    /\ Range(Chain) \subseteq DOMAIN link
    /\ [i \in DOMAIN Chain |-> link[Chain[i]].data] = items
    /\ sll.length = Len(Chain)
    /\ DOMAIN link = Range(Chain) \cup removed
    /\ \A d \in Datum : vpsll_contains(d) <=> Contains(items, d)

\* vpsll_free frees every link but those that vpsll_remove has lost.
ListFreed == sllStatus = "freed" => DOMAIN link = removed
=============================================================================
