------------------------------ MODULE MinQueue ------------------------------
(***************************************************************************)
(* What the priority queue promises (priority_queue.h): "The element with  *)
(* the lowest priority value will get dequeued first. Supports duplicate   *)
(* priorities."                                                            *)
(***************************************************************************)
EXTENDS Integers

CONSTANTS Item,        \* what is queued
          Priority,    \* the priorities
          None         \* no item

VARIABLES queued,      \* the priority of every item in the queue
          returned     \* what the last operation returned

Init == queued = [n \in {} |-> 0] /\ returned = None

Put(n, p) ==
    /\ n \notin DOMAIN queued
    /\ queued' = [m \in DOMAIN queued \cup {n} |-> IF m = n THEN p ELSE queued[m]]
    /\ returned' = None

TakeOut(n) ==
    /\ n \in DOMAIN queued
    /\ queued' = [m \in DOMAIN queued \ {n} |-> queued[m]]

\* The item that is returned has the lowest priority of all.
TakeFirst(n) ==
    /\ TakeOut(n)
    /\ \A m \in DOMAIN queued : queued[n] <= queued[m]
    /\ returned' = n

\* The caller chooses what to take out.
Cancel(n) == TakeOut(n) /\ returned' = None

Next ==
    \/ \E n \in Item, p \in Priority : Put(n, p)
    \/ \E n \in Item : TakeFirst(n) \/ Cancel(n)
    \/ UNCHANGED queued /\ returned' = None

Spec == Init /\ [][Next]_<<queued, returned>>
=============================================================================
