---------------------------- MODULE TmpfsProofs ----------------------------
(***************************************************************************)
(* Proofs about the file system: the list of inodes, the tree and the      *)
(* reference counts agree, files hold what is written to them, and the     *)
(* path of an entry finds it, whichever allocations fail.                  *)
(***************************************************************************)
EXTENDS Tmpfs, FiniteSetTheorems, SequenceTheorems, NaturalsInduction, WellFoundedInduction,
        TLAPS

NodeRecord ==
    [type : {"FILE", "DIRECTORY"}, name : Name \cup {<<>>}, parent : Node \cup {NULL},
     children : Seq(Node), room : Nat, refcount : Nat, length : Nat,
     array : Seq(Byte \cup {Unwritten})]

FileRecord == [dentry : Node, file_position : Nat]

\* The types, with what the entries of a directory, the list and the Files refer to.
Typed ==
    /\ node \in Seq(NodeRecord) /\ Len(node) <= MaxNodes
    /\ \A n \in DOMAIN node : /\ Range(node[n].children) \subseteq DOMAIN node
                              /\ node[n].parent \in DOMAIN node \cup {NULL}
    /\ list \in Seq(Node) /\ Range(list) \subseteq DOMAIN node
    /\ file \in [Handle -> FileRecord \cup {NULL}]
    /\ \A f \in Handle : file[f] # NULL => file[f].dentry \in DOMAIN node
    /\ fs \in [size : Nat, filled : Nat]
    /\ live \subseteq DOMAIN node /\ null \subseteq DOMAIN node /\ cut \subseteq DOMAIN node
    /\ ret \in {"none", "null", "pointer"}
    /\ err \in {"OK", "ERR_NOT_DIR", "ERR_EXISTS", "ERR_ALLOC_FAILED", "ERR_NO_PARENT"}
    /\ status \in {"ok", "freed", "null_read", "null_write", "listed_file",
                   "dangling", "overrun"}
    /\ content \in [Node -> Seq(Byte)] /\ written \in 0..MaxWritten

\* A set that holds the root, and with a directory all that was put into it.
HoldsAll(S) == root \in S /\ \A p \in S : Range(node[p].children) \subseteq S

\* An entry was put into the directory that its parent field names, and it is listed
\* unless its creation failed. Every set that holds the tree holds what is listed.
Linked ==
    /\ node = <<>> => list = <<>>
    /\ node # <<>> => root \in Range(list) /\ node[root].parent = NULL
    /\ IsInjective(list)
    /\ \A p \in DOMAIN node : IsInjective(node[p].children)
    /\ \A p, n \in DOMAIN node : n \in Range(node[p].children) <=> node[n].parent = p
    /\ \A n \in DOMAIN node : n \in Range(list) <=> n = root \/ node[n].parent # NULL
    /\ \A S \in SUBSET DOMAIN node : HoldsAll(S) => Range(list) \subseteq S

\* Until vfs_free every inode is allocated, and afterwards those that are not listed.
Allocated ==
    /\ status = "ok" => live = DOMAIN node
    /\ status = "freed" => live = DOMAIN node \ Range(list)

TreeInv == Typed /\ Linked /\ Allocated /\ RefcountsMatchHandles /\ RegisterHasRoom

-----------------------------------------------------------------------------
(* Sequences.                                                              *)

\* Appending adds one element to the range and keeps the others in their places.
LEMMA AppendFacts ==
    ASSUME NEW S, NEW s \in Seq(S), NEW e \in S
    PROVE  /\ Append(s, e) \in Seq(S) /\ Len(Append(s, e)) = Len(s) + 1
           /\ DOMAIN Append(s, e) = 1..Len(s) + 1
           /\ \A i \in 1..Len(s) : Append(s, e)[i] = s[i]
           /\ Append(s, e)[Len(s) + 1] = e
           /\ DOMAIN s = 1..Len(s) /\ Len(s) \in Nat
OBVIOUS

\* Appending an element to a list adds it to the elements.
LEMMA AppendRange ==
    ASSUME NEW S, NEW s \in Seq(S), NEW e \in S
    PROVE  Range(Append(s, e)) = Range(s) \cup {e}
<1> DEFINE t == Append(s, e)
<1>1. /\ DOMAIN t = 1..Len(s) + 1
      /\ \A i \in 1..Len(s) : t[i] = s[i]
      /\ t[Len(s) + 1] = e
      /\ DOMAIN s = 1..Len(s) /\ Len(s) \in Nat
  BY AppendFacts
<1> HIDE DEF t
<1>2. ASSUME NEW x \in Range(t) PROVE x \in Range(s) \cup {e}
  <2>1. PICK i \in DOMAIN t : x = t[i]
    BY DEF Range
  <2>2. CASE i \in 1..Len(s)
    BY <1>1, <2>1, <2>2 DEF Range
  <2>3. CASE i \notin 1..Len(s)
    BY <1>1, <2>1, <2>3
  <2> QED BY <2>2, <2>3
<1>3. ASSUME NEW x \in Range(s) PROVE x \in Range(t)
  <2>1. PICK i \in DOMAIN s : x = s[i]
    BY DEF Range
  <2>2. i \in DOMAIN t /\ t[i] = x
    BY <1>1, <2>1
  <2> QED BY <2>2 DEF Range
<1>4. e \in Range(t)
  <2>1. Len(s) + 1 \in DOMAIN t
    BY <1>1
  <2> QED BY <1>1, <2>1 DEF Range
<1> QED BY <1>2, <1>3, <1>4 DEF t

\* A list without repetitions has an element at one place.
LEMMA NoTwice ==
    ASSUME NEW s, IsInjective(s), NEW i \in DOMAIN s, NEW j \in DOMAIN s, s[i] = s[j]
    PROVE  i = j
BY DEF IsInjective

\* Appending a new element to a list without repetitions causes none.
LEMMA AppendNoTwice ==
    ASSUME NEW S, NEW s \in Seq(S), NEW e \in S, IsInjective(s), e \notin Range(s),
           NEW t, t = Append(s, e)
    PROVE  IsInjective(t)
<1>1. /\ DOMAIN t = 1..Len(s) + 1
      /\ \A i \in 1..Len(s) : t[i] = s[i]
      /\ t[Len(s) + 1] = e
      /\ DOMAIN s = 1..Len(s) /\ Len(s) \in Nat
  BY AppendFacts
<1>2. \A i \in 1..Len(s) : s[i] # e
  BY <1>1 DEF Range
<1>3. SUFFICES ASSUME NEW i \in DOMAIN t, NEW j \in DOMAIN t, t[i] = t[j]
               PROVE  i = j
  BY DEF IsInjective
<1>4. CASE i \in 1..Len(s) /\ j \in 1..Len(s)
  BY <1>1, <1>3, <1>4, NoTwice
<1>5. CASE i \in 1..Len(s) /\ j \notin 1..Len(s)
  BY <1>1, <1>2, <1>3, <1>5
<1>6. CASE i \notin 1..Len(s) /\ j \in 1..Len(s)
  BY <1>1, <1>2, <1>3, <1>6
<1>7. CASE i \notin 1..Len(s) /\ j \notin 1..Len(s)
  BY <1>1, <1>7
<1> QED BY <1>4, <1>5, <1>6, <1>7

\* The types of one node.
LEMMA NodeFacts ==
    ASSUME Typed, NEW n \in DOMAIN node
    PROVE  /\ n \in Nat /\ n \in 1..Len(node) /\ n \in Node
           /\ node[n] \in NodeRecord
           /\ node[n].children \in Seq(Node) /\ node[n].array \in Seq(Byte \cup {Unwritten})
           /\ node[n].refcount \in Nat /\ node[n].length \in Nat
<1>1. node \in Seq(NodeRecord) /\ Len(node) \in Nat /\ Len(node) <= MaxNodes /\ DOMAIN node = 1..Len(node)
  BY DEF Typed
<1>2. node[n] \in NodeRecord
  BY <1>1
<1>3. n \in Nat /\ n \in 1..Len(node) /\ n \in Node
  BY <1>1, TmpfsAssumption DEF Node
<1>4. /\ node[n].children \in Seq(Node) /\ node[n].array \in Seq(Byte \cup {Unwritten})
      /\ node[n].refcount \in Nat /\ node[n].length \in Nat
  BY ONLY <1>2 DEF NodeRecord
<1> QED BY <1>2, <1>3, <1>4

\* The smaller and the larger of two numbers.
LEMMA OfTwo ==
    ASSUME NEW a \in Int, NEW b \in Int
    PROVE  /\ Min({a, b}) = IF a <= b THEN a ELSE b
           /\ Max({a, b}) = IF a <= b THEN b ELSE a
<1>1. Min({a, b}) \in {a, b} /\ Min({a, b}) <= a /\ Min({a, b}) <= b
  <2>1. \E x \in {a, b} : \A y \in {a, b} : x <= y
    OBVIOUS
  <2>2. Min({a, b}) \in {a, b} /\ \A y \in {a, b} : Min({a, b}) <= y
    BY <2>1 DEF Min
  <2> QED BY <2>2
<1>2. Max({a, b}) \in {a, b} /\ Max({a, b}) >= a /\ Max({a, b}) >= b
  <2>1. \E x \in {a, b} : \A y \in {a, b} : x >= y
    OBVIOUS
  <2>2. Max({a, b}) \in {a, b} /\ \A y \in {a, b} : Max({a, b}) >= y
    BY <2>1 DEF Max
  <2> QED BY <2>2
<1> QED BY <1>1, <1>2

\* Steps on which an allocation fails, and nothing is made.
Failed == NullWrite \/ NotAllocated

\* What tmpfs_create leaves otherwise: one node more, and in the directory one entry more.
Created(type, parent, name) ==
    LET n == Len(node) + 1 IN
    /\ node' \in Seq(NodeRecord) /\ Len(node') = n /\ n \in Node /\ Len(node) \in Nat
    /\ DOMAIN node = 1..Len(node) /\ DOMAIN node' = 1..n
    /\ parent \in DOMAIN node
    /\ \A m \in DOMAIN node : m # parent => node'[m] = node[m]
    /\ node'[parent].type = node[parent].type
    /\ node'[parent].parent = node[parent].parent
    /\ node'[parent].refcount = node[parent].refcount
    /\ node'[parent].length = node[parent].length
    /\ node'[parent].array = node[parent].array
    /\ node[parent].type = "DIRECTORY" =>
         /\ node'[parent].children = Append(node[parent].children, n)
         /\ node'[n] = create_inode_base(type, name, parent)
         /\ list' = Append(list, n) /\ err' = "OK"
    /\ node[parent].type # "DIRECTORY" =>
         /\ node'[parent] = node[parent]
         /\ node'[n] = create_inode_base(type, name, NULL)
         /\ list' = list /\ err' = "ERR_NOT_DIR"
    /\ live' = live \cup {n} /\ null' \subseteq DOMAIN node'
    /\ ret' \in {"null", "pointer"}
    /\ UNCHANGED <<file, fs, status, content, cut, written>>

\* What pushing an entry makes of a directory.
LEMMA PushedFacts ==
    ASSUME NEW d \in NodeRecord, NEW n \in Node
    PROVE  /\ Pushed(d, n) \in NodeRecord
           /\ Pushed(d, n).children = Append(d.children, n)
           /\ Pushed(d, n).type = d.type /\ Pushed(d, n).parent = d.parent
           /\ Pushed(d, n).refcount = d.refcount /\ Pushed(d, n).length = d.length
           /\ Pushed(d, n).array = d.array
<1> DEFINE room == IF Len(d.children) + 1 < d.room THEN d.room
                   ELSE d.room + Max({d.room \div 4, 2})
           ch == Append(d.children, n)
<1>1. d.room \in Nat /\ d.children \in Seq(Node)
  BY DEF NodeRecord
<1>2. ch \in Seq(Node)
  BY <1>1, AppendFacts
<1>3. room \in Nat
  <2>1. d.room \div 4 \in Nat
    BY <1>1
  <2>2. Max({d.room \div 4, 2}) \in {d.room \div 4, 2}
    <3> DEFINE q == d.room \div 4
    <3>1. q \in Int /\ 2 \in Int
      BY <2>1
    <3> HIDE DEF q
    <3>2. Max({q, 2}) = IF q <= 2 THEN 2 ELSE q
      BY <3>1, OfTwo
    <3> QED BY <3>2 DEF q
  <2>3. Max({d.room \div 4, 2}) \in Nat
    BY <2>1, <2>2
  <2> QED BY <1>1, <2>3
<1>4. Pushed(d, n) = [d EXCEPT !.children = ch, !.room = room]
  BY DEF Pushed
<1> HIDE DEF ch, room
<1>5. /\ Pushed(d, n) \in NodeRecord /\ Pushed(d, n).children = ch
      /\ Pushed(d, n).type = d.type /\ Pushed(d, n).parent = d.parent
      /\ Pushed(d, n).refcount = d.refcount /\ Pushed(d, n).length = d.length
      /\ Pushed(d, n).array = d.array
  BY <1>2, <1>3, <1>4 DEF NodeRecord
<1> QED BY <1>5 DEF ch

\* The record of a new inode.
LEMMA NewInode ==
    ASSUME NEW type \in {"FILE", "DIRECTORY"}, NEW name \in Name \cup {<<>>},
           NEW parent \in Node \cup {NULL}
    PROVE  /\ create_inode_base(type, name, parent) \in NodeRecord
           /\ create_inode_base(type, name, parent).type = type
           /\ create_inode_base(type, name, parent).parent = parent
           /\ create_inode_base(type, name, parent).children = <<>>
           /\ create_inode_base(type, name, parent).refcount = 0
           /\ create_inode_base(type, name, parent).length = 0
<1> DEFINE a == IF type = "FILE"
                THEN [i \in 1..TMPFS_DEFAULT_FILE_ALLOC_SIZE |-> Unwritten]
                ELSE <<>>
           k == IF type = "FILE" THEN 0 ELSE TMPFS_DEFAULT_DIR_ALLOC_SIZE
<1>1. a \in Seq(Byte \cup {Unwritten}) /\ k \in Nat
  BY TmpfsAssumption
<1> HIDE DEF a, k
<1>2. create_inode_base(type, name, parent) =
        [type |-> type, name |-> name, parent |-> parent, children |-> <<>>,
         room |-> k, refcount |-> 0, length |-> 0, array |-> a]
  BY DEF create_inode_base, a, k
<1>3. <<>> \in Seq(Node)
  OBVIOUS
<1> QED BY <1>1, <1>2, <1>3 DEF NodeRecord

\* tmpfs_create appends one node to the memory and links it from its parent and the list of inodes.
LEMMA CreateOutcome ==
    ASSUME Typed, NEW type \in {"FILE", "DIRECTORY"}, NEW name \in Name,
           NEW parent \in Range(list), tmpfs_create(type, parent, name)
    PROVE  Failed \/ Created(type, parent, name)
<1> SUFFICES ASSUME ~NullWrite, ~NotAllocated PROVE Created(type, parent, name)
  BY DEF Failed
<1> DEFINE n == Len(node) + 1
           base == create_inode_base(type, name, parent)
           made == Append(node, base)
<1>0. /\ node \in Seq(NodeRecord) /\ Len(node) \in Nat /\ DOMAIN node = 1..Len(node)
      /\ parent \in DOMAIN node /\ n \in Node /\ n \in Nat
  <2>1. node \in Seq(NodeRecord) /\ parent \in DOMAIN node
    BY DEF Typed
  <2>2. Len(node) < MaxNodes
    BY DEF tmpfs_create
  <2>3. Len(node) \in Nat /\ DOMAIN node = 1..Len(node)
    BY ONLY <2>1
  <2> QED BY <2>1, <2>2, <2>3, TmpfsAssumption DEF Node
<1>1. node[parent] \in NodeRecord /\ node[parent].children \in Seq(Node) /\ parent \in Node
  BY <1>0, NodeFacts
<1>2. base \in NodeRecord
  BY <1>1, NewInode
<1>3. /\ live' = live \cup {n}
      /\ \E failed \in SUBSET Asked(parent, n) : null' = null \cup failed
      /\ IF node[parent].type = "DIRECTORY"
         THEN /\ node' = [made EXCEPT ![parent] = Pushed(@, n)]
              /\ list' = Append(list, n)
              /\ err' = "OK" /\ ret' = "pointer"
         ELSE /\ node' = [made EXCEPT ![n].parent = NULL]
              /\ err' = "ERR_NOT_DIR" /\ ret' = "null"
              /\ list' = list
      /\ UNCHANGED <<file, fs, status, content, cut, written>>
  BY DEF tmpfs_create, vfs_add_inode
<1>9. null' \subseteq 1..n /\ ret' \in {"null", "pointer"}
  <2>1. null \subseteq DOMAIN node /\ Asked(parent, n) \subseteq 1..n
    BY <1>0 DEF Typed, Asked
  <2>2. ret' \in {"null", "pointer"}
    BY <1>3
  <2> QED BY <1>0, <1>3, <2>1, <2>2
<1>4. /\ made \in Seq(NodeRecord) /\ Len(made) = n /\ DOMAIN made = 1..n
      /\ \A i \in 1..Len(node) : made[i] = node[i]
      /\ made[n] = base
  BY <1>0, <1>2, AppendFacts
<1>5. [base EXCEPT !.parent = NULL] = create_inode_base(type, name, NULL)
  <2> DEFINE a == IF type = "FILE"
                  THEN [i \in 1..TMPFS_DEFAULT_FILE_ALLOC_SIZE |-> Unwritten]
                  ELSE <<>>
             k == IF type = "FILE" THEN 0 ELSE TMPFS_DEFAULT_DIR_ALLOC_SIZE
  <2>1. /\ base = [type |-> type, name |-> name, parent |-> parent, children |-> <<>>,
                   room |-> k, refcount |-> 0, length |-> 0, array |-> a]
        /\ create_inode_base(type, name, NULL) =
             [type |-> type, name |-> name, parent |-> NULL, children |-> <<>>,
              room |-> k, refcount |-> 0, length |-> 0, array |-> a]
    BY DEF create_inode_base
  <2> HIDE DEF a, k, base
  <2> QED BY <2>1
<1>6. create_inode_base(type, name, NULL) \in NodeRecord
  BY NewInode
<1> HIDE DEF made, base
<1>7. CASE node[parent].type = "DIRECTORY"
  <2> DEFINE dir == Pushed(node[parent], n)
  <2>1. /\ dir \in NodeRecord /\ dir.children = Append(node[parent].children, n)
        /\ dir.type = node[parent].type /\ dir.parent = node[parent].parent
        /\ dir.refcount = node[parent].refcount /\ dir.length = node[parent].length
        /\ dir.array = node[parent].array
    BY <1>0, <1>1, PushedFacts
  <2>2. node' = [made EXCEPT ![parent] = dir]
    BY <1>3, <1>4, <1>7, <1>0
  <2> HIDE DEF dir
  <2>3. /\ node' \in Seq(NodeRecord) /\ Len(node') = n /\ DOMAIN node' = 1..n
        /\ node'[parent] = dir
        /\ \A m \in 1..n : m # parent => node'[m] = made[m]
    BY <1>0, <1>4, <2>1, <2>2
  <2>4. node'[n] = base /\ \A m \in DOMAIN node : m # parent => node'[m] = node[m]
    BY <1>0, <1>4, <2>3
  <2> HIDE DEF n
  <2>5. /\ live' = live \cup {n} /\ list' = Append(list, n) /\ err' = "OK"
        /\ UNCHANGED <<file, fs, status, content, cut, written>>
    BY <1>3, <1>7
  <2> QED BY <1>0, <1>7, <1>9, <2>1, <2>3, <2>4, <2>5 DEF Created, base, n
<1>8. CASE node[parent].type # "DIRECTORY"
  <2> DEFINE new == create_inode_base(type, name, NULL)
  <2>2. node' = [made EXCEPT ![n] = new]
    BY <1>3, <1>4, <1>5, <1>8, <1>0
  <2> HIDE DEF new
  <2>3. /\ node' \in Seq(NodeRecord) /\ Len(node') = n /\ DOMAIN node' = 1..n
        /\ node'[n] = new
        /\ \A m \in 1..n : m # n => node'[m] = made[m]
    BY <1>0, <1>4, <1>6, <2>2 DEF new
  <2>4. \A m \in DOMAIN node : node'[m] = node[m]
    BY <1>0, <1>4, <2>3
  <2> HIDE DEF n
  <2>5. /\ live' = live \cup {n} /\ list' = list /\ err' = "ERR_NOT_DIR"
        /\ UNCHANGED <<file, fs, status, content, cut, written>>
    BY <1>3, <1>8
  <2> QED BY <1>0, <1>8, <1>9, <2>3, <2>4, <2>5 DEF Created, new, n
<1> QED BY <1>7, <1>8

-----------------------------------------------------------------------------
(* Steps that leave the tree as it is.                                     *)

\* The nodes are the same, with their entries and parents, and so is the list.
SameTree ==
    /\ node' \in Seq(NodeRecord) /\ Len(node') = Len(node)
    /\ \A n \in DOMAIN node : /\ node'[n].children = node[n].children
                              /\ node'[n].parent = node[n].parent
    /\ list' = list

\* A step that leaves the nodes and the list of inodes alone leaves the tree alone.
LEMMA UnchangedTree ==
    ASSUME Typed, node' = node, list' = list
    PROVE  SameTree
BY DEF Typed, SameTree

\* One node is replaced by a record with the same entries and the same parent.
LEMMA NodeReplaced ==
    ASSUME Typed, NEW n \in DOMAIN node, NEW r \in NodeRecord,
           r.children = node[n].children, r.parent = node[n].parent,
           node' = [node EXCEPT ![n] = r], list' = list
    PROVE  /\ SameTree /\ DOMAIN node' = DOMAIN node /\ node'[n] = r
           /\ \A m \in DOMAIN node : m # n => node'[m] = node[m]
<1>1. node \in Seq(NodeRecord) /\ DOMAIN node = 1..Len(node) /\ Len(node) \in Nat
  BY DEF Typed
<1>2. /\ node' \in Seq(NodeRecord) /\ Len(node') = Len(node) /\ DOMAIN node' = DOMAIN node
      /\ node'[n] = r /\ \A m \in DOMAIN node : m # n => node'[m] = node[m]
  BY <1>1
<1>3. ASSUME NEW m \in DOMAIN node
      PROVE  node'[m].children = node[m].children /\ node'[m].parent = node[m].parent
  <2>1. CASE m = n
    BY <1>2, <2>1
  <2>2. CASE m # n
    BY <1>2, <2>2
  <2> QED BY <2>1, <2>2
<1> QED BY <1>2, <1>3 DEF SameTree

\* A step that leaves the tree alone makes and loses no node.
LEMMA SameTreeDomain ==
    ASSUME Typed, SameTree
    PROVE  DOMAIN node' = DOMAIN node
BY DEF Typed, SameTree

\* A step that leaves the tree alone keeps its links right.
LEMMA SameTreeLinked ==
    ASSUME Typed, Linked, SameTree
    PROVE  Linked'
<1>1. /\ DOMAIN node' = DOMAIN node /\ list' = list
      /\ \A n \in DOMAIN node : /\ node'[n].children = node[n].children
                                /\ node'[n].parent = node[n].parent
  BY SameTreeDomain DEF SameTree
<1>2. (node' = <<>>) <=> (node = <<>>)
  BY DEF Typed, SameTree
<1>3. node' # <<>> => root \in DOMAIN node
  BY <1>2 DEF Typed, Linked
<1>4. ASSUME NEW S \in SUBSET DOMAIN node'
      PROVE  HoldsAll(S)' => Range(list') \subseteq S
  <2>1. S \in SUBSET DOMAIN node /\ \A p \in S : node'[p].children = node[p].children
    BY <1>1
  <2>2. HoldsAll(S)' => HoldsAll(S)
    BY <2>1 DEF HoldsAll
  <2>3. HoldsAll(S) => Range(list) \subseteq S
    BY <2>1 DEF Linked
  <2> QED BY <1>1, <2>2, <2>3
<1>5. /\ node' = <<>> => list' = <<>>
      /\ IsInjective(list')
  BY <1>1, <1>2 DEF Linked
<1>6. node' # <<>> => root \in Range(list') /\ node'[root].parent = NULL
  BY <1>1, <1>2, <1>3 DEF Linked
<1>7. /\ \A p \in DOMAIN node' : IsInjective(node'[p].children)
      /\ \A p, n \in DOMAIN node' : n \in Range(node'[p].children) <=> node'[n].parent = p
      /\ \A n \in DOMAIN node' : n \in Range(list') <=> n = root \/ node'[n].parent # NULL
  BY <1>1 DEF Linked
<1> QED BY <1>4, <1>5, <1>6, <1>7 DEF Linked

\* The parts of Typed about the tree.
TypedTree ==
    /\ node \in Seq(NodeRecord) /\ Len(node) <= MaxNodes
    /\ \A n \in DOMAIN node : /\ Range(node[n].children) \subseteq DOMAIN node
                              /\ node[n].parent \in DOMAIN node \cup {NULL}
    /\ list \in Seq(Node) /\ Range(list) \subseteq DOMAIN node

\* A step that leaves the tree alone keeps the types of its nodes.
LEMMA SameTreeTyped ==
    ASSUME Typed, SameTree
    PROVE  TypedTree'
<1>1. /\ DOMAIN node' = DOMAIN node /\ list' = list
      /\ node' \in Seq(NodeRecord) /\ Len(node') = Len(node)
      /\ \A n \in DOMAIN node : /\ node'[n].children = node[n].children
                                /\ node'[n].parent = node[n].parent
  BY SameTreeDomain DEF SameTree
<1> QED BY <1>1 DEF Typed, TypedTree

\* The rest of Typed.
TypedRest ==
    /\ file \in [Handle -> FileRecord \cup {NULL}]
    /\ \A f \in Handle : file[f] # NULL => file[f].dentry \in DOMAIN node
    /\ fs \in [size : Nat, filled : Nat]
    /\ live \subseteq DOMAIN node /\ null \subseteq DOMAIN node /\ cut \subseteq DOMAIN node
    /\ ret \in {"none", "null", "pointer"}
    /\ err \in {"OK", "ERR_NOT_DIR", "ERR_EXISTS", "ERR_ALLOC_FAILED", "ERR_NO_PARENT"}
    /\ status \in {"ok", "freed", "null_read", "null_write", "listed_file",
                   "dangling", "overrun"}
    /\ content \in [Node -> Seq(Byte)] /\ written \in 0..MaxWritten

\* Typed is its two parts.
LEMMA TypedParts ==
    /\ Typed <=> TypedTree /\ TypedRest
    /\ Typed' <=> TypedTree' /\ TypedRest'
BY DEF Typed, TypedTree, TypedRest

\* A step that changes neither the tree nor the Files keeps the reference counts right.
LEMMA RefcountsKept ==
    ASSUME RefcountsMatchHandles, node' = node, file' = file, status' = "ok" => status = "ok"
    PROVE  RefcountsMatchHandles'
BY DEF RefcountsMatchHandles

\* vfs_register: with the register full it is made twice as long.
LEMMA RegisterInv ==
    ASSUME TreeInv, vfs_register
    PROVE  TreeInv'
<1>1. /\ Typed /\ Linked /\ Allocated /\ RefcountsMatchHandles /\ RegisterHasRoom
      /\ node' = node /\ list' = list /\ file' = file /\ live' = live /\ null' = null
      /\ content' = content /\ cut' = cut /\ written' = written /\ status = "ok"
      /\ status' \in {"ok", "null_write"} /\ ret' = "none"
  BY DEF TreeInv, vfs_register
<1>2. SameTree
  BY <1>1, UnchangedTree
<1>3. Linked' /\ TypedTree'
  BY <1>1, <1>2, SameTreeLinked, SameTreeTyped
<1>4. fs \in [size : Nat, filled : Nat] /\ fs.size \in Nat /\ fs.filled \in Nat
  BY <1>1 DEF Typed
<1>5. fs' \in [size : Nat, filled : Nat] /\ RegisterHasRoom' /\ err' \in {err, "OK", "ERR_ALLOC_FAILED"}
  <2>1. CASE fs.size = 0
    <3>1. fs' = fs /\ err' = err
      BY <2>1, <1>4 DEF vfs_register
    <3> QED BY <1>1, <1>4, <3>1 DEF RegisterHasRoom
  <2>2. CASE fs.size > 0
    <3>1. PICK size \in IF fs.filled + 1 >= fs.size THEN {2 * fs.size, 0} ELSE {fs.size} :
            /\ fs' = [size |-> size, filled |-> fs.filled + 1]
            /\ err' = IF size = 0 THEN "ERR_ALLOC_FAILED" ELSE "OK"
      BY <2>2, <1>4 DEF vfs_register
    <3>2. size \in Nat /\ (size = 0 \/ fs.filled + 1 < size)
      BY <3>1, <1>1, <1>4, <2>2 DEF RegisterHasRoom
    <3> QED BY <3>1, <3>2, <1>4 DEF RegisterHasRoom
  <2> QED BY <1>4, <2>1, <2>2
<1>6. TypedRest'
  BY <1>1, <1>5 DEF Typed, TypedRest
<1>7. Allocated'
  BY <1>1 DEF Allocated
<1>8. RefcountsMatchHandles'
  BY <1>1, RefcountsKept
<1> QED BY <1>3, <1>5, <1>6, <1>7, <1>8, TypedParts DEF TreeInv

\* An allocation fails, and what the file system keeps is as it was.
LEMMA FailedInv ==
    ASSUME TreeInv, Failed
    PROVE  TreeInv'
<1>1. /\ Typed /\ Linked /\ Allocated /\ RefcountsMatchHandles /\ RegisterHasRoom
      /\ node' = node /\ list' = list /\ file' = file /\ fs' = fs /\ live' = live /\ null' = null
      /\ content' = content /\ cut' = cut /\ written' = written
      /\ status' \in {status, "null_write"} /\ err' \in {err, "OK"} /\ ret' \in {ret, "null"}
  BY DEF TreeInv, Failed, NullWrite, NotAllocated
<1>2. SameTree
  BY <1>1, UnchangedTree
<1>3. Linked' /\ TypedTree'
  BY <1>1, <1>2, SameTreeLinked, SameTreeTyped
<1>4. TypedRest'
  BY <1>1 DEF Typed, TypedRest
<1>5. Allocated'
  BY <1>1 DEF Allocated
<1>6. RefcountsMatchHandles' /\ RegisterHasRoom'
  BY <1>1, RefcountsKept DEF RegisterHasRoom
<1> QED BY <1>3, <1>4, <1>5, <1>6, TypedParts DEF TreeInv

\* vfs_free: what stays allocated is what is not listed.
LEMMA FreeInv ==
    ASSUME TreeInv, vfs_free
    PROVE  TreeInv'
<1>1. /\ Typed /\ Linked /\ Allocated /\ RefcountsMatchHandles /\ RegisterHasRoom
      /\ node' = node /\ list' = list /\ file' = file /\ fs' = fs
      /\ content' = content /\ cut' = cut /\ written' = written /\ status = "ok"
      /\ status' = "freed" /\ err' = "OK" /\ ret' = "none" /\ null' = null
      /\ live' = live \ UNION {tmpfs_free_inode(n) : n \in Range(list)}
  BY DEF TreeInv, vfs_free
<1>2. SameTree
  BY <1>1, UnchangedTree
<1>3. Linked' /\ TypedTree'
  BY <1>1, <1>2, SameTreeLinked, SameTreeTyped
<1>4. UNION {tmpfs_free_inode(n) : n \in Range(list)} = Range(list)
  BY Zenon DEF tmpfs_free_inode
<1>5. live' = live \ Range(list)
  BY <1>1, <1>4
<1>6. TypedRest'
  BY <1>1, <1>5 DEF Typed, TypedRest
<1>7. Allocated'
  BY <1>1, <1>5 DEF Allocated
<1>8. RefcountsMatchHandles' /\ RegisterHasRoom'
  BY <1>1, RefcountsKept DEF RegisterHasRoom
<1> QED BY <1>3, <1>6, <1>7, <1>8, TypedParts DEF TreeInv

\* What create_dir may answer.
LEMMA CreateDirStatus ==
    ASSUME NEW path, create_dir(path)
    PROVE  /\ err' \in {err, "OK", "ERR_EXISTS", "ERR_NO_PARENT"}
           /\ status' \in {status, "null_read", "listed_file"}
<1>1. CASE status' = "null_read" /\ UNCHANGED err
  BY <1>1
<1>2. CASE \E found \in path_exists(path), p \in Parents(path) :
          LET parentDir == path_get_direntry(p) IN
          CASE found = Garbage \/ (found = NULL /\ parentDir = Garbage) ->
                 status' = "listed_file" /\ UNCHANGED err
            [] found \notin {NULL, Garbage} ->
                 err' = "ERR_EXISTS" /\ UNCHANGED status
            [] found = NULL /\ parentDir = NULL ->
                 err' = "ERR_NO_PARENT" /\ UNCHANGED status
            [] OTHER -> err' = "OK" /\ UNCHANGED status
  <2>1. PICK found \in path_exists(path), p \in Parents(path) :
          CASE found = Garbage \/ (found = NULL /\ path_get_direntry(p) = Garbage) ->
                 status' = "listed_file" /\ UNCHANGED err
            [] found \notin {NULL, Garbage} ->
                 err' = "ERR_EXISTS" /\ UNCHANGED status
            [] found = NULL /\ path_get_direntry(p) = NULL ->
                 err' = "ERR_NO_PARENT" /\ UNCHANGED status
            [] OTHER -> err' = "OK" /\ UNCHANGED status
    BY <1>2
  <2> QED BY <2>1, SMT
<1> QED BY <1>1, <1>2 DEF create_dir

\* create_dir changes nothing of the tree.
LEMMA CreateDirInv ==
    ASSUME TreeInv, NEW path, create_dir(path)
    PROVE  TreeInv'
<1>1. /\ Typed /\ Linked /\ Allocated /\ RefcountsMatchHandles /\ RegisterHasRoom
      /\ node' = node /\ list' = list /\ file' = file /\ fs' = fs /\ live' = live
      /\ content' = content /\ cut' = cut /\ written' = written /\ status = "ok"
      /\ null' = null /\ ret' = "none"
  BY DEF TreeInv, create_dir
<1>2. SameTree
  BY <1>1, UnchangedTree
<1>3. Linked' /\ TypedTree'
  BY <1>1, <1>2, SameTreeLinked, SameTreeTyped
<1>4. /\ err' \in {err, "OK", "ERR_EXISTS", "ERR_NO_PARENT"}
      /\ status' \in {status, "null_read", "listed_file"}
  BY CreateDirStatus
<1>6. TypedRest'
  BY <1>1, <1>4 DEF Typed, TypedRest
<1>7. Allocated'
  BY <1>1, <1>4 DEF Allocated
<1>8. RefcountsMatchHandles' /\ RegisterHasRoom'
  BY <1>1, RefcountsKept DEF RegisterHasRoom
<1> QED BY <1>3, <1>6, <1>7, <1>8, TypedParts DEF TreeInv

\* The Files that are open on a node.
OpenOn(files, n) == {f \in Handle : IF files[f] = NULL THEN FALSE ELSE files[f].dentry = n}

\* A set of Files is finite, and opening one or closing one changes their number by one.
LEMMA OneFileMore ==
    ASSUME NEW A \in SUBSET Handle, NEW f \in Handle, f \notin A
    PROVE  /\ IsFiniteSet(A) /\ Cardinality(A) \in Nat
           /\ Cardinality(A \cup {f}) = Cardinality(A) + 1
<1>1. IsFiniteSet(A)
  BY TmpfsAssumption, FS_Subset
<1> QED BY <1>1, FS_CardinalityType, FS_AddElement

\* create_tmpfs_root: one directory, with no entries, in the list.
LEMMA RootInv ==
    ASSUME TreeInv, create_tmpfs_root
    PROVE  TreeInv'
<1> SUFFICES ASSUME ~NullWrite PROVE TreeInv'
  BY FailedInv DEF Failed
<1> DEFINE base == create_inode_base("DIRECTORY", <<>>, NULL)
<1>1. /\ Typed /\ Linked /\ Allocated /\ RefcountsMatchHandles /\ RegisterHasRoom
      /\ node = <<>> /\ node' = <<base>> /\ list' = <<root>> /\ live' = {root}
      /\ file' = file /\ fs' = fs /\ content' = content /\ cut' = cut /\ written' = written
      /\ status' = "ok" /\ status = "ok" /\ err' = "OK" /\ ret' = "pointer"
      /\ null' \subseteq {root}
  BY DEF TreeInv, create_tmpfs_root
<1>2. /\ base \in NodeRecord /\ base.parent = NULL /\ base.children = <<>> /\ base.refcount = 0
  BY NewInode
<1> HIDE DEF base
<1>3. /\ node' \in Seq(NodeRecord) /\ Len(node') = 1 /\ DOMAIN node' = {1} /\ node'[1] = base
      /\ DOMAIN node = {}
  BY <1>1, <1>2
<1>4. root \in Node /\ 1 = root
  BY TmpfsAssumption DEF Node, root
<1>5. list' \in Seq(Node) /\ Range(list') = {1} /\ IsInjective(list') /\ list' # <<>>
  <2>1. list' \in Seq(Node) /\ DOMAIN list' = {1} /\ list'[1] = 1 /\ list' # <<>>
    BY <1>1, <1>4
  <2> QED BY <2>1 DEF Range, IsInjective
<1>6. Range(base.children) = {} /\ IsInjective(base.children)
  BY <1>2 DEF Range, IsInjective
<1>7. TypedTree'
  BY <1>2, <1>3, <1>5, <1>6, TmpfsAssumption DEF TypedTree
<1>8. /\ \A f \in Handle : file[f] = NULL
      /\ cut = {}
  BY <1>1, <1>3 DEF Typed
<1>9. TypedRest'
  BY <1>1, <1>3, <1>4, <1>8 DEF Typed, TypedRest
<1>10. Linked'
  <2>1. node' # <<>>
    BY <1>3
  <2>2. root \in Range(list') /\ node'[root].parent = NULL
    BY <1>2, <1>3, <1>4, <1>5
  <2>3. \A p \in DOMAIN node' : IsInjective(node'[p].children)
    BY <1>3, <1>6
  <2>4. NULL # 1
    BY TmpfsAssumption
  <2>5. \A p, n \in DOMAIN node' : n \in Range(node'[p].children) <=> node'[n].parent = p
    BY <1>2, <1>3, <1>6, <2>4
  <2>6. \A n \in DOMAIN node' : n \in Range(list') <=> n = root \/ node'[n].parent # NULL
    BY <1>3, <1>4, <1>5
  <2>7. \A S \in SUBSET DOMAIN node' : HoldsAll(S)' => Range(list') \subseteq S
    BY <1>4, <1>5 DEF HoldsAll
  <2> QED BY <1>5, <2>1, <2>2, <2>3, <2>5, <2>6, <2>7 DEF Linked
<1>11. Allocated'
  BY <1>1, <1>3, <1>4 DEF Allocated
<1>12. RefcountsMatchHandles'
  <2>1. OpenOn(file', 1) = {}
    BY <1>1, <1>8 DEF OpenOn
  <2>2. Cardinality(OpenOn(file', 1)) = 0
    BY <2>1, FS_EmptySet
  <2>3. node'[1].refcount = Cardinality(OpenOn(file', 1))
    BY <1>2, <1>3, <2>2
  <2> QED BY <1>3, <2>3 DEF RefcountsMatchHandles, OpenOn
<1>13. RegisterHasRoom'
  BY <1>1 DEF RegisterHasRoom
<1> QED BY <1>7, <1>9, <1>10, <1>11, <1>12, <1>13, TypedParts DEF TreeInv

\* The entries of the directory after a creation, and its list.
LEMMA CreatedTree ==
    ASSUME Typed, Linked, NEW type \in {"FILE", "DIRECTORY"}, NEW name \in Name,
           NEW parent \in Range(list), Created(type, parent, name)
    PROVE  TypedTree' /\ Linked'
<1> DEFINE n == Len(node) + 1
           linked == node[parent].type = "DIRECTORY"
           up == IF linked THEN parent ELSE NULL
<1>1. /\ node' \in Seq(NodeRecord) /\ Len(node') = n /\ n \in Node /\ n \in Nat
      /\ DOMAIN node = 1..Len(node) /\ DOMAIN node' = DOMAIN node \cup {n}
      /\ n \notin DOMAIN node /\ parent \in DOMAIN node /\ parent # n /\ n <= MaxNodes
      /\ \A m \in DOMAIN node : m # parent => node'[m] = node[m]
  BY TmpfsAssumption DEF Created, Node
<1>2. /\ node[parent] \in NodeRecord /\ node[parent].children \in Seq(Node)
      /\ parent \in Node /\ list \in Seq(Node) /\ Range(list) \subseteq DOMAIN node
  BY <1>1, NodeFacts DEF Typed
<1>3. /\ node'[n].children = <<>> /\ node'[n].parent = up
  BY <1>2, NewInode DEF Created
<1>4. /\ node'[parent].parent = node[parent].parent
      /\ node'[parent].children = IF linked THEN Append(node[parent].children, n)
                                  ELSE node[parent].children
  BY <1>2 DEF Created, NodeRecord
<1>5. list' = IF linked THEN Append(list, n) ELSE list
  BY DEF Created
<1>6. /\ Range(Append(node[parent].children, n)) = Range(node[parent].children) \cup {n}
      /\ Range(Append(list, n)) = Range(list) \cup {n}
      /\ Append(list, n) \in Seq(Node)
  BY <1>1, <1>2, AppendRange, AppendFacts
<1>7. /\ Range(node'[parent].children) = Range(node[parent].children) \cup (IF linked THEN {n} ELSE {})
      /\ Range(list') = Range(list) \cup (IF linked THEN {n} ELSE {})
      /\ list' \in Seq(Node)
  BY <1>2, <1>4, <1>5, <1>6
<1>8. Range(node'[n].children) = {} /\ IsInjective(node'[n].children)
  BY <1>3 DEF Range, IsInjective
<1>9. parent # NULL /\ n # NULL /\ node # <<>> /\ node' # <<>> /\ root \in DOMAIN node
  BY <1>1, <1>2, TmpfsAssumption DEF Linked
<1>10. /\ \A m \in DOMAIN node : node'[m].parent = node[m].parent
       /\ \A m \in DOMAIN node : m # parent => node'[m].children = node[m].children
  BY <1>1, <1>4
<1>11. \A m \in DOMAIN node : /\ Range(node[m].children) \subseteq DOMAIN node
                              /\ node[m].parent \in DOMAIN node \cup {NULL}
  BY DEF Typed
<1>12. IsInjective(list') /\ IsInjective(node'[parent].children)
  <2>1. IsInjective(list) /\ IsInjective(node[parent].children)
    BY <1>1 DEF Linked
  <2>2. n \notin Range(list) /\ n \notin Range(node[parent].children)
    BY <1>1, <1>2, <1>11
  <2>3. CASE linked
    BY <1>1, <1>2, <1>4, <1>5, <2>1, <2>2, <2>3, AppendNoTwice
  <2>4. CASE ~linked
    BY <1>4, <1>5, <2>1, <2>4
  <2> QED BY <2>3, <2>4
<1> HIDE DEF n, linked
<1>13. TypedTree'
  <2>1. ASSUME NEW m \in DOMAIN node'
        PROVE  /\ Range(node'[m].children) \subseteq DOMAIN node'
               /\ node'[m].parent \in DOMAIN node' \cup {NULL}
    <3>1. CASE m = n
      BY <1>1, <1>3, <1>8, <3>1
    <3>2. CASE m = parent
      BY <1>1, <1>7, <1>10, <1>11, <3>2
    <3>3. CASE m # n /\ m # parent
      BY <1>1, <1>10, <1>11, <3>3
    <3> QED BY <3>1, <3>2, <3>3
  <2>2. Range(list') \subseteq DOMAIN node'
    BY <1>1, <1>2, <1>7
  <2> QED BY <1>1, <1>7, <2>1, <2>2 DEF TypedTree
<1>14. \A p \in DOMAIN node' : IsInjective(node'[p].children)
  <2> SUFFICES ASSUME NEW p \in DOMAIN node' PROVE IsInjective(node'[p].children)
    OBVIOUS
  <2>1. CASE p = n
    BY <1>8, <2>1
  <2>2. CASE p = parent
    BY <1>12, <2>2
  <2>3. CASE p # n /\ p # parent
    BY <1>1, <1>10, <2>3 DEF Linked
  <2> QED BY <2>1, <2>2, <2>3
<1>15. \A p, m \in DOMAIN node' : m \in Range(node'[p].children) <=> node'[m].parent = p
  <2> SUFFICES ASSUME NEW p \in DOMAIN node', NEW m \in DOMAIN node'
               PROVE  m \in Range(node'[p].children) <=> node'[m].parent = p
    OBVIOUS
  <2>0. \A q, k \in DOMAIN node : k \in Range(node[q].children) <=> node[k].parent = q
    BY DEF Linked
  <2>1. CASE p = n
    <3>1. node'[m].parent # n
      <4>1. CASE m = n
        BY <1>1, <1>3, <1>9, <4>1
      <4>2. CASE m # n
        BY <1>1, <1>9, <1>10, <1>11, <4>2
      <4> QED BY <4>1, <4>2
    <3> QED BY <1>8, <2>1, <3>1
  <2>2. CASE p # n /\ m = n
    <3>1. CASE p = parent
      BY <1>1, <1>3, <1>7, <1>9, <1>11, <2>2, <3>1
    <3>2. CASE p # parent
      BY <1>1, <1>3, <1>9, <1>10, <1>11, <2>2, <3>2, TmpfsAssumption
    <3> QED BY <3>1, <3>2
  <2>3. CASE p # n /\ m # n
    <3>0. p \in DOMAIN node /\ m \in DOMAIN node
      BY <1>1, <2>3
    <3>1. CASE p = parent
      BY <1>7, <1>10, <2>0, <2>3, <3>0, <3>1
    <3>2. CASE p # parent
      BY <1>10, <2>0, <3>0, <3>2
    <3> QED BY <3>1, <3>2
  <2> QED BY <2>1, <2>2, <2>3
<1>16. \A m \in DOMAIN node' : m \in Range(list') <=> m = root \/ node'[m].parent # NULL
  <2> SUFFICES ASSUME NEW m \in DOMAIN node'
               PROVE  m \in Range(list') <=> m = root \/ node'[m].parent # NULL
    OBVIOUS
  <2>0. \A k \in DOMAIN node : k \in Range(list) <=> k = root \/ node[k].parent # NULL
    BY DEF Linked
  <2>1. CASE m = n
    BY <1>1, <1>2, <1>3, <1>7, <1>9, <2>1
  <2>2. CASE m # n
    BY <1>1, <1>7, <1>10, <2>0, <2>2
  <2> QED BY <2>1, <2>2
<1>17. ASSUME NEW S \in SUBSET DOMAIN node', HoldsAll(S)'
       PROVE  Range(list') \subseteq S
  <2> DEFINE T == S \ {n}
  <2>1. T \in SUBSET DOMAIN node /\ root \in S /\ \A p \in S : Range(node'[p].children) \subseteq S
    BY <1>1, <1>17 DEF HoldsAll
  <2>2. root \in T
    BY <1>1, <1>9, <2>1
  <2>3. ASSUME NEW p \in T PROVE Range(node[p].children) \subseteq T
    <3>1. p \in DOMAIN node /\ p # n /\ p \in S
      BY <2>1
    <3>2. Range(node[p].children) \subseteq Range(node'[p].children)
      BY <1>7, <1>10, <3>1
    <3>3. n \notin Range(node[p].children)
      BY <1>1, <1>11, <3>1
    <3> QED BY <2>1, <3>1, <3>2, <3>3
  <2>4. Range(list) \subseteq T
    <3>1. HoldsAll(T)
      BY <2>2, <2>3 DEF HoldsAll
    <3> QED BY <2>1, <3>1 DEF Linked
  <2>5. parent \in S
    BY <2>4
  <2>6. linked => n \in S
    BY <1>7, <2>1, <2>5
  <2> QED BY <1>7, <2>4, <2>6
<1>18. root \in Range(list') /\ node'[root].parent = NULL
  BY <1>7, <1>9, <1>10 DEF Linked
<1>19. \A S \in SUBSET DOMAIN node' : HoldsAll(S)' => Range(list') \subseteq S
  BY <1>17
<1> QED BY <1>9, <1>12, <1>13, <1>14, <1>15, <1>16, <1>18, <1>19 DEF Linked

\* tmpfs_create_file and tmpfs_create_dir, whether or not the parent is a directory.
LEMMA CreateInv ==
    ASSUME TreeInv, NEW type \in {"FILE", "DIRECTORY"}, NEW name \in Name,
           NEW parent \in Range(list), tmpfs_create(type, parent, name)
    PROVE  TreeInv'
<1> DEFINE n == Len(node) + 1
<1>0. SUFFICES ASSUME Created(type, parent, name) PROVE TreeInv'
  BY CreateOutcome, FailedInv DEF TreeInv
<1>1. /\ Typed /\ Linked /\ Allocated /\ RefcountsMatchHandles /\ RegisterHasRoom
      /\ file' = file /\ fs' = fs /\ content' = content /\ cut' = cut /\ written' = written
      /\ status' = status /\ status = "ok" /\ null' \subseteq DOMAIN node'
      /\ ret' \in {"null", "pointer"}
  BY <1>0 DEF TreeInv, tmpfs_create, Created
<1>2. Created(type, parent, name)
  BY <1>0
<1>3. TypedTree' /\ Linked'
  BY <1>1, <1>2, CreatedTree
<1>4. /\ DOMAIN node' = DOMAIN node \cup {n} /\ n \notin DOMAIN node /\ parent \in DOMAIN node
      /\ \A m \in DOMAIN node : m # parent => node'[m] = node[m]
      /\ live' = live \cup {n} /\ err' \in {"OK", "ERR_NOT_DIR"} /\ n \in Node
  BY <1>2 DEF Created
<1>5. TypedRest'
  BY <1>1, <1>4 DEF Typed, TypedRest
<1>6. Allocated'
  BY <1>1, <1>4 DEF Allocated
<1>7. RefcountsMatchHandles'
  <2>1. node[parent] \in NodeRecord /\ parent \in Node
    BY <1>1, <1>4, NodeFacts
  <2>2. node'[parent].refcount = node[parent].refcount
    BY <1>2, <2>1 DEF Created, NodeRecord
  <2>3. node'[n].refcount = 0
    BY <1>2, <2>1, NewInode DEF Created
  <2> HIDE DEF n
  <2>4. \A m \in DOMAIN node : node'[m].refcount = Cardinality(OpenOn(file', m))
    BY <1>1, <1>4, <2>2 DEF RefcountsMatchHandles, OpenOn
  <2>5. OpenOn(file', n) = {}
    BY <1>1, <1>4 DEF OpenOn, Typed
  <2>6. node'[n].refcount = Cardinality(OpenOn(file', n))
    BY <2>3, <2>5, FS_EmptySet
  <2>7. \A m \in DOMAIN node' : node'[m].refcount = Cardinality(OpenOn(file', m))
    BY <1>4, <2>4, <2>6
  <2> QED BY <2>7 DEF RefcountsMatchHandles, OpenOn
<1>8. RegisterHasRoom'
  BY <1>1 DEF RegisterHasRoom
<1> QED BY <1>3, <1>5, <1>6, <1>7, <1>8, TypedParts DEF TreeInv

\* A node whose refcount alone is changed.
LEMMA RefcountReplaced ==
    ASSUME Typed, NEW n \in DOMAIN node, NEW k \in Nat,
           node' = [node EXCEPT ![n].refcount = k], list' = list
    PROVE  /\ SameTree /\ DOMAIN node' = DOMAIN node /\ node'[n].refcount = k
           /\ \A m \in DOMAIN node : m # n => node'[m].refcount = node[m].refcount
           /\ \A m \in DOMAIN node : /\ node'[m].length = node[m].length
                                     /\ node'[m].array = node[m].array
<1> DEFINE r == [node[n] EXCEPT !.refcount = k]
<1>1. node[n] \in NodeRecord /\ node \in Seq(NodeRecord)
  BY NodeFacts DEF Typed
<1>2. /\ r \in NodeRecord /\ r.children = node[n].children /\ r.parent = node[n].parent
      /\ r.refcount = k /\ r.length = node[n].length /\ r.array = node[n].array
  BY <1>1 DEF NodeRecord
<1>3. node' = [node EXCEPT ![n] = r]
  BY <1>1
<1> HIDE DEF r
<1>4. /\ SameTree /\ DOMAIN node' = DOMAIN node /\ node'[n] = r
      /\ \A m \in DOMAIN node : m # n => node'[m] = node[m]
  BY <1>2, <1>3, NodeReplaced
<1> QED BY <1>2, <1>4

\* tmpfs_open_file counts the File it opens.
LEMMA OpenInv ==
    ASSUME TreeInv, NEW f \in Handle, NEW n \in Range(list), tmpfs_open_file(f, n)
    PROVE  TreeInv'
<1> SUFFICES ASSUME ~NotAllocated PROVE TreeInv'
  BY FailedInv DEF Failed
<1>1. /\ Typed /\ Linked /\ Allocated /\ RefcountsMatchHandles /\ RegisterHasRoom
      /\ list' = list /\ fs' = fs /\ live' = live /\ content' = content /\ cut' = cut
      /\ null' = null /\ ret' = "pointer"
      /\ written' = written /\ status' = status /\ status = "ok" /\ err' = "OK"
      /\ file[f] = NULL
      /\ file' = [file EXCEPT ![f] = [dentry |-> n, file_position |-> 0]]
      /\ node' = [node EXCEPT ![n].refcount = node[n].refcount + 1]
  BY DEF TreeInv, tmpfs_open_file
<1>2. n \in DOMAIN node
  BY <1>1 DEF Typed
<1>3. node[n].refcount \in Nat /\ n \in Node /\ n \in Nat
  BY <1>1, <1>2, NodeFacts
<1>4. /\ SameTree /\ DOMAIN node' = DOMAIN node /\ node'[n].refcount = node[n].refcount + 1
      /\ \A m \in DOMAIN node : m # n => node'[m].refcount = node[m].refcount
  <2> DEFINE k == node[n].refcount + 1
  <2>1. k \in Nat /\ node' = [node EXCEPT ![n].refcount = k] /\ list' = list
    BY <1>1, <1>3
  <2> HIDE DEF k
  <2>2. /\ SameTree /\ DOMAIN node' = DOMAIN node /\ node'[n].refcount = k
        /\ \A m \in DOMAIN node : m # n => node'[m].refcount = node[m].refcount
    BY <1>1, <1>2, <2>1, RefcountReplaced
  <2> QED BY <2>2 DEF k
<1>5. Linked' /\ TypedTree'
  BY <1>1, <1>4, SameTreeLinked, SameTreeTyped
<1> DEFINE new == [dentry |-> n, file_position |-> 0]
<1>6. new \in FileRecord /\ new.dentry = n
  BY <1>3 DEF FileRecord
<1>7. file \in [Handle -> FileRecord \cup {NULL}]
  BY <1>1 DEF Typed
<1>8. file' = [file EXCEPT ![f] = new]
  BY <1>1
<1> HIDE DEF new
<1>9. /\ file' \in [Handle -> FileRecord \cup {NULL}] /\ file'[f] = new
      /\ \A g \in Handle : g # f => file'[g] = file[g]
  BY <1>6, <1>7, <1>8
<1>10. TypedRest'
  <2>1. \A g \in Handle : file'[g] # NULL => file'[g].dentry \in DOMAIN node'
    BY <1>1, <1>2, <1>4, <1>6, <1>9 DEF Typed
  <2> QED BY <1>1, <1>4, <1>9, <2>1 DEF Typed, TypedRest
<1>11. Allocated'
  BY <1>1, <1>4 DEF Allocated
<1>12. new # NULL
  BY <1>3, TmpfsAssumption DEF new
<1>13. RefcountsMatchHandles'
  <2>1. OpenOn(file', n) = OpenOn(file, n) \cup {f} /\ f \notin OpenOn(file, n)
    BY <1>1, <1>6, <1>9, <1>12 DEF OpenOn
  <2>2. \A m \in DOMAIN node : m # n => OpenOn(file', m) = OpenOn(file, m)
    BY <1>1, <1>6, <1>9, <1>12 DEF OpenOn
  <2>3. \A m \in DOMAIN node : node[m].refcount = Cardinality(OpenOn(file, m))
    BY <1>1 DEF RefcountsMatchHandles, OpenOn
  <2>4. OpenOn(file, n) \in SUBSET Handle
    BY DEF OpenOn
  <2>5. Cardinality(OpenOn(file', n)) = Cardinality(OpenOn(file, n)) + 1
    BY <2>1, <2>4, OneFileMore
  <2>6. \A m \in DOMAIN node : node'[m].refcount = Cardinality(OpenOn(file', m))
    BY <1>2, <1>4, <2>2, <2>3, <2>5
  <2> QED BY <1>4, <2>6 DEF RefcountsMatchHandles, OpenOn
<1>14. RegisterHasRoom'
  BY <1>1 DEF RegisterHasRoom
<1> QED BY <1>5, <1>10, <1>11, <1>13, <1>14, TypedParts DEF TreeInv

\* tmpfs_close_file counts the File out; after vfs_free it touches what is freed.
LEMMA CloseInv ==
    ASSUME TreeInv, NEW f \in Handle, tmpfs_close_file(f)
    PROVE  TreeInv'
<1> DEFINE n == file[f].dentry
<1>1. /\ Typed /\ Linked /\ Allocated /\ RefcountsMatchHandles /\ RegisterHasRoom
      /\ list' = list /\ fs' = fs /\ live' = live /\ content' = content /\ cut' = cut
      /\ written' = written /\ err' = "OK" /\ file[f] # NULL /\ null' = null /\ ret' = "none"
      /\ file' = [file EXCEPT ![f] = NULL]
      /\ \/ /\ status = "ok" /\ status' = "ok"
            /\ node' = [node EXCEPT ![n].refcount = node[n].refcount - 1]
         \/ status = "freed" /\ status' = "dangling" /\ node' = node
  BY DEF TreeInv, tmpfs_close_file
<1>2. n \in DOMAIN node /\ file \in [Handle -> FileRecord \cup {NULL}]
  BY <1>1 DEF Typed
<1>3. /\ file' \in [Handle -> FileRecord \cup {NULL}] /\ file'[f] = NULL
      /\ \A g \in Handle : g # f => file'[g] = file[g]
  BY <1>1, <1>2
<1>4. RegisterHasRoom'
  BY <1>1 DEF RegisterHasRoom
<1>5. CASE status = "ok"
  <2>1. /\ OpenOn(file, n) = OpenOn(file', n) \cup {f} /\ f \notin OpenOn(file', n)
        /\ \A m \in DOMAIN node : m # n => OpenOn(file', m) = OpenOn(file, m)
    BY <1>1, <1>3 DEF OpenOn
  <2>2. OpenOn(file', n) \in SUBSET Handle
    BY DEF OpenOn
  <2> HIDE DEF n
  <2>3. /\ Cardinality(OpenOn(file', n)) \in Nat
        /\ Cardinality(OpenOn(file, n)) = Cardinality(OpenOn(file', n)) + 1
    BY <2>1, <2>2, OneFileMore
  <2>4. \A m \in DOMAIN node : node[m].refcount = Cardinality(OpenOn(file, m))
    BY <1>1, <1>5 DEF RefcountsMatchHandles, OpenOn
  <2>5. node[n].refcount - 1 = Cardinality(OpenOn(file', n)) /\ node[n].refcount - 1 \in Nat
    BY <1>2, <2>3, <2>4
  <2>6. node' = [node EXCEPT ![n].refcount = node[n].refcount - 1] /\ status' = "ok"
    BY <1>1, <1>5
  <2>7. /\ SameTree /\ DOMAIN node' = DOMAIN node /\ node'[n].refcount = node[n].refcount - 1
        /\ \A m \in DOMAIN node : m # n => node'[m].refcount = node[m].refcount
    BY <1>1, <1>2, <2>5, <2>6, RefcountReplaced
  <2>8. Linked' /\ TypedTree'
    BY <1>1, <2>7, SameTreeLinked, SameTreeTyped
  <2>9. TypedRest'
    BY <1>1, <1>3, <2>6, <2>7 DEF Typed, TypedRest
  <2>10. Allocated'
    BY <1>1, <1>5, <2>6, <2>7 DEF Allocated
  <2>11. \A m \in DOMAIN node : node'[m].refcount = Cardinality(OpenOn(file', m))
    BY <2>1, <2>4, <2>5, <2>7
  <2>12. RefcountsMatchHandles'
    BY <2>7, <2>11 DEF RefcountsMatchHandles, OpenOn
  <2> QED BY <1>4, <2>8, <2>9, <2>10, <2>12, TypedParts DEF TreeInv
<1>6. CASE status # "ok"
  <2>1. status' = "dangling" /\ node' = node
    BY <1>1, <1>6
  <2>2. SameTree
    BY <1>1, <2>1, UnchangedTree
  <2>3. Linked' /\ TypedTree'
    BY <1>1, <2>2, SameTreeLinked, SameTreeTyped
  <2>4. TypedRest'
    BY <1>1, <1>3, <2>1 DEF Typed, TypedRest
  <2>5. Allocated' /\ RefcountsMatchHandles'
    BY <2>1 DEF Allocated, RefcountsMatchHandles
  <2> QED BY <1>4, <2>3, <2>4, <2>5, TypedParts DEF TreeInv
<1> QED BY <1>5, <1>6

-----------------------------------------------------------------------------
(* Reading and writing.                                                    *)

\* Unsigned arithmetic on a word: a difference that is small and not negative is itself.
LEMMA WordDifference ==
    ASSUME NEW w \in Nat \ {0}, NEW a \in Int
    PROVE  /\ a % w \in Nat
           /\ a \in 0..w - 1 => a % w = a
OBVIOUS

\* How much is read: never more than what is left, where a position is within the file.
LEMMA BytesReadFacts ==
    ASSUME Typed, NEW n \in DOMAIN node, NEW pos \in Nat, NEW count \in Nat
    PROVE  /\ BytesRead(n, pos, count) \in Nat
           /\ pos <= node[n].length /\ node[n].length <= written =>
                pos + BytesRead(n, pos, count) <= node[n].length
<1> DEFINE len == node[n].length
           left == (len - pos) % Word
<1>1. len \in Nat /\ written \in Nat /\ written <= MaxWritten /\ MaxWritten < Word
      /\ Word \in Nat \ {0} /\ MaxWritten \in Nat
  BY NodeFacts, TmpfsAssumption DEF Typed
<1> HIDE DEF len
<1>2. left \in Nat /\ (len - pos \in 0..Word - 1 => left = len - pos)
  BY <1>1, WordDifference
<1> HIDE DEF left
<1>3. Min({count, left}) = IF count <= left THEN count ELSE left
  BY <1>2, OfTwo
<1>4. BytesRead(n, pos, count) = Min({count, left})
  BY DEF BytesRead, left, len
<1>5. pos <= len /\ len <= written => len - pos \in 0..Word - 1
  BY <1>1
<1>6. BytesRead(n, pos, count) \in Nat /\ BytesRead(n, pos, count) <= left
  BY <1>2, <1>3, <1>4
<1>7. pos <= len /\ len <= written => pos + BytesRead(n, pos, count) <= len
  BY <1>1, <1>2, <1>5, <1>6
<1> QED BY <1>6, <1>7 DEF len

\* What a write makes of a sequence.
Overlaid(s, pos, count, b, t) ==
    /\ Len(t) = IF Len(s) <= pos + count THEN pos + count ELSE Len(s)
    /\ \A i \in 1..pos : t[i] = s[i]
    /\ \A i \in pos + 1..pos + count : t[i] = b

\* A write that begins within a sequence, or at its end.
LEMMA OverlayFacts ==
    ASSUME NEW S, NEW s \in Seq(S), NEW pos \in Nat, NEW count \in Nat, NEW b \in S,
           pos <= Len(s)
    PROVE  /\ Overlay(s, pos, count, b) \in Seq(S)
           /\ Overlaid(s, pos, count, b, Overlay(s, pos, count, b))
<1> DEFINE m == IF Len(s) <= pos + count THEN pos + count ELSE Len(s)
<1>1. Len(s) \in Nat /\ pos + count \in Nat /\ m \in Nat /\ Len(s) <= m /\ pos + count <= m
  OBVIOUS
<1>2. Max({Len(s), pos + count}) = m
  <2>1. Len(s) \in Int /\ pos + count \in Int
    BY <1>1
  <2>2. \A x, y \in Int : Max({x, y}) = IF x <= y THEN y ELSE x
    BY OfTwo
  <2> QED BY <2>1, <2>2, Zenon DEF m
<1>3. Overlay(s, pos, count, b) = [i \in 1..m |-> IF i \in pos + 1..pos + count THEN b ELSE s[i]]
  BY <1>2 DEF Overlay
<1>4. ASSUME NEW i \in 1..m PROVE (IF i \in pos + 1..pos + count THEN b ELSE s[i]) \in S
  <2>1. CASE i \in pos + 1..pos + count
    BY <2>1
  <2>2. CASE i \notin pos + 1..pos + count
    <3>1. i \in 1..Len(s)
      BY <1>1, <2>2
    <3> QED BY <2>2, <3>1
  <2> QED BY <2>1, <2>2
<1>5. m = IF Len(s) <= pos + count THEN pos + count ELSE Len(s)
  OBVIOUS
<1> HIDE DEF m
<1>6. Overlay(s, pos, count, b) \in Seq(S) /\ Len(Overlay(s, pos, count, b)) = m
  BY <1>1, <1>3, <1>4
<1>7. \A i \in 1..pos : Overlay(s, pos, count, b)[i] = s[i]
  BY <1>1, <1>3
<1>8. \A i \in pos + 1..pos + count : Overlay(s, pos, count, b)[i] = b
  BY <1>1, <1>3
<1> QED BY <1>5, <1>6, <1>7, <1>8 DEF Overlaid

\* u8a_resize keeps what was there.
LEMMA ResizedFacts ==
    ASSUME NEW s \in Seq(Byte \cup {Unwritten}), NEW count \in Nat
    PROVE  /\ Resized(s, count) \in Seq(Byte \cup {Unwritten})
           /\ Len(Resized(s, count)) = Len(s) + count
           /\ \A i \in 1..Len(s) : Resized(s, count)[i] = s[i]
<1> DEFINE t == [i \in 1..count |-> Unwritten]
<1>1. t \in Seq(Byte \cup {Unwritten}) /\ Len(t) = count
  OBVIOUS
<1>2. Resized(s, count) = s \o t
  BY DEF Resized
<1>3. Len(s) \in Nat
  OBVIOUS
<1> HIDE DEF t
<1>4. /\ s \o t \in Seq(Byte \cup {Unwritten}) /\ Len(s \o t) = Len(s) + Len(t)
      /\ \A i \in 1..Len(s) : (s \o t)[i] = s[i]
  BY ONLY <1>1, <1>3, s \in Seq(Byte \cup {Unwritten}), count \in Nat
<1> QED BY ONLY <1>1, <1>2, <1>4

\* tmpfs_read_file moves the position of one File.
LEMMA ReadInv ==
    ASSUME TreeInv, NEW f \in Handle, NEW count \in Count, tmpfs_read_file(f, count)
    PROVE  TreeInv'
<1> DEFINE n == file[f].dentry
           pos == file[f].file_position
           numb == BytesRead(n, pos, count)
<1>1. /\ Typed /\ Linked /\ Allocated /\ RefcountsMatchHandles /\ RegisterHasRoom
      /\ node' = node /\ list' = list /\ fs' = fs /\ live' = live /\ content' = content
      /\ null' = null /\ ret' = "none" /\ cut' = cut /\ written' = written /\ err' = "OK" /\ file[f] # NULL /\ status = "ok"
      /\ \/ file' = [file EXCEPT ![f].file_position = pos + numb] /\ status' = "ok"
         \/ file' = file /\ status' = "overrun"
  BY DEF TreeInv, tmpfs_read_file
<1>2. /\ n \in DOMAIN node /\ file \in [Handle -> FileRecord \cup {NULL}] /\ file[f] \in FileRecord
      /\ pos \in Nat /\ count \in Nat /\ n \in Node
  BY <1>1, TmpfsAssumption DEF Typed, FileRecord
<1>3. numb \in Nat
  BY <1>1, <1>2, BytesReadFacts
<1>4. SameTree
  BY <1>1, UnchangedTree
<1>5. Linked' /\ TypedTree'
  BY <1>1, <1>4, SameTreeLinked, SameTreeTyped
<1>6. Allocated' /\ RegisterHasRoom'
  BY <1>1 DEF Allocated, RegisterHasRoom
<1>7. /\ file' \in [Handle -> FileRecord \cup {NULL}]
      /\ \A g \in Handle : /\ file'[g] = NULL <=> file[g] = NULL
                           /\ file[g] # NULL => file'[g].dentry = file[g].dentry
  <2>1. CASE file' = file
    BY <1>2, <2>1
  <2>2. CASE file' # file
    <3> DEFINE r == [file[f] EXCEPT !.file_position = pos + numb]
    <3>1. r \in FileRecord /\ r.dentry = n /\ r.file_position = pos + numb
      BY <1>2, <1>3 DEF FileRecord
    <3>2. file' = [file EXCEPT ![f] = r]
      BY <1>1, <1>2, <2>2
    <3>3. NULL \notin FileRecord
      BY TmpfsAssumption DEF FileRecord, Node
    <3> HIDE DEF r
    <3>4. /\ file' \in [Handle -> FileRecord \cup {NULL}] /\ file'[f] = r
          /\ \A g \in Handle : g # f => file'[g] = file[g]
      BY <1>2, <3>1, <3>2
    <3> QED BY <1>1, <3>1, <3>3, <3>4
  <2> QED BY <2>1, <2>2
<1>8. TypedRest'
  BY <1>1, <1>7 DEF Typed, TypedRest
<1>9. \A m \in DOMAIN node : OpenOn(file', m) = OpenOn(file, m)
  BY <1>7 DEF OpenOn
<1>10. RefcountsMatchHandles'
  BY <1>1, <1>9 DEF RefcountsMatchHandles, OpenOn
<1> QED BY <1>5, <1>6, <1>8, <1>10, TypedParts DEF TreeInv

\* What a write that stays within the array leaves.
Wrote(f, count, b) ==
    LET n == file[f].dentry
        pos == file[f].file_position IN
    /\ node'[n].length = pos + count
    /\ node'[n].refcount = node[n].refcount
    /\ node'[n].array \in Seq(Byte \cup {Unwritten})
    /\ pos + count <= Len(node'[n].array)
    /\ pos <= Len(node[n].array) =>
         \A i \in 1..pos : node'[n].array[i] = node[n].array[i]
    /\ \A i \in pos + 1..pos + count : node'[n].array[i] = b
    /\ \A m \in DOMAIN node : m # n => node'[m] = node[m]
    /\ DOMAIN node' = DOMAIN node
    /\ file'[f].dentry = n /\ file'[f].file_position = pos + count
    /\ \A g \in Handle : g # f => file'[g] = file[g]
    /\ file' \in [Handle -> FileRecord \cup {NULL}] /\ file'[f] # NULL

\* tmpfs_write_file, when the bytes stay within the array.
LEMMA WriteOutcome ==
    ASSUME Typed, NEW f \in Handle, NEW count \in Nat, NEW b \in Byte, file[f] # NULL,
           file[f].file_position + count <= Len(Resized(node[file[f].dentry].array, count)),
           node' = [node EXCEPT
               ![file[f].dentry].array = Overlay(Resized(node[file[f].dentry].array, count),
                                                 file[f].file_position, count, b),
               ![file[f].dentry].length = LengthAfter(file[f].dentry, file[f].file_position, count)],
           file' = [file EXCEPT ![f].file_position = file[f].file_position + count],
           list' = list
    PROVE  SameTree /\ Wrote(f, count, b)
<1> DEFINE n == file[f].dentry
           pos == file[f].file_position
           array == Resized(node[n].array, count)
           over == Overlay(array, pos, count, b)
           r == [node[n] EXCEPT !.array = over, !.length = pos + count]
<1>1. /\ n \in DOMAIN node /\ file \in [Handle -> FileRecord \cup {NULL}] /\ file[f] \in FileRecord
      /\ pos \in Nat /\ n \in Node /\ node \in Seq(NodeRecord)
  BY DEF Typed, FileRecord
<1>2. node[n] \in NodeRecord /\ node[n].array \in Seq(Byte \cup {Unwritten})
  BY <1>1, NodeFacts
<1>3. /\ array \in Seq(Byte \cup {Unwritten}) /\ Len(array) = Len(node[n].array) + count
      /\ \A i \in 1..Len(node[n].array) : array[i] = node[n].array[i]
  BY <1>2, ResizedFacts
<1>4. /\ pos + count <= Len(array) /\ pos <= Len(array) /\ Len(node[n].array) \in Nat
      /\ b \in Byte \cup {Unwritten}
  <2>1. Len(node[n].array) \in Nat
    BY ONLY <1>2
  <2>2. pos + count <= Len(array)
    OBVIOUS
  <2>3. Len(array) \in Nat /\ pos \in Nat /\ count \in Nat
    BY <1>1, <1>3, <2>1
  <2> HIDE DEF array, pos
  <2>4. pos <= Len(array)
    BY ONLY <2>2, <2>3
  <2> QED BY <2>1, <2>2, <2>4
<1> HIDE DEF array
<1>5. /\ over \in Seq(Byte \cup {Unwritten})
      /\ Len(over) = IF Len(array) <= pos + count THEN pos + count ELSE Len(array)
      /\ \A i \in 1..pos : over[i] = array[i]
      /\ \A i \in pos + 1..pos + count : over[i] = b
  <2> DEFINE S == Byte \cup {Unwritten}
  <2>1. array \in Seq(S) /\ b \in S /\ pos \in Nat /\ pos <= Len(array)
    BY <1>1, <1>3, <1>4
  <2> HIDE DEF S, pos
  <2>2. over \in Seq(S) /\ Overlaid(array, pos, count, b, over)
    BY <2>1, OverlayFacts
  <2> QED BY <2>2 DEF S, Overlaid
<1>6. node' = [node EXCEPT ![n].array = over, ![n].length = pos + count]
  BY DEF LengthAfter, array
<1> HIDE DEF over
<1>7. pos + count \in Nat /\ pos + count <= Len(over)
  BY <1>1, <1>3, <1>4, <1>5
<1>8. pos <= Len(node[n].array) => \A i \in 1..pos : over[i] = node[n].array[i]
  BY <1>1, <1>3, <1>4, <1>5
<1>9. /\ r \in NodeRecord /\ r.children = node[n].children /\ r.parent = node[n].parent
      /\ r.length = pos + count /\ r.array = over /\ r.refcount = node[n].refcount
  BY <1>2, <1>5, <1>7 DEF NodeRecord
<1>10. node' = [node EXCEPT ![n] = r]
  BY <1>1, <1>2, <1>6 DEF NodeRecord
<1> HIDE DEF r
<1>11. /\ SameTree /\ DOMAIN node' = DOMAIN node /\ node'[n] = r
       /\ \A m \in DOMAIN node : m # n => node'[m] = node[m]
  BY <1>1, <1>9, <1>10, NodeReplaced
<1> DEFINE h == [file[f] EXCEPT !.file_position = pos + count]
<1>12. h \in FileRecord /\ h.dentry = n /\ h.file_position = pos + count
  BY <1>1, <1>7 DEF FileRecord
<1>13. file' = [file EXCEPT ![f] = h]
  BY <1>1
<1>14. h # NULL
  <2>1. NULL \notin FileRecord
    BY TmpfsAssumption DEF FileRecord, Node
  <2> HIDE DEF h
  <2> QED BY <1>12, <2>1
<1> HIDE DEF h
<1>15. /\ file' \in [Handle -> FileRecord \cup {NULL}] /\ file'[f] = h
       /\ \A g \in Handle : g # f => file'[g] = file[g]
  BY <1>1, <1>12, <1>13
<1>16. /\ node'[n].length = pos + count /\ node'[n].refcount = node[n].refcount
       /\ node'[n].array = over
       /\ file'[f].dentry = n /\ file'[f].file_position = pos + count /\ file'[f] # NULL
  BY <1>9, <1>11, <1>12, <1>14, <1>15
<1> QED BY <1>5, <1>7, <1>8, <1>11, <1>15, <1>16 DEF Wrote

\* The two outcomes of tmpfs_write_file once there is an array.
LEMMA WriteCases ==
    ASSUME Typed, NEW f \in Handle, NEW count \in Count, NEW b \in Byte,
           tmpfs_write_file(f, count, b), ~NullWrite
    PROVE  /\ list' = list /\ fs' = fs /\ live' = live /\ err' = "OK" /\ status = "ok"
           /\ null' \subseteq null /\ ret' = "none"
           /\ file[f] # NULL /\ count \in Nat /\ written + count <= MaxWritten
           /\ file[f] \in FileRecord /\ file[f].dentry \in DOMAIN node
           /\ file[f].dentry \in Node /\ file[f].file_position \in Nat
           /\ \/ /\ SameTree /\ Wrote(f, count, b) /\ status' = status
                 /\ written' = written + count
                 /\ content' = [content EXCEPT ![file[f].dentry] =
                      IF file[f].file_position <= Len(content[file[f].dentry])
                      THEN Overlay(content[file[f].dentry], file[f].file_position, count, b)
                      ELSE content[file[f].dentry]]
                 /\ cut' = IF file[f].file_position + count < node[file[f].dentry].length
                           THEN cut \cup {file[f].dentry} ELSE cut
              \/ /\ file[f].file_position > Len(node[file[f].dentry].array)
                 /\ status' = "overrun" /\ node' = node /\ file' = file
                 /\ content' = content /\ cut' = cut /\ written' = written
<1> DEFINE n == file[f].dentry
           pos == file[f].file_position
           array == Resized(node[n].array, count)
<1>1. /\ list' = list /\ fs' = fs /\ live' = live /\ err' = "OK" /\ status = "ok"
      /\ file[f] # NULL /\ count \in Nat /\ written + count <= MaxWritten
      /\ null' \subseteq null /\ ret' = "none"
  BY TmpfsAssumption DEF tmpfs_write_file
<1>2. /\ file[f] \in FileRecord /\ n \in DOMAIN node /\ n \in Node /\ pos \in Nat
  BY <1>1 DEF Typed, FileRecord
<1>3. node[n].array \in Seq(Byte \cup {Unwritten}) /\ content \in [Node -> Seq(Byte)]
  BY <1>2, NodeFacts DEF Typed
<1>4. Len(array) = Len(node[n].array) + count /\ Len(node[n].array) \in Nat
  <2> DEFINE s == node[n].array
  <2>1. s \in Seq(Byte \cup {Unwritten}) /\ count \in Nat
    BY <1>1, <1>3
  <2> HIDE DEF s
  <2>2. Len(Resized(s, count)) = Len(s) + count
    BY <2>1, ResizedFacts
  <2>3. Len(s) \in Nat
    BY <2>1
  <2> QED BY <2>2, <2>3 DEF s
<1>5. CASE /\ pos + count <= Len(array)
           /\ node' = [node EXCEPT ![n].array = Overlay(array, pos, count, b),
                                   ![n].length = LengthAfter(n, pos, count)]
           /\ file' = [file EXCEPT ![f].file_position = pos + count]
           /\ content' = [content EXCEPT ![n] =
                IF pos <= Len(@) THEN Overlay(@, pos, count, b) ELSE @]
           /\ cut' = IF pos + count < node[n].length THEN cut \cup {n} ELSE cut
           /\ written' = written + count
           /\ UNCHANGED status
  <2>1. SameTree /\ Wrote(f, count, b)
    BY <1>1, <1>5, WriteOutcome
  <2>2. content' = [content EXCEPT ![n] =
          IF pos <= Len(content[n]) THEN Overlay(content[n], pos, count, b) ELSE content[n]]
    BY <1>5
  <2> QED BY <1>1, <1>2, <1>5, <2>1, <2>2
<1>6. CASE /\ pos + count > Len(array)
           /\ status' = "overrun"
           /\ UNCHANGED <<node, file, content, cut, written>>
  <2>1. pos > Len(node[n].array)
    BY <1>1, <1>2, <1>4, <1>6
  <2> QED BY <1>1, <1>2, <1>6, <2>1
<1>7. \/ /\ pos + count <= Len(array)
         /\ node' = [node EXCEPT ![n].array = Overlay(array, pos, count, b),
                                 ![n].length = LengthAfter(n, pos, count)]
         /\ file' = [file EXCEPT ![f].file_position = pos + count]
         /\ content' = [content EXCEPT ![n] =
              IF pos <= Len(@) THEN Overlay(@, pos, count, b) ELSE @]
         /\ cut' = IF pos + count < node[n].length THEN cut \cup {n} ELSE cut
         /\ written' = written + count
         /\ UNCHANGED status
      \/ /\ pos + count > Len(array)
         /\ status' = "overrun"
         /\ UNCHANGED <<node, file, content, cut, written>>
  BY Zenon DEF tmpfs_write_file
<1> QED BY <1>5, <1>6, <1>7

\* tmpfs_write_file changes the array and the length of one node.
LEMMA WriteInv ==
    ASSUME TreeInv, NEW f \in Handle, NEW count \in Count, NEW b \in Byte,
           tmpfs_write_file(f, count, b)
    PROVE  TreeInv'
<1> SUFFICES ASSUME ~NullWrite PROVE TreeInv'
  BY FailedInv DEF Failed
<1> DEFINE n == file[f].dentry
           pos == file[f].file_position
<1>1. /\ Typed /\ Linked /\ Allocated /\ RefcountsMatchHandles /\ RegisterHasRoom
  BY DEF TreeInv
<1>2. /\ list' = list /\ fs' = fs /\ live' = live /\ err' = "OK" /\ status = "ok"
      /\ null' \subseteq null /\ ret' = "none"
      /\ file[f] # NULL /\ count \in Nat /\ written + count <= MaxWritten
      /\ file[f] \in FileRecord /\ n \in DOMAIN node /\ n \in Node /\ pos \in Nat
  BY <1>1, WriteCases
<1>3. RegisterHasRoom'
  BY <1>1, <1>2 DEF RegisterHasRoom
<1>4. CASE /\ SameTree /\ Wrote(f, count, b) /\ status' = status /\ written' = written + count
           /\ content' = [content EXCEPT ![n] =
                IF pos <= Len(content[n]) THEN Overlay(content[n], pos, count, b) ELSE content[n]]
           /\ cut' = IF pos + count < node[n].length THEN cut \cup {n} ELSE cut
  <2>1. Linked' /\ TypedTree' /\ DOMAIN node' = DOMAIN node
    BY <1>1, <1>4, SameTreeLinked, SameTreeTyped, SameTreeDomain
  <2>2. content \in [Node -> Seq(Byte)] /\ content[n] \in Seq(Byte)
    BY <1>1, <1>2 DEF Typed
  <2>3. pos <= Len(content[n]) => Overlay(content[n], pos, count, b) \in Seq(Byte)
    BY <1>2, <2>2, OverlayFacts
  <2>4. content' \in [Node -> Seq(Byte)]
    BY <1>2, <1>4, <2>2, <2>3
  <2>5. written' \in 0..MaxWritten
    BY <1>1, <1>2, <1>4, TmpfsAssumption DEF Typed
  <2>6. /\ file' \in [Handle -> FileRecord \cup {NULL}] /\ file'[f] # NULL
        /\ file'[f].dentry = n
        /\ \A g \in Handle : g # f => file'[g] = file[g]
        /\ node'[n].refcount = node[n].refcount
        /\ \A m \in DOMAIN node : m # n => node'[m] = node[m]
    BY <1>4 DEF Wrote
  <2>7. cut' \subseteq DOMAIN node
    BY <1>1, <1>2, <1>4 DEF Typed
  <2>8. TypedRest'
    <3>1. \A g \in Handle : file'[g] # NULL => file'[g].dentry \in DOMAIN node'
      BY <1>1, <1>2, <2>1, <2>6 DEF Typed
    <3> QED BY <1>1, <1>2, <1>4, <2>1, <2>4, <2>5, <2>6, <2>7, <3>1 DEF Typed, TypedRest
  <2>9. Allocated'
    BY <1>1, <1>2, <1>4, <2>1 DEF Allocated
  <2>10. \A m \in DOMAIN node : OpenOn(file', m) = OpenOn(file, m)
    BY <1>2, <2>6 DEF OpenOn
  <2>11. \A m \in DOMAIN node : node'[m].refcount = node[m].refcount
    BY <2>6
  <2>12. RefcountsMatchHandles'
    BY <1>1, <1>2, <2>1, <2>10, <2>11 DEF RefcountsMatchHandles, OpenOn
  <2> QED BY <1>3, <2>1, <2>8, <2>9, <2>12, TypedParts DEF TreeInv
<1>5. CASE /\ status' = "overrun" /\ node' = node /\ file' = file
           /\ content' = content /\ cut' = cut /\ written' = written
  <2>1. SameTree
    BY <1>1, <1>2, <1>5, UnchangedTree
  <2>2. Linked' /\ TypedTree'
    BY <1>1, <2>1, SameTreeLinked, SameTreeTyped
  <2>3. TypedRest'
    BY <1>1, <1>2, <1>5 DEF Typed, TypedRest
  <2>4. Allocated' /\ RefcountsMatchHandles'
    BY <1>5 DEF Allocated, RefcountsMatchHandles
  <2> QED BY <1>3, <2>2, <2>3, <2>4, TypedParts DEF TreeInv
<1> QED BY <1>1, <1>4, <1>5, WriteCases

-----------------------------------------------------------------------------
(* The tree.                                                               *)

\* Before anything is made there is no node, and no File is open.
LEMMA InitTreeInv == Init => TreeInv
<1> SUFFICES ASSUME Init PROVE TreeInv
  OBVIOUS
<1>1. /\ node = <<>> /\ list = <<>> /\ file = [f \in Handle |-> NULL] /\ live = {} /\ cut = {}
      /\ null = {} /\ ret = "none"
      /\ fs = [size |-> FILESYSTEMS_SIZE, filled |-> 0] /\ err = "OK" /\ status = "ok"
      /\ content = [n \in Node |-> <<>>] /\ written = 0
  BY DEF Init
<1>2. DOMAIN node = {} /\ node \in Seq(NodeRecord) /\ Len(node) = 0 /\ list \in Seq(Node)
      /\ Range(list) = {} /\ IsInjective(list)
  BY <1>1 DEF Range, IsInjective
<1>3. fs \in [size : Nat, filled : Nat] /\ RegisterHasRoom
  BY <1>1, TmpfsAssumption DEF RegisterHasRoom
<1>4. content \in [Node -> Seq(Byte)]
  BY <1>1
<1>5. Typed
  BY <1>1, <1>2, <1>3, <1>4, TmpfsAssumption DEF Typed
<1>6. Linked
  BY <1>1, <1>2 DEF Linked
<1>7. Allocated /\ RefcountsMatchHandles
  BY <1>1, <1>2 DEF Allocated, RefcountsMatchHandles
<1> QED BY <1>3, <1>5, <1>6, <1>7 DEF TreeInv

\* Every operation keeps the tree consistent.
LEMMA NextTreeInv == TreeInv /\ [Next]_vars => TreeInv'
<1> SUFFICES ASSUME TreeInv, [Next]_vars PROVE TreeInv'
  OBVIOUS
<1>1. CASE vfs_register
  BY <1>1, RegisterInv
<1>2. CASE create_tmpfs_root
  BY <1>2, RootInv
<1>3. CASE vfs_free
  BY <1>3, FreeInv
<1>4. ASSUME NEW p \in Range(list), NEW name \in Name,
             tmpfs_create("FILE", p, name) \/ tmpfs_create("DIRECTORY", p, name)
      PROVE  TreeInv'
  BY <1>4, CreateInv
<1>5. ASSUME NEW f \in Handle, NEW n \in Range(list), tmpfs_open_file(f, n)
      PROVE  TreeInv'
  BY <1>5, OpenInv
<1>6. ASSUME NEW f \in Handle, tmpfs_close_file(f)
      PROVE  TreeInv'
  BY <1>6, CloseInv
<1>7. ASSUME NEW f \in Handle, NEW count \in Count, tmpfs_read_file(f, count)
      PROVE  TreeInv'
  BY <1>7, ReadInv
<1>8. ASSUME NEW f \in Handle, NEW count \in Count, NEW b \in Byte, tmpfs_write_file(f, count, b)
      PROVE  TreeInv'
  BY <1>8, WriteInv
<1>9. ASSUME NEW path, create_dir(path)
      PROVE  TreeInv'
  BY <1>9, CreateDirInv
<1>10. CASE UNCHANGED vars
  <2>1. /\ node' = node /\ list' = list /\ file' = file /\ fs' = fs /\ live' = live
        /\ null' = null /\ ret' = ret
        /\ err' = err /\ status' = status /\ content' = content /\ cut' = cut
        /\ written' = written /\ Typed /\ Linked /\ Allocated /\ RefcountsMatchHandles
        /\ RegisterHasRoom
    BY <1>10 DEF vars, TreeInv
  <2>2. SameTree
    BY <2>1, UnchangedTree
  <2>3. Linked' /\ TypedTree'
    BY <2>1, <2>2, SameTreeLinked, SameTreeTyped
  <2>4. TypedRest' /\ Allocated' /\ RegisterHasRoom'
    BY <2>1 DEF Typed, TypedRest, Allocated, RegisterHasRoom
  <2>5. RefcountsMatchHandles'
    BY <2>1, RefcountsKept
  <2> QED BY <2>3, <2>4, <2>5, TypedParts DEF TreeInv
<1> QED BY <1>1, <1>2, <1>3, <1>4, <1>5, <1>6, <1>7, <1>8, <1>9, <1>10 DEF Next

\* Range(list) itself holds the tree, so that nothing else is reached from the root.
LEMMA ListHoldsTree ==
    ASSUME Typed, Linked, node # <<>>
    PROVE  HoldsAll(Range(list))
<1>1. root \in Range(list) /\ Range(list) \subseteq DOMAIN node
  BY DEF Typed, Linked
<1>2. ASSUME NEW p \in Range(list), NEW c \in Range(node[p].children)
      PROVE  c \in Range(list)
  <2>1. p \in DOMAIN node /\ p \in Nat
    BY <1>1, NodeFacts
  <2>2. c \in DOMAIN node
    BY <2>1 DEF Typed
  <2>3. node[c].parent = p /\ p # NULL
    BY <2>1, <2>2, TmpfsAssumption DEF Linked
  <2> QED BY <2>2, <2>3 DEF Linked
<1> QED BY <1>1, <1>2 DEF HoldsAll

\* The inductive invariant says what the file system promises of its tree.
LEMMA TreeInvConsistent == TreeInv => TreeConsistent
<1> SUFFICES ASSUME TreeInv PROVE TreeConsistent
  OBVIOUS
<1>1. Typed /\ Linked /\ Allocated /\ RefcountsMatchHandles /\ RegisterHasRoom
  BY DEF TreeInv
<1>2. TypeOK
  <2>1. ASSUME NEW n \in DOMAIN node
        PROVE  /\ node[n].type \in {"FILE", "DIRECTORY"}
               /\ node[n].parent \in Node \cup {NULL}
               /\ Range(node[n].children) \subseteq DOMAIN node /\ node[n].room \in Nat
               /\ node[n].refcount \in Nat /\ node[n].length \in Nat
               /\ Range(node[n].array) \subseteq Byte \cup {Unwritten}
    <3>1. /\ node[n] \in NodeRecord /\ node[n].array \in Seq(Byte \cup {Unwritten})
          /\ node[n].refcount \in Nat /\ node[n].length \in Nat
      BY <1>1, NodeFacts
    <3>2. Range(node[n].array) \subseteq Byte \cup {Unwritten}
      BY <3>1 DEF Range
    <3> QED BY <1>1, <3>1, <3>2 DEF Typed, NodeRecord
  <2> QED BY <1>1, <2>1 DEF Typed, TypeOK, FileRecord
<1>3. ListedIffLinked
  <2>1. \A p \in DOMAIN node : Entries(p) \subseteq Range(node[p].children)
    BY DEF Entries
  <2>2. ASSUME NEW n \in DOMAIN node, InTree(n) PROVE n \in Range(list)
    <3>1. node # <<>>
      BY <2>2
    <3>2. HoldsAll(Range(list)) /\ Range(list) \in SUBSET DOMAIN node
      BY <1>1, <3>1, ListHoldsTree DEF Typed
    <3>3. HoldsTree(Range(list))
      BY <2>1, <3>2 DEF HoldsAll, HoldsTree
    <3> QED BY <2>2, <3>2, <3>3 DEF InTree
  <2>3. ASSUME NoneLost, NEW n \in Range(list) PROVE n \in DOMAIN node /\ InTree(n)
    <3>1. \A p \in DOMAIN node : Entries(p) = Range(node[p].children)
      BY <2>3 DEF NoneLost, Entries, Range
    <3>2. ASSUME NEW S \in SUBSET DOMAIN node, HoldsTree(S) PROVE n \in S
      <4>1. HoldsAll(S)
        BY <3>1, <3>2 DEF HoldsAll, HoldsTree
      <4> QED BY <1>1, <4>1 DEF Linked
    <3> QED BY <1>1, <3>2 DEF Typed, InTree
  <2>4. \A p, n \in DOMAIN node :
          /\ IsInjective(node[p].children)
          /\ n \in Entries(p) <=> node[n].parent = p /\ p \notin null
    BY <1>1 DEF Linked, Entries
  <2> QED BY <1>1, <2>2, <2>3, <2>4 DEF ListedIffLinked, Linked
<1>4. TreeFreed
  BY <1>1 DEF TreeFreed, Allocated, Linked
<1> QED BY <1>1, <1>2, <1>3, <1>4 DEF TreeConsistent

\* Whichever kmalloc or krealloc of a creation, an opening, a write or vfs_register
\* fails, until one is written through, and however files are opened and closed: the list
\* of the Vfs holds the tree and what krealloc has lost of it, vfs_free frees what is
\* listed, every refcount is the number of open Files, and vfs_register has room: for any
\* number of inodes, handles and names.
THEOREM TreeAlwaysConsistent == Spec => []TreeConsistent
<1>1. Spec => []TreeInv
  BY InitTreeInv, NextTreeInv, PTL DEF Spec
<1> QED BY <1>1, TreeInvConsistent, PTL

-----------------------------------------------------------------------------
(* What is in a file.                                                      *)

\* A file that no write has made shorter holds what was asked for, and no File is
\* open on it beyond its end; the ghost of a node that is not made yet is empty.
FileInv ==
    /\ \A n \in DOMAIN node : node[n].length <= Len(node[n].array)
    /\ \A n \in DOMAIN node \ cut :
         /\ node[n].length <= written /\ Len(content[n]) = node[n].length
         /\ \A i \in 1..node[n].length : node[n].array[i] = content[n][i]
    /\ \A n \in Node \ DOMAIN node : content[n] = <<>>
    /\ \A f \in Handle : file[f] # NULL /\ file[f].dentry \notin cut =>
         file[f].file_position <= node[file[f].dentry].length
    /\ status = "overrun" => cut # {}

\* No file changes, and every File stays within the file that it is open on.
LEMMA SameFiles ==
    ASSUME FileInv, DOMAIN node' = DOMAIN node,
           \A m \in DOMAIN node : /\ node'[m].length = node[m].length
                                  /\ node'[m].array = node[m].array,
           content' = content, cut' = cut, written' = written,
           \A g \in Handle : file'[g] # NULL /\ file'[g].dentry \notin cut =>
               /\ file'[g].dentry \in DOMAIN node
               /\ file'[g].file_position <= node[file'[g].dentry].length,
           status' = "overrun" => cut # {}
    PROVE  FileInv'
<1>1. \A n \in DOMAIN node' : node'[n].length <= Len(node'[n].array)
  BY DEF FileInv
<1>2. \A n \in DOMAIN node' \ cut' :
         /\ node'[n].length <= written' /\ Len(content'[n]) = node'[n].length
         /\ \A i \in 1..node'[n].length : node'[n].array[i] = content'[n][i]
  BY DEF FileInv
<1>3. \A n \in Node \ DOMAIN node' : content'[n] = <<>>
  BY DEF FileInv
<1>4. \A f \in Handle : file'[f] # NULL /\ file'[f].dentry \notin cut' =>
         file'[f].file_position <= node'[file'[f].dentry].length
  OBVIOUS
<1> QED BY <1>1, <1>2, <1>3, <1>4 DEF FileInv

\* The Files stay as they are.
LEMMA SameHandles ==
    ASSUME FileInv, Typed, DOMAIN node' = DOMAIN node,
           \A m \in DOMAIN node : /\ node'[m].length = node[m].length
                                  /\ node'[m].array = node[m].array,
           content' = content, cut' = cut, written' = written,
           \A g \in Handle : file'[g] # NULL => file'[g] = file[g],
           status' # "overrun"
    PROVE  FileInv'
<1>1. \A g \in Handle : file'[g] # NULL /\ file'[g].dentry \notin cut =>
           /\ file'[g].dentry \in DOMAIN node
           /\ file'[g].file_position <= node[file'[g].dentry].length
  BY DEF FileInv, Typed
<1> QED BY <1>1, SameFiles

\* A new node is empty, and so is its ghost.
LEMMA FilesOneMore ==
    ASSUME FileInv, Typed, NEW n \in Node \ DOMAIN node, DOMAIN node' = DOMAIN node \cup {n},
           \A m \in DOMAIN node : /\ node'[m].length = node[m].length
                                  /\ node'[m].array = node[m].array,
           node'[n].length = 0, node'[n].array \in Seq(Byte \cup {Unwritten}),
           content' = content, cut' = cut, written' = written, file' = file, status' = "ok"
    PROVE  FileInv'
<1>1. content[n] = <<>> /\ n \notin cut /\ written \in Nat /\ Len(node'[n].array) \in Nat
      /\ Len(<<>>) = 0
  BY TmpfsAssumption DEF FileInv, Typed
<1>2. \A m \in DOMAIN node' : node'[m].length <= Len(node'[m].array)
  BY <1>1 DEF FileInv
<1>3. \A m \in DOMAIN node' \ cut' :
         /\ node'[m].length <= written' /\ Len(content'[m]) = node'[m].length
         /\ \A i \in 1..node'[m].length : node'[m].array[i] = content'[m][i]
  <2> SUFFICES ASSUME NEW m \in DOMAIN node' \ cut'
               PROVE  /\ node'[m].length <= written' /\ Len(content'[m]) = node'[m].length
                      /\ \A i \in 1..node'[m].length : node'[m].array[i] = content'[m][i]
    OBVIOUS
  <2>1. CASE m = n
    BY <1>1, <2>1
  <2>2. CASE m # n
    BY <2>2 DEF FileInv
  <2> QED BY <2>1, <2>2
<1>4. \A m \in Node \ DOMAIN node' : content'[m] = <<>>
  BY DEF FileInv
<1>5. \A f \in Handle : file'[f] # NULL /\ file'[f].dentry \notin cut' =>
         file'[f].file_position <= node'[file'[f].dentry].length
  BY DEF FileInv, Typed
<1> QED BY <1>2, <1>3, <1>4, <1>5 DEF FileInv

\* An allocation fails, and no file changes.
LEMMA FailedFiles ==
    ASSUME TreeInv, FileInv, Failed
    PROVE  FileInv'
<1>1. /\ node' = node /\ file' = file /\ content' = content /\ cut' = cut
      /\ written' = written /\ status' \in {status, "null_write"}
  BY DEF Failed, NullWrite, NotAllocated
<1> QED BY <1>1 DEF FileInv

\* create_tmpfs_root and tmpfs_create make an empty node.
LEMMA RootFiles ==
    ASSUME TreeInv, FileInv, create_tmpfs_root
    PROVE  FileInv'
<1> SUFFICES ASSUME ~NullWrite PROVE FileInv'
  BY FailedFiles DEF Failed
<1> DEFINE base == create_inode_base("DIRECTORY", <<>>, NULL)
<1>1. /\ Typed /\ node = <<>> /\ node' = <<base>>
      /\ file' = file /\ content' = content /\ cut' = cut /\ written' = written /\ status' = "ok"
  BY DEF TreeInv, create_tmpfs_root
<1>2. base \in NodeRecord /\ base.length = 0
  BY NewInode
<1>3. base.array \in Seq(Byte \cup {Unwritten})
  BY <1>2 DEF NodeRecord
<1> HIDE DEF base
<1>4. DOMAIN node = {} /\ DOMAIN node' = {1} /\ node'[1] = base /\ 1 \in Node
  BY <1>1, TmpfsAssumption DEF Node
<1> QED BY <1>1, <1>2, <1>3, <1>4, FilesOneMore

\* Whether or not its parent is a directory.
LEMMA CreateFiles ==
    ASSUME TreeInv, FileInv, NEW type \in {"FILE", "DIRECTORY"}, NEW name \in Name,
           NEW parent \in Range(list), tmpfs_create(type, parent, name)
    PROVE  FileInv'
<1> DEFINE n == Len(node) + 1
<1>0. SUFFICES ASSUME Created(type, parent, name) PROVE FileInv'
  BY CreateOutcome, FailedFiles DEF TreeInv
<1>1. /\ Typed /\ file' = file /\ content' = content /\ cut' = cut /\ written' = written
      /\ status' = "ok"
  BY <1>0 DEF TreeInv, tmpfs_create, Created
<1>2. Created(type, parent, name)
  BY <1>0
<1>3. /\ DOMAIN node' = DOMAIN node \cup {n} /\ n \notin DOMAIN node /\ parent \in DOMAIN node
      /\ \A m \in DOMAIN node : m # parent => node'[m] = node[m]
      /\ n \in Node /\ node' \in Seq(NodeRecord) /\ n \in DOMAIN node'
  BY <1>2 DEF Created
<1>4. node[parent] \in NodeRecord /\ parent \in Node
  BY <1>1, <1>3, NodeFacts
<1>5. node'[parent].length = node[parent].length /\ node'[parent].array = node[parent].array
  BY <1>2, <1>4 DEF Created, NodeRecord
<1>6. node'[n].length = 0
  BY <1>2, <1>4, NewInode DEF Created
<1>7. node'[n].array \in Seq(Byte \cup {Unwritten})
  <2> HIDE DEF n
  <2>1. node' \in Seq(NodeRecord) /\ n \in DOMAIN node'
    BY <1>3
  <2>2. DOMAIN node' = 1..Len(node')
    BY <2>1
  <2>3. node'[n] \in NodeRecord
    BY ONLY <2>1, <2>2
  <2> QED BY <2>3 DEF NodeRecord
<1> HIDE DEF n
<1>8. \A m \in DOMAIN node : node'[m].length = node[m].length /\ node'[m].array = node[m].array
  BY <1>3, <1>5
<1> QED BY <1>1, <1>3, <1>6, <1>7, <1>8, FilesOneMore

\* tmpfs_open_file opens at the beginning.
LEMMA OpenFiles ==
    ASSUME TreeInv, FileInv, NEW f \in Handle, NEW n \in Range(list), tmpfs_open_file(f, n)
    PROVE  FileInv'
<1> SUFFICES ASSUME ~NotAllocated PROVE FileInv'
  BY FailedFiles DEF Failed
<1>1. /\ Typed /\ list' = list /\ content' = content /\ cut' = cut
      /\ written' = written /\ status' = "ok"
      /\ file' = [file EXCEPT ![f] = [dentry |-> n, file_position |-> 0]]
      /\ node' = [node EXCEPT ![n].refcount = node[n].refcount + 1]
  BY DEF TreeInv, tmpfs_open_file
<1>2. n \in DOMAIN node /\ file \in [Handle -> FileRecord \cup {NULL}]
  BY <1>1 DEF Typed
<1>3. node[n].refcount \in Nat /\ node[n].length \in Nat
  BY <1>1, <1>2, NodeFacts
<1> DEFINE k == node[n].refcount + 1
<1>4. k \in Nat /\ node' = [node EXCEPT ![n].refcount = k]
  BY <1>1, <1>3
<1> HIDE DEF k
<1>5. /\ DOMAIN node' = DOMAIN node
      /\ \A m \in DOMAIN node : node'[m].length = node[m].length /\ node'[m].array = node[m].array
  BY <1>1, <1>2, <1>4, RefcountReplaced
<1>6. /\ file'[f].dentry = n /\ file'[f].file_position = 0
      /\ \A g \in Handle : g # f => file'[g] = file[g]
  BY <1>1, <1>2
<1>7. \A g \in Handle : file'[g] # NULL /\ file'[g].dentry \notin cut =>
           /\ file'[g].dentry \in DOMAIN node
           /\ file'[g].file_position <= node[file'[g].dentry].length
  <2> SUFFICES ASSUME NEW g \in Handle, file'[g] # NULL, file'[g].dentry \notin cut
               PROVE  /\ file'[g].dentry \in DOMAIN node
                      /\ file'[g].file_position <= node[file'[g].dentry].length
    OBVIOUS
  <2>1. CASE g = f
    BY <1>2, <1>3, <1>6, <2>1
  <2>2. CASE g # f
    BY <1>1, <1>6, <2>2 DEF FileInv, Typed
  <2> QED BY <2>1, <2>2
<1> QED BY <1>1, <1>5, <1>7, SameFiles

\* tmpfs_close_file leaves the other Files and all nodes as they are, but for a refcount.
LEMMA CloseFiles ==
    ASSUME TreeInv, FileInv, NEW f \in Handle, tmpfs_close_file(f)
    PROVE  FileInv'
<1> DEFINE n == file[f].dentry
<1>1. /\ Typed /\ list' = list /\ content' = content /\ cut' = cut
      /\ written' = written /\ status' # "overrun" /\ file[f] # NULL
      /\ file' = [file EXCEPT ![f] = NULL]
      /\ \/ node' = [node EXCEPT ![n].refcount = node[n].refcount - 1]
         \/ node' = node
  BY DEF TreeInv, tmpfs_close_file
<1>2. n \in DOMAIN node /\ file \in [Handle -> FileRecord \cup {NULL}] /\ node \in Seq(NodeRecord)
  BY <1>1 DEF Typed
<1>3. \A g \in Handle : file'[g] # NULL => file'[g] = file[g]
  BY <1>1, <1>2
<1> HIDE DEF n
<1>4. /\ DOMAIN node' = DOMAIN node
      /\ \A m \in DOMAIN node : node'[m].length = node[m].length /\ node'[m].array = node[m].array
  <2>1. CASE node' = node
    BY <2>1
  <2>2. CASE node' = [node EXCEPT ![n].refcount = node[n].refcount - 1]
    <3>1. node[n] \in NodeRecord
      BY <1>1, <1>2, NodeFacts
    <3> DEFINE r == [node[n] EXCEPT !.refcount = node[n].refcount - 1]
    <3>2. r.length = node[n].length /\ r.array = node[n].array
      BY <3>1 DEF NodeRecord
    <3>3. node' = [node EXCEPT ![n] = r]
      BY <2>2
    <3> HIDE DEF r
    <3> QED BY <1>2, <3>2, <3>3
  <2> QED BY <1>1, <2>1, <2>2
<1> QED BY <1>1, <1>3, <1>4, SameHandles

\* tmpfs_read_file: a File that is within its file stays there, and so does not overrun.
LEMMA ReadFiles ==
    ASSUME TreeInv, FileInv, NEW f \in Handle, NEW count \in Count, tmpfs_read_file(f, count)
    PROVE  FileInv'
<1> DEFINE n == file[f].dentry
           pos == file[f].file_position
           numb == BytesRead(n, pos, count)
<1>1. /\ Typed /\ node' = node /\ content' = content
      /\ cut' = cut /\ written' = written /\ file[f] # NULL
      /\ \/ file' = [file EXCEPT ![f].file_position = pos + numb] /\ status' = "ok"
         \/ pos + numb > Len(node[n].array) /\ file' = file /\ status' = "overrun"
  BY DEF TreeInv, tmpfs_read_file
<1>2. /\ n \in DOMAIN node /\ file \in [Handle -> FileRecord \cup {NULL}] /\ file[f] \in FileRecord
      /\ pos \in Nat /\ count \in Nat
  BY <1>1, TmpfsAssumption DEF Typed, FileRecord
<1>3. /\ node[n].length \in Nat /\ node[n].length <= Len(node[n].array)
      /\ Len(node[n].array) \in Nat
  <2>1. node[n].array \in Seq(Byte \cup {Unwritten}) /\ node[n].length \in Nat
    BY <1>1, <1>2, NodeFacts
  <2> QED BY <1>2, <2>1 DEF FileInv
<1>4. n \notin cut => pos <= node[n].length /\ node[n].length <= written
  BY <1>1, <1>2 DEF FileInv
<1>5. numb \in Nat /\ (n \notin cut => pos + numb <= node[n].length)
  BY <1>1, <1>2, <1>4, BytesReadFacts
<1>6. status' = "overrun" => cut # {}
  <2> HIDE DEF numb, n, pos
  <2>1. status' = "overrun" => pos + numb > Len(node[n].array)
    BY <1>1
  <2>2. status' = "overrun" => ~(pos + numb <= node[n].length)
    BY <1>2, <1>3, <1>5, <2>1
  <2> QED BY <1>5, <2>2
<1> HIDE DEF numb
<1>7. \A g \in Handle : file'[g] # NULL /\ file'[g].dentry \notin cut =>
           /\ file'[g].dentry \in DOMAIN node
           /\ file'[g].file_position <= node[file'[g].dentry].length
  <2>1. CASE file' = file
    BY <1>1, <2>1 DEF FileInv, Typed
  <2>2. CASE file' = [file EXCEPT ![f].file_position = pos + numb]
    <3> DEFINE r == [file[f] EXCEPT !.file_position = pos + numb]
    <3>1. r.dentry = n /\ r.file_position = pos + numb
      BY <1>2 DEF FileRecord
    <3>2. file' = [file EXCEPT ![f] = r]
      BY <1>2, <2>2
    <3> HIDE DEF r
    <3>3. file'[f] = r /\ \A g \in Handle : g # f => file'[g] = file[g]
      BY <1>2, <3>2
    <3> SUFFICES ASSUME NEW g \in Handle, file'[g] # NULL, file'[g].dentry \notin cut
                 PROVE  /\ file'[g].dentry \in DOMAIN node
                        /\ file'[g].file_position <= node[file'[g].dentry].length
      OBVIOUS
    <3>4. CASE g = f
      BY <1>2, <1>5, <3>1, <3>3, <3>4
    <3>5. CASE g # f
      BY <1>1, <3>3, <3>5 DEF FileInv, Typed
    <3> QED BY <3>4, <3>5
  <2> QED BY <1>1, <2>1, <2>2
<1> QED BY <1>1, <1>6, <1>7, SameFiles

\* tmpfs_write_file: where the File is within a file that no write has made shorter, the
\* array and the ghost change alike; a write that ends before the end marks the file.
LEMMA WriteFiles ==
    ASSUME TreeInv, FileInv, NEW f \in Handle, NEW count \in Count, NEW b \in Byte,
           tmpfs_write_file(f, count, b)
    PROVE  FileInv'
<1> SUFFICES ASSUME ~NullWrite PROVE FileInv'
  BY FailedFiles DEF Failed
<1> DEFINE n == file[f].dentry
           pos == file[f].file_position
<1>1. Typed
  BY DEF TreeInv
<1>2. /\ list' = list /\ status = "ok" /\ file[f] # NULL /\ count \in Nat
      /\ file[f] \in FileRecord /\ n \in DOMAIN node /\ n \in Node /\ pos \in Nat
  BY <1>1, WriteCases
<1>3. /\ node[n].length \in Nat /\ node[n].length <= Len(node[n].array)
      /\ Len(node[n].array) \in Nat /\ written \in Nat
  <2>1. node[n].array \in Seq(Byte \cup {Unwritten}) /\ node[n].length \in Nat
    BY <1>1, <1>2, NodeFacts
  <2> QED BY <1>1, <1>2, <2>1, TmpfsAssumption DEF FileInv, Typed
<1>4. n \notin cut => /\ pos <= node[n].length /\ node[n].length <= written
                      /\ Len(content[n]) = node[n].length
                      /\ \A i \in 1..node[n].length : node[n].array[i] = content[n][i]
  BY <1>2 DEF FileInv
<1>5. CASE /\ pos > Len(node[n].array)
           /\ status' = "overrun" /\ node' = node /\ file' = file
           /\ content' = content /\ cut' = cut /\ written' = written
  <2>1. n \in cut
    BY <1>2, <1>3, <1>4, <1>5
  <2>2. \A g \in Handle : file'[g] # NULL /\ file'[g].dentry \notin cut =>
           /\ file'[g].dentry \in DOMAIN node
           /\ file'[g].file_position <= node[file'[g].dentry].length
    BY <1>1, <1>5 DEF FileInv, Typed
  <2> QED BY <1>5, <2>1, <2>2, SameFiles
<1>6. CASE /\ Wrote(f, count, b) /\ status' = status /\ written' = written + count
           /\ content' = [content EXCEPT ![n] =
                IF pos <= Len(content[n]) THEN Overlay(content[n], pos, count, b) ELSE content[n]]
           /\ cut' = IF pos + count < node[n].length THEN cut \cup {n} ELSE cut
  <2>1. content \in [Node -> Seq(Byte)] /\ content[n] \in Seq(Byte)
    BY <1>1, <1>2 DEF Typed
  <2>2. pos <= Len(content[n]) =>
          Overlaid(content[n], pos, count, b, Overlay(content[n], pos, count, b))
    BY <1>2, <2>1, OverlayFacts
  <2>3. /\ node'[n].length = pos + count /\ pos + count <= Len(node'[n].array)
        /\ pos <= Len(node[n].array) => \A i \in 1..pos : node'[n].array[i] = node[n].array[i]
        /\ \A i \in pos + 1..pos + count : node'[n].array[i] = b
        /\ \A m \in DOMAIN node : m # n => node'[m] = node[m]
        /\ DOMAIN node' = DOMAIN node
        /\ file'[f].dentry = n /\ file'[f].file_position = pos + count
        /\ \A g \in Handle : g # f => file'[g] = file[g]
    BY <1>6 DEF Wrote
  <2>4. /\ pos <= Len(content[n]) => content'[n] = Overlay(content[n], pos, count, b)
        /\ \A m \in Node : m # n => content'[m] = content[m]
    BY <1>2, <1>6, <2>1
  <2>5. cut \subseteq cut' /\ cut' \subseteq cut \cup {n}
        /\ (n \notin cut' => n \notin cut /\ node[n].length <= pos + count)
    BY <1>2, <1>3, <1>6
  <2>6. DOMAIN node \subseteq Node
    BY <1>1, NodeFacts
  <2> HIDE DEF n, pos
  <2>7. \A m \in DOMAIN node' : node'[m].length <= Len(node'[m].array)
    BY <2>3 DEF FileInv
  <2>8. n \notin cut' =>
          /\ node'[n].length <= written' /\ Len(content'[n]) = node'[n].length
          /\ \A i \in 1..node'[n].length : node'[n].array[i] = content'[n][i]
    <3> SUFFICES ASSUME n \notin cut'
                 PROVE  /\ node'[n].length <= written' /\ Len(content'[n]) = node'[n].length
                        /\ \A i \in 1..node'[n].length : node'[n].array[i] = content'[n][i]
      OBVIOUS
    <3>1. /\ n \notin cut /\ node[n].length <= pos + count /\ pos <= node[n].length
          /\ node[n].length <= written /\ Len(content[n]) = node[n].length
          /\ \A i \in 1..node[n].length : node[n].array[i] = content[n][i]
      BY <1>4, <2>5
    <3>2. Overlaid(content[n], pos, count, b, content'[n])
      BY <2>2, <2>4, <3>1
    <3>3. /\ Len(content'[n]) = pos + count
          /\ \A i \in 1..pos : content'[n][i] = content[n][i]
          /\ \A i \in pos + 1..pos + count : content'[n][i] = b
      BY <1>2, <1>3, <3>1, <3>2 DEF Overlaid
    <3>4. \A i \in 1..pos : node'[n].array[i] = node[n].array[i]
      <4>1. pos <= Len(node[n].array)
        <5>1. pos \in Nat
          BY <1>2
        <5> QED BY ONLY <1>3, <3>1, <5>1
      <4> QED BY <2>3, <4>1
    <3>5. ASSUME NEW i \in 1..pos + count PROVE node'[n].array[i] = content'[n][i]
      <4>1. CASE i \in 1..pos
        <5>1. i \in 1..node[n].length
          BY <1>2, <1>3, <3>1, <4>1
        <5> QED BY <3>1, <3>3, <3>4, <4>1, <5>1
      <4>2. CASE i \notin 1..pos
        <5>1. i \in pos + 1..pos + count
          BY <1>2, <4>2
        <5> QED BY <2>3, <3>3, <5>1
      <4> QED BY <4>1, <4>2
    <3>6. node'[n].length <= written'
      BY <1>2, <1>3, <1>6, <2>3, <3>1
    <3> QED BY <2>3, <3>3, <3>5, <3>6
  <2>9. ASSUME NEW m \in DOMAIN node' \ cut'
        PROVE  /\ node'[m].length <= written' /\ Len(content'[m]) = node'[m].length
               /\ \A i \in 1..node'[m].length : node'[m].array[i] = content'[m][i]
    <3>1. CASE m = n
      BY <2>8, <3>1
    <3>2. CASE m # n
      <4>1. /\ m \in DOMAIN node \ cut /\ node'[m] = node[m] /\ content'[m] = content[m]
        BY <2>3, <2>4, <2>5, <2>6, <3>2
      <4>2. /\ node[m].length <= written /\ Len(content[m]) = node[m].length
            /\ \A i \in 1..node[m].length : node[m].array[i] = content[m][i]
        BY <4>1 DEF FileInv
      <4>3. node[m].length \in Nat
        BY <1>1, <4>1, NodeFacts
      <4>4. node[m].length <= written'
        BY <1>2, <1>3, <1>6, <4>2, <4>3
      <4> QED BY <4>1, <4>2, <4>4
    <3> QED BY <3>1, <3>2
  <2>10. \A m \in Node \ DOMAIN node' : content'[m] = <<>>
    BY <1>2, <2>3, <2>4 DEF FileInv
  <2>11. ASSUME NEW g \in Handle, file'[g] # NULL, file'[g].dentry \notin cut'
         PROVE  file'[g].file_position <= node'[file'[g].dentry].length
    <3>1. CASE g = f
      BY <1>2, <2>3, <3>1
    <3>2. CASE g # f /\ file[g].dentry # n
      <4>1. file'[g] = file[g] /\ file[g].dentry \in DOMAIN node /\ file[g].dentry \notin cut
        BY <1>1, <2>3, <2>5, <2>11, <3>2 DEF Typed
      <4>2. file[g].file_position <= node[file[g].dentry].length
        BY <2>11, <4>1 DEF FileInv
      <4> QED BY <2>3, <3>2, <4>1, <4>2
    <3>3. CASE g # f /\ file[g].dentry = n
      <4>1. file'[g] = file[g] /\ n \notin cut' /\ n \notin cut /\ file[g] # NULL
        BY <2>3, <2>5, <2>11, <3>3
      <4>2. file[g].file_position <= node[n].length /\ node[n].length <= pos + count
        BY <2>5, <3>3, <4>1 DEF FileInv
      <4>3. file[g].file_position \in Nat
        BY <1>1, <4>1 DEF Typed, FileRecord
      <4> QED BY <1>2, <1>3, <2>3, <3>3, <4>1, <4>2, <4>3
    <3> QED BY <3>1, <3>2, <3>3
  <2>12. status' # "overrun"
    BY <1>2, <1>6
  <2>13. \A m \in DOMAIN node' \ cut' :
         /\ node'[m].length <= written' /\ Len(content'[m]) = node'[m].length
         /\ \A i \in 1..node'[m].length : node'[m].array[i] = content'[m][i]
    BY <2>9
  <2>14. \A g \in Handle : file'[g] # NULL /\ file'[g].dentry \notin cut' =>
         file'[g].file_position <= node'[file'[g].dentry].length
    BY <2>11
  <2> QED BY <2>7, <2>10, <2>12, <2>13, <2>14 DEF FileInv
<1> QED BY <1>1, <1>5, <1>6, WriteCases

\* Every operation keeps the files right.
LEMMA NextFileInv == TreeInv /\ FileInv /\ [Next]_vars => FileInv'
<1> SUFFICES ASSUME TreeInv, FileInv, [Next]_vars PROVE FileInv'
  OBVIOUS
<1>0. Typed
  BY DEF TreeInv
<1>1. CASE vfs_register
  <2>1. /\ node' = node /\ file' = file /\ content' = content /\ cut' = cut
        /\ written' = written /\ status' # "overrun"
    BY <1>1 DEF vfs_register
  <2> QED BY <1>0, <2>1, SameHandles
<1>2. CASE create_tmpfs_root
  BY <1>2, RootFiles
<1>3. CASE vfs_free
  <2>1. /\ node' = node /\ file' = file /\ content' = content /\ cut' = cut
        /\ written' = written /\ status' # "overrun"
    BY <1>3 DEF vfs_free
  <2> QED BY <1>0, <2>1, SameHandles
<1>4. ASSUME NEW p \in Range(list), NEW name \in Name,
             tmpfs_create("FILE", p, name) \/ tmpfs_create("DIRECTORY", p, name)
      PROVE  FileInv'
  BY <1>4, CreateFiles
<1>5. ASSUME NEW f \in Handle, NEW n \in Range(list), tmpfs_open_file(f, n)
      PROVE  FileInv'
  BY <1>5, OpenFiles
<1>6. ASSUME NEW f \in Handle, tmpfs_close_file(f)
      PROVE  FileInv'
  BY <1>6, CloseFiles
<1>7. ASSUME NEW f \in Handle, NEW count \in Count, tmpfs_read_file(f, count)
      PROVE  FileInv'
  BY <1>7, ReadFiles
<1>8. ASSUME NEW f \in Handle, NEW count \in Count, NEW b \in Byte, tmpfs_write_file(f, count, b)
      PROVE  FileInv'
  BY <1>8, WriteFiles
<1>9. ASSUME NEW path, create_dir(path)
      PROVE  FileInv'
  <2>1. /\ node' = node /\ file' = file /\ content' = content /\ cut' = cut
        /\ written' = written /\ status = "ok"
    BY <1>9 DEF create_dir
  <2>2. status' # "overrun"
    BY <1>9, <2>1, CreateDirStatus
  <2> QED BY <1>0, <2>1, <2>2, SameHandles
<1>10. CASE UNCHANGED vars
  <2>1. /\ node' = node /\ file' = file /\ content' = content /\ cut' = cut
        /\ written' = written /\ status' = status
    BY <1>10 DEF vars
  <2> QED BY <2>1 DEF FileInv
<1> QED BY <1>1, <1>2, <1>3, <1>4, <1>5, <1>6, <1>7, <1>8, <1>9, <1>10 DEF Next

\* The prefix of the array is the ghost, element by element.
LEMMA FileInvHolds == TreeInv /\ FileInv => FilesHoldWrites
<1> SUFFICES ASSUME TreeInv, FileInv PROVE FilesHoldWrites
  OBVIOUS
<1>1. Typed
  BY DEF TreeInv
<1>2. ContentMatches
  <2> SUFFICES ASSUME NEW n \in DOMAIN node \ cut
               PROVE  SubSeq(node[n].array, 1, node[n].length) = content[n]
    BY DEF ContentMatches
  <2>1. /\ n \in Node /\ node[n].length \in Nat /\ node[n].array \in Seq(Byte \cup {Unwritten})
    BY <1>1, NodeFacts
  <2>2. /\ node[n].length <= Len(node[n].array) /\ Len(content[n]) = node[n].length
        /\ \A i \in 1..node[n].length : node[n].array[i] = content[n][i]
    BY DEF FileInv
  <2>3. content[n] \in Seq(Byte)
    BY <1>1, <2>1 DEF Typed
  <2> DEFINE a == node[n].array
             k == node[n].length
             c == content[n]
  <2> HIDE DEF a, k, c
  <2>4. /\ a \in Seq(Byte \cup {Unwritten}) /\ k \in Nat /\ k <= Len(a)
        /\ c \in Seq(Byte) /\ Len(c) = k /\ \A i \in 1..k : a[i] = c[i]
    BY <2>1, <2>2, <2>3 DEF a, k, c
  <2>5. SubSeq(a, 1, k) = [i \in 1..k |-> a[i]]
    BY <2>4
  <2>6. c = [i \in 1..k |-> c[i]]
    BY <2>4
  <2>7. SubSeq(a, 1, k) = c
    BY <2>4, <2>5, <2>6
  <2> QED BY <2>7 DEF a, k, c
<1>3. OverrunOnlyAfterCut
  BY DEF FileInv, OverrunOnlyAfterCut
<1> QED BY <1>2, <1>3 DEF FilesHoldWrites

\* However many handles read and write a file, it holds what was written to it and no
\* access leaves its array, until a write through one handle makes it shorter.
THEOREM FilesAlwaysHoldWrites == Spec => []FilesHoldWrites
<1>1. Init => FileInv
  <2> SUFFICES ASSUME Init PROVE FileInv
    OBVIOUS
  <2>1. /\ node = <<>> /\ file = [f \in Handle |-> NULL] /\ status = "ok"
        /\ content = [n \in Node |-> <<>>]
    BY DEF Init
  <2>2. DOMAIN node = {}
    BY <2>1
  <2> QED BY <2>1, <2>2 DEF FileInv
<1>2. Spec => [](TreeInv /\ FileInv)
  BY <1>1, InitTreeInv, NextTreeInv, NextFileInv, PTL DEF Spec
<1> QED BY <1>2, FileInvHolds, PTL

-----------------------------------------------------------------------------
(* The lookup of a path.                                                   *)

\* An entry is made after the directory that it is in, and that is a directory.
SmallerParents ==
    \A n \in DOMAIN node :
        node[n].parent # NULL =>
            node[n].parent < n /\ node[node[n].parent].type = "DIRECTORY"

\* A set of natural numbers has a least element.
LEMMA LeastNumber ==
    ASSUME NEW T, T \subseteq Nat, T # {}
    PROVE  \E x \in T : \A y \in T : x <= y
<1> DEFINE R == OpToRel(<, Nat)
<1>1. IsWellFoundedOn(R, Nat)
  BY NatLessThanWellFounded
<1>2. \A x, y \in Nat : x < y => <<x, y>> \in R
  BY DEF OpToRel
<1> HIDE DEF R
<1>3. PICK x \in T : \A y \in T : ~(<<y, x>> \in R)
  BY <1>1, WFMin
<1>4. ASSUME NEW y \in T PROVE x <= y
  <2>1. x \in Nat /\ y \in Nat
    OBVIOUS
  <2>2. ~(y < x)
    BY <1>2, <1>3, <2>1, Zenon
  <2> QED BY ONLY <2>1, <2>2, SMT
<1> QED BY <1>4, Zenon

\* What holds at n where it holds at every smaller number holds everywhere.
LEMMA StrongInduction ==
    ASSUME NEW T, \A n \in Nat : (\A m \in 0 .. n - 1 : m \in T) => n \in T
    PROVE  Nat \subseteq T
<1> DEFINE U == {k \in Nat : k \notin T}
<1>1. SUFFICES ASSUME U # {} PROVE FALSE
  OBVIOUS
<1>2. PICK x \in U : \A y \in U : x <= y
  <2>1. U \subseteq Nat /\ U # {}
    BY <1>1
  <2> HIDE DEF U
  <2> QED BY <2>1, LeastNumber
<1>3. \A m \in 0 .. x - 1 : m \in T
  BY <1>2
<1> QED BY <1>2, <1>3

\* A step that makes no node keeps the parents.
LEMMA SmallerKept ==
    ASSUME Typed, SmallerParents, DOMAIN node' = DOMAIN node,
           \A m \in DOMAIN node : node'[m].type = node[m].type /\ node'[m].parent = node[m].parent
    PROVE  SmallerParents'
<1>1. \A n \in DOMAIN node : node[n].parent \in DOMAIN node \cup {NULL}
  BY DEF Typed
<1> QED BY <1>1 DEF SmallerParents

\* One node has another reference count, or other bytes and another length.
LEMMA SmallerReplaced ==
    ASSUME Typed, SmallerParents, NEW n \in DOMAIN node, NEW r,
           r.type = node[n].type, r.parent = node[n].parent,
           node' = [node EXCEPT ![n] = r]
    PROVE  SmallerParents'
<1>1. DOMAIN node' = DOMAIN node
      /\ \A m \in DOMAIN node : node'[m] = IF m = n THEN r ELSE node[m]
  BY DEF Typed
<1>2. \A m \in DOMAIN node : node'[m].type = node[m].type /\ node'[m].parent = node[m].parent
  BY <1>1
<1> QED BY <1>1, <1>2, SmallerKept

\* A creation makes a node behind all the others.
LEMMA SmallerCreated ==
    ASSUME Typed, SmallerParents, NEW type \in {"FILE", "DIRECTORY"}, NEW name \in Name,
           NEW parent \in Range(list), tmpfs_create(type, parent, name)
    PROVE  SmallerParents'
<1> DEFINE n == Len(node) + 1
<1>1. SUFFICES ASSUME Created(type, parent, name) PROVE SmallerParents'
  <2>1. Failed => SmallerParents'
    BY DEF Failed, NullWrite, NotAllocated, SmallerParents
  <2> QED BY <2>1, CreateOutcome
<1>2. /\ Len(node) \in Nat /\ DOMAIN node = 1..Len(node) /\ DOMAIN node' = 1..n
      /\ parent \in DOMAIN node
      /\ \A m \in DOMAIN node : m # parent => node'[m] = node[m]
  BY <1>1 DEF Created
<1>3. node[parent] \in NodeRecord
  BY <1>2, NodeFacts
<1>4. \A m \in DOMAIN node : node'[m].type = node[m].type /\ node'[m].parent = node[m].parent
  <2>1. node'[parent].type = node[parent].type /\ node'[parent].parent = node[parent].parent
    BY <1>1, <1>3 DEF Created, NodeRecord
  <2> QED BY <1>2, <2>1
<1>5. node'[n].parent = IF node[parent].type = "DIRECTORY" THEN parent ELSE NULL
  BY <1>1 DEF Created, create_inode_base
<1>6. \A m \in DOMAIN node : node[m].parent \in DOMAIN node \cup {NULL}
  BY DEF Typed
<1> HIDE DEF n
<1>7. ASSUME NEW m \in DOMAIN node', node'[m].parent # NULL
      PROVE  node'[m].parent < m /\ node'[node'[m].parent].type = "DIRECTORY"
  <2>1. CASE m \in DOMAIN node
    <3>1. node'[m].parent = node[m].parent /\ node[m].parent \in DOMAIN node
      BY <1>4, <1>6, <1>7, <2>1
    <3> QED BY <1>4, <1>7, <2>1, <3>1 DEF SmallerParents
  <2>2. CASE m = n
    <3>1. node'[m].parent = parent /\ node[parent].type = "DIRECTORY"
      BY <1>5, <1>7, <2>2
    <3>2. parent < m
      BY <1>2, <2>2 DEF n
    <3> QED BY <1>2, <1>4, <3>1, <3>2
  <2> QED BY <1>2, <2>1, <2>2 DEF n
<1> QED BY <1>7 DEF SmallerParents

\* Every step keeps the parents.
LEMMA NextSmaller == TreeInv /\ SmallerParents /\ [Next]_vars => SmallerParents'
<1> SUFFICES ASSUME TreeInv, SmallerParents, [Next]_vars PROVE SmallerParents'
  OBVIOUS
<1>0. Typed
  BY DEF TreeInv
<1>1. ASSUME node' = node PROVE SmallerParents'
  BY <1>1 DEF SmallerParents
<1>12. ASSUME Failed PROVE SmallerParents'
  BY <1>1, <1>12 DEF Failed, NullWrite, NotAllocated
<1>2. CASE create_tmpfs_root /\ ~Failed
  <2>1. node' = <<create_inode_base("DIRECTORY", <<>>, NULL)>>
    BY <1>2 DEF create_tmpfs_root, Failed
  <2>2. create_inode_base("DIRECTORY", <<>>, NULL).parent = NULL
    BY DEF create_inode_base
  <2>3. \A n \in DOMAIN node' : node'[n].parent = NULL
    BY <2>1, <2>2
  <2> QED BY <2>3 DEF SmallerParents
<1>3. CASE vfs_register \/ vfs_free
  BY <1>1, <1>3 DEF vfs_register, vfs_free
<1>4. ASSUME NEW p \in Range(list), NEW name \in Name,
             tmpfs_create("FILE", p, name) \/ tmpfs_create("DIRECTORY", p, name)
      PROVE  SmallerParents'
  BY <1>0, <1>4, SmallerCreated
<1>5. ASSUME NEW n \in DOMAIN node, NEW k, node' = [node EXCEPT ![n].refcount = k]
      PROVE  SmallerParents'
  <2>1. PICK r : r = [node[n] EXCEPT !.refcount = k]
    OBVIOUS
  <2>2. node[n] \in NodeRecord
    BY <1>0, NodeFacts
  <2>3. r.type = node[n].type /\ r.parent = node[n].parent
    BY <2>1, <2>2 DEF NodeRecord
  <2>4. node' = [node EXCEPT ![n] = r]
    BY <1>5, <2>1
  <2> QED BY <1>0, <2>3, <2>4, SmallerReplaced
<1>6. ASSUME NEW f \in Handle, NEW n \in Range(list), tmpfs_open_file(f, n)
      PROVE  SmallerParents'
  <2>1. /\ n \in DOMAIN node
        /\ node' = [node EXCEPT ![n].refcount = node[n].refcount + 1] \/ node' = node
    BY <1>0, <1>6 DEF tmpfs_open_file, Typed, NotAllocated
  <2> QED BY <1>1, <1>5, <2>1
<1>7. ASSUME NEW f \in Handle, tmpfs_close_file(f)
      PROVE  SmallerParents'
  <2>1. \/ node' = node
        \/ node' = [node EXCEPT ![file[f].dentry].refcount = node[file[f].dentry].refcount - 1]
    BY <1>7 DEF tmpfs_close_file
  <2>2. file[f].dentry \in DOMAIN node
    BY <1>0, <1>7 DEF tmpfs_close_file, Typed
  <2> QED BY <1>1, <1>5, <2>1, <2>2
<1>8. ASSUME NEW f \in Handle, NEW count \in Count, tmpfs_read_file(f, count)
      PROVE  SmallerParents'
  BY <1>1, <1>8 DEF tmpfs_read_file
<1>9. ASSUME NEW f \in Handle, NEW count \in Count, NEW b \in Byte, tmpfs_write_file(f, count, b)
      PROVE  SmallerParents'
  <2>1. file[f].dentry \in DOMAIN node
    BY <1>0, <1>9 DEF tmpfs_write_file, Typed
  <2> DEFINE n == file[f].dentry
             a == Overlay(Resized(node[n].array, count), file[f].file_position, count, b)
             k == LengthAfter(n, file[f].file_position, count)
  <2>2. node' = node \/ node' = [node EXCEPT ![n].array = a, ![n].length = k]
    BY <1>9 DEF tmpfs_write_file, NullWrite
  <2> HIDE DEF a, k
  <2>3. CASE node' = [node EXCEPT ![n].array = a, ![n].length = k]
    <3>1. PICK r : r = [node[n] EXCEPT !.array = a, !.length = k]
      OBVIOUS
    <3>2. node[n] \in NodeRecord
      BY <1>0, <2>1, NodeFacts
    <3>3. r.type = node[n].type /\ r.parent = node[n].parent
      BY <3>1, <3>2 DEF NodeRecord
    <3>4. node' = [node EXCEPT ![n] = r]
      BY <2>1, <2>3, <3>1
    <3> QED BY <1>0, <2>1, <3>3, <3>4, SmallerReplaced
  <2> QED BY <1>1, <2>2, <2>3
<1>10. ASSUME NEW path, create_dir(path) PROVE SmallerParents'
  BY <1>1, <1>10 DEF create_dir
<1>11. CASE UNCHANGED vars
  BY <1>1, <1>11 DEF vars
<1> QED BY <1>2, <1>3, <1>4, <1>6, <1>7, <1>8, <1>9, <1>10, <1>11, <1>12 DEF Next

\* The function behind PathOf, on the first m nodes.
IsPathOf(g, m) ==
    g = [n \in 1 .. m |-> IF node[n].parent \in {NULL, root} THEN <<node[n].name>>
                          ELSE Append(g[node[n].parent], node[n].name)]

\* The function behind Ancestors, on the first m nodes.
IsAncestors(g, m) ==
    g = [n \in 1 .. m |-> IF node[n].parent \in {NULL, root} THEN {n}
                          ELSE {n} \cup g[node[n].parent]]

\* The parent of a node is none, or lies before it.
LEMMA ParentBefore ==
    ASSUME Typed, SmallerParents, NEW n \in 1 .. Len(node), node[n].parent \notin {NULL, root}
    PROVE  node[n].parent \in 1 .. n - 1
<1>1. DOMAIN node = 1 .. Len(node) /\ Len(node) \in Nat
  BY DEF Typed
<1>2. node[n].parent \in DOMAIN node /\ node[n].parent < n
  BY <1>1 DEF Typed, SmallerParents
<1> QED BY <1>1, <1>2

\* A node is behind its parent, so there is such a function for any number of nodes.
LEMMA PathOfExists ==
    ASSUME Typed, SmallerParents
    PROVE  \A m \in Nat : m <= Len(node) => \E g : IsPathOf(g, m)
<1> DEFINE T == {m \in Nat : m <= Len(node) => \E g : IsPathOf(g, m)}
<1>1. Len(node) \in Nat
  BY DEF Typed
<1>2. ASSUME NEW m \in Nat, \A j \in 0 .. m - 1 : j \in T PROVE m \in T
  <2>1. SUFFICES ASSUME m <= Len(node) PROVE \E g : IsPathOf(g, m)
    OBVIOUS
  <2>2. CASE m = 0
    <3> DEFINE g == [i \in 1 .. m |-> 0]
    <3>1. IsPathOf(g, m)
      BY <2>2 DEF IsPathOf
    <3> QED BY <3>1
  <2>3. CASE m # 0
    <3>1. m - 1 \in T /\ m - 1 \in Nat /\ m - 1 <= Len(node)
      BY <1>1, <1>2, <2>1, <2>3
    <3>2. PICK f : IsPathOf(f, m - 1)
      BY <3>1
    <3>3. \A n \in 1 .. m - 1 : f[n] = IF node[n].parent \in {NULL, root} THEN <<node[n].name>>
                                       ELSE Append(f[node[n].parent], node[n].name)
      BY <3>2, Zenon DEF IsPathOf
    <3> DEFINE new == IF node[m].parent \in {NULL, root} THEN <<node[m].name>>
                      ELSE Append(f[node[m].parent], node[m].name)
               g == [i \in 1 .. m |-> IF i = m THEN new ELSE f[i]]
    <3> HIDE DEF new
    <3>4. g[m] = new /\ \A i \in 1 .. m - 1 : g[i] = f[i]
      BY <2>3
    <3>5. g = [i \in 1 .. m |-> g[i]]
      OBVIOUS
    <3> HIDE DEF g
    <3>6. ASSUME NEW n \in 1 .. m
          PROVE  g[n] = IF node[n].parent \in {NULL, root} THEN <<node[n].name>>
                        ELSE Append(g[node[n].parent], node[n].name)
      <4>1. node[n].parent \notin {NULL, root} => node[n].parent \in 1 .. m - 1
        <5>1. HAVE node[n].parent \notin {NULL, root}
        <5>2. n \in 1 .. Len(node)
          BY <1>1, <2>1
        <5>3. node[n].parent \in 1 .. n - 1
          BY <5>1, <5>2, ParentBefore
        <5> QED BY <5>3
      <4>2. node[n].parent \notin {NULL, root} => g[node[n].parent] = f[node[n].parent]
        BY <3>4, <4>1
      <4>3. CASE n = m
        BY <3>4, <4>2, <4>3 DEF new
      <4>4. CASE n # m
        <5>1. n \in 1 .. m - 1
          BY <4>4
        <5> QED BY <3>3, <3>4, <4>2, <5>1
      <4> QED BY <4>3, <4>4
    <3>7. IsPathOf(g, m)
      BY <3>5, <3>6 DEF IsPathOf
    <3> QED BY <3>7
  <2> QED BY <2>2, <2>3
<1> HIDE DEF T
<1>3. Nat \subseteq T
  BY <1>2, StrongInduction
<1> QED BY <1>3 DEF T

\* The same for the ancestors.
LEMMA AncestorsExist ==
    ASSUME Typed, SmallerParents
    PROVE  \A m \in Nat : m <= Len(node) => \E g : IsAncestors(g, m)
<1> DEFINE T == {m \in Nat : m <= Len(node) => \E g : IsAncestors(g, m)}
<1>1. Len(node) \in Nat
  BY DEF Typed
<1>2. ASSUME NEW m \in Nat, \A j \in 0 .. m - 1 : j \in T PROVE m \in T
  <2>1. SUFFICES ASSUME m <= Len(node) PROVE \E g : IsAncestors(g, m)
    OBVIOUS
  <2>2. CASE m = 0
    <3> DEFINE g == [i \in 1 .. m |-> 0]
    <3>1. IsAncestors(g, m)
      BY <2>2 DEF IsAncestors
    <3> QED BY <3>1
  <2>3. CASE m # 0
    <3>1. m - 1 \in T /\ m - 1 \in Nat /\ m - 1 <= Len(node)
      BY <1>1, <1>2, <2>1, <2>3
    <3>2. PICK f : IsAncestors(f, m - 1)
      BY <3>1
    <3>3. \A n \in 1 .. m - 1 : f[n] = IF node[n].parent \in {NULL, root} THEN {n}
                                       ELSE {n} \cup f[node[n].parent]
      BY <3>2, Zenon DEF IsAncestors
    <3> DEFINE new == IF node[m].parent \in {NULL, root} THEN {m} ELSE {m} \cup f[node[m].parent]
               g == [i \in 1 .. m |-> IF i = m THEN new ELSE f[i]]
    <3> HIDE DEF new
    <3>4. g[m] = new /\ \A i \in 1 .. m - 1 : g[i] = f[i]
      BY <2>3
    <3>5. g = [i \in 1 .. m |-> g[i]]
      OBVIOUS
    <3> HIDE DEF g
    <3>6. ASSUME NEW n \in 1 .. m
          PROVE  g[n] = IF node[n].parent \in {NULL, root} THEN {n} ELSE {n} \cup g[node[n].parent]
      <4>1. node[n].parent \notin {NULL, root} => node[n].parent \in 1 .. m - 1
        <5>1. HAVE node[n].parent \notin {NULL, root}
        <5>2. n \in 1 .. Len(node)
          BY <1>1, <2>1
        <5>3. node[n].parent \in 1 .. n - 1
          BY <5>1, <5>2, ParentBefore
        <5> QED BY <5>3
      <4>2. node[n].parent \notin {NULL, root} => g[node[n].parent] = f[node[n].parent]
        BY <3>4, <4>1
      <4>3. CASE n = m
        BY <3>4, <4>2, <4>3 DEF new
      <4>4. CASE n # m
        <5>1. n \in 1 .. m - 1
          BY <4>4
        <5> QED BY <3>3, <3>4, <4>2, <5>1
      <4> QED BY <4>3, <4>4
    <3>7. IsAncestors(g, m)
      BY <3>5, <3>6 DEF IsAncestors
    <3> QED BY <3>7
  <2> QED BY <2>2, <2>3
<1> HIDE DEF T
<1>3. Nat \subseteq T
  BY <1>2, StrongInduction
<1> QED BY <1>3 DEF T

\* What PathOf and Ancestors are at a node.
LEMMA UpwardFacts ==
    ASSUME Typed, SmallerParents, NEW n \in DOMAIN node
    PROVE  /\ PathOf[n] = IF node[n].parent \in {NULL, root} THEN <<node[n].name>>
                          ELSE Append(PathOf[node[n].parent], node[n].name)
           /\ Ancestors[n] = IF node[n].parent \in {NULL, root} THEN {n}
                             ELSE {n} \cup Ancestors[node[n].parent]
<1>1. DOMAIN node = 1 .. Len(node) /\ Len(node) \in Nat
  BY DEF Typed
<1>2. IsPathOf(PathOf, Len(node))
  <2>1. PathOf = CHOOSE g : IsPathOf(g, Len(node))
    BY <1>1 DEF PathOf, IsPathOf
  <2>2. \E g : IsPathOf(g, Len(node))
    BY <1>1, PathOfExists
  <2> QED BY <2>1, <2>2
<1>3. IsAncestors(Ancestors, Len(node))
  <2>1. Ancestors = CHOOSE g : IsAncestors(g, Len(node))
    BY <1>1 DEF Ancestors, IsAncestors
  <2>2. \E g : IsAncestors(g, Len(node))
    BY <1>1, AncestorsExist
  <2> QED BY <2>1, <2>2
<1>4. PICK p, a : p = PathOf /\ a = Ancestors
  OBVIOUS
<1>5. /\ p[n] = IF node[n].parent \in {NULL, root} THEN <<node[n].name>>
                ELSE Append(p[node[n].parent], node[n].name)
  <2>1. IsPathOf(p, Len(node)) /\ n \in 1 .. Len(node)
    BY <1>1, <1>2, <1>4
  <2> QED BY <2>1, Zenon DEF IsPathOf
<1>6. /\ a[n] = IF node[n].parent \in {NULL, root} THEN {n} ELSE {n} \cup a[node[n].parent]
  <2>1. IsAncestors(a, Len(node)) /\ n \in 1 .. Len(node)
    BY <1>1, <1>3, <1>4
  <2> QED BY <2>1, Zenon DEF IsAncestors
<1> QED BY <1>4, <1>5, <1>6

\* The function behind path_get_direntry: the entry at every component of a path.
IsCurr(g, path, m) ==
    g = [i \in 0 .. m |-> IF i = 0 THEN root
                          ELSE IF g[i - 1] \in {NULL, Garbage} THEN g[i - 1]
                          ELSE ChildMatching(g[i - 1], path[i])]

SameFront(s, t, m) == \A i \in 1 .. m : s[i] = t[i]
SameFrom0(f, g, m) == \A i \in 0 .. m : f[i] = g[i]

\* There is one for every path.
LEMMA CurrExists ==
    ASSUME NEW path
    PROVE  \A m \in Nat : \E g : IsCurr(g, path, m)
<1> DEFINE T == {m \in Nat : \E g : IsCurr(g, path, m)}
           Rest(x, i) == IF x \in {NULL, Garbage} THEN x ELSE ChildMatching(x, path[i])
<1>1. \A g, m : IsCurr(g, path, m) <=> g = [i \in 0 .. m |-> IF i = 0 THEN root ELSE Rest(g[i - 1], i)]
  BY DEF IsCurr
<1> HIDE DEF Rest
<1>2. ASSUME NEW m \in Nat, \A j \in 0 .. m - 1 : j \in T PROVE m \in T
  <2>1. CASE m = 0
    <3> DEFINE g == [i \in 0 .. m |-> root]
    <3>1. g = [i \in 0 .. m |-> IF i = 0 THEN root ELSE Rest(g[i - 1], i)]
      BY <2>1
    <3>2. IsCurr(g, path, m)
      BY <1>1, <3>1
    <3> QED BY <3>2
  <2>2. CASE m # 0
    <3>1. m - 1 \in T /\ m - 1 \in Nat
      BY <1>2, <2>2
    <3>2. PICK f : f = [i \in 0 .. m - 1 |-> IF i = 0 THEN root ELSE Rest(f[i - 1], i)]
      BY <1>1, <3>1
    <3>3. \A i \in 0 .. m - 1 : f[i] = IF i = 0 THEN root ELSE Rest(f[i - 1], i)
      BY <3>2, Zenon
    <3> DEFINE g == [i \in 0 .. m |-> IF i = m THEN Rest(f[m - 1], m) ELSE f[i]]
    <3>4. g[m] = Rest(f[m - 1], m) /\ \A i \in 0 .. m - 1 : g[i] = f[i]
      BY <2>2
    <3>5. g = [i \in 0 .. m |-> g[i]]
      OBVIOUS
    <3> HIDE DEF g
    <3>6. ASSUME NEW i \in 0 .. m PROVE g[i] = IF i = 0 THEN root ELSE Rest(g[i - 1], i)
      <4>1. i # 0 => i - 1 \in 0 .. m - 1
        OBVIOUS
      <4>2. i # 0 => g[i - 1] = f[i - 1]
        BY <3>4, <4>1
      <4>3. CASE i = m
        BY <2>2, <3>4, <4>2, <4>3
      <4>4. CASE i # m
        <5>1. i \in 0 .. m - 1
          BY <4>4
        <5> QED BY <3>3, <3>4, <4>2, <5>1
      <4> QED BY <4>3, <4>4
    <3>7. g = [i \in 0 .. m |-> IF i = 0 THEN root ELSE Rest(g[i - 1], i)]
      BY <3>5, <3>6
    <3>8. IsCurr(g, path, m)
      BY <1>1, <3>7
    <3> QED BY <3>8
  <2> QED BY <2>1, <2>2
<1> HIDE DEF T
<1>3. Nat \subseteq T
  BY <1>2, StrongInduction
<1> QED BY <1>3 DEF T

\* Two of them agree as far as the paths do.
LEMMA CurrUnique ==
    ASSUME NEW m \in Nat, NEW n \in Nat, NEW f, NEW g, NEW s, NEW t, m <= n,
           IsCurr(f, s, m), IsCurr(g, t, n), SameFront(s, t, m)
    PROVE  SameFrom0(f, g, m)
<1> DEFINE T == {i \in Nat : i \in 0 .. m => f[i] = g[i]}
           Rest(x, c) == IF x \in {NULL, Garbage} THEN x ELSE ChildMatching(x, c)
<1>1. /\ f = [i \in 0 .. m |-> IF i = 0 THEN root ELSE Rest(f[i - 1], s[i])]
      /\ g = [i \in 0 .. n |-> IF i = 0 THEN root ELSE Rest(g[i - 1], t[i])]
  BY DEF IsCurr
<1> HIDE DEF Rest
<1>2. /\ \A i \in 0 .. m : f[i] = IF i = 0 THEN root ELSE Rest(f[i - 1], s[i])
      /\ \A i \in 0 .. n : g[i] = IF i = 0 THEN root ELSE Rest(g[i - 1], t[i])
  BY <1>1, Zenon
<1>3. ASSUME NEW i \in Nat, \A j \in 0 .. i - 1 : j \in T PROVE i \in T
  <2>1. SUFFICES ASSUME i \in 0 .. m PROVE f[i] = g[i]
    OBVIOUS
  <2>2. i \in 0 .. n
    BY <2>1
  <2>3. CASE i = 0
    BY <1>2, <2>1, <2>2, <2>3
  <2>4. CASE i # 0
    <3>1. i - 1 \in T /\ i - 1 \in 0 .. m /\ i \in 1 .. m
      BY <1>3, <2>1, <2>4
    <3>2. f[i - 1] = g[i - 1] /\ s[i] = t[i]
      BY <3>1 DEF SameFront
    <3> QED BY <1>2, <2>1, <2>2, <2>4, <3>2
  <2> QED BY <2>3, <2>4
<1> HIDE DEF T
<1>4. Nat \subseteq T
  BY <1>3, StrongInduction
<1> QED BY <1>4 DEF T, SameFrom0

\* path_get_direntry is the last value of that function.
LEMMA LookupIsCurr ==
    ASSUME NEW path, Len(path) \in Nat
    PROVE  \E g : IsCurr(g, path, Len(path)) /\ path_get_direntry(path) = g[Len(path)]
<1> DEFINE g == CHOOSE f : IsCurr(f, path, Len(path))
<1>1. path_get_direntry(path) = g[Len(path)]
  BY DEF path_get_direntry, IsCurr
<1>2. IsCurr(g, path, Len(path))
  BY CurrExists
<1> QED BY <1>1, <1>2

\* One component more.
LEMMA LookupAppend ==
    ASSUME NEW S, NEW path \in Seq(S), NEW c \in S
    PROVE  path_get_direntry(Append(path, c)) =
             IF path_get_direntry(path) \in {NULL, Garbage} THEN path_get_direntry(path)
             ELSE ChildMatching(path_get_direntry(path), c)
<1> DEFINE m == Len(path)
<1>1. PICK q : q = Append(path, c)
  OBVIOUS
<1>2. /\ m \in Nat /\ Len(q) = m + 1 /\ q[m + 1] = c
      /\ \A i \in 1 .. m : q[i] = path[i]
  BY <1>1, AppendProperties, LenProperties
<1>3. PICK f : IsCurr(f, path, m) /\ path_get_direntry(path) = f[m]
  BY <1>2, LookupIsCurr
<1>4. PICK g : IsCurr(g, q, m + 1) /\ path_get_direntry(q) = g[m + 1]
  <2>1. Len(q) \in Nat
    BY <1>2
  <2> QED BY <1>2, <2>1, LookupIsCurr
<1> HIDE DEF m
<1>5. f[m] = g[m]
  <2>1. SameFront(path, q, m) /\ m <= m + 1 /\ m + 1 \in Nat
    BY <1>2 DEF SameFront
  <2>2. SameFrom0(f, g, m)
    BY <1>2, <1>3, <1>4, <2>1, CurrUnique
  <2> QED BY <1>2, <2>2 DEF SameFrom0
<1>6. g[m + 1] = IF g[m] \in {NULL, Garbage} THEN g[m] ELSE ChildMatching(g[m], c)
  <2>1. \A i \in 0 .. m + 1 : g[i] = IF i = 0 THEN root
                          ELSE IF g[i - 1] \in {NULL, Garbage} THEN g[i - 1]
                          ELSE ChildMatching(g[i - 1], q[i])
    BY <1>4, Zenon DEF IsCurr
  <2>2. m + 1 \in 0 .. m + 1 /\ m + 1 # 0 /\ (m + 1) - 1 = m
    BY <1>2
  <2>3. g[m + 1] = IF g[(m + 1) - 1] \in {NULL, Garbage} THEN g[(m + 1) - 1]
                   ELSE ChildMatching(g[(m + 1) - 1], q[m + 1])
    BY <2>1, <2>2, Zenon
  <2> QED BY <1>2, <2>2, <2>3
<1> QED BY <1>1, <1>3, <1>4, <1>5, <1>6

\* One component alone is looked for in the root.
LEMMA LookupOne ==
    ASSUME NEW c
    PROVE  path_get_direntry(<<c>>) = ChildMatching(root, c)
<1>1. PICK e : e = <<>> /\ Len(e) = 0
  OBVIOUS
<1>2. path_get_direntry(e) = root
  <2>1. PICK g : IsCurr(g, e, 0) /\ path_get_direntry(e) = g[0]
    BY <1>1, LookupIsCurr
  <2>2. \A i \in 0 .. 0 : g[i] = IF i = 0 THEN root
                          ELSE IF g[i - 1] \in {NULL, Garbage} THEN g[i - 1]
                          ELSE ChildMatching(g[i - 1], e[i])
    BY <2>1, Zenon DEF IsCurr
  <2>3. g[0] = root
    BY <2>2
  <2> QED BY <2>1, <2>3
<1>3. root \notin {NULL, Garbage}
  BY TmpfsAssumption DEF root, Garbage
<1>4. e \in Seq({c}) /\ c \in {c} /\ Append(e, c) = <<c>>
  BY <1>1
<1>5. path_get_direntry(Append(e, c)) =
        IF path_get_direntry(e) \in {NULL, Garbage} THEN path_get_direntry(e)
        ELSE ChildMatching(path_get_direntry(e), c)
  BY <1>4, LookupAppend
<1> QED BY <1>2, <1>3, <1>4, <1>5

\* The name of an entry finds it in its directory, unless another starts with it.
LEMMA ChildFound ==
    ASSUME Typed, Linked, SmallerParents, NEW n \in Range(list) \ {root},
           node[n].parent \notin null,
           \A s \in Range(node[node[n].parent].children) \ {n} :
               ~IsPrefix(node[n].name, node[s].name)
    PROVE  /\ node[n].parent \in Range(list) /\ node[n].parent \in 1 .. n - 1
           /\ ChildMatching(node[n].parent, node[n].name) = n
<1> DEFINE p == node[n].parent
           ch == node[p].children
           name == node[n].name
           I == {i \in 1 .. Len(ch) : IsPrefix(name, node[ch[i]].name)}
<1>1. n \in DOMAIN node /\ DOMAIN node = 1 .. Len(node) /\ Len(node) \in Nat
  BY DEF Typed
<1>2. p # NULL /\ p \in DOMAIN node /\ p < n /\ node[p].type = "DIRECTORY"
  BY <1>1 DEF Linked, Typed, SmallerParents
<1>3. n \in Range(ch) /\ IsInjective(ch)
  BY <1>1, <1>2 DEF Linked
<1>4. p \in Range(list)
  <2>1. HoldsAll(Range(list))
    <3>1. node # <<>>
      BY <1>1
    <3> QED BY <3>1, ListHoldsTree
  <2>2. p = root \/ node[p].parent # NULL
    <3>1. SUFFICES ASSUME p # root, node[p].parent = NULL PROVE FALSE
      OBVIOUS
    <3> DEFINE S == Range(list) \ {n}
    <3>2. p \notin Range(list)
      BY <1>2, <3>1 DEF Linked
    <3>3. HoldsAll(S)
      <4>1. root \in S
        BY <2>1 DEF HoldsAll
      <4>2. ASSUME NEW q \in S, NEW c \in Range(node[q].children) PROVE c \in S
        <5>1. c \in Range(list)
          BY <2>1, <4>2 DEF HoldsAll
        <5>2. q \in DOMAIN node /\ q # p
          BY <3>2, <4>2 DEF Typed
        <5>3. c # n
          BY <1>1, <4>2, <5>2 DEF Linked
        <5> QED BY <5>1, <5>3
      <4> HIDE DEF S
      <4> QED BY <4>1, <4>2 DEF HoldsAll
    <3>4. S \in SUBSET DOMAIN node
      BY DEF Typed
    <3>5. Range(list) \subseteq S
      BY <3>3, <3>4 DEF Linked
    <3> QED BY <3>5
  <2> QED BY <1>2, <2>2 DEF Linked
<1>5. ch \in Seq(Node) /\ Len(ch) \in Nat /\ DOMAIN ch = 1 .. Len(ch)
  <2>1. ch \in Seq(Node)
    BY <1>2, NodeFacts
  <2> QED BY <2>1, LenProperties
<1>6. PICK k \in 1 .. Len(ch) : ch[k] = n
  BY <1>3, <1>5 DEF Range
<1>7. IsPrefix(name, name)
  <2>1. name \in Seq(Nat)
    <3>1. node[n] \in NodeRecord
      BY <1>1, NodeFacts
    <3>2. name \in Name \cup {<<>>}
      BY <3>1 DEF NodeRecord
    <3> QED BY <3>2, TmpfsAssumption, EmptySeq
  <2> QED BY <2>1, LenProperties DEF IsPrefix
<1>8. I = {k}
  <2>1. k \in I
    BY <1>6, <1>7
  <2>2. ASSUME NEW i \in I PROVE i = k
    <3>1. i \in 1 .. Len(ch) /\ IsPrefix(name, node[ch[i]].name)
      OBVIOUS
    <3>2. ch[i] \in Range(ch)
      BY <1>5, <3>1 DEF Range
    <3>3. ch[i] = n
      BY <3>1, <3>2
    <3> QED BY <1>3, <1>5, <1>6, <3>1, <3>3 DEF IsInjective
  <2> HIDE DEF I
  <2> QED BY <2>1, <2>2
<1>9. SelectInSeq(ch, LAMBDA c : IsPrefix(name, node[c].name)) = IF I # {} THEN Min(I) ELSE 0
  BY DEF SelectInSeq
<1>10. Min({k}) = k
  BY DEF Min
<1>11. SelectInSeq(ch, LAMBDA c : IsPrefix(name, node[c].name)) = k
  BY <1>8, <1>9, <1>10
<1>12. ChildMatching(p, name) = n
  <2> DEFINE j == SelectInSeq(ch, LAMBDA c : IsPrefix(name, node[c].name))
  <2>1. ChildMatching(p, name) =
          IF \/ node[p].type = "FILE" /\ node[p].length > 0
             \/ p \in null /\ ch # <<>>
          THEN Garbage ELSE IF j = 0 THEN NULL ELSE ch[j]
    BY DEF ChildMatching
  <2>2. j = k
    BY <1>11
  <2> HIDE DEF j, p, ch, name, I
  <2>3. node[p].type # "FILE" /\ k # 0 /\ p \notin null
    BY <1>2 DEF p
  <2> QED BY <1>6, <2>1, <2>2, <2>3
<1> QED BY <1>1, <1>2, <1>4, <1>12

\* The path of an entry finds it, where no name on the way is the front of another and
\* no directory on the way has lost its array.
Clear(n) ==
    \A a \in Ancestors[n] :
        /\ node[a].parent \notin null
        /\ \A s \in Range(node[node[a].parent].children) \ {a} :
               ~IsPrefix(node[a].name, node[s].name)

\* From the tree as it is kept follows what the lookup promises.
LEMMA TreeInvLookup ==
    ASSUME TreeInv, SmallerParents
    PROVE  LookupFinds
<1>1. Typed /\ Linked
  BY DEF TreeInv
<1> DEFINE Found(n) == path_get_direntry(PathOf[n]) = n /\ PathOf[n] \in Seq(Seq(Nat))
           T == {n \in Nat : n \in Range(list) \ {root} /\ Clear(n) => Found(n)}
<1>2. ASSUME NEW n \in Nat, \A j \in 0 .. n - 1 : j \in T PROVE n \in T
  <2>1. SUFFICES ASSUME n \in Range(list) \ {root}, Clear(n) PROVE Found(n)
    OBVIOUS
  <2> DEFINE p == node[n].parent
             name == node[n].name
  <2>2. n \in DOMAIN node /\ name \in Seq(Nat)
    <3>1. n \in DOMAIN node
      BY <1>1, <2>1 DEF Typed
    <3>2. node[n] \in NodeRecord
      BY <1>1, <3>1, NodeFacts
    <3>3. name \in Name \cup {<<>>}
      BY <3>2 DEF NodeRecord
    <3> QED BY <3>1, <3>3, TmpfsAssumption, EmptySeq
  <2>3. /\ PathOf[n] = IF p \in {NULL, root} THEN <<name>> ELSE Append(PathOf[p], name)
        /\ Ancestors[n] = IF p \in {NULL, root} THEN {n} ELSE {n} \cup Ancestors[p]
    BY <1>1, <2>2, UpwardFacts
  <2>4. n \in Ancestors[n]
    BY <2>3
  <2>5. p \in Range(list) /\ p \in 1 .. n - 1 /\ ChildMatching(p, name) = n
    <3>1. /\ p \notin null
          /\ \A s \in Range(node[p].children) \ {n} : ~IsPrefix(name, node[s].name)
      BY <2>1, <2>4 DEF Clear
    <3> QED BY <1>1, <2>1, <3>1, ChildFound
  <2>6. p \notin {NULL, Garbage}
    BY <2>5, TmpfsAssumption DEF Garbage
  <2> HIDE DEF p, name, Found
  <2>7. CASE p = root
    <3>1. PathOf[n] = <<name>>
      BY <2>3, <2>7
    <3>2. path_get_direntry(<<name>>) = n
      BY <2>5, <2>7, LookupOne
    <3>3. <<name>> \in Seq(Seq(Nat))
      BY <2>2
    <3> QED BY <3>1, <3>2, <3>3 DEF Found
  <2>8. CASE p # root
    <3>1. PathOf[n] = Append(PathOf[p], name) /\ Ancestors[n] = {n} \cup Ancestors[p]
      BY <2>3, <2>6, <2>8
    <3>2. Clear(p)
      BY <2>1, <3>1 DEF Clear
    <3>3. p \in T
      BY <1>2, <2>5
    <3>4. Found(p)
      BY <2>5, <2>8, <3>2, <3>3
    <3>5. PICK path \in Seq(Seq(Nat)) : path = PathOf[p] /\ path_get_direntry(path) = p
      BY <3>4 DEF Found
    <3>6. path_get_direntry(Append(path, name)) =
             IF path_get_direntry(path) \in {NULL, Garbage} THEN path_get_direntry(path)
             ELSE ChildMatching(path_get_direntry(path), name)
      BY <2>2, LookupAppend
    <3>7. path_get_direntry(Append(path, name)) = n
      BY <2>5, <2>6, <3>5, <3>6
    <3>8. Append(path, name) \in Seq(Seq(Nat))
      BY <2>2, AppendProperties
    <3> QED BY <3>1, <3>5, <3>7, <3>8 DEF Found
  <2> QED BY <2>7, <2>8
<1>3. Nat \subseteq T
  <2> HIDE DEF T
  <2> QED BY <1>2, StrongInduction
<1>4. ASSUME NEW n \in Range(list) \ {root}, Clear(n) PROVE path_get_direntry(PathOf[n]) = n
  <2>1. n \in Nat
    <3>1. n \in DOMAIN node
      BY <1>1 DEF Typed
    <3> QED BY <1>1, <3>1, NodeFacts
  <2> QED BY <1>3, <1>4, <2>1
<1> QED BY <1>4 DEF LookupFinds, Clear

\* The path of an entry finds it, whatever was created in whatever order, unless the
\* name of the entry or of a directory on the way is the front of a sibling's name, or
\* krealloc has lost the array of a directory on the way:
\* for any number of inodes and any names.
THEOREM LookupAlwaysFinds == Spec => []LookupFinds
<1>1. Init => SmallerParents
  BY DEF Init, SmallerParents
<1>2. TreeInv /\ SmallerParents => LookupFinds
  BY TreeInvLookup
<1> QED BY <1>1, <1>2, InitTreeInv, NextTreeInv, NextSmaller, PTL DEF Spec

=============================================================================
