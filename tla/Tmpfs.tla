------------------------------- MODULE Tmpfs -------------------------------
(***************************************************************************)
(* The file system: tmpfs behind the operations of the VFS (fs/vfs.c,      *)
(* fs/inode.c, fs/file.c, fs/tmpfs/tmpfs.c) and the lookup of a path       *)
(* (path_get_direntry of fs/path.c).                                       *)
(*                                                                         *)
(* An inode and its DirEntry are made together and are one node, a number; *)
(* a name is a sequence of letters and a path the sequence of what stands  *)
(* between its slashes, so "/" has the one component <<>>.                 *)
(***************************************************************************)
EXTENDS Integers, FiniteSets, SequencesExt

CONSTANTS Name,          \* the names of files and directories
          Byte,          \* what is written
          Count,         \* the counts of a read or a write
          Handle,        \* the File structures
          NULL,
          TMPFS_DEFAULT_FILE_ALLOC_SIZE,
          TMPFS_DEFAULT_DIR_ALLOC_SIZE,
          FILESYSTEMS_SIZE,  \* what vfs_create makes room for
          Word,          \* 2^32 in the code
          MaxNodes,      \* bound on the inodes
          MaxWritten     \* bound on the bytes written to files

ASSUME TmpfsAssumption ==
    /\ \A n \in Name : n \in Seq(Nat) /\ n # <<>>
    /\ Count \subseteq Nat \ {0}
    /\ TMPFS_DEFAULT_FILE_ALLOC_SIZE \in Nat
    /\ TMPFS_DEFAULT_DIR_ALLOC_SIZE \in Nat \ {0}
    /\ FILESYSTEMS_SIZE \in Nat \ {0}
    /\ Word \in Nat \ {0} /\ MaxWritten < Word
    /\ MaxNodes \in Nat \ {0} /\ MaxWritten \in Nat
    /\ NULL \notin Nat /\ NULL \notin [dentry : Nat, file_position : Nat]
    /\ IsFiniteSet(Handle)

VARIABLES node,      \* the inodes that have been allocated
          list,      \* the inode list of the Vfs, from head to tail
          file,      \* the open Files
          fs,        \* filesystems_size and filesystems_filled
          live,      \* the inodes that are allocated
          null,      \* the inodes whose array of entries or of bytes is NULL
          err,       \* the VfsErr of the last call
          ret,       \* what it returned: a pointer or NULL, where it returns one
          status,    \* ok, freed, or what went wrong in memory
          content,   \* ghost: what the writes to a file ask for
          cut,       \* ghost: the files a write has made shorter
          written    \* ghost: the bytes written so far

vars == <<node, list, file, fs, live, null, err, ret, status, content, cut, written>>

root == 1
Node == 1..MaxNodes
Unwritten == [unwritten |-> TRUE]

create_inode_base(type, name, parent) ==
    [type |-> type, name |-> name, parent |-> parent, children |-> <<>>,
     room |-> IF type = "FILE" THEN 0 ELSE TMPFS_DEFAULT_DIR_ALLOC_SIZE,
     refcount |-> 0, length |-> 0,
     array |-> IF type = "FILE"
               THEN [i \in 1..TMPFS_DEFAULT_FILE_ALLOC_SIZE |-> Unwritten]
               ELSE <<>>]

\* vfs_create
Init ==
    /\ node = <<>>
    /\ list = <<>>
    /\ file = [f \in Handle |-> NULL]
    /\ fs = [size |-> FILESYSTEMS_SIZE, filled |-> 0]
    /\ live = {} /\ null = {}
    /\ err = "OK" /\ ret = "none"
    /\ status = "ok"
    /\ content = [n \in Node |-> <<>>]
    /\ cut = {}
    /\ written = 0

\* Bound: the filesystems are registered before the root is made.
\* krealloc may fail: filesystems is NULL then, and the next call writes to it.
vfs_register ==
    /\ status = "ok" /\ node = <<>> /\ fs.filled < FILESYSTEMS_SIZE + 1
    /\ \/ /\ fs.size = 0
          /\ status' = "null_write" /\ UNCHANGED <<fs, err>>
       \/ /\ fs.size > 0
          /\ \E size \in IF fs.filled + 1 >= fs.size THEN {2 * fs.size, 0} ELSE {fs.size} :
               /\ fs' = [size |-> size, filled |-> fs.filled + 1]
               /\ err' = IF size = 0 THEN "ERR_ALLOC_FAILED" ELSE "OK"
          /\ UNCHANGED status
    /\ ret' = "none"
    /\ UNCHANGED <<node, list, file, live, null, content, cut, written>>

\* kmalloc or krealloc has returned NULL, and the code writes to it.
NullWrite ==
    /\ status' = "null_write"
    /\ UNCHANGED <<node, list, file, fs, live, null, err, ret, content, cut, written>>

\* kmalloc has returned NULL, and so does the caller. ERR_ALLOC_FAILED is set only
\* where err is not OK, which it is.
NotAllocated ==
    /\ err' = "OK" /\ ret' = "null"
    /\ UNCHANGED <<node, list, file, fs, live, null, status, content, cut, written>>

\* The DirEntry, the inode and the list of entries are written to unchecked; the
\* array of that list may be NULL.
create_tmpfs_root ==
    /\ status = "ok" /\ node = <<>>
    /\ \/ NullWrite
       \/ /\ node' = <<create_inode_base("DIRECTORY", <<>>, NULL)>>
          /\ list' = <<root>>
          /\ live' = {root}
          /\ null' \in SUBSET {root}
          /\ err' = "OK" /\ ret' = "pointer"
          /\ UNCHANGED <<file, fs, status, content, cut, written>>

\* Mutant: a new inode becomes the head of the list and what was there is lost.
vfs_add_inode_lost(n) == list' = <<root, n>>

\* vfs_add_inode finds the inode absent: it has just been made.
vfs_add_inode(n) == list' = Append(list, n)

\* vpa_push writes the entry, and grows the array once it is full.
Pushed(dir, n) ==
    [dir EXCEPT !.children = Append(@, n),
                !.room = IF Len(dir.children) + 1 < @ THEN @ ELSE @ + Max({@ \div 4, 2})]

\* The arrays that a creation asks for: that of the inode, and a longer one of the parent.
Asked(parent, n) ==
    {n} \cup (IF /\ node[parent].type = "DIRECTORY"
                 /\ Len(node[parent].children) + 1 >= node[parent].room
              THEN {parent} ELSE {})

\* tmpfs_create_file and tmpfs_create_dir, with the DirEntry. The inode is made before
\* the parent is known to be a directory, and nothing is undone when it is not. The
\* DirEntry, the list of the inode's data and the array of the parent's entries are
\* written to unchecked, and a kmalloc or krealloc of an array that fails is not noticed.
tmpfs_create(type, parent, name) ==
    /\ status = "ok" /\ Len(node) < MaxNodes
    /\ \/ NullWrite
       \/ NotAllocated
       \/ LET n == Len(node) + 1
              made == Append(node, create_inode_base(type, name, parent)) IN
          /\ live' = live \cup {n}
          /\ \E failed \in SUBSET Asked(parent, n) : null' = null \cup failed
          /\ IF node[parent].type = "DIRECTORY"
             THEN /\ parent \notin null
                  /\ node' = [made EXCEPT ![parent] = Pushed(@, n)]
                  /\ vfs_add_inode(n)
                  /\ err' = "OK" /\ ret' = "pointer"
             ELSE /\ node' = [made EXCEPT ![n].parent = NULL]
                  /\ err' = "ERR_NOT_DIR" /\ ret' = "null"
                  /\ UNCHANGED list
          /\ UNCHANGED <<file, fs, status, content, cut, written>>

tmpfs_open_file(f, n) ==
    /\ status = "ok" /\ file[f] = NULL
    /\ \/ NotAllocated
       \/ /\ file' = [file EXCEPT ![f] = [dentry |-> n, file_position |-> 0]]
          /\ node' = [node EXCEPT ![n].refcount = @ + 1]
          /\ err' = "OK" /\ ret' = "pointer"
          /\ UNCHANGED <<list, fs, live, null, status, content, cut, written>>

\* should_delete is never set, so remove_file is never called. A File that
\* outlives vfs_free points to a DirEntry that has been freed.
tmpfs_close_file(f) ==
    /\ status \in {"ok", "freed"} /\ file[f] # NULL
    /\ \/ /\ status = "ok"
          /\ node' = [node EXCEPT ![file[f].dentry].refcount = @ - 1]
          /\ UNCHANGED status
       \/ /\ status = "freed" /\ file[f].dentry \in Range(list)
          /\ status' = "dangling" /\ UNCHANGED node
    /\ file' = [file EXCEPT ![f] = NULL]
    /\ err' = "OK" /\ ret' = "none"
    /\ UNCHANGED <<list, fs, live, null, content, cut, written>>

\* length - file_position is unsigned.
BytesRead(n, pos, count) == Min({count, (node[n].length - pos) % Word})

tmpfs_read_file(f, count) ==
    /\ status = "ok" /\ file[f] # NULL
    /\ LET n == file[f].dentry
           pos == file[f].file_position
           numb == BytesRead(n, pos, count) IN
       \/ /\ pos + numb <= Len(node[n].array)
          /\ file' = [file EXCEPT ![f].file_position = pos + numb]
          /\ UNCHANGED status
       \/ /\ pos + numb > Len(node[n].array)
          /\ status' = "overrun" /\ UNCHANGED file
    /\ err' = "OK" /\ ret' = "none"
    /\ UNCHANGED <<node, list, fs, live, null, content, cut, written>>

\* The bytes from pos on are replaced, what lies beyond them stays.
Overlay(s, pos, count, b) ==
    [i \in 1..Max({Len(s), pos + count}) |->
        IF i \in pos + 1..pos + count THEN b ELSE s[i]]

\* u8a_resize(array, capacity + count)
Resized(s, count) == s \o [i \in 1..count |-> Unwritten]

\* Mutant: what was in the file plus what is written.
LengthAfter_sum(n, pos, count) == node[n].length + count

LengthAfter(n, pos, count) == pos + count

\* An array that was NULL is made anew. When krealloc fails, memcpy writes to NULL.
tmpfs_write_file(f, count, b) ==
    /\ status = "ok" /\ file[f] # NULL
    /\ written + count <= MaxWritten
    /\ \/ NullWrite
       \/ LET n == file[f].dentry
              pos == file[f].file_position
              array == Resized(node[n].array, count) IN
          /\ \/ /\ pos + count <= Len(array)
                /\ node' = [node EXCEPT ![n].array = Overlay(array, pos, count, b),
                                        ![n].length = LengthAfter(n, pos, count)]
                /\ file' = [file EXCEPT ![f].file_position = pos + count]
                /\ null' = null \ {n}
                /\ content' = [content EXCEPT ![n] =
                     IF pos <= Len(@) THEN Overlay(@, pos, count, b) ELSE @]
                /\ cut' = IF pos + count < node[n].length THEN cut \cup {n} ELSE cut
                /\ written' = written + count
                /\ UNCHANGED status
             \/ /\ pos + count > Len(array)
                /\ status' = "overrun"
                /\ UNCHANGED <<node, file, null, content, cut, written>>
          /\ err' = "OK" /\ ret' = "none"
          /\ UNCHANGED <<list, fs, live>>

-----------------------------------------------------------------------------
(* fs/path.c and fs/file.c                                                 *)

Garbage == 0   \* what comes of a pointer that is none

\* Mutant: a child matches when the component starts with its name.
ChildMatching_swapped(d, component) ==
    LET ch == node[d].children
        i == SelectInSeq(ch, LAMBDA c : IsPrefix(node[c].name, component))
    IN  IF i = 0 THEN NULL ELSE ch[i]

\* strncmp over the length of the component: the first child whose name starts
\* with it. The bytes of a file are taken for the pointers of a directory, and so is
\* what lies at NULL.
ChildMatching(d, component) ==
    LET ch == node[d].children
        i == SelectInSeq(ch, LAMBDA c : IsPrefix(component, node[c].name))
    IN  IF \/ node[d].type = "FILE" /\ node[d].length > 0
           \/ d \in null /\ ch # <<>>
        THEN Garbage
        ELSE IF i = 0 THEN NULL ELSE ch[i]

path_get_direntry(path) ==
    LET curr[i \in 0..Len(path)] ==
            IF i = 0 THEN root
            ELSE IF curr[i - 1] \in {NULL, Garbage} THEN curr[i - 1]
            ELSE ChildMatching(curr[i - 1], path[i])
    IN  curr[Len(path)]

\* path_parent of a fresh clone: what lies behind its last byte may be a slash,
\* and then the path stays as it is.
Parents(path) ==
    {path, IF Len(path) = 1 THEN <<<<>>>> ELSE Front(path)}

\* path_exists passes NULL for err, which is read: what lies there may be something
\* else than OK, and the path counts as absent, or OK (0).
path_exists(path) == {NULL, path_get_direntry(path)}

\* The read of err may also fault. Nothing is ever created.
create_dir(path) ==
    /\ status = "ok" /\ node # <<>>
    /\ \/ status' = "null_read" /\ UNCHANGED err
       \/ \E found \in path_exists(path), p \in Parents(path) :
            LET parentDir == path_get_direntry(p) IN
            CASE found = Garbage \/ (found = NULL /\ parentDir = Garbage) ->
                   status' = "listed_file" /\ UNCHANGED err
              [] found \notin {NULL, Garbage} ->
                   err' = "ERR_EXISTS" /\ UNCHANGED status
              [] found = NULL /\ parentDir = NULL ->
                   err' = "ERR_NO_PARENT" /\ UNCHANGED status
              [] OTHER -> err' = "OK" /\ UNCHANGED status
    /\ ret' = "none"
    /\ UNCHANGED <<node, list, file, fs, live, null, content, cut, written>>

\* The inode with the data it holds, and free_direntry.
tmpfs_free_inode(n) == {n}

\* From the head of the list to its tail.
vfs_free ==
    /\ status = "ok"
    /\ status' = "freed"
    /\ live' = live \ UNION {tmpfs_free_inode(n) : n \in Range(list)}
    /\ err' = "OK" /\ ret' = "none"
    /\ UNCHANGED <<node, list, file, fs, null, content, cut, written>>

Next ==
    \/ vfs_register \/ create_tmpfs_root \/ vfs_free
    \/ \E p \in Range(list), name \in Name :
         tmpfs_create("FILE", p, name) \/ tmpfs_create("DIRECTORY", p, name)
    \/ \E f \in Handle :
         \/ \E n \in Range(list) : node[n].type = "FILE" /\ tmpfs_open_file(f, n)
         \/ tmpfs_close_file(f)
         \/ \E count \in Count : tmpfs_read_file(f, count)
         \/ \E count \in Count, b \in Byte : tmpfs_write_file(f, count, b)
    \/ \E a \in Name : create_dir(<<a>>) \/ \E b \in Name \cup {<<>>} : create_dir(<<a, b>>)

Spec == Init /\ [][Next]_vars

-----------------------------------------------------------------------------
(* What the file system promises.                                          *)

TypeOK ==
    /\ Len(node) <= MaxNodes
    /\ \A n \in DOMAIN node :
         /\ node[n].type \in {"FILE", "DIRECTORY"}
         /\ node[n].parent \in Node \cup {NULL}
         /\ Range(node[n].children) \subseteq DOMAIN node /\ node[n].room \in Nat
         /\ node[n].refcount \in Nat /\ node[n].length \in Nat
         /\ Range(node[n].array) \subseteq Byte \cup {Unwritten}
    /\ Range(list) \subseteq DOMAIN node
    /\ file \in [Handle -> [dentry : Node, file_position : Nat] \cup {NULL}]
    /\ fs \in [size : Nat, filled : Nat]
    /\ live \subseteq DOMAIN node /\ null \subseteq DOMAIN node /\ cut \subseteq DOMAIN node
    /\ ret \in {"none", "null", "pointer"}
    /\ err \in {"OK", "ERR_NOT_DIR", "ERR_EXISTS", "ERR_ALLOC_FAILED", "ERR_NO_PARENT"}
    /\ status \in {"ok", "freed", "null_read", "null_write", "listed_file",
                   "dangling", "overrun"}
    /\ content \in [Node -> Seq(Byte)] /\ written \in 0..MaxWritten

\* The entries that a directory still has: with its array they are lost.
Entries(p) == IF p \in null THEN {} ELSE Range(node[p].children)

\* A set of nodes that holds the root, and with a directory all its entries.
HoldsTree(S) == root \in S /\ \A p \in S : Entries(p) \subseteq S

\* Reached from the root through the directories.
InTree(n) == \A S \in SUBSET DOMAIN node : HoldsTree(S) => n \in S

NoneLost == \A p \in null : node[p].children = <<>>

\* The inode list of the Vfs holds the inodes of the tree, each once, and those that a
\* directory has lost because krealloc failed. An entry is in exactly the directory that
\* its parent field names: a creation that fails (add_entry_to_directory) leaves its
\* inode out of both.
ListedIffLinked ==
    /\ {n \in DOMAIN node : InTree(n)} \subseteq Range(list)
    /\ NoneLost => Range(list) \subseteq {n \in DOMAIN node : InTree(n)}
    /\ IsInjective(list)
    /\ \A p, n \in DOMAIN node :
         /\ IsInjective(node[p].children)
         /\ n \in Entries(p) <=> node[n].parent = p /\ p \notin null

\* vfs_free frees every inode of the tree, so that what stays allocated is what
\* a failed creation had made.
TreeFreed ==
    status = "freed" => live = {n \in DOMAIN node : node[n].parent = NULL} \ {root}

\* The refcount of an inode is the number of Files that are open on it.
RefcountsMatchHandles ==
    status = "ok" =>
        \A n \in DOMAIN node :
            node[n].refcount = Cardinality({f \in Handle :
                IF file[f] = NULL THEN FALSE ELSE file[f].dentry = n})

\* Unless a write has ended before the end of the file, the file holds what its
\* writes, through whichever handle, asked for.
ContentMatches ==
    \A n \in DOMAIN node \ cut :
        SubSeq(node[n].array, 1, node[n].length) = content[n]

\* A read or a write goes beyond the array of a file only after the write of
\* one handle has made the file shorter than the position of another.
OverrunOnlyAfterCut ==
    /\ status = "overrun" => cut # {}
    /\ \A f \in Handle : file[f] # NULL =>
         \/ file[f].dentry \in cut
         \/ file[f].file_position <= node[file[f].dentry].length

\* The components of the path of an entry.
PathOf[n \in DOMAIN node] ==
    IF node[n].parent \in {NULL, root} THEN <<node[n].name>>
    ELSE Append(PathOf[node[n].parent], node[n].name)

Ancestors[n \in DOMAIN node] ==
    IF node[n].parent \in {NULL, root} THEN {n} ELSE {n} \cup Ancestors[node[n].parent]

\* The path of an entry finds it, unless the name of a sibling of the entry, or
\* of a directory on the way, starts with that name (path_get_direntry compares
\* over the length of the component only), or a directory on the way has lost its array.
LookupFinds ==
    \A n \in Range(list) \ {root} :
        \/ path_get_direntry(PathOf[n]) = n
        \/ \E a \in Ancestors[n] : \E s \in Range(node[node[a].parent].children) \ {a} :
               IsPrefix(node[a].name, node[s].name)
        \/ \E a \in Ancestors[n] : node[a].parent \in null

\* There is room for one more filesystem, unless krealloc has failed.
RegisterHasRoom == fs.size = 0 \/ fs.filled < fs.size

\* Whichever allocation fails, as long as the code does not write through the NULL that
\* it got, and in whatever order files are opened and closed: list and tree agree,
\* vfs_free frees what is listed, reference counts are right, and vfs_register has room
\* for the next filesystem.
TreeConsistent ==
    /\ TypeOK /\ ListedIffLinked /\ TreeFreed
    /\ RefcountsMatchHandles /\ RegisterHasRoom

\* Several handles read and write one file: it holds what was written and accesses
\* stay in its array, until tmpfs_write_file makes it shorter under another handle.
FilesHoldWrites == ContentMatches /\ OverrunOnlyAfterCut
=============================================================================
