-------------------------------- MODULE Path --------------------------------
(***************************************************************************)
(* fs/path.c: a path is a U8ArrayList, and its operations change it in     *)
(* place.                                                                  *)
(***************************************************************************)
EXTENDS ArrayLists

CONSTANTS PathElem,   \* what is appended to a path
          MaxPath     \* bound on the length of a path

ASSUME PathAssumption == {"/", "."} \subseteq U8 /\ PathElem \subseteq Seq(U8)

VARIABLES path,       \* the path
          before,     \* ghost: its contents before the last call
          pathOp,     \* ghost: the last call
          behind,     \* ghost: a slash lay behind the end of the path
          pathStatus  \* ok, or underrun

pathvars == <<path, before, pathOp, behind, pathStatus>>

path_from_string(s) == u8a_push_string(list_create(1), s)

PathInit(texts) ==
    /\ path \in {path_from_string(s) : s \in texts}
    /\ before = <<>> /\ pathOp = "none" /\ behind = FALSE /\ pathStatus = "ok"

PathStep(op, new) ==
    /\ path' = new
    /\ before' = Contents(path)
    /\ pathOp' = op
    /\ UNCHANGED pathStatus

path_append(elem) ==
    /\ pathStatus = "ok" /\ path.length + Len(elem) < MaxPath
    /\ PathStep("append", u8a_push_string(u8a_push(path, "/"), elem))
    /\ UNCHANGED behind

\* path->array[i]; what nobody wrote may be a slash.
SlashAt(i, junkIsSlash) ==
    IF i < Len(path.mem) /\ path.mem[i + 1] # Junk
    THEN path.mem[i + 1] = "/" ELSE junkIsSlash

\* Mutant: the root is dropped too.
CutAt_root(i) == i

\* The length of the parent, from the place of the last slash.
CutAt(i) == IF i = 0 THEN 1 ELSE i

\* The scan starts at array[length], one place behind the last byte.
path_parent(junkIsSlash) ==
    LET slashes == {i \in 0..path.length : SlashAt(i, junkIsSlash)}
        i == Max(slashes)
    IN  IF Contents(path) = <<".">> THEN path
        ELSE IF path.length = 0 THEN u8a_push(path, ".")
        ELSE IF slashes = {} THEN u8a_push([path EXCEPT !.length = 0], ".")
        ELSE [path EXCEPT !.length = CutAt(i)]

Parent ==
    /\ pathStatus = "ok"
    /\ \E junkIsSlash \in BOOLEAN :
         /\ PathStep("parent", path_parent(junkIsSlash))
         /\ behind' = SlashAt(path.length, junkIsSlash)

Stripped(c) ==
    LET kept == {i \in DOMAIN c : c[i] \notin {".", "/"}}
    IN  IF kept = {} THEN <<>> ELSE SubSeq(c, 1, Max(kept))

\* Behind the last slash.
NameStart(s) == Max({0} \cup {i \in DOMAIN s : s[i] = "/"}) + 1

\* strip_chars_from_end goes on to array[-1] when nothing else is left.
path_filename ==
    LET c == Contents(path)
        stripped == Stripped(c)
        name == SubSeq(stripped, NameStart(stripped), Len(stripped))
        moved == [path EXCEPT !.mem = name \o SubSeq(@, Len(name) + 1, Len(@)),
                              !.length = Len(stripped)]
    IN  IF IsSuffix(<<".", ".">>, c) THEN u8a_resize(path, 0)
        ELSE u8a_resize(moved, Len(name))

Filename ==
    /\ pathStatus = "ok"
    /\ \/ /\ Stripped(Contents(path)) = <<>> => IsSuffix(<<".", ".">>, Contents(path))
          /\ PathStep("filename", path_filename)
       \/ /\ Stripped(Contents(path)) = <<>> /\ ~IsSuffix(<<".", ".">>, Contents(path))
          /\ pathStatus' = "underrun" /\ UNCHANGED <<path, before, pathOp>>
    /\ UNCHANGED behind

path_contents_equal(a, b) ==
    /\ a.length = b.length
    /\ \A i \in 1..a.length : a.mem[i] = b.mem[i]

\* path_clone; the original is freed.
Clone ==
    /\ pathStatus = "ok"
    /\ PathStep("clone", u8a_clone(path))
    /\ UNCHANGED behind

PathNext ==
    \/ \E e \in PathElem : path_append(e)
    \/ Parent \/ Filename \/ Clone

Slashes(c) == {i \in DOMAIN c : c[i] = "/"}

\* path.h: the path without its last element, "/" or "." when there is no other,
\* and the root in the place of the empty path.
ParentOf(c) ==
    IF c = <<>> THEN <<"/">>
    ELSE IF Slashes(c) = {} THEN <<".">>
    ELSE IF Max(Slashes(c)) = 1 THEN <<"/">>
    ELSE SubSeq(c, 1, Max(Slashes(c)) - 1)

\* path_parent drops the last element and nothing else, but the empty path becomes
\* "." and not the "/" of path.h:40, and nothing is dropped when the byte behind the path
\* is a slash. That byte is a slash after every path_parent that dropped an element and
\* left another, so that only the first of two calls does anything.
ParentDropsElement ==
    pathOp = "parent" =>
        /\ Contents(path) = IF before = <<>> THEN <<".">>
                            ELSE IF behind THEN before
                            ELSE ParentOf(before)
        /\ \/ Contents(path) \in {before, <<"/">>, <<".">>}
           \/ SlashAt(path.length, FALSE)

\* path_filename leaves the final component of the path when it does not end in a
\* dot, however the path was built.
FilenameIsFinal ==
    pathOp = "filename" =>
        LET final == SubSeq(before, Max({0} \cup Slashes(before)) + 1, Len(before)) IN
        final # <<>> /\ Last(final) # "." => Contents(path) = final

\* Every operation leaves a path whose bytes lie in its block and are its own.
PathWithinBlock ==
    /\ path.length <= Len(path.mem)
    /\ Range(Contents(path)) \subseteq U8
    /\ pathOp = "clone" =>
         path_contents_equal(path, [length |-> Len(before), mem |-> before])

\* Through any sequence of appends, path_parent and path_filename a path stays in
\* its block, and these two leave the elements that the code promises.
PathsCut == ParentDropsElement /\ FilenameIsFinal /\ PathWithinBlock
=============================================================================
