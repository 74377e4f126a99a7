------------------------------ MODULE Library ------------------------------
(***************************************************************************)
(* The parts of the kernel's library, each by itself: they share no state, *)
(* so a behaviour is one of `part`, and the others stay as they are.       *)
(***************************************************************************)
EXTENDS HashMap, LinkedList, Path, Qstr, Strings, Printf

VARIABLE part

libvars == <<part, mapvars, u8vars, vpavars, sllvars, pathvars, qstrvars,
             stringvars, printfvars>>

Parts == {"map", "sll", "u8", "vpa", "path", "qstr", "strings", "printf"}

\* The part that runs starts in any of its initial states, another in one.
Only(name, states, idle) == IF part = name THEN states ELSE {idle}

Init ==
    /\ part \in Parts
    /\ hashmap__init
    /\ vpsll_create
    /\ U8Init(Only("u8", 0..2, 0))
    /\ VpaInit(Only("vpa", 0..2, 0))
    /\ PathInit(Only("path", BoundedSeq(U8, 3), <<>>))
    /\ QstrInit(Only("qstr", QstrText, <<>>))
    /\ StringsInit(Only("strings", BoundedSeq(Char, NumberLen), <<>>),
                   Only("strings", BoundedSeq(TokenChar, TokenLen), <<>>))
    /\ PrintfInit(Only("printf", BoundedSeq(Directive, MaxFormat), <<>>),
                  Only("printf", Size, 0))

Next ==
    /\ \/ part = "map" /\ HashMapNext
       \/ part # "map" /\ UNCHANGED mapvars
    /\ \/ part = "sll" /\ LinkedListNext
       \/ part # "sll" /\ UNCHANGED sllvars
    /\ \/ part = "u8" /\ U8Next
       \/ part # "u8" /\ UNCHANGED u8vars
    /\ \/ part = "vpa" /\ VpaNext
       \/ part # "vpa" /\ UNCHANGED vpavars
    /\ \/ part = "path" /\ PathNext
       \/ part # "path" /\ UNCHANGED pathvars
    /\ \/ part = "qstr" /\ QstrNext
       \/ part # "qstr" /\ UNCHANGED qstrvars
    /\ \/ part = "strings" /\ StringsNext
       \/ part # "strings" /\ UNCHANGED stringvars
    /\ \/ part = "printf" /\ PrintfNext
       \/ part # "printf" /\ UNCHANGED printfvars
    /\ UNCHANGED part

Spec == Init /\ [][Next]_libvars

-----------------------------------------------------------------------------
(* What the parts promise, where several of them promise the same.         *)

\* The byte list, the pointer list and the linked list hold what was pushed, in
\* order, and free it once, except where their resize and remove lose it.
ListsHoldElements ==
    /\ U8HoldsBytes /\ U8LeakOnlyEmpty
    /\ VpaHoldsElements /\ VpaFreesCutOff /\ VpaFreesAll
    /\ ListHoldsItems /\ ListFreed

\* The functions that compare, cut, copy and read strings, also those that go by
\* words, by a remembered hash or by a place that was kept from the last call,
\* agree with what the characters say.
TextRead ==
    /\ QstrEqIsEquality /\ NullTerminatedIsPrefix
    /\ TokensInOrder /\ StrtolReads /\ AtofReads
    /\ ComparisonsAgree /\ CopiesKeepBytes /\ StrchrnulFinds
=============================================================================
