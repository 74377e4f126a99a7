------------------------------ MODULE Syscalls ------------------------------
(***************************************************************************)
(* System calls: the wrappers of user/libc, the dispatch of                *)
(* software_interrupt_handler, and hello.c, which uses memory that it did  *)
(* not get. What a data abort does to a program is part of it.             *)
(***************************************************************************)
EXTENDS Integers, Sequences

CONSTANTS Mode,     \* the characters that may be passed as a mode
          Amount    \* sizes, alignments and numbers of bytes; the last may be negative

VARIABLES tests,     \* ENABLE_TESTS
          pc,        \* the statement of hello.c
          last,      \* the last wrapper called, its number if it has one, what it returned
          ptr,       \* mem of hello.c
          aborts,    \* the stores that faulted
          core       \* user, halted by FATAL, or spinning in SYSCALL_EXIT

sysvars == <<tests, pc, last, ptr, aborts, core>>

Program == <<"dummy", "printf", "printf", "malloc", "printf", "mem[0]", "mem[10]",
             "free", "printf", "while">>

SyscallsInit(builds) ==
    /\ tests \in builds
    /\ pc = 1
    /\ last = [fn |-> "none", arg |-> 0, ret |-> 0]
    /\ ptr = 0
    /\ aborts = {}
    /\ core = "user"

\* One svc of a wrapper whose first argument is `first`. EXIT spins in the handler.
\* For every other number its switch returns 0 or -1, and neither arrives: it is an
\* interrupt("SWI") function, which restores r0 with all the rest before it returns,
\* so that the wrapper reads its own first argument there.
svc(fn, arg, first) ==
    IF fn = "exit"
    THEN core' = "spinning" /\ UNCHANGED last
    ELSE /\ last' = [fn |-> fn, arg |-> arg, ret |-> first]
         /\ UNCHANGED core

\* A wrapper that answers without a system call.
Returns(fn, arg, value) ==
    last' = [fn |-> fn, arg |-> arg, ret |-> value] /\ UNCHANGED core

\* open and create; read, write and seek; copy; malloc and aligned_alloc; free, which
\* returns nothing.
WithMode(fn, path, mode) ==
    IF mode \in {"r", "w", "a", "b"} THEN svc(fn, 1, path) ELSE Returns(fn, 1, -1)

WithBytes(fn, fd, n) ==
    IF fn \in {"read", "write"} /\ n <= 0 THEN Returns(fn, n, -1)
    ELSE IF fn = "seek" /\ n = 0 THEN Returns(fn, n, 0) ELSE svc(fn, n, fd)

copy(path, mode) ==
    IF mode \in {"0", "r", "w"} THEN svc("copy", 1, path) ELSE Returns("copy", 1, -1)

WithSize(fn, size) == IF size = 0 THEN Returns(fn, size, 0) ELSE svc(fn, size, size)

free(p) == IF p = 0 THEN Returns("free", p, 0) ELSE svc("free", p, 0)

\* mkdir, delete and close pass everything on; ls does unless the path is NULL.
WithPath(fn, path) ==
    IF fn = "ls" /\ path = 0 THEN Returns(fn, path, -1) ELSE svc(fn, path, path)

\* Any other program makes any of the calls, with paths and pointers and with the
\* descriptors it may hold, 0 among them.
Client ==
    /\ core = "user" /\ pc = 1
    /\ \/ \E fn \in {"open", "create"}, p \in {0, 1}, mode \in Mode : WithMode(fn, p, mode)
       \/ \E p \in {0, 1}, mode \in Mode : copy(p, mode)
       \/ \E fn \in {"read", "write", "seek"}, fd \in {-1, 0, 3}, n \in Amount : WithBytes(fn, fd, n)
       \/ \E fn \in {"malloc", "aligned_alloc"}, n \in Amount \cap Nat : WithSize(fn, n)
       \/ \E p \in {0, 1} : free(p)
       \/ \E fn \in {"mkdir", "delete", "ls"}, p \in {0, 1} : WithPath(fn, p)
       \/ \E fd \in {-1, 0, 3} : WithPath("close", fd)
       \/ svc("exit", 0, 0)
    /\ UNCHANGED <<tests, pc, ptr, aborts>>

\* Mutant: the program goes on with the store that faulted.
AfterAbort_again == pc

\* The handler returns behind the instruction.
AfterAbort == pc + 1

\* data_abort_handler, for a store through what malloc returned: its size, 100, which
\* is not an address that the program may write.
data_abort_handler ==
    /\ aborts' = aborts \cup {pc}
    /\ IF tests THEN core' = "halted" /\ UNCHANGED pc
                ELSE pc' = AfterAbort /\ UNCHANGED core
    /\ UNCHANGED <<last, ptr>>

\* The statements of main, one after the other; the last one is while(1).
hello ==
    /\ core = "user" /\ Program[pc] # "while"
    /\ \/ /\ Program[pc] \in {"mem[0]", "mem[10]"}
          /\ data_abort_handler
       \/ /\ Program[pc] = "malloc"
          /\ WithSize("malloc", 100)
          /\ ptr' = last'.ret /\ pc' = pc + 1
          /\ UNCHANGED aborts
       \/ /\ Program[pc] \in {"dummy", "printf", "free"}
          /\ CASE Program[pc] = "free"   -> free(ptr)
               [] Program[pc] = "printf" -> svc("printf", 0, 1)
               [] Program[pc] = "dummy"  -> svc("dummy", 0, 0)
          /\ pc' = pc + 1
          /\ UNCHANGED <<ptr, aborts>>
    /\ UNCHANGED tests

SyscallsNext == Client \/ hello

-----------------------------------------------------------------------------
(* What the calls promise.                                                 *)

\* hello.c is in its final loop, or does not run any more.
HelloEnded == Program[pc] = "while" \/ core # "user"
=============================================================================
