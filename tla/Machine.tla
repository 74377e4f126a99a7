------------------------------ MODULE Machine ------------------------------
(***************************************************************************)
(* What lies around the kernel proper: the boot sequence, the SD card, the *)
(* system calls and the libc of user space. These parts share no state, so *)
(* a behaviour is one of `part`, and the others stay as they are.          *)
(***************************************************************************)
EXTENDS Boot, Mmci, Syscalls, Stdio, UserMem, Process

VARIABLE part

machvars == <<part, bootvars, mmcivars, sysvars, stdiovars, umvars, procvars>>

Parts == {"boot", "mmci", "sys", "stdio", "mem", "proc"}

\* The part that runs starts in any of its initial states, another in one.
Only(name, those) == IF part = name THEN those ELSE {CHOOSE x \in those : TRUE}

AnyImage == CHOOSE i \in Image : TRUE

Init ==
    /\ part \in Parts
    /\ BootInit(Only("boot", Ram), Only("boot", Board))
    /\ MmciInit
    /\ SyscallsInit(Only("sys", BOOLEAN))
    /\ StdioInit
    /\ UserMemInit(part = "mem")
    /\ ProcessInit(IF part = "proc" THEN Image ELSE {AnyImage}, Only("proc", SysResult))

\* A step of one part; `others` are the variables of all the others.
Step(name, action, others) == part = name /\ action /\ UNCHANGED <<part, others>>

notboot == <<mmcivars, sysvars, stdiovars, umvars, procvars>>
notsys == <<bootvars, mmcivars, stdiovars, umvars, procvars>>

Next ==
    \/ Step("boot", BootNext, notboot)
    \/ Step("mmci", MmciNext, <<bootvars, sysvars, stdiovars, umvars, procvars>>)
    \/ Step("sys", SyscallsNext, notsys)
    \/ Step("stdio", StdioNext, <<bootvars, mmcivars, sysvars, umvars, procvars>>)
    \/ Step("mem", UserMemNext, <<bootvars, mmcivars, sysvars, stdiovars, procvars>>)
    \/ Step("proc", ProcessNext, <<bootvars, mmcivars, sysvars, stdiovars, umvars>>)

\* The core goes on with the boot sequence, and with the program that runs.
Fairness ==
    /\ WF_machvars(Step("boot", BootStep, notboot))
    /\ WF_machvars(Step("sys", hello, notsys))

Spec == Init /\ [][Next]_machvars /\ Fairness

-----------------------------------------------------------------------------
(* What must happen in the end.                                            *)

\* The kernel comes up or panics: detect_memory halves its steps down to none, and
\* no handler keeps start() from going on.
BootEnds == part = "boot" => <>Booted

\* hello.c comes to its end although its stores go through a pointer to nothing that
\* it was given, because the abort handler returns behind them, unless the kernel
\* is halted by it or another program has called exit.
HelloEnds == part = "sys" => <>HelloEnded

\* start() and hello.c both come to their end, under the fairness above.
EachEnds == BootEnds /\ HelloEnds
=============================================================================
