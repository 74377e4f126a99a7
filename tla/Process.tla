------------------------------ MODULE Process ------------------------------
(***************************************************************************)
(* How a process of user space starts and how it learns of errors:         *)
(* env/__libc_start_main.c reads the image that lies on the stack, runs    *)
(* the constructors and main, and exits with its result;                   *)
(* internal/syscall_ret.c and errno/strerror.c turn what a system call     *)
(* answers into a message. What loads the image is not in the repository.  *)
(***************************************************************************)
EXTENDS Integers, SequencesExt

CONSTANTS AUX_CNT, AT_PAGESZ,
          Image,          \* [argv, envs, aux]: names, a number, pairs of words
          Constructors,   \* the length of the init array
          ErrorList,      \* __strerror.h: a sequence of [id, msg], id 0 the last
          MAXERR,         \* 4096
          ULONG,          \* ULONG_MAX + 1
          SysResult       \* what a system call may answer, an unsigned long

ASSUME ProcessAssumption ==
    /\ AUX_CNT \in Nat /\ AT_PAGESZ \in 1..AUX_CNT - 1 /\ Constructors \in Nat
    /\ \A i \in Image :       \* a tag of 0 ends the auxiliary vector
         /\ i.argv \in Seq(Seq(STRING)) /\ i.envs \in Nat
         /\ i.aux \in Seq((Nat \ {0}) \X Nat)
    /\ ErrorList \in Seq([id : 0..255, msg : Seq(STRING \ {"NUL"})])
    /\ \A i \in 1..Len(ErrorList) : ErrorList[i].id = 0 <=> i = Len(ErrorList)
    /\ ErrorList # <<>>
    /\ ULONG \in Nat /\ MAXERR \in 1..ULONG - 1 /\ SysResult \subseteq 0..ULONG - 1

VARIABLES image,      \* what the loader has put on the stack
          environ,    \* __environ, an index into the words; 0 before
          page_size,
          tags,       \* the elements of aux that were written
          progname,   \* __progname, an index into __progname_full; 0 for NULL
          started,    \* what __libc_start_main has called
          answered,   \* what the kernel answers the system call of main
          returned,   \* what __syscall_ret makes of it; -2 before
          errno

procvars == <<image, environ, page_size, tags, progname, started, answered, returned, errno>>

ProcessInit(images, answers) ==
    /\ image \in images
    /\ environ = 0 /\ page_size = 0 /\ tags = {} /\ progname = 0
    /\ started = <<>>
    /\ answered \in answers /\ returned = -2 /\ errno = 0

\* The words from argv on: pointers that are not 0, each list with a 0 behind it.
Words ==
    [i \in 1..Len(image.argv) |-> i] \o <<0>>
      \o [i \in 1..image.envs |-> i] \o <<0>> \o FlattenSeq(image.aux) \o <<0, 0>>

\* Mutant: the auxiliary vector is read word by word.
AuxStep_word == 1

\* A tag and its value.
AuxStep == 2

\* The entries of the auxiliary vector, as far as a tag of 0.
Entries(auxv) ==
    {k \in auxv..Len(Words) :
        /\ (k - auxv) % AuxStep = 0
        /\ \A j \in auxv..k : (j - auxv) % AuxStep = 0 => Words[j] # 0}

Stored(auxv) == {k \in Entries(auxv) : Words[k] < AUX_CNT}

\* Where the part of a name behind its last slash begins.
NameFrom(pn) == Max({0} \cup {i \in DOMAIN pn : pn[i] = "/"}) + 1

__init_libc ==
    /\ environ = 0
    /\ LET envp == Len(image.argv) + 2
           auxv == Min({i \in envp..Len(Words) : Words[i] = 0}) + 1
           page == {k \in Stored(auxv) : Words[k] = AT_PAGESZ} IN
       /\ environ' = envp
       /\ tags' = {Words[k] : k \in Stored(auxv)}
       /\ page_size' = IF page = {} THEN 0 ELSE Words[Max(page) + 1]
    /\ progname' = IF image.argv = <<>> THEN 0 ELSE NameFrom(image.argv[1])
    /\ UNCHANGED <<image, started, answered, returned, errno>>

InitArrayEnds(n) == n >= Constructors

RunConstructor ==
    /\ environ # 0 /\ ~InitArrayEnds(Len(started))
    /\ started' = Append(started, <<"constructor", Len(started) + 1>>)
    /\ UNCHANGED <<image, environ, page_size, tags, progname, answered, returned, errno>>

__syscall_ret(r) == IF r > ULONG - MAXERR THEN [r |-> -1, errno |-> (-r) % ULONG]
                    ELSE [r |-> r, errno |-> errno]

\* main, with one system call in it.
Main ==
    /\ environ # 0 /\ InitArrayEnds(Len(started)) /\ returned = -2
    /\ started' = Append(started, <<"main", 0>>)
    /\ returned' = __syscall_ret(answered).r
    /\ errno' = __syscall_ret(answered).errno
    /\ UNCHANGED <<image, environ, page_size, tags, progname, answered>>

Exit ==
    /\ returned # -2 /\ Last(started)[1] = "main"
    /\ started' = Append(started, <<"exit", 0>>)
    /\ UNCHANGED <<image, environ, page_size, tags, progname, answered, returned, errno>>

ProcessNext == __init_libc \/ RunConstructor \/ Main \/ Exit

errid == [i \in DOMAIN ErrorList |-> ErrorList[i].id % 256]
errmsg == FlattenSeq([i \in DOMAIN ErrorList |-> Append(ErrorList[i].msg, "NUL")])

NulFrom(s) == Min({k \in s..Len(errmsg) : errmsg[k] = "NUL"})

\* Where the message is that i others lie before.
MessageAt[i \in 0..Len(ErrorList) - 1] ==
    IF i = 0 THEN 1 ELSE NulFrom(MessageAt[i - 1]) + 1

strerror(e) ==
    LET s == MessageAt[Min({k \in DOMAIN errid : errid[k] \in {0, e}}) - 1]
    IN  SubSeq(errmsg, s, NulFrom(s) - 1)

-----------------------------------------------------------------------------
(* What a program may rely on.                                             *)

\* Whatever environment and auxiliary vector lie on the stack, values of 0 and tags
\* that the libc does not know among them, the page size is the one the loader gave
\* last, the environment begins behind the arguments, nothing is written outside of
\* aux, and the short name of the program is what follows the last slash.
ImageRead ==
    environ # 0 =>
        LET given == {k \in DOMAIN image.aux : image.aux[k][1] = AT_PAGESZ} IN
        /\ page_size = IF given = {} THEN 0 ELSE image.aux[Max(given)][2]
        /\ Words[environ - 1] = 0 /\ environ - 2 = Len(image.argv)
        /\ tags \subseteq 0..AUX_CNT - 1
        /\ image.argv # <<>> =>
             LET pn == image.argv[1] IN
             /\ progname \in 1..Len(pn) + 1
             /\ \A i \in progname..Len(pn) : pn[i] # "/"
             /\ progname = 1 \/ pn[progname - 1] = "/"

\* All the constructors run, once each and in their order, before main, and exit is
\* called behind main.
StartedInOrder ==
    \A i \in DOMAIN started :
        started[i] = CASE i <= Constructors -> <<"constructor", i>>
                     [] i = Constructors + 1 -> <<"main", 0>>
                     [] OTHER -> <<"exit", 0>>

\* A program learns of exactly the errors the kernel reports, and of a result that
\* lies just below them as a result; the message is that of the error, or the last
\* one of the list for an error that is not on it.
ErrorsNamed ==
    returned # -2 =>
        LET error == ULONG - answered
            named == {i \in DOMAIN ErrorList : ErrorList[i].id = error} IN
        IF answered # 0 /\ error < MAXERR
        THEN /\ returned = -1
             /\ strerror(errno) = IF named = {} THEN Last(ErrorList).msg
                                  ELSE ErrorList[Min(named)].msg
        ELSE returned = answered /\ errno = 0

\* A process finds on its stack what the loader has put there, runs its constructors,
\* main and exit in that order, and learns of the error of a call by its name.
ProcessStarts == ImageRead /\ StartedInOrder /\ ErrorsNamed
=============================================================================
