------------------------------- MODULE Stdio -------------------------------
(***************************************************************************)
(* The output stream of user/libc: fwrite into the buffer of stdout, the   *)
(* loop of __stdio_write over what writev accepts of the buffer and of     *)
(* the caller's bytes, and the flush of exit. A byte is the number of its  *)
(* write call and its place in it, and whether it is a newline. A process  *)
(* has one thread, since nothing starts another: the lock of exit is not   *)
(* contended and is left out.                                              *)
(***************************************************************************)
EXTENDS Integers, SequencesExt

CONSTANTS BUFSIZ,
          Pattern,       \* the texts: sequences of BOOLEAN, TRUE for a newline
          MaxFwrites     \* bound on the calls of fwrite

ASSUME StdioAssumption ==
    BUFSIZ \in Nat /\ MaxFwrites \in Nat /\ Pattern \subseteq Seq(BOOLEAN)

VARIABLES file,      \* wpos > wbase: the bytes in between; wend; F_ERR; what was read
          op,        \* the write that runs: its two iovecs, iovcnt, and who called it
          sent,      \* what writev has taken
          calls,     \* every fwrite: its bytes, what it returned, its fault
          exiting    \* exit has been called

stdiovars == <<file, op, sent, calls, exiting>>

NoWrite == [by |-> "nobody", iov |-> <<>>, len |-> 0, rest |-> <<>>]

\* The FILE of stdout.c, before the first write; room counts from wpos to wend.
StdioInit ==
    /\ file = [pending |-> <<>>, room |-> 0, active |-> FALSE, err |-> FALSE]
    /\ op = NoWrite
    /\ sent = <<>>
    /\ calls = <<>>
    /\ exiting = FALSE

\* __towrite: F_NOWR is never set for stdout, so it succeeds.
__towrite(f) ==
    IF f.active THEN f ELSE [f EXCEPT !.pending = <<>>, !.room = BUFSIZ, !.active = TRUE]

\* The call of f->write: the buffer and the caller's bytes, in this order.
Write(f, by, text, rest) ==
    op' = [by |-> by, iov |-> <<f.pending, text>>, len |-> Len(text), rest |-> rest]

Bytes(pattern) ==
    [i \in 1..Len(pattern) |-> [call |-> Len(calls) + 1, at |-> i, nl |-> pattern[i]]]

\* The longest front of a text that ends in a newline.
LineEnd(text) ==
    CHOOSE i \in 0..Len(text) :
        /\ i > 0 => text[i].nl
        /\ \A j \in i + 1..Len(text) : ~text[j].nl

Buffered(f, text) ==
    [f EXCEPT !.pending = @ \o text, !.room = @ - Len(text)]

\* fwrite and __fwritex, to the end or to the call of f->write.
fwrite(pattern) ==
    LET text == Bytes(pattern)
        f == __towrite(file)
        i == LineEnd(text) IN
    /\ op.by = "nobody" /\ ~exiting /\ Len(calls) < MaxFwrites
    /\ calls' = Append(calls, [text |-> text, ret |-> Len(text), failed |-> FALSE])
    /\ IF Len(text) > f.room
       THEN Write(f, "fwrite", text, <<>>) /\ file' = f
       ELSE IF i > 0
            THEN Write(f, "line", SubSeq(text, 1, i), SubSeq(text, i + 1, Len(text)))
                 /\ file' = f
            ELSE file' = Buffered(f, text) /\ UNCHANGED op
    /\ UNCHANGED <<sent, exiting>>

\* __stdio_write has returned n to fwrite, to __fwritex for a line, or to exit. A
\* line that was cut short is reported as written.
WriteReturns(f, n) ==
    /\ op' = NoWrite
    /\ LET failed == n < op.len \/ (f.err /\ ~file.err) IN
       CASE op.by = "exit" -> file' = f /\ UNCHANGED calls
         [] op.by = "fwrite" ->
              /\ file' = f
              /\ calls' = [calls EXCEPT ![Len(calls)].ret = n,
                                        ![Len(calls)].failed = failed]
         [] op.by = "line" ->
              /\ file' = IF n < op.len THEN f ELSE Buffered(f, op.rest)
              /\ calls' = [calls EXCEPT ![Len(calls)].ret =
                                            IF n < op.len THEN op.len ELSE @,
                                        ![Len(calls)].failed = failed]

\* The number of bytes that the iovecs still hold.
Remaining == Len(FlattenSeq(op.iov))

\* Mutant: the place in the second iovec is not corrected by what the first took.
Advance_uncorrected(cnt) ==
    LET first == Len(op.iov[1]) IN
    IF cnt > first
    THEN <<SubSeq(op.iov[2], cnt + 1, Len(op.iov[2]))>>
    ELSE <<SubSeq(op.iov[1], cnt + 1, first)>> \o Tail(op.iov)

\* iov, iov_base and iov_len after cnt bytes, fewer than all, were taken.
Advance(cnt) ==
    LET first == Len(op.iov[1]) IN
    IF cnt > first
    THEN <<SubSeq(op.iov[2], cnt - first + 1, Len(op.iov[2]))>>
    ELSE <<SubSeq(op.iov[1], cnt + 1, first)>> \o Tail(op.iov)

\* What __stdio_write returns when writev fails.
ErrorCount == IF Len(op.iov) = 2 THEN 0 ELSE op.len - Len(op.iov[1])

\* One round of __stdio_write. writev is external to the libc: it takes any number
\* of bytes, or none and fails. (This kernel has no writev: its handler leaves the
\* file's number, 1, in r0, which the loop takes for one byte each time.)
__stdio_write(cnt) ==
    /\ op.by # "nobody"
    /\ sent' = sent \o SubSeq(FlattenSeq(op.iov), 1, cnt)
    /\ IF cnt = Remaining
       THEN WriteReturns([file EXCEPT !.pending = <<>>, !.room = BUFSIZ], op.len)
       ELSE IF cnt < 0
       THEN WriteReturns([file EXCEPT !.pending = <<>>, !.room = 0, !.active = FALSE,
                                !.err = TRUE], ErrorCount)
       ELSE /\ op' = [op EXCEPT !.iov = Advance(cnt)]
            /\ file' = IF Len(op'.iov) = 2
                       THEN [file EXCEPT !.pending = op'.iov[1]]
                       ELSE [file EXCEPT !.pending = <<>>]
            /\ UNCHANGED calls
    /\ UNCHANGED exiting

\* wpos > wbase.
HasOutput == file.pending # <<>>

\* exit, up to f->write in close_file; nothing is ever read. What the write returns
\* is ignored.
exit ==
    /\ op.by = "nobody" /\ ~exiting
    /\ exiting' = TRUE
    /\ IF HasOutput THEN Write(file, "exit", <<>>, <<>>) ELSE UNCHANGED op
    /\ UNCHANGED <<file, sent, calls>>

StdioNext ==
    \/ \E pattern \in Pattern : fwrite(pattern)
    \/ \E cnt \in -1..Remaining : __stdio_write(cnt)
    \/ exit

-----------------------------------------------------------------------------
(* What the stream promises.                                               *)

AllBytes == FlattenSeq([i \in 1..Len(calls) |-> calls[i].text])

\* However writev cuts the data up, what it has taken and what is still to come
\* is exactly what was handed to fwrite, in order, as long as no call has failed.
StreamInOrder ==
    LET underWay == IF op.by = "nobody" THEN file.pending
                    ELSE FlattenSeq(op.iov) \o op.rest IN
    ~file.err => sent \o underWay = AllBytes

\* After a failure bytes are missing, but none is ever sent twice or out of order.
NothingTwice ==
    \A i, j \in 1..Len(sent) :
        i < j => \/ sent[i].call < sent[j].call
                 \/ sent[i].call = sent[j].call /\ sent[i].at < sent[j].at

\* The process is ended with nothing left in the buffer: it was taken, or it was
\* dropped because writev failed.
FlushedAtExit == exiting /\ op.by = "nobody" => file.pending = <<>>

\* A write that failed shows in a short count, unless the text ended in a newline:
\* __fwritex then counts the line that it has lost as written.
LossReported ==
    \A i \in 1..Len(calls) :
        calls[i].failed /\ calls[i].ret = Len(calls[i].text) =>
            Last(calls[i].text).nl

\* Bytes are lost while a call of fwrite runs that fails, or in the flush of exit,
\* which tells nobody that it has lost what the calls before it counted as written.
LostWhereSeen ==
    file.err => exiting \/ \E i \in 1..Len(calls) : calls[i].failed

\* What is given to fwrite leaves the process in order, once and before it exits,
\* however writev behaves, or a call has failed, or the last flush has.
StreamKept ==
    /\ StreamInOrder /\ NothingTwice /\ LossReported /\ LostWhereSeen
    /\ FlushedAtExit
=============================================================================
