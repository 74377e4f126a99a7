------------------------------- MODULE Printf -------------------------------
(***************************************************************************)
(* klibc/printf.c: os_vsnprintf, one directive after the other, into a     *)
(* buffer of `size` bytes. A directive has its argument with it.           *)
(***************************************************************************)
EXTENDS Integers, SequencesExt

CONSTANTS ArgInt,      \* the ints that are printed
          ArgLen,      \* the lengths of the strings that are printed
          Padding,     \* the widths after %0; -1 stands for none
          IntRange,    \* 2^32 in the code
          Size,        \* the sizes of the buffer
          MaxFormat    \* bound on the directives of a format

ASSUME PrintfAssumption ==
    /\ IntRange \in Nat \ {0}
    /\ ArgInt \subseteq -(IntRange \div 2)..IntRange \div 2 - 1
    /\ Padding \subseteq Nat \cup {-1} /\ Size \subseteq Nat /\ ArgLen \subseteq Nat

Directive ==
    [kind : {"int"}, val : ArgInt, base : {10, 16}, is_unsigned : BOOLEAN,
     padding : Padding]
    \cup [kind : {"str"}, len : ArgLen]
    \cup [kind : {"char", "percent", "unknown", "cut"}]

VARIABLES format,      \* the directives
          next,        \* the one str_buf points to
          size,        \* the size of the buffer
          cells,       \* the bytes written so far, by their place from 0
          buf,         \* where the next byte goes
          buflen,
          printed      \* running, done, or runaway: behind the end of the format

printfvars == <<format, next, size, cells, buf, buflen, printed>>

PrintfInit(formats, sizes) ==
    /\ format \in formats
    /\ \A i \in DOMAIN format : format[i].kind = "cut" => i = Len(format)
    /\ next = 1
    /\ size \in sizes
    /\ cells = <<>>
    /\ buf = 0
    /\ buflen = size
    /\ printed = "new"

lower_case_digits ==
    <<"0", "1", "2", "3", "4", "5", "6", "7", "8", "9", "a", "b", "c", "d", "e", "f">>

\* temp % base, down to 0: no digit for 0.
Digits(n, base) ==
    LET d[m \in 0..n] ==
            IF m = 0 THEN <<>>
            ELSE Append(d[m \div base], lower_case_digits[1 + (m % base)])
    IN  d[n]

FieldWidth(padding, ndigits, negate) == padding - ndigits - negate

\* What print_int would write with room for everything. -val of the smallest int
\* is that int again.
IntText(d) ==
    LET negate == IF d.val < 0 /\ ~d.is_unsigned THEN 1 ELSE 0
        temp == (IF negate = 1 THEN -d.val ELSE d.val) % IntRange
        digits == Digits(temp, d.base)
        zeros == Max({0, FieldWidth(d.padding, Len(digits), negate)})
    IN  [i \in 1..negate |-> "-"]
        \o (IF d.padding > 0 THEN [i \in 1..zeros |-> "0"] ELSE <<>>)
        \o digits
        \o (IF digits = <<>> /\ d.padding <= 0 THEN <<"0">> ELSE <<>>)

StrText(len) == [i \in 1..len |-> "s"]

\* The text of a directive.
Text(d) ==
    CASE d.kind = "int" -> IntText(d)
      [] d.kind = "str" -> StrText(d.len)
      [] d.kind = "char" -> <<"c">>
      [] d.kind = "percent" -> <<"%">>
      [] OTHER -> <<>>

\* It stops when the buffer is full.
print_int(d, room) == SubSeq(IntText(d), 1, Min({room, Len(IntText(d))}))

\* strncpy(dest, src, n) copies up to and with the 0, and n + 1 bytes at most.
strncpy(s, n) == SubSeq(Append(s, "NUL"), 1, Min({n, Len(s)}) + 1)

\* Mutant: n is not cut down to buflen.
Advance_whole(d, room) == Len(Text(d))

\* n: how far the directive moves buf.
Advance(d, room) == Min({room, Len(Text(d))})

\* The bytes the directive stores from buf on; buflen is never 0 here.
Stored(d, room) ==
    CASE d.kind = "str" -> strncpy(Text(d), room)
      [] d.kind = "int" -> print_int(d, room)
      [] OTHER -> Text(d)

\* The bytes c with s stored from place `at` on.
Store(c, s, at) ==
    [i \in 1..Max({Len(c), at + Len(s)}) |->
        IF i \in at + 1..at + Len(s) THEN s[i - at]
        ELSE IF i \in DOMAIN c THEN c[i] ELSE "?"]

\* A buffer of no byte is left alone; of one byte, it gets the 0.
Begin ==
    /\ printed = "new"
    /\ printed' = IF size <= 1 THEN "done" ELSE "running"
    /\ buflen' = IF size = 0 THEN 0 ELSE size - 1
    /\ cells' = IF size = 1 THEN <<"NUL">> ELSE <<>>
    /\ UNCHANGED <<format, next, size, buf>>

os_vsnprintf ==
    /\ printed = "running" /\ next <= Len(format)
    /\ LET d == format[next]
           n == Advance(d, buflen)
           stored == Store(cells, Stored(d, buflen), buf) IN
       /\ cells' = IF buflen - n <= 0 THEN Store(stored, <<"NUL">>, buf + n) ELSE stored
       /\ buf' = buf + n
       /\ buflen' = buflen - n
       /\ printed' = IF buflen - n <= 0 THEN "done"
                     ELSE IF d.kind = "cut" THEN "runaway" ELSE "running"
    /\ next' = next + 1
    /\ UNCHANGED <<format, size>>

EndOfFormat ==
    /\ printed = "running" /\ next > Len(format)
    /\ cells' = Store(cells, <<"NUL">>, buf)
    /\ printed' = "done"
    /\ UNCHANGED <<format, next, size, buf, buflen>>

\* nwritten, with the 0.
nwritten == IF size = 0 THEN 0 ELSE buf + 1

PrintfNext == Begin \/ os_vsnprintf \/ EndOfFormat

-----------------------------------------------------------------------------
(* What os_vsnprintf promises.                                             *)

\* No byte is written behind the buffer, whatever the directives and however
\* small it is: os_vsnprintf does stop at buflen.
WithinBuffer == Len(cells) <= size

Number(digits, base) ==
    FoldLeft(LAMBDA a, x : a * base + SelectInSeq(lower_case_digits,
                                                  LAMBDA c : c = x) - 1, 0, digits)

\* The text of a number is as wide as its padding, or as its digits need, and
\* gives its value back.
IsTextOf(t, d) ==
    LET sign == t[1] = "-"
        digits == IF sign THEN Tail(t) ELSE t
        value == IF d.is_unsigned THEN d.val % IntRange ELSE d.val IN
    /\ Number(digits, d.base) = (IF sign THEN -value ELSE value)
    /\ Len(t) # d.padding => Len(t) > d.padding /\ (Len(digits) = 1 \/ digits[1] # "0")

\* The buffer ends with the texts of the directives one after the other, cut at
\* size - 1 bytes, then a 0, and the number of bytes is returned; only a format
\* that ends in the middle of a directive is read beyond its end.
PrintsText ==
    /\ printed = "done" /\ size > 0 =>
         LET whole == FlattenSeq([i \in DOMAIN format |-> Text(format[i])]) IN
         /\ SubSeq(cells, 1, nwritten)
              = Append(SubSeq(whole, 1, Min({Len(whole), size - 1})), "NUL")
         /\ \A i \in DOMAIN format :
              format[i].kind = "int" => IsTextOf(Text(format[i]), format[i])
    /\ printed = "runaway" => Last(format).kind = "cut"

\* os_vsnprintf stays within the buffer, wherever in a directive it ends, and what
\* it writes is the text that the format asks for.
Printed == WithinBuffer /\ PrintsText
=============================================================================
