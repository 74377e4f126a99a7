------------------------------ MODULE Strings ------------------------------
(***************************************************************************)
(* klibc/string.c and the string functions of klibc/klibc.c. A string is   *)
(* the sequence of its character codes in front of the terminating 0.      *)
(***************************************************************************)
EXTENDS Integers, SequencesExt

CONSTANTS Char,        \* character codes
          TokenChar,   \* those of the strings that are cut into tokens
          Caller,      \* who calls os_strtok
          TokenLen,    \* bound on the strings that are cut into tokens
          NumberLen,   \* bound on the strings that are read as numbers
          IntWord      \* 2^32 in the code

NUL == 0
Plus == 43
Minus == 45
Dot == 46
Slash == 47
IsDigit(c) == c \in 48..57

ASSUME StringsAssumption ==
    /\ Char \cup TokenChar \subseteq 1..127
    /\ IntWord \in Nat \ {0} /\ TokenLen \in Nat /\ NumberLen \in Nat

VARIABLES strings,     \* the string of every caller, a 0 behind it, 0s put in
          originals,   \* ghost: the strings before the first call
          strtok_p,    \* the static p of os_strtok: caller and place, or <<>>
          given,       \* ghost: the tokens a caller got since its first call
          ended,       \* ghost: the callers whose last answer was NULL
          undisturbed, \* ghost: the callers since whose first call no other called
          text         \* a string to be compared or read as a number

stringvars == <<strings, originals, strtok_p, given, ended, undisturbed, text>>

StringsInit(texts, tokenized) ==
    /\ text \in texts
    /\ originals \in [Caller -> IF text = <<>> THEN tokenized ELSE {<<>>}]
    /\ strings = [c \in Caller |-> Append(originals[c], NUL)]
    /\ strtok_p = <<>>
    /\ given = [c \in Caller |-> <<>>]
    /\ ended = {} /\ undisturbed = {}

\* The characters of str at place i, 0 at its end.
At(s, i) == IF i > Len(s) THEN NUL ELSE s[i]
FirstAt(from, to, P(_)) == Min({i \in from..to : P(i)})

os_strspn(s, i, accept) ==
    FirstAt(i, Len(s), LAMBDA j : s[j] = NUL \/ s[j] \notin accept) - i

os_strcspn(s, i, reject) ==
    FirstAt(i, Len(s), LAMBDA j : s[j] = NUL \/ s[j] \in reject) - i

\* Mutant: the separator is not skipped when the next call begins.
Resume_atSeparator(b, end) == IF strings[b][end] # NUL THEN <<b, end>> ELSE <<>>

\* Where the next call goes on: behind the separator that was cut out.
Resume(b, end) == IF strings[b][end] # NUL THEN <<b, end + 1>> ELSE <<>>

\* os_strtok(s, "/"), with s on a caller's first call and NULL on the others.
os_strtok(c, first) ==
    LET at == IF first THEN <<c, 1>> ELSE strtok_p
        b == at[1]
        s == strings[b]
        start == at[2] + os_strspn(s, at[2], {Slash})
        end == start + os_strcspn(s, start, {Slash})
        got == IF first THEN <<>> ELSE given[c] IN
    /\ IF at = <<>> \/ s[start] = NUL
       THEN /\ strtok_p' = <<>> /\ given' = [given EXCEPT ![c] = got]
            /\ ended' = ended \cup {c} /\ UNCHANGED strings
       ELSE /\ strtok_p' = Resume(b, end)
            /\ strings' = [strings EXCEPT ![b][end] = NUL]
            /\ given' = [given EXCEPT ![c] = Append(got, SubSeq(s, start, end - 1))]
            /\ ended' = ended \ {c}
    /\ undisturbed' = (undisturbed \cap {c}) \cup {x \in {c} : first}
    /\ UNCHANGED <<originals, text>>

\* A caller hands its string over once and goes on until NULL.
Tokenize(c) ==
    /\ c \notin ended
    /\ os_strtok(c, strings[c] = Append(originals[c], NUL) /\ given[c] = <<>>)

StringsNext == \E c \in Caller : Tokenize(c)

-----------------------------------------------------------------------------
(* string.c                                                                *)

\* Both answer a uint32_t, in which -1 is the largest of all.
strcmp(s1, s2) ==
    LET i == FirstAt(1, Len(s1) + 1,
                     LAMBDA j : At(s1, j) # At(s2, j) \/ At(s1, j) = NUL)
    IN  IF At(s1, i) = At(s2, i) THEN 0
        ELSE IF At(s1, i) < At(s2, i) THEN (-1) % IntWord ELSE 1

strncmp(s1, s2, n) ==
    LET i == FirstAt(1, n + 1, LAMBDA j : \/ j = n + 1 \/ At(s1, j) = NUL
                                          \/ At(s1, j) # At(s2, j))
    IN  IF i = n + 1 THEN 0 ELSE (At(s1, i) - At(s2, i)) % IntWord

starts_with(s1, s2) == strncmp(s1, s2, Len(s2)) = 0

\* mem.c and the copying functions of string.c on one memory m, which src and dst
\* are places of: byte by byte, from the first on.
memcpy(m, dst, src, count) ==
    LET after[k \in 0..count] ==
            IF k = 0 THEN m
            ELSE [after[k - 1] EXCEPT ![dst + k - 1] = after[k - 1][src + k - 1]]
    IN  after[count]

memmove(m, dst, src, n) ==
    LET tmp == SubSeq(m, src, src + n - 1)
    IN  SubSeq(m, 1, dst - 1) \o tmp \o SubSeq(m, dst + n, Len(m))

\* The length of the string at a place.
StrlenAt(m, at) == FirstAt(at, Len(m), LAMBDA i : m[i] = NUL) - at

\* The end of the string is looked for in what has been copied so far. <<>> when it
\* is not found before the end of the memory.
strcpy(m, dst, src) ==
    LET most == Min({Len(m) - dst, Len(m) - src})
        copied(k) == memcpy(m, dst, src, k)
        ends == {k \in 0..most : copied(k)[src + k] = NUL}
    IN  IF ends = {} THEN <<>>
        ELSE [copied(Min(ends)) EXCEPT ![dst + Min(ends)] = NUL]

strcat(m, dst, src) == strcpy(m, dst + StrlenAt(m, dst), src)

strcatc(m, dst, c) ==
    LET i == dst + StrlenAt(m, dst) IN [m EXCEPT ![i] = c, ![i + 1] = NUL]

ALIGN == 4

\* HASZERO(*w) or HASZERO(*w ^ k).
WordMayHold(s, w, c) == \E i \in w..w + ALIGN - 1 : At(s, i) \in {NUL, c}

\* Bytes up to an aligned address, words, and the bytes of the last word; the string
\* starts at an address of this offset.
strchrnul(s, offset, c) ==
    LET aligned(i) == (offset + i - 1) % ALIGN = 0
        head == FirstAt(1, Len(s) + ALIGN,
                        LAMBDA i : aligned(i) \/ At(s, i) \in {NUL, c})
        word == FirstAt(head, Len(s) + 1,
                        LAMBDA i : aligned(i) /\ WordMayHold(s, i, c))
    IN  IF c = NUL THEN Len(s) + 1
        ELSE IF ~aligned(head) THEN head
        ELSE FirstAt(word, Len(s) + 1, LAMBDA i : At(s, i) \in {NUL, c})

-----------------------------------------------------------------------------
(* Numbers, klibc.c. A signed number wraps around.                         *)

Signed(n) == LET m == n % IntWord IN IF m < IntWord \div 2 THEN m ELSE m - IntWord
Shift(n, c) == Signed(n * 10 + c - 48)

SignOf(s) == IF At(s, 1) = Minus THEN -1 ELSE 1
Unsigned(s) == IF At(s, 1) \in {Plus, Minus} THEN Tail(s) ELSE s

\* The pointer is never advanced: a digit in front keeps katoi in its loop.
katoi(s) ==
    IF Unsigned(s) # <<>> /\ IsDigit(Unsigned(s)[1]) THEN "never returns" ELSE "0"

\* The result, and what *endptr points to.
kstrtol(s) ==
    LET u == Unsigned(s)
        n == FirstAt(1, Len(u) + 1, LAMBDA i : ~IsDigit(At(u, i))) - 1
    IN  [result |-> Signed(SignOf(s) * FoldLeft(Shift, 0, SubSeq(u, 1, n))),
         rest |-> SubSeq(u, n + 1, Len(u))]

Divisor(after, divisor) == IF after THEN Signed(divisor * 10) ELSE divisor

\* The number as sign, integer, fraction and divisor; a double is wide enough for
\* the digits, divisor is an int.
katof(s) ==
    LET u == Unsigned(s)
        step(a, c) ==
            IF IsDigit(c)
            THEN [a EXCEPT !.integer = IF a.after THEN @ ELSE @ * 10 + c - 48,
                           !.fraction = IF a.after THEN @ * 10 + c - 48 ELSE @,
                           !.divisor = Divisor(a.after, @)]
            ELSE [a EXCEPT !.after = TRUE, !.bad = @ \/ c # Dot \/ a.after]
        read == FoldLeft(step, [integer |-> 0, fraction |-> 0, divisor |-> 1,
                                after |-> FALSE, bad |-> FALSE], u)
    IN  IF read.bad THEN [sign |-> 1, integer |-> 0, fraction |-> 0, divisor |-> 1]
        ELSE [sign |-> SignOf(s), integer |-> read.integer,
              fraction |-> read.fraction, divisor |-> read.divisor]

-----------------------------------------------------------------------------
(* What the functions promise.                                             *)

\* The longest pieces of s without a slash.
TokensOf(s) ==
    LET starts == {i \in DOMAIN s : s[i] # Slash /\ (i = 1 \/ s[i - 1] = Slash)}
        from(i) == SelectInSubSeq(s, i, Len(s), LAMBDA c : c = Slash)
    IN  [k \in 1..Cardinality(starts) |->
            LET i == SetToSortSeq(starts, <)[k]
            IN  SubSeq(s, i, IF from(i) = 0 THEN Len(s) ELSE from(i) - 1)]

\* A caller gets the tokens of its string one after the other, and NULL after the
\* last of them, as long as nobody else calls os_strtok in between: it is not the
\* "re-entrant function" of klibc.c:102.
TokensInOrder ==
    \A c \in undisturbed :
        /\ IsPrefix(given[c], TokensOf(originals[c]))
        /\ c \in ended => given[c] = TokensOf(originals[c])

\* The value of a sequence of digits.
ValueOf(d) ==
    FoldSeq(LAMBDA x, y : x + y, 0, [i \in DOMAIN d |-> (d[i] - 48) * 10^(Len(d) - i)])

\* kstrtol answers the number the string starts with, if it fits into a long, and
\* leaves everything behind the digits; katoi agrees with it where it returns.
StrtolReads ==
    LET u == Unsigned(text)
        digits == CHOOSE d \in Prefixes(u) :
                    /\ \A i \in DOMAIN d : IsDigit(d[i])
                    /\ ~IsDigit(At(u, Len(d) + 1)) IN
    /\ kstrtol(text).rest = SubSeq(u, Len(digits) + 1, Len(u))
    /\ ValueOf(digits) < IntWord \div 2 =>
         kstrtol(text).result = SignOf(text) * ValueOf(digits)
    /\ katoi(text) = "0" => kstrtol(text).result = 0

\* katof of a decimal number is its digits over a power of ten, if that fits into
\* an int; of any other string it is 0.
AtofReads ==
    LET u == Unsigned(text)
        digits == SelectSeq(u, LAMBDA c : c # Dot)
        behind == IF Contains(u, Dot) THEN Len(u) - SelectInSeq(u, LAMBDA c : c = Dot)
                  ELSE 0
        f == katof(text) IN
    IF Len(digits) >= Len(u) - 1 /\ \A i \in DOMAIN digits : IsDigit(digits[i])
    THEN 10^behind < IntWord \div 2 =>
           f.sign * (f.integer * f.divisor + f.fraction) * 10^behind
             = SignOf(text) * ValueOf(digits) * f.divisor
    ELSE f.integer = 0 /\ f.fraction = 0

\* s1 comes before s2 in the order of the character codes.
Precedes(s1, s2) ==
    \E i \in 1..Min({Len(s1) + 1, Len(s2)}) :
        SubSeq(s1, 1, i - 1) = SubSeq(s2, 1, i - 1) /\ At(s1, i) < s2[i]

\* strcmp, and strncmp of all of both strings, answer 0 for equal strings only. They
\* order different ones only for who takes the answer for a signed int again: as it
\* is declared it is never less than 0. starts_with, built on strncmp, answers for
\* a prefix, also for the empty one and for a longer one.
ComparisonsAgree ==
    \A i \in 0..Len(text) :
        LET s1 == SubSeq(text, 1, i)
            s2 == SubSeq(text, i + 1, Len(text)) IN
        /\ \A answered \in {strcmp(s1, s2), strncmp(s1, s2, Len(text) + 1)} :
             /\ answered >= 0
             /\ answered = 0 <=> s1 = s2
             /\ Signed(answered) < 0 <=> Precedes(s1, s2)
        /\ starts_with(s1, s2) <=> IsPrefix(s2, s1)

\* text, cut in two strings that lie one behind the other, with room behind them.
Cut(k) ==
    SubSeq(text, 1, k) \o <<NUL>> \o SubSeq(text, k + 1, Len(text)) \o <<NUL, NUL, NUL>>

\* memmove moves any bytes anywhere, memcpy unless the target begins within the
\* source, and strcpy unless it begins within the string that it copies, the end
\* of which is then overwritten before it is reached. strcat and strcatc append.
\* Three bytes are enough for every way in which source and target overlap.
CopiesKeepBytes ==
    Len(text) \in 1..3 => \A k \in 0..Len(text) :
        LET m == Cut(k)
            second == k + 2
            n == Len(text) - k
            place == DOMAIN m
            inside(d, s, len) == s < d /\ d < s + len
            moved(r, d, s, len) ==
                /\ SubSeq(r, d, d + len - 1) = SubSeq(m, s, s + len - 1)
                /\ \A i \in place \ (d..d + len - 1) : r[i] = m[i] IN
        /\ \A d, s \in place, len \in 0..3 : Max({d, s}) + len <= Len(m) + 1 =>
             /\ moved(memmove(m, d, s, len), d, s, len)
             /\ inside(d, s, len) \/ moved(memcpy(m, d, s, len), d, s, len)
        /\ \A d \in place : d + n <= Len(m) =>
             IF inside(d, second, n + 1) THEN strcpy(m, d, second) = <<>>
             ELSE moved(strcpy(m, d, second), d, second, n + 1)
        /\ n = 0 => SubSeq(strcatc(m, 1, 97), 1, k + 2) = SubSeq(m, 1, k) \o <<97, NUL>>
        /\ LET r == strcat(m, second, 1) IN
           k < 3 => SubSeq(r, second, second + n + k)
                      = SubSeq(text, k + 1, Len(text)) \o SubSeq(text, 1, k) \o <<NUL>>

\* __strchrnul answers the first place of the character, or of the end, at whatever
\* address the string starts, although it goes on by words.
StrchrnulFinds ==
    text # <<>> => \A c \in Char \cup {NUL}, offset \in 0..ALIGN - 1 :
        strchrnul(text, offset, c)
          = FirstAt(1, Len(text) + 1, LAMBDA i : At(text, i) \in {NUL, c})
=============================================================================
