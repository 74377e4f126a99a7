------------------------------ MODULE UserMem ------------------------------
(***************************************************************************)
(* memcpy, memset and memchr of user/libc, which work in aligned words     *)
(* with special cases at both ends, and the UTF-8 of wcrtomb. A byte of    *)
(* the source is its offset, so that `mem` says what went where.           *)
(***************************************************************************)
EXTENDS Integers, Sequences

CONSTANTS MaxMem,      \* bound on n of memcpy and memset
          MaxChr,      \* bound on n of memchr
          WideChar

ASSUME UserMemAssumption == MaxMem \in Nat /\ MaxChr \in Nat /\ WideChar \subseteq Nat

VARIABLES fn,               \* the function that runs
          given,            \* its arguments: addresses modulo 8, n, where c is, wc
          place,            \* where it is
          to, from, left,   \* d and s as offsets, and n
          ahead,            \* the word that memcpy has read ahead
          stored,           \* what was stored at every offset of dest
          aligned,          \* ghost: every word lay at a multiple of its size
          answer

umvars == <<fn, given, place, to, from, left, ahead, stored, aligned, answer>>

Offsets == -4..MaxMem + 4
Untouched == [o \in Offsets |-> -1]
NULL == -1
NoArgs == [dest |-> 0, src |-> 0, n |-> 0, found |-> {}, wc |-> 0]

MemcpyArgs == [dest : 0..3, src : 0..3, n : 0..MaxMem, found : {{}}, wc : {0}]
MemsetArgs == [dest : 0..7, src : {0}, n : 0..MaxMem, found : {{}}, wc : {0}]
MemchrArgs == [dest : {0}, src : 0..3, n : 0..MaxChr, found : SUBSET (0..MaxChr), wc : {0}]
WideArgs == [dest : {0}, src : {0}, n : {0}, found : {{}}, wc : WideChar]

UserMemInit(run) ==
    /\ IF run THEN \/ fn = "memcpy" /\ given \in MemcpyArgs
                   \/ fn = "memset" /\ given \in MemsetArgs
                   \/ fn = "memchr" /\ given \in MemchrArgs
                   \/ fn = "wcrtomb" /\ given \in WideArgs
       ELSE fn = "none" /\ given = NoArgs
    /\ place = "start"
    /\ to = 0 /\ from = 0 /\ left = given.n
    /\ ahead = <<>>
    /\ stored = Untouched
    /\ aligned = TRUE
    /\ answer = <<>>

\* The offsets of the source from o on, and their copy to offset o of dest.
Source(o, size) == [i \in 1..size |-> o + i - 1]
Store(m, o, bytes) ==
    [x \in Offsets |-> IF x \in o..o + Len(bytes) - 1 THEN bytes[x - o + 1] ELSE m[x]]

\* Size bytes, in words of the given length where the code uses words.
Copy(size, word) ==
    /\ stored' = Store(stored, to, Source(from, size))
    /\ aligned' = (aligned /\ (given.dest + to) % word = 0 /\ (given.src + from) % word = 0)
    /\ to' = to + size /\ from' = from + size

\* Single bytes until src is aligned; then by words, shifted, or by bytes.
MemcpyHead ==
    /\ fn = "memcpy" /\ place = "start"
    /\ IF (given.src + from) % 4 # 0 /\ left > 0
       THEN Copy(1, 1) /\ left' = left - 1 /\ UNCHANGED place
       ELSE /\ place' = IF (given.dest + to) % 4 = 0 THEN "words"
                        ELSE IF left >= 32 THEN "shift" ELSE "bytes_16"
            /\ UNCHANGED <<to, from, left, stored, aligned>>
    /\ UNCHANGED <<fn, given, ahead, answer>>

MemcpyWords ==
    /\ fn = "memcpy" /\ place = "words"
    /\ IF left >= 16
       THEN Copy(16, 4) /\ left' = left - 16 /\ UNCHANGED place
       ELSE place' = "words_8" /\ UNCHANGED <<to, from, left, stored, aligned>>
    /\ UNCHANGED <<fn, given, ahead, answer>>

\* The cases 1, 2 and 3 of the switch: bytes up to the next word of dest.
MemcpySkew ==
    LET k == (given.dest + to) % 4 IN
    /\ fn = "memcpy" /\ place = "shift" /\ ahead = <<>>
    /\ ahead' = Source(from, 4)
    /\ Copy(4 - k, 1)
    /\ left' = left - (4 - k)
    /\ UNCHANGED <<fn, given, place, answer>>

\* Mutant: the words are put together for a big endian machine.
Shifted_big(k, v, x) == SubSeq(x, 5 - k, 4) \o SubSeq(v, 1, 4 - k)

\* (v LS ...) | (x RS ...): the last k bytes of v, then the first ones of x.
Shifted(k, v, x) == SubSeq(v, 5 - k, 4) \o SubSeq(x, 1, 4 - k)

\* 16 bytes in words put together from two words of src.
MemcpyShift ==
    LET k == 4 - ((given.src + from) % 4)
        x(j) == Source(from + k + 4 * j, 4)
        v(j) == IF j = 0 THEN ahead ELSE x(j - 1)
        word(j) == Shifted(k, v(j), x(j)) IN
    /\ fn = "memcpy" /\ place = "shift" /\ ahead # <<>>
    /\ IF left >= 16 + k
       THEN /\ stored' = Store(stored, to, word(0) \o word(1) \o word(2) \o word(3))
            /\ aligned' = (aligned /\ (given.dest + to) % 4 = 0
                                   /\ (given.src + from + k) % 4 = 0)
            /\ ahead' = x(3)
            /\ to' = to + 16 /\ from' = from + 16 /\ left' = left - 16
            /\ UNCHANGED place
       ELSE place' = "bytes_16" /\ UNCHANGED <<to, from, left, ahead, stored, aligned>>
    /\ UNCHANGED <<fn, given, answer>>

\* The bits of n, from the highest on, and the size of the accesses.
Tails == [i \in {"words_8", "words_4", "bytes_16", "bytes_8", "bytes_4", "bytes_2",
                 "bytes_1"} |->
    CASE i = "words_8"  -> [bit |-> 8, word |-> 4, next |-> "words_4"]
      [] i = "words_4"  -> [bit |-> 4, word |-> 4, next |-> "bytes_2"]
      [] i = "bytes_16" -> [bit |-> 16, word |-> 1, next |-> "bytes_8"]
      [] i = "bytes_8"  -> [bit |-> 8, word |-> 1, next |-> "bytes_4"]
      [] i = "bytes_4"  -> [bit |-> 4, word |-> 1, next |-> "bytes_2"]
      [] i = "bytes_2"  -> [bit |-> 2, word |-> 1, next |-> "bytes_1"]
      [] i = "bytes_1"  -> [bit |-> 1, word |-> 1, next |-> "done"]]

MemcpyTail ==
    /\ fn = "memcpy" /\ place \in DOMAIN Tails
    /\ LET t == Tails[place] IN
       /\ place' = t.next
       /\ IF (left \div t.bit) % 2 = 1 THEN Copy(t.bit, t.word)
          ELSE UNCHANGED <<to, from, stored, aligned>>
    /\ UNCHANGED <<fn, given, left, ahead, answer>>

\* Stores of c, one per offset, of the given size.
Fill(offsets, size) ==
    LET covered == UNION {o..o + size - 1 : o \in offsets} IN
    /\ stored' = [x \in Offsets |-> IF x \in covered THEN x ELSE stored[x]]
    /\ aligned' = (aligned /\ \A o \in offsets : (given.dest + o) % size = 0)

\* Single bytes at both ends, with an early return for each size that they cover.
MemsetBytes ==
    /\ fn = "memset" /\ place = "start"
    /\ Fill(UNION { IF left > 0 THEN {0, left - 1} ELSE {},
                    IF left > 2 THEN {1, left - 2, 2, left - 3} ELSE {},
                    IF left > 6 THEN {3, left - 4} ELSE {} }, 1)
    /\ IF left <= 8
       THEN place' = "done" /\ UNCHANGED <<to, left>>
       ELSE LET k == (4 - (given.dest % 4)) % 4 IN
            /\ to' = k
            /\ left' = ((left - k) \div 4) * 4
            /\ place' = "words"
    /\ UNCHANGED <<fn, given, from, ahead, answer>>

\* k, so that the rest starts at a multiple of 8.
SkippedBySet == 24 + (((given.dest + to) \div 4) % 2) * 4

\* Words at both ends.
MemsetWords ==
    /\ fn = "memset" /\ place = "words"
    /\ Fill({to + o : o \in UNION { {0, left - 4},
                    IF left > 8 THEN {4, 8, left - 12, left - 8} ELSE {},
                    IF left > 24 THEN {12, 16, 20, 24, left - 28, left - 24,
                                       left - 20, left - 16} ELSE {} }}, 4)
    /\ IF left <= 24
       THEN place' = "done" /\ UNCHANGED <<to, left>>
       ELSE to' = to + SkippedBySet /\ left' = left - SkippedBySet /\ place' = "double"
    /\ UNCHANGED <<fn, given, from, ahead, answer>>

\* 28 bytes at the end are filled already.
SetLoopEnds == left < 32

MemsetDouble ==
    /\ fn = "memset" /\ place = "double"
    /\ IF SetLoopEnds
       THEN place' = "done" /\ UNCHANGED <<to, left, stored, aligned>>
       ELSE /\ Fill({to, to + 8, to + 16, to + 24}, 8)
            /\ to' = to + 32 /\ left' = left - 32 /\ UNCHANGED place
    /\ UNCHANGED <<fn, given, from, ahead, answer>>

\* HASZERO: one of the four bytes is c.
WordStops == left < 4 \/ given.found \cap (from..from + 3) # {}

\* The three loops of memchr: bytes, words, bytes.
Memchr ==
    /\ fn = "memchr" /\ place # "done"
    /\ \/ /\ place = "start"
          /\ IF (given.src + from) % 4 # 0 /\ left > 0 /\ from \notin given.found
             THEN from' = from + 1 /\ left' = left - 1 /\ UNCHANGED <<place, answer>>
             ELSE place' = "words" /\ UNCHANGED <<from, left, answer>>
       \/ /\ place = "words"
          /\ IF (left > 0 /\ from \in given.found) \/ WordStops
             THEN place' = "bytes" /\ UNCHANGED <<from, left, answer>>
             ELSE from' = from + 4 /\ left' = left - 4 /\ UNCHANGED <<place, answer>>
       \/ /\ place = "bytes"
          /\ IF left > 0 /\ from \notin given.found
             THEN from' = from + 1 /\ left' = left - 1 /\ UNCHANGED <<place, answer>>
             ELSE /\ answer' = <<IF left > 0 THEN from ELSE NULL>>
                  /\ place' = "done" /\ UNCHANGED <<from, left>>
    /\ aligned' = (aligned /\ (place = "words" /\ place' = "words" =>
                                 (given.src + from) % 4 = 0))
    /\ UNCHANGED <<fn, given, to, ahead, stored>>

\* The low six bits of what is left of a code point, as a following byte.
Following(wc) == 128 + (wc % 64)

IsThree(wc) == wc < 55296 \/ (wc >= 57344 /\ wc - 57344 < 8192)

\* The bytes of a code point, none with EILSEQ.
Encoded(wc) ==
    CASE wc < 128 -> <<wc>>
      [] wc >= 128 /\ wc < 2048 -> <<192 + wc \div 64, Following(wc)>>
      [] wc >= 2048 /\ IsThree(wc) ->
           <<224 + wc \div 4096, Following(wc \div 64), Following(wc)>>
      [] wc >= 2048 /\ ~IsThree(wc) /\ wc >= 65536 /\ wc - 65536 < 1048576 ->
           <<240 + wc \div 262144, Following(wc \div 4096), Following(wc \div 64), Following(wc)>>
      [] OTHER -> <<>>

wcrtomb ==
    /\ fn = "wcrtomb" /\ place = "start"
    /\ answer' = Encoded(given.wc)
    /\ place' = "done"
    /\ UNCHANGED <<fn, given, to, from, left, ahead, stored, aligned>>

UserMemNext ==
    \/ MemcpyHead \/ MemcpyWords \/ MemcpySkew \/ MemcpyShift \/ MemcpyTail
    \/ MemsetBytes \/ MemsetWords \/ MemsetDouble \/ Memchr \/ wcrtomb

-----------------------------------------------------------------------------
(* What the functions promise.                                             *)

\* memcpy copies each of the n bytes to its place and touches no other byte,
\* whatever the alignments and the number of bytes left at each end.
MemcpyCopies ==
    fn = "memcpy" /\ place = "done" =>
        \A o \in Offsets : stored[o] = IF o \in 0..given.n - 1 THEN o ELSE -1

\* memset fills the n bytes and no other, although its stores overlap.
MemsetFills ==
    fn = "memset" /\ place = "done" =>
        \A o \in Offsets : stored[o] = IF o \in 0..given.n - 1 THEN o ELSE -1

\* memchr finds the first c among n bytes, or none.
MemchrFinds ==
    fn = "memchr" /\ place = "done" =>
        LET hits == {o \in given.found : o < given.n} IN
        answer = <<IF hits = {} THEN NULL ELSE CHOOSE o \in hits : \A p \in hits : o <= p>>

\* No word is read or written at an address that is not a multiple of its size.
WordsAligned == aligned

\* The number that a sequence of bytes of UTF-8 stands for.
Decoded(b) ==
    CASE Len(b) = 1 -> b[1]
      [] Len(b) = 2 -> (b[1] - 192) * 64 + b[2] - 128
      [] Len(b) = 3 -> (b[1] - 224) * 4096 + (b[2] - 128) * 64 + b[3] - 128
      [] Len(b) = 4 -> (b[1] - 240) * 262144 + (b[2] - 128) * 4096 + (b[3] - 128) * 64
                       + b[4] - 128

IsSurrogate(wc) == wc >= 55296 /\ wc <= 57343

\* Every code point but the surrogates, up to 0x10ffff, is encoded so that it can
\* be read back, and nothing else is encoded.
WcrtombDecodes ==
    fn = "wcrtomb" /\ place = "done" =>
        IF IsSurrogate(given.wc) \/ given.wc > 1114111 THEN answer = <<>>
        ELSE /\ answer # <<>> /\ Decoded(answer) = given.wc
             /\ \A i \in 2..Len(answer) : answer[i] \in 128..191

\* Going by words changes nothing: memcpy, memset, memchr and wcrtomb do what they
\* would do byte by byte, and no word lies across a boundary.
BytesRight ==
    MemcpyCopies /\ MemsetFills /\ MemchrFinds /\ WordsAligned /\ WcrtombDecodes
=============================================================================
