-------------------------------- MODULE Qstr --------------------------------
(***************************************************************************)
(* ds/qstr.c: strings that remember their hash. A string is a sequence of  *)
(* character codes.                                                        *)
(***************************************************************************)
EXTENDS Integers, SequencesExt

CONSTANTS QstrText,   \* the strings
          HashWord    \* 2^32 in the code

ASSUME QstrAssumption == HashWord \in Nat /\ 42 % HashWord # 0

VARIABLES qstr,       \* two Qstrs: data and hash, 0 when it is not known
          answer      \* ghost: the last comparison and what it answered

qstrvars == <<qstr, answer>>

QstrInit(texts) ==
    /\ qstr \in [{"left", "right"} -> [data : texts, hash : {0}]]
    /\ answer = <<>>

\* djb2, with 42 in the place of 0.
djb2(s) ==
    LET h == FoldLeft(LAMBDA a, c : (a * 33 + c) % HashWord, 5381 % HashWord, s)
    IN  IF h = 0 THEN 42 % HashWord ELSE h

\* Hashes that are both known, then the lengths, decide without the loop.
Decided(l, r) ==
    \/ l.hash # 0 /\ r.hash # 0 /\ l.hash # r.hash
    \/ Len(l.data) # Len(r.data)

\* The loop of __eq ends with the left string.
LoopEqual(l, r) == IsPrefix(l, r)

qstr_eq(a, b) ==
    LET l == qstr[a]
        r == qstr[b]
        equal == LoopEqual(l.data, r.data) IN
    IF Decided(l, r)
    THEN answer' = <<"eq", l.data, r.data, FALSE>> /\ UNCHANGED qstr
    ELSE /\ answer' = <<"eq", l.data, r.data, equal>>
         /\ qstr' = [qstr EXCEPT ![a].hash = djb2(l.data),
                                 ![b].hash = IF equal THEN djb2(l.data) ELSE @]

\* qstr_hash compares with "".
qstr_eq_null_terminated(a, s) ==
    /\ answer' = <<"null", qstr[a].data, s, LoopEqual(qstr[a].data, s)>>
    /\ qstr' = [qstr EXCEPT ![a].hash = djb2(qstr[a].data)]

QstrNext ==
    \/ qstr_eq("left", "right") \/ qstr_eq("right", "left")
    \/ \E a \in DOMAIN qstr, s \in QstrText \cup {<<>>} : qstr_eq_null_terminated(a, s)

\* A hash that is remembered is the hash of the string, so that qstr_eq never
\* calls equal strings different, and it answers whether they are equal also when
\* the hashes of different strings collide.
QstrEqIsEquality ==
    /\ \A a \in DOMAIN qstr : qstr[a].hash \in {0, djb2(qstr[a].data)}
    /\ answer # <<>> /\ answer[1] = "eq" => answer[4] = (answer[2] = answer[3])

\* qstr_eq_null_terminated never misses an equal string, and takes a string that
\* only starts with the Qstr for equal, where qstr.h:30 speaks of a "normal" comparison.
NullTerminatedIsPrefix ==
    answer # <<>> /\ answer[1] = "null" =>
        (answer[4] <=> \E rest \in Suffixes(answer[3]) : answer[3] = answer[2] \o rest)
=============================================================================
