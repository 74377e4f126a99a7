----------------------------- MODULE MCMachine -----------------------------
(* The instance of Machine that TLC checks.                                *)
EXTENDS Machine

\* Every size from one word to beyond the most that is looked for, odd ones too.
RamSizes == 2..70

AmountSet == {-1, 0, 1}

\* Texts that fit the buffer and that do not, with a newline at any place.
Patterns == UNION {[1..k -> BOOLEAN] : k \in 1..2} \cup {<<FALSE, b, FALSE>> : b \in BOOLEAN}

\* Code points on both sides of every boundary.
WideChars == {0, 127, 128, 2047, 2048, 55295, 55296, 57343, 57344, 65535, 65536,
              1114111, 1114112}

\* No arguments and some, a path, empty environments, and auxiliary vectors with the
\* page size twice, values of 0 and tags on both sides of AUX_CNT.
Images ==
    [argv : {<<>>, <<<<>>>>, <<<<"a">>>>, <<<<"/", "b", "/", "c">>, <<"d">>>>, <<<<"a", "/">>>>},
     envs : 0..2,
     aux : {<<>>} \cup UNION {[1..k -> {<<6, 0>>, <<6, 5>>, <<1, 6>>, <<7, 3>>, <<8, 6>>}] : k \in 1..3}]

\* Errors 1, 3 and 15, messages of different lengths and an empty one.
Errors == <<[id |-> 3, msg |-> <<"t", "h">>], [id |-> 15, msg |-> <<>>], [id |-> 1, msg |-> <<"o">>],
            [id |-> 0, msg |-> <<"n", "o", "n">>]>>
=============================================================================
