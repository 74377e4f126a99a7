----------------------------- MODULE MCLibrary -----------------------------
EXTENDS Library

CONSTANTS k1, k2, k3

\* k1 and k3 share a bucket until there are eight buckets.
MCShuffled == (k1 :> 4) @@ (k2 :> 1) @@ (k3 :> 5)

MCPathElem == {<<"a">>, <<".", "a">>}

\* With HashWord = 64 the hashes of "ab" and "@#" are the same.
MCQstrText == BoundedSeq({64, 97, 98}, 2) \cup {<<64, 35>>, <<97, 98, 97>>}

MCArgInt == {0, 9, 100, -128}
MCPadding == {-1, 0, 2, 4}
=============================================================================
