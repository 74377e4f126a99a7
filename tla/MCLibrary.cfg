SPECIFICATION Spec
CHECK_DEADLOCK FALSE
CONSTANTS
    k1 = k1
    k2 = k2
    k3 = k3
    Key = {k1, k2, k3}
    Value = {v1, v2}
    HashBits = 3
    Shuffled <- MCShuffled
    HASHMAP_MIN_CAP_BITS = 1
    MaxEntries = 5
    U8 = {"/", ".", "a"}
    Pointer = {p1, p2, p3}
    Junk = Junk
    PointerSize = 4
    MaxList = 5
    Link = {l1, l2, l3}
    Datum = {d1, d2}
    Null = Null
    PathElem <- MCPathElem
    MaxPath = 6
    QstrText <- MCQstrText
    HashWord = 64
    Char = {43, 45, 46, 48, 50, 57, 97}
    TokenChar = {47, 97}
    Caller = {c1, c2}
    TokenLen = 4
    NumberLen = 4
    IntWord = 256
    ArgInt <- MCArgInt
    ArgLen = {0, 1, 3}
    Padding <- MCPadding
    IntRange = 256
    Size = {0, 1, 2, 4, 7}
    MaxFormat = 2
INVARIANTS MapSound ListsHoldElements PathsCut TextRead Printed
