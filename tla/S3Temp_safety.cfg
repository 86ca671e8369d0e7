\* A filesystem that nobody uses any more is at rest, not stuck.
CHECK_DEADLOCK FALSE
SPECIFICATION Spec
CONSTANTS
    Buf = {b1, b2}
    Value = {v1, v2}
    Reader = {r1}
    Proc = {p1, p2}
    Key = {k1, k2}
    NoBuf = NoBuf
    MaxWrites = 2
SYMMETRY Symmetry
INVARIANTS TempInv ReaderSeesBuffer PublishedIsWritten OneTaker
