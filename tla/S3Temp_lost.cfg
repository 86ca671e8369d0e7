\* A filesystem that nobody uses any more is at rest, not stuck.
CHECK_DEADLOCK FALSE
SPECIFICATION Spec
CONSTANTS
    Buf = {b1}
    Value = {v1}
    Reader = {r1}
    Proc = {p1}
    Key = {k1}
    NoBuf = NoBuf
    MaxWrites = 1
INVARIANT OnlyRemoveDiscards
