\* One command with failures, or two at once.
CONSTANTS
    p1 = p1
    p2 = p2
    Proc = {p1, p2}
    Base = {"x", "y"}
    MaxSuffix = 2
    MaxFiles = 3
    Setups <- Keeping
    Absent = Absent
    Lost = Lost
    ThisDir = ThisDir
SPECIFICATION Spec
INVARIANTS DataKept NoCorruptOutput
PROPERTY RemovedAfterReplaced
