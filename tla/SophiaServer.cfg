SPECIFICATION FairSpec
CONSTANTS
    Session = {s1, s2}
    Conn = {c1, c2}
    NoConn = NoConn
INVARIANTS TypeOK ServerInv DoneMeansCleaned
PROPERTIES WaitReturnsAfterCleanup ShutdownEnds BucketFate
