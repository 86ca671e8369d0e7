SPECIFICATION FairSpec
CONSTANTS
    Session = {s1}
    Conn = {c1}
    NoConn = NoConn
PROPERTY SignalStopsServer
