SPECIFICATION TransportSpec
CONSTANTS
    Call = {c1, c2, c3}
    ChanCap = 1
PROPERTIES
    ImplementsCalls
    EveryCallEnds
    HandlersEnd
CHECK_DEADLOCK FALSE
