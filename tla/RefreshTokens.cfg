SPECIFICATION TokensSpec
CONSTANTS
    Ops = {1, 2, 3, 4, 5}
INVARIANTS RotatedOnce NeverStranded ClosedStaysClosed
CHECK_DEADLOCK FALSE
