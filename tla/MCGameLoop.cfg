\* Three connections, buffers of two blocks, two ident attempts.
SPECIFICATION LoopSpec
CONSTANTS
    d1 = d1
    d2 = d2
    d3 = d3
    Descs = {d1, d2, d3}
    Null = Null
    Fds <- MCFds
    Limit = 2
    MaxAtimes = 2
    Above <- MCAbove
SYMMETRY MCSymmetry
CHECK_DEADLOCK FALSE
INVARIANTS
    LoopTypeOK
    OneTurnEach
    SnoopersAhead
    SocketsOwned
