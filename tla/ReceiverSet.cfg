SPECIFICATION Spec
CONSTANTS
    c1 = c1
    c2 = c2
    s1 = s1
    s2 = s2
    Chan = {c1, c2}
    Sender = {s1, s2}
    NoChan = NoChan
    NoSender = NoSender
    NoVal = NoVal
    Code <- MCCode
    Setups <- MCSetups
    AnyRecv = TRUE
INVARIANTS TypeOK IndicesAgree SelectIsFaithful NothingLost EventsInOrder
PROPERTIES ReplayCompletes SelectSeesBuffers
CHECK_DEADLOCK FALSE
