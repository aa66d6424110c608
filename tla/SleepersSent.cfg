SPECIFICATION Spec
CONSTANTS
    main = main
    t1 = t1
    t2 = t2
    c1 = c1
    c2 = c2
    c3 = c3
    c4 = c4
    Id = {main, t1, t2}
    Chan = {c1, c2, c3, c4}
    NoId = NoId
    NoChan = NoChan
    NoVal = NoVal
    Val <- MCVal
    Entry <- MCEntry
    Owner <- MCOwner
    Senders <- MCSenders
    Bounded = {c3, c4}
    Cap <- MCCap
    Main = main
    Code <- MCCode
    Setups <- MessagesOnly
INVARIANTS SleepersDidNotSend
CHECK_DEADLOCK FALSE
