SPECIFICATION Spec
CONSTANTS
    main = main
    a = a
    b = b
    c = c
    d = d
    e = e
    Thread = {main, a, b, c, d, e}
    Root = main
    Prog <- MCProg
    MAX_SIZE = 2
    MaxChildren = 2
    Id <- MCId
    NoId = NoId
    Entry <- MCEntry
INVARIANTS UniqueThreadIds UniqueChannelIds IdsAreDeterministic CreationsMatchLog
PROPERTIES ThreadsAreRecreated
CHECK_DEADLOCK FALSE
