SPECIFICATION Spec
CONSTANTS
    Id = {t1, t2}
    NoId = NoId
    Entry <- MCEntry
    MaxEntries = 2
INVARIANTS OffLogThreadsSleep
CHECK_DEADLOCK FALSE
