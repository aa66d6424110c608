SPECIFICATION Spec
CONSTANTS
    Id = {t1, t2, t3}
    NoId = NoId
    Entry <- MCEntry
    MaxEntries = 2
INVARIANTS SavedIsPrefix NothingLostBeforeFlush ReadsWhatItWrote NoPanicOnFullLog
PROPERTIES FlushEnds LogIsReplayed
CHECK_DEADLOCK FALSE
