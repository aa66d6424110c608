SPECIFICATION Spec
CONSTANTS
    Thread = {t1, t2, t3}
    Nobody = Nobody
    KeepGoing = TRUE
    MaxRounds = 2
INVARIANTS NoLostWakeup WokenOnlyByDesync
PROPERTIES ImplementsParking
CHECK_DEADLOCK FALSE
