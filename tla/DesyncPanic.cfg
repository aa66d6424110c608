SPECIFICATION Spec
CONSTANTS
    Thread = {t1, t2, t3}
    Nobody = Nobody
    KeepGoing = FALSE
    MaxRounds = 2
PROPERTIES SleepersWakeOnDesync
CHECK_DEADLOCK FALSE
