SPECIFICATION Spec
CONSTANTS
    t1 = t1
    t2 = t2
    ra = ra
    rb = rb
    rc = rc
    Thread = {t1, t2}
    Route = {ra, rb, rc}
    Router = Router
    NoThread = NoThread
    NoRoute = NoRoute
    Wakeup = Wakeup
    Calls <- TwoShutdowns
    Static = FALSE
    Messages <- Some
    Adds <- AddAnother
    Panics = {rb}
INVARIANTS LockHeld OneWakeupPerMessage NothingSkipped HandlersKnown RoutesAddedBeforeShutdown
PROPERTIES ShutdownReturns
CHECK_DEADLOCK FALSE
