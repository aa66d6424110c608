-------------------------------- MODULE Desync --------------------------------
(***************************************************************************)
(* Sleeping at the end of the log and waking up on a desync                *)
(* (src/desync.rs), one atomic operation a step: the AtomicBool DESYNC and *)
(* the pair PARK_THREADS of a mutex around a flag and a condition variable.*)
(*                                                                         *)
(* Each thread goes through a few rounds.  In a round it runs off the end  *)
(* of its log and calls sleep_until_desync, or detects a desync itself;    *)
(* both lead to handle_desync (a receive) or the desync arm of send.       *)
(***************************************************************************)
EXTENDS Naturals

CONSTANTS Thread,
          Nobody,     \* no thread: the mutex is free
          KeepGoing,  \* DESYNC_MODE is KeepGoing, not Panic
          MaxRounds   \* bound on the rounds of a thread

ASSUME DesyncAssumption ==
    /\ Nobody \notin Thread
    /\ KeepGoing \in BOOLEAN
    /\ MaxRounds \in Nat

VARIABLES
    DESYNC,    \* the atomic flag
    started,   \* the flag that the mutex protects
    lock,      \* the thread that holds the mutex
    waiting,   \* the threads that wait on the condition variable
    pc,        \* the position of each thread
    rounds     \* how many rounds each thread has begun

vars == <<DESYNC, started, lock, waiting, pc, rounds>>

Sleeping == {"sleep", "check", "wait", "awake"}
Marking == {"load", "store", "wake", "set", "notify"}

TypeOK ==
    /\ DESYNC \in BOOLEAN
    /\ started \in BOOLEAN
    /\ lock \in Thread \cup {Nobody}
    /\ waiting \subseteq Thread
    /\ pc \in [Thread -> {"running", "panicked"} \cup Sleeping \cup Marking]
    /\ rounds \in [Thread -> 0 .. MaxRounds]

Init ==
    /\ DESYNC = FALSE
    /\ started = FALSE
    /\ lock = Nobody
    /\ waiting = {}
    /\ pc = [t \in Thread |-> "running"]
    /\ rounds = [t \in Thread |-> 0]

Goto(t, from, to) == pc[t] = from /\ pc' = [pc EXCEPT ![t] = to]

Lock(t) == lock = Nobody /\ lock' = t
Unlock(t) == lock = t /\ lock' = Nobody

NextRound(t) == rounds[t] < MaxRounds /\ rounds' = [rounds EXCEPT ![t] = @ + 1]

-----------------------------------------------------------------------------
(* sleep_until_desync *)

FallAsleep(t) ==
    /\ NextRound(t)
    /\ Goto(t, "running", "sleep")
    /\ UNCHANGED <<DESYNC, started, lock, waiting>>

LockToSleep(t) ==
    /\ Goto(t, "sleep", "check")
    /\ Lock(t)
    /\ UNCHANGED <<DESYNC, started, waiting, rounds>>

\* Mutant: waits without looking at the flag.
WaitUnchecked(t) ==
    /\ Goto(t, "check", "wait")
    /\ Unlock(t)
    /\ waiting' = waiting \cup {t}
    /\ UNCHANGED <<DESYNC, started, rounds>>

\* Condvar::wait unlocks the mutex and starts to wait in one step.
Wait(t) ==
    /\ ~started
    /\ Goto(t, "check", "wait")
    /\ Unlock(t)
    /\ waiting' = waiting \cup {t}
    /\ UNCHANGED <<DESYNC, started, rounds>>

\* Condvar::wait returns, notified or for no reason, with the mutex locked.
WaitReturns(t) ==
    /\ t \notin waiting
    /\ Goto(t, "wait", "check")
    /\ Lock(t)
    /\ UNCHANGED <<DESYNC, started, waiting, rounds>>

SpuriousWakeup(t) ==
    /\ t \in waiting
    /\ waiting' = waiting \ {t}
    /\ UNCHANGED <<DESYNC, started, lock, pc, rounds>>

\* Mutant: takes any return of wait for a desync.
EndSleepUnchecked(t) ==
    /\ Goto(t, "check", "awake")
    /\ Unlock(t)
    /\ UNCHANGED <<DESYNC, started, waiting, rounds>>

EndSleep(t) ==
    /\ started
    /\ Goto(t, "check", "awake")
    /\ Unlock(t)
    /\ UNCHANGED <<DESYNC, started, waiting, rounds>>

-----------------------------------------------------------------------------
(* handle_desync *)

DetectDesync(t) ==
    /\ NextRound(t)
    /\ Goto(t, "running", IF KeepGoing THEN "load" ELSE "panicked")
    /\ UNCHANGED <<DESYNC, started, lock, waiting>>

\* DesyncError::DesynchronizedWakeup
HandleWakeup(t) ==
    /\ Goto(t, "awake", IF KeepGoing THEN "load" ELSE "panicked")
    /\ UNCHANGED <<DESYNC, started, lock, waiting, rounds>>

\* mark_program_as_desynced: the load and the store are two operations.
Load(t) ==
    /\ Goto(t, "load", IF DESYNC THEN "running" ELSE "store")
    /\ UNCHANGED <<DESYNC, started, lock, waiting, rounds>>

Store(t) ==
    /\ Goto(t, "store", "wake")
    /\ DESYNC' = TRUE
    /\ UNCHANGED <<started, lock, waiting, rounds>>

\* wake_up_threads; the mutex is unlocked at its end.
LockToWake(t) ==
    /\ Goto(t, "wake", "set")
    /\ Lock(t)
    /\ UNCHANGED <<DESYNC, started, waiting, rounds>>

SetStarted(t) ==
    /\ Goto(t, "set", "notify")
    /\ started' = TRUE
    /\ UNCHANGED <<DESYNC, lock, waiting, rounds>>

\* Mutant: notify_one
NotifyOne(t) ==
    /\ Goto(t, "notify", "running")
    /\ \/ waiting = {} /\ UNCHANGED waiting
       \/ \E u \in waiting : waiting' = waiting \ {u}
    /\ Unlock(t)
    /\ UNCHANGED <<DESYNC, started, rounds>>

NotifyAll(t) ==
    /\ Goto(t, "notify", "running")
    /\ waiting' = {}
    /\ Unlock(t)
    /\ UNCHANGED <<DESYNC, started, rounds>>

-----------------------------------------------------------------------------
\* What a thread inside one of the functions does next.
Continue(t) ==
    \/ LockToSleep(t) \/ Wait(t) \/ WaitReturns(t) \/ EndSleep(t)
    \/ HandleWakeup(t) \/ Load(t) \/ Store(t)
    \/ LockToWake(t) \/ SetStarted(t) \/ NotifyAll(t)

Next == \E t \in Thread :
    FallAsleep(t) \/ DetectDesync(t) \/ SpuriousWakeup(t) \/ Continue(t)

\* The functions run on once called; nothing makes a thread desync.  The mutex
\* does not starve the waker, however often sleepers wake up spuriously.
Fairness == \A t \in Thread : WF_vars(Continue(t)) /\ SF_vars(LockToWake(t))

Spec == Init /\ [][Next]_vars /\ Fairness

-----------------------------------------------------------------------------
\* No wake-up is lost: once the flag is set and the mutex is free, nobody is
\* left waiting on the condition variable (sleep_until_desync tests the flag
\* and starts to wait without giving the mutex away in between).
NoLostWakeup == started /\ lock = Nobody => waiting = {}

\* No thread leaves its sleep, spuriously or because several threads raced
\* through mark_program_as_desynced, unless the program is marked as desynced.
WokenOnlyByDesync == \A t \in Thread : pc[t] = "awake" => started /\ DESYNC

\* Refinement: the atomic sleep and wake-up that the rest of the crate sees.
Abstract == INSTANCE Parking WITH
    desynced <- DESYNC,
    asleep <- {t \in Thread : pc[t] \in {"sleep", "check", "wait"}}

\* Every sleeper wakes up after a mark, and none before.
ImplementsParking == Abstract!Spec

\* What sleep_until_desync says of its caller: when we desynchronize, this
\* thread will be woken up.
SleepersWakeOnDesync ==
    \A t \in Thread :
        pc[t] \in Sleeping /\ (\E u \in Thread : pc[u] \in Marking \cup {"panicked"})
            ~> pc[t] \notin Sleeping
=============================================================================
