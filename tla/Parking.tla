------------------------------- MODULE Parking -------------------------------
(***************************************************************************)
(* What desync.rs promises the rest of the crate: a thread that falls off  *)
(* the end of its log sleeps until the program desyncs, and no longer.     *)
(***************************************************************************)
CONSTANT Thread

VARIABLES desynced,  \* the program is marked as desynced
          asleep     \* the threads inside sleep_until_desync

vars == <<desynced, asleep>>

Init == desynced = FALSE /\ asleep = {}

FallAsleep(t) == t \notin asleep /\ asleep' = asleep \cup {t} /\ UNCHANGED desynced

Desync == desynced' = TRUE /\ UNCHANGED asleep

WakeUp(t) == desynced /\ t \in asleep /\ asleep' = asleep \ {t} /\ UNCHANGED desynced

Next == Desync \/ \E t \in Thread : FallAsleep(t) \/ WakeUp(t)

Spec == Init /\ [][Next]_vars /\ \A t \in Thread : WF_vars(WakeUp(t))
=============================================================================
