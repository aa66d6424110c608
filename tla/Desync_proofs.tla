---------------------------- MODULE Desync_proofs ----------------------------
(***************************************************************************)
(* Proofs about Desync: for any set of threads and any number of rounds no *)
(* wake-up is lost, nobody wakes up before a desync, and every step is a   *)
(* step of Parking.  (That sleepers do wake up is checked by TLC.)         *)
(***************************************************************************)
EXTENDS Desync, TLAPS

\* The mutex is held exactly between a lock and its unlock.
LockIsHeld == \A t \in Thread : lock = t <=> pc[t] \in {"check", "set", "notify"}

\* A thread that is about to wake others has marked the program, and between
\* setting the flag and notifying it says so.
FlagsFollowPc == \A t \in Thread :
    /\ pc[t] \in {"wake", "set", "notify"} => DESYNC
    /\ pc[t] \in {"notify", "awake"} => started

StartedAfterMark == started => DESYNC

\* Whoever still waits after the flag is set is about to be notified.
WaitersGetNotified == started /\ waiting # {} => \E t \in Thread : pc[t] = "notify"

IInv ==
    /\ TypeOK
    /\ LockIsHeld
    /\ FlagsFollowPc
    /\ StartedAfterMark
    /\ WaitersGetNotified

LEMMA IInvInit == Init => IInv
  <1> SUFFICES ASSUME Init PROVE IInv
    OBVIOUS
  <1> USE DesyncAssumption DEF Init
  <1>1. TypeOK
    <2>1. pc \in [Thread -> {"running", "panicked"} \cup Sleeping \cup Marking]
      OBVIOUS
    <2>2. rounds \in [Thread -> 0 .. MaxRounds]
      OBVIOUS
    <2> QED
      BY <2>1, <2>2 DEF TypeOK
  <1>2. LockIsHeld
    BY DEF LockIsHeld
  <1>3. FlagsFollowPc
    BY DEF FlagsFollowPc
  <1>4. StartedAfterMark /\ WaitersGetNotified
    BY DEF StartedAfterMark, WaitersGetNotified
  <1> QED
    BY <1>1, <1>2, <1>3, <1>4 DEF IInv

LEMMA TypeStep == TypeOK /\ [Next]_vars => TypeOK'
  <1> SUFFICES ASSUME TypeOK, [Next]_vars PROVE TypeOK'
    OBVIOUS
  <1>1. CASE UNCHANGED vars
    BY <1>1 DEF vars, TypeOK
  <1>2. ASSUME NEW t \in Thread, FallAsleep(t) \/ DetectDesync(t) PROVE TypeOK'
    BY <1>2, DesyncAssumption
    DEF TypeOK, FallAsleep, DetectDesync, NextRound, Goto, Sleeping, Marking
  <1>3. ASSUME NEW t \in Thread, LockToSleep(t) \/ Wait(t) \/ WaitReturns(t) \/ EndSleep(t)
        PROVE TypeOK'
    BY <1>3 DEF TypeOK, LockToSleep, Wait, WaitReturns, EndSleep, Goto, Lock, Unlock,
       Sleeping, Marking
  <1>4. ASSUME NEW t \in Thread, SpuriousWakeup(t) \/ HandleWakeup(t) \/ Load(t) \/ Store(t)
        PROVE TypeOK'
    BY <1>4 DEF TypeOK, SpuriousWakeup, HandleWakeup, Load, Store, Goto, Sleeping, Marking
  <1>5. ASSUME NEW t \in Thread, LockToWake(t) \/ SetStarted(t) \/ NotifyAll(t)
        PROVE TypeOK'
    BY <1>5 DEF TypeOK, LockToWake, SetStarted, NotifyAll, Goto, Lock, Unlock,
       Sleeping, Marking
  <1> QED
    BY <1>1, <1>2, <1>3, <1>4, <1>5 DEF Next, Continue

LEMMA IInvStep == IInv /\ [Next]_vars => IInv'
  <1> SUFFICES ASSUME IInv, [Next]_vars PROVE IInv'
    OBVIOUS
  <1>t. TypeOK'
    BY TypeStep DEF IInv
  <1> USE <1>t, DesyncAssumption
      DEF IInv, TypeOK, LockIsHeld, FlagsFollowPc, StartedAfterMark, WaitersGetNotified
  <1>1. CASE UNCHANGED vars
    BY <1>1 DEF vars
  <1>2. ASSUME NEW t \in Thread, FallAsleep(t) PROVE IInv'
    BY <1>2 DEF FallAsleep, Goto
  <1>3. ASSUME NEW t \in Thread, DetectDesync(t) PROVE IInv'
    BY <1>3 DEF DetectDesync, Goto
  <1>4. ASSUME NEW t \in Thread, LockToSleep(t) PROVE IInv'
    BY <1>4 DEF LockToSleep, Goto, Lock
  <1>5. ASSUME NEW t \in Thread, Wait(t) PROVE IInv'
    BY <1>5 DEF Wait, Goto, Unlock
  <1>6. ASSUME NEW t \in Thread, WaitReturns(t) PROVE IInv'
    BY <1>6 DEF WaitReturns, Goto, Lock
  <1>7. ASSUME NEW t \in Thread, EndSleep(t) PROVE IInv'
    BY <1>7 DEF EndSleep, Goto, Unlock
  <1>8. ASSUME NEW t \in Thread, SpuriousWakeup(t) PROVE IInv'
    BY <1>8 DEF SpuriousWakeup
  <1>9. ASSUME NEW t \in Thread, HandleWakeup(t) PROVE IInv'
    BY <1>9 DEF HandleWakeup, Goto
  <1>10. ASSUME NEW t \in Thread, Load(t) PROVE IInv'
    BY <1>10 DEF Load, Goto
  <1>11. ASSUME NEW t \in Thread, Store(t) PROVE IInv'
    BY <1>11 DEF Store, Goto
  <1>12. ASSUME NEW t \in Thread, LockToWake(t) PROVE IInv'
    BY <1>12 DEF LockToWake, Goto, Lock
  <1>13. ASSUME NEW t \in Thread, SetStarted(t) PROVE IInv'
    BY <1>13 DEF SetStarted, Goto
  <1>14. ASSUME NEW t \in Thread, NotifyAll(t) PROVE IInv'
    BY <1>14 DEF NotifyAll, Goto, Unlock
  <1> QED
    BY <1>1, <1>2, <1>3, <1>4, <1>5, <1>6, <1>7, <1>8, <1>9, <1>10, <1>11, <1>12,
       <1>13, <1>14 DEF Next, Continue

LEMMA Inductive == Spec => []IInv
  BY IInvInit, IInvStep, PTL DEF Spec

\* Every variable keeps to its type.
THEOREM TypeCorrect == Spec => []TypeOK
  <1>1. IInv => TypeOK
    BY DEF IInv
  <1> QED
    BY <1>1, Inductive, PTL

\* No wake-up is lost between wake_up_threads and sleep_until_desync, for any
\* number of threads: a set flag and a free mutex leave nobody waiting.
THEOREM NoLostWakeupCorrect == Spec => []NoLostWakeup
  <1>1. IInv => NoLostWakeup
    BY DesyncAssumption
    DEF IInv, TypeOK, LockIsHeld, WaitersGetNotified, NoLostWakeup
  <1> QED
    BY <1>1, Inductive, PTL

\* A thread that leaves sleep_until_desync finds the program marked as
\* desynced, whoever marked it and however many threads raced to do so.
THEOREM WokenOnlyByDesyncCorrect == Spec => []WokenOnlyByDesync
  <1>1. IInv => WokenOnlyByDesync
    BY DEF IInv, FlagsFollowPc, StartedAfterMark, WokenOnlyByDesync
  <1> QED
    BY <1>1, Inductive, PTL

-----------------------------------------------------------------------------
Asleep == {t \in Thread : pc[t] \in {"sleep", "check", "wait"}}

\* The steps of desync.rs are the steps that Parking allows, or none of them:
\* the safety half of ImplementsParking, for any number of threads.
THEOREM StepsOfParking == Spec => Abstract!Init /\ [][Abstract!Next]_(Abstract!vars)
  <1>1. Init => Abstract!Init
    BY DEF Init, Abstract!Init
  <1>2. IInv /\ [Next]_vars => [Abstract!Next]_(Abstract!vars)
    <2> SUFFICES ASSUME IInv, [Next]_vars
                 PROVE  Abstract!Next \/ (Asleep' = Asleep /\ DESYNC' = DESYNC)
      BY DEF Abstract!vars, Asleep
    <2> USE DEF IInv, TypeOK
    <2>1. CASE UNCHANGED vars
      BY <2>1 DEF vars, Asleep
    <2>2. ASSUME NEW t \in Thread, FallAsleep(t) PROVE Abstract!FallAsleep(t)
      BY <2>2 DEF FallAsleep, Goto, Abstract!FallAsleep
    <2>3. ASSUME NEW t \in Thread, EndSleep(t) PROVE Abstract!WakeUp(t)
      BY <2>3 DEF EndSleep, Goto, StartedAfterMark, Abstract!WakeUp
    <2>4. ASSUME NEW t \in Thread, Store(t) PROVE Abstract!Desync
      BY <2>4 DEF Store, Goto, Abstract!Desync
    <2>5. ASSUME NEW t \in Thread, LockToSleep(t) \/ Wait(t) \/ WaitReturns(t)
          PROVE Asleep' = Asleep /\ DESYNC' = DESYNC
      BY <2>5 DEF LockToSleep, Wait, WaitReturns, Goto, Asleep
    <2>6. ASSUME NEW t \in Thread,
                 DetectDesync(t) \/ HandleWakeup(t) \/ Load(t) \/ SpuriousWakeup(t)
          PROVE Asleep' = Asleep /\ DESYNC' = DESYNC
      BY <2>6 DEF DetectDesync, HandleWakeup, Load, SpuriousWakeup, Goto, Asleep
    <2>7. ASSUME NEW t \in Thread, LockToWake(t) \/ SetStarted(t) \/ NotifyAll(t)
          PROVE Asleep' = Asleep /\ DESYNC' = DESYNC
      BY <2>7 DEF LockToWake, SetStarted, NotifyAll, Goto, Asleep
    <2> QED
      BY <2>1, <2>2, <2>3, <2>4, <2>5, <2>6, <2>7 DEF Next, Continue, Abstract!Next
  <1> QED
    BY <1>1, <1>2, Inductive, PTL DEF Spec
=============================================================================
