------------------------------ MODULE SenderFifo ------------------------------
(***************************************************************************)
(* What a channel of rr_channel promises its users, in a recorded          *)
(* execution, in a replay and after a desync alike: while its receiver     *)
(* lives every message sent waits until it is received, and is received    *)
(* once, and the messages of one sender arrive in the order they were      *)
(* sent.  The messages of different senders may arrive in any order.       *)
(*                                                                         *)
(* A message is lost in two ways only: with the thread that holds the      *)
(* receiver, or when that thread, in a program that keeps going after a    *)
(* desync, receives although its record log is closed.                     *)
(***************************************************************************)
EXTENDS Naturals, Sequences

CONSTANTS Thread, Chan, Val,
          Owner   \* the thread that holds the receiver of each channel

VARIABLES queue,   \* what each sender has sent on each channel and nobody got
          got,     \* what the receives on each channel have returned
          ended,   \* the threads that have returned or panicked
          refused  \* the threads that go on although their record log is closed

vars == <<queue, got, ended, refused>>

NothingSent == [c \in Chan |-> [s \in Thread |-> <<>>]]
NothingGot == [c \in Chan |-> <<>>]

Start == ended = {} /\ refused = {} /\ queue = NothingSent /\ got = NothingGot

Init == Start

Send(c, s) ==
    /\ s \notin ended /\ Owner[c] \notin ended
    /\ queue'[c][s] \in {Append(queue[c][s], v) : v \in Val}
    /\ queue' = [queue EXCEPT ![c][s] = queue'[c][s]]
    /\ UNCHANGED <<got, ended, refused>>

Receive(c, s) ==
    /\ Owner[c] \notin ended
    /\ queue[c][s] # <<>>
    /\ queue' = [queue EXCEPT ![c][s] = Tail(@)]
    /\ got' = [got EXCEPT ![c] = Append(@, [from |-> s, val |-> Head(queue[c][s])])]
    /\ UNCHANGED <<ended, refused>>

\* The receive has its message, cannot log it, and goes on to receive another.
Lose(c, s) ==
    /\ Owner[c] \in refused \ ended
    /\ queue[c][s] # <<>>
    /\ queue' = [queue EXCEPT ![c][s] = Tail(@)]
    /\ UNCHANGED <<got, ended, refused>>

\* A thread ends: what waits in the channels it received from is gone.
End(t) ==
    /\ t \notin ended
    /\ ended' = ended \cup {t}
    /\ queue' = [c \in Chan |-> IF Owner[c] = t THEN NothingSent[c] ELSE queue[c]]
    /\ UNCHANGED <<got, refused>>

\* The flush drops the receiving end of a thread's record log, in a program that
\* keeps going.
Refuse(t) ==
    /\ refused' = refused \cup {t}
    /\ UNCHANGED <<queue, got, ended>>

\* The replay starts.
NewProcess == Start'

Next ==
    \/ \E c \in Chan, s \in Thread : Send(c, s) \/ Receive(c, s) \/ Lose(c, s)
    \/ \E t \in Thread : End(t) \/ Refuse(t)
    \/ NewProcess

Spec == Init /\ [][Next]_vars
=============================================================================
