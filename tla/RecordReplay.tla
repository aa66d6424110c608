----------------------------- MODULE RecordReplay -----------------------------
(***************************************************************************)
(* A program that communicates over rr_channel's crossbeam or mpsc         *)
(* channels, in two executions: one that is recorded, and one that replays *)
(* the recorded log (src/rr.rs, crossbeam_channel.rs, mpsc.rs, desync.rs). *)
(*                                                                         *)
(* The program is the operator Code: what a thread does next is a function *)
(* of what its operations have returned so far, hist[t], and of nothing    *)
(* else.  That is the determinism record and replay rest on; the scheduler *)
(* and the arrival order of messages are free.  The channel underneath is  *)
(* a multi-producer FIFO queue wire[c] with one receiver, Owner[c].        *)
(*                                                                         *)
(* A setup is a program with the conditions that both executions of it run *)
(* under.                                                                  *)
(***************************************************************************)
EXTENDS RecordLog, SequencesExt

CONSTANTS
    Chan, Val, NoChan, NoVal,
    Owner,      \* the thread that holds the Receiver of each channel
    Senders,    \* the threads that hold a Sender of each channel
    Bounded,    \* the bounded channels
    Cap,        \* and the capacity of each
    Main,       \* the thread that holds the Tivo object
    Code(_, _, _), \* the next operation of a program's thread with a history
    Setups

RecvKind == {"recv", "try_recv", "recv_timeout"}
LoggedKind == RecvKind \cup {"send"}
RecvFailure == {"Empty", "Timeout", "Disconnected"}

(* What an operation returned, as the program sees it. *)
Result(op, from, val, error) ==
    [op |-> op.kind, chan |-> op.chan, from |-> from, val |-> val, error |-> error]
Failure(op, error) == Result(op, NoId, NoVal, error)
NoResult == [op |-> "join", chan |-> NoChan, from |-> NoId, val |-> NoVal, error |-> "none"]
Done == [NoResult EXCEPT !.op = "execution_done"]

SendResult == [op : {"send"}, chan : Chan, from : {NoId}, val : {NoVal},
               error : {"none", "SendError"}]
RecvResult == [op : RecvKind, chan : Chan, from : Id, val : Val, error : {"none"}]
         \cup [op : RecvKind, chan : Chan, from : {NoId}, val : {NoVal}, error : RecvFailure]
Observation == SendResult \cup RecvResult \cup {NoResult, Done}

(* A record log entry: kind of event, channel, and the sender or the error. *)
LogEntry == [op : {"send"}, chan : Chan, from : {NoId}, error : {"none"}]
       \cup [op : RecvKind, chan : Chan, from : Id, error : {"none"}]
       \cup [op : RecvKind, chan : Chan, from : {NoId}, error : RecvFailure]

Operation == [kind : {"send"}, chan : Chan, val : Val]
        \cup [kind : RecvKind, chan : Chan]
        \cup [kind : {"join"}, thread : Id]
        \cup [kind : {"execution_done", "halt"}]

ASSUME ProgramAssumption ==
    /\ Owner \in [Chan -> Id]
    /\ Senders \in [Chan -> SUBSET Id]
    /\ Bounded \subseteq Chan
    /\ Cap \in [Bounded -> Nat \ {0}]
    /\ Main \in Id
    /\ \A s \in Setups : {s.keepGoing, s.prompt} \subseteq BOOLEAN
    /\ NoChan \notin Chan
    /\ NoVal \notin Val
    /\ Entry = LogEntry

VARIABLES
    setup,
    wire,     \* messages in each channel's real queue: (sender id, value)
    buffer,   \* Receiver.buffer: early messages, a queue for each sender
    status,   \* of a thread: "running", "asleep", "exited" or "panicked"
    at,       \* where a running thread is inside an operation
    pending,  \* the result a recording thread has still to log
    expected, \* the sender a replaying thread is receiving from
    hist,     \* what the operations of each thread have returned
    recorded, \* hist at the end of the recorded execution
    desynced  \* the global DESYNC

chanVars == <<wire, buffer>>
threadVars == <<status, at, pending, expected, hist>>
vars == <<setup, logVars, chanVars, threadVars, recorded, desynced>>

KeepGoing == setup.keepGoing \* DESYNC_MODE: KeepGoing or, if FALSE, Panic
Prompt == setup.prompt       \* messages under way arrive within replay_recv's one second

Message == [from : Id, val : Val]

TypeOK ==
    /\ setup \in Setups
    /\ LogTypeOK
    /\ wire \in [Chan -> Seq(Message)]
    /\ buffer \in [Chan -> [Id -> Seq(Val)]]
    /\ status \in [Id -> {"running", "asleep", "exited", "panicked"}]
    /\ at \in [Id -> {"idle", "log", "deliver", "receive", "desync", "flush"}]
    /\ pending \in [Id -> Observation]
    /\ expected \in [Id -> Id \cup {NoId}]
    /\ hist \in [Id -> Seq(Observation)]
    /\ recorded \in [Id -> Seq(Observation)]
    /\ desynced \in BOOLEAN

ProgramStart ==
    /\ wire = [c \in Chan |-> <<>>]
    /\ buffer = [c \in Chan |-> [t \in Id |-> <<>>]]
    /\ status = [t \in Id |-> "running"]
    /\ at = [t \in Id |-> "idle"]
    /\ pending = [t \in Id |-> NoResult]
    /\ expected = [t \in Id |-> NoId]
    /\ hist = [t \in Id |-> <<>>]
    /\ desynced = FALSE

Init == setup \in Setups /\ LogInit /\ ProgramStart /\ recorded = [t \in Id |-> <<>>]

-----------------------------------------------------------------------------
(* Threads *)

Op(t) == Code(setup.program, t, hist[t])
At(t, place) == status[t] = "running" /\ at[t] = place
Calls(t, kinds) == At(t, "idle") /\ Op(t).kind \in kinds
Dead(t) == status[t] \in {"exited", "panicked"}

MoveTo(t, place) == at' = [at EXCEPT ![t] = place]

\* The operation returns obs to the program.
Return(t, obs) ==
    /\ hist' = [hist EXCEPT ![t] = Append(@, obs)]
    /\ MoveTo(t, "idle")
    /\ pending' = [pending EXCEPT ![t] = NoResult]
    /\ expected' = [expected EXCEPT ![t] = NoId]
    /\ UNCHANGED status

\* A panic unwinds the thread and drops its channel endpoints.
Panic(t) ==
    /\ status' = [status EXCEPT ![t] = "panicked"]
    /\ UNCHANGED <<at, pending, expected, hist>>

(* handle_desync, and the desync arm of Sender::send: give up the replay with
   a panic, or mark the program as desynced and go on without the log. *)
HandleDesync(t) ==
    \/ KeepGoing = FALSE /\ Panic(t) /\ UNCHANGED desynced
    \/ /\ KeepGoing = TRUE
       /\ desynced' = TRUE
       /\ status' = [status EXCEPT ![t] = "running"]
       /\ MoveTo(t, "desync")
       /\ pending' = [pending EXCEPT ![t] = NoResult]
       /\ expected' = [expected EXCEPT ![t] = NoId]
       /\ UNCHANGED hist

(* The channel underneath: crossbeam_channel or std::sync::mpsc. *)

ReceiverGone(c) == Dead(Owner[c])
SendersGone(c) == \A t \in Senders[c] : Dead(t)

\* underlying_send fails when the receiver is gone, and blocks while the
\* bounded channel is full.
SendOutcomes(op) ==
    IF ReceiverGone(op.chan) THEN {Failure(op, "SendError")}
    ELSE IF op.chan \in Bounded => Len(wire[op.chan]) < Cap[op.chan]
    THEN {Failure(op, "none")} ELSE {}

Send(t, op, obs) ==
    /\ obs \in SendOutcomes(op)
    /\ wire' = IF obs.error = "SendError" THEN wire
               ELSE [wire EXCEPT ![op.chan] = Append(@, [from |-> t, val |-> op.val])]
    /\ UNCHANGED buffer

\* recv, try_recv and recv_timeout on the real receiver: recv blocks while the
\* channel is empty and connected.
RecvOutcomes(op) ==
    LET q == wire[op.chan] IN
    IF q # <<>> THEN {Result(op, Head(q).from, Head(q).val, "none")}
    ELSE IF SendersGone(op.chan) THEN {Failure(op, "Disconnected")}
    ELSE IF op.kind = "try_recv" THEN {Failure(op, "Empty")}
    ELSE IF op.kind = "recv_timeout" THEN {Failure(op, "Timeout")}
    ELSE {}

Outcomes(op) == IF op.kind = "send" THEN SendOutcomes(op) ELSE RecvOutcomes(op)

Recv(op, obs) ==
    /\ obs \in RecvOutcomes(op)
    /\ wire' = IF obs.error # "none" THEN wire
               ELSE [wire EXCEPT ![op.chan] = Tail(@)]
    /\ UNCHANGED buffer

-----------------------------------------------------------------------------
(* Recording.  The operation takes place first; its result is written to the
   log in a later step, and only then returned to the program. *)

RecordOp(t) ==
    /\ mode = "Record"
    /\ Calls(t, RecvKind \cup {"send"})
    /\ \E obs \in Outcomes(Op(t)) :
          /\ \/ Op(t).kind = "send" /\ ~desynced /\ Send(t, Op(t), obs)
             \/ Op(t).kind \in RecvKind /\ Recv(Op(t), obs)
          /\ pending' = [pending EXCEPT ![t] = obs]
    /\ MoveTo(t, "log")
    /\ UNCHANGED <<logVars, status, expected, hist, recorded, desynced>>

\* The result of a send is not part of its entry.
EntryFor(obs) ==
    [op |-> obs.op, chan |-> obs.chan, from |-> obs.from,
     error |-> IF obs.op = "send" THEN "none" ELSE obs.error]

RecordEvent(t) ==
    /\ At(t, "log")
    /\ \/ InitEventSender(t) /\ UNCHANGED threadVars
       \/ WriteEvent(t, EntryFor(pending[t])) /\ Return(t, pending[t])
    /\ UNCHANGED <<chanVars, recorded, desynced>>

\* The log is closed.  A send panics; a receive has lost its message and goes
\* on to handle_desync.
RecordEventFails(t) ==
    /\ At(t, "log")
    /\ \/ EventSenderPanics(t) /\ Panic(t) /\ UNCHANGED desynced
       \/ CannotWriteEvent(t) /\ pending[t].op = "send" /\ Panic(t) /\ UNCHANGED desynced
       \/ CannotWriteEvent(t) /\ pending[t].op # "send" /\ HandleDesync(t)
    /\ UNCHANGED <<logVars, chanVars, recorded>>

-----------------------------------------------------------------------------
(* Replaying.  The next log entry is taken first; it says which sender's
   message, or which error, the operation has to return. *)

\* A send looks at DESYNC before it looks at the log, a receive does not.
AsksLog(t) == Calls(t, RecvKind) \/ (Calls(t, {"send"}) /\ ~desynced)

OpenLog(t) ==
    /\ AsksLog(t)
    /\ \/ InitEventReceiver(t) /\ UNCHANGED status
       \/ EventReceiverPanics(t) /\ status' = [status EXCEPT ![t] = "panicked"]
    /\ UNCHANGED <<chanVars, at, pending, expected, hist, recorded, desynced>>

\* sleep_until_desync
FallAsleep(t) ==
    /\ AsksLog(t)
    /\ NoEntryInLog(t)
    /\ status' = [status EXCEPT ![t] = "asleep"]
    /\ UNCHANGED <<logVars, chanVars, at, pending, expected, hist, recorded, desynced>>

\* check_event_mismatch
Mismatch(op, entry) == entry.op # op.kind \/ entry.chan # op.chan

ReplayMismatch(t) ==
    /\ AsksLog(t)
    /\ GetLogEntry(t)
    /\ Mismatch(Op(t), NextEntry(t))
    /\ HandleDesync(t)
    /\ UNCHANGED <<chanVars, recorded>>

ReplaySend(t) ==
    /\ AsksLog(t)
    /\ Op(t).kind = "send"
    /\ GetLogEntry(t)
    /\ ~Mismatch(Op(t), NextEntry(t))
    /\ MoveTo(t, "deliver")
    /\ UNCHANGED <<chanVars, status, pending, expected, hist, recorded, desynced>>

\* underlying_send, in a replay and after a desync
Deliver(t) ==
    /\ At(t, "deliver") \/ (At(t, "desync") /\ Op(t).kind = "send")
    /\ \E obs \in SendOutcomes(Op(t)) : Send(t, Op(t), obs) /\ Return(t, obs)
    /\ UNCHANGED <<logVars, recorded, desynced>>

\* Mutant: looks for the message in the queue only, not in the buffer.
ReplayRecvUnbuffered(t) ==
    LET op == Op(t)
        entry == NextEntry(t)
    IN
    /\ AsksLog(t)
    /\ op.kind \in RecvKind
    /\ GetLogEntry(t)
    /\ ~Mismatch(op, entry)
    /\ \/ /\ entry.error # "none"
          /\ Return(t, Failure(op, entry.error))
       \/ /\ entry.error = "none"
          /\ expected' = [expected EXCEPT ![t] = entry.from]
          /\ MoveTo(t, "receive")
          /\ UNCHANGED <<status, pending, hist>>
    /\ UNCHANGED <<chanVars, recorded, desynced>>

\* replay_recorded_event: a recorded error is returned as it is; a message may
\* be in the buffer already.
ReplayRecv(t) ==
    LET op == Op(t)
        entry == NextEntry(t)
        early == buffer[op.chan][entry.from]
    IN
    /\ AsksLog(t)
    /\ op.kind \in RecvKind
    /\ GetLogEntry(t)
    /\ ~Mismatch(op, entry)
    /\ \/ /\ entry.error # "none"
          /\ Return(t, Failure(op, entry.error))
          /\ UNCHANGED chanVars
       \/ /\ entry.error = "none" /\ early # <<>>
          /\ Return(t, Result(op, entry.from, Head(early), "none"))
          /\ buffer' = [buffer EXCEPT ![op.chan][entry.from] = Tail(@)]
          /\ UNCHANGED wire
       \/ /\ entry.error = "none" /\ early = <<>>
          /\ expected' = [expected EXCEPT ![t] = entry.from]
          /\ MoveTo(t, "receive")
          /\ UNCHANGED <<chanVars, status, pending, hist>>
    /\ UNCHANGED <<recorded, desynced>>

\* Mutant: takes whichever message comes first.
ReceiveFirst(t) ==
    LET c == Op(t).chan
        m == Head(wire[c])
    IN
    /\ At(t, "receive")
    /\ wire[c] # <<>>
    /\ wire' = [wire EXCEPT ![c] = Tail(@)]
    /\ Return(t, Result(Op(t), m.from, m.val, "none"))
    /\ UNCHANGED <<logVars, buffer, recorded, desynced>>

\* Mutant: throws away the messages of the other senders.
ReceiveExpectedDrops(t) ==
    LET c == Op(t).chan
        m == Head(wire[c])
    IN
    /\ At(t, "receive")
    /\ wire[c] # <<>>
    /\ wire' = [wire EXCEPT ![c] = Tail(@)]
    /\ \/ m.from = expected[t] /\ Return(t, Result(Op(t), m.from, m.val, "none"))
       \/ m.from # expected[t] /\ UNCHANGED threadVars
    /\ UNCHANGED <<logVars, buffer, recorded, desynced>>

\* One turn of the loop of recv_expected_message.
ReceiveExpected(t) ==
    LET c == Op(t).chan
        m == Head(wire[c])
    IN
    /\ At(t, "receive")
    /\ wire[c] # <<>>
    /\ wire' = [wire EXCEPT ![c] = Tail(@)]
    /\ \/ /\ m.from = expected[t]
          /\ Return(t, Result(Op(t), m.from, m.val, "none"))
          /\ UNCHANGED buffer
       \/ /\ m.from # expected[t]
          /\ buffer' = [buffer EXCEPT ![c][m.from] = Append(@, m.val)]
          /\ UNCHANGED threadVars
    /\ UNCHANGED <<logVars, recorded, desynced>>

\* t can take a step without waiting for anyone.
CanStep(t) ==
    /\ status[t] = "running"
    /\ at[t] = "receive" => wire[Op(t).chan] # <<>>
    /\ at[t] = "deliver" => Outcomes(Op(t)) # {}
    /\ at[t] = "idle" /\ Op(t).kind = "join" => Dead(Op(t).thread)
    /\ at[t] = "desync" => Outcomes(Op(t)) # {}

\* The loop's receive fails: no sender is left, or a second has passed.  When
\* messages are prompt that takes a second in which no thread can move.
ReceiveTimesOut(t) ==
    LET c == Op(t).chan IN
    /\ At(t, "receive")
    /\ wire[c] = <<>>
    /\ Prompt => SendersGone(c) \/ \A u \in Id : ~CanStep(u)
    /\ HandleDesync(t)
    /\ UNCHANGED <<logVars, chanVars, recorded>>

-----------------------------------------------------------------------------
(* After a desync. *)

\* Mutant: only threads asleep in a receive wake up.
WakeUpReceivers(t) ==
    /\ status[t] = "asleep"
    /\ desynced
    /\ Op(t).kind \in RecvKind
    /\ HandleDesync(t)
    /\ UNCHANGED <<logVars, chanVars, recorded>>

\* DesynchronizedWakeup
WakeUp(t) ==
    /\ status[t] = "asleep"
    /\ desynced
    /\ HandleDesync(t)
    /\ UNCHANGED <<logVars, chanVars, recorded>>

SendDesynced(t) ==
    /\ Calls(t, {"send"})
    /\ desynced
    /\ HandleDesync(t)
    /\ UNCHANGED <<logVars, chanVars, recorded>>

\* handle_desync: any buffered message, from whichever sender, else the wire.
ReceiveAny(t) ==
    LET op == Op(t)
        early == {s \in Id : buffer[op.chan][s] # <<>>}
    IN
    /\ At(t, "desync")
    /\ op.kind \in RecvKind
    /\ \/ \E s \in early :
             /\ buffer' = [buffer EXCEPT ![op.chan][s] = Tail(@)]
             /\ Return(t, Result(op, s, Head(buffer[op.chan][s]), "none"))
             /\ UNCHANGED wire
       \/ /\ early = {}
          /\ \E obs \in RecvOutcomes(op) : Recv(op, obs) /\ Return(t, obs)
    /\ UNCHANGED <<logVars, recorded, desynced>>

-----------------------------------------------------------------------------
(* The rest of the program. *)

\* JoinHandle::join: not a channel operation, and not in the log.
Join(t) ==
    /\ Calls(t, {"join"})
    /\ Dead(Op(t).thread)
    /\ Return(t, NoResult)
    /\ UNCHANGED <<logVars, chanVars, recorded, desynced>>

\* Tivo::execution_done on the main thread; it does nothing in a replay.
ExecutionDone(t) ==
    \/ /\ Calls(t, {"execution_done"})
       /\ TakeRecorder
       /\ MoveTo(t, "flush")
       /\ UNCHANGED <<chanVars, status, pending, expected, hist, recorded, desynced>>
    \/ /\ \/ Calls(t, {"execution_done"}) /\ mode = "Replay"
          \/ At(t, "flush") /\ recorder = "taken"
       /\ Return(t, Done)
       /\ UNCHANGED <<logVars, chanVars, recorded, desynced>>

FlushLog ==
    /\ Flush
    /\ UNCHANGED setup
    /\ UNCHANGED <<chanVars, threadVars, recorded, desynced>>

\* A thread returns, and drops its channel endpoints.
Exit(t) ==
    /\ Calls(t, {"halt"})
    /\ status' = [status EXCEPT ![t] = "exited"]
    /\ UNCHANGED <<logVars, chanVars, at, pending, expected, hist, recorded, desynced>>

\* The replay is a new process.
Restart ==
    /\ status[Main] = "exited"
    /\ StartReplay
    /\ recorded' = hist
    /\ wire' = [c \in Chan |-> <<>>]
    /\ buffer' = [c \in Chan |-> [t \in Id |-> <<>>]]
    /\ status' = [t \in Id |-> "running"]
    /\ at' = [t \in Id |-> "idle"]
    /\ pending' = [t \in Id |-> NoResult]
    /\ expected' = [t \in Id |-> NoId]
    /\ hist' = [t \in Id |-> <<>>]
    /\ desynced' = FALSE
    /\ UNCHANGED setup

\* When the main thread returns or panics the process is over, for all threads.
ThreadStep(t) ==
    /\ ~Dead(Main)
    /\ UNCHANGED setup
    /\ \/ RecordOp(t) \/ RecordEvent(t) \/ RecordEventFails(t)
       \/ OpenLog(t) \/ FallAsleep(t) \/ ReplayMismatch(t)
       \/ ReplaySend(t) \/ Deliver(t)
       \/ ReplayRecv(t) \/ ReceiveExpected(t) \/ ReceiveTimesOut(t)
       \/ WakeUp(t) \/ SendDesynced(t) \/ ReceiveAny(t)
       \/ Join(t) \/ ExecutionDone(t) \/ Exit(t)

Next == (\E t \in Id : ThreadStep(t)) \/ FlushLog \/ Restart

\* Threads that can run are scheduled; nothing orders their steps.
Fairness == (\A t \in Id : WF_vars(ThreadStep(t))) /\ WF_vars(FlushLog) /\ WF_vars(Restart)

Spec == Init /\ [][Next]_vars /\ Fairness
-----------------------------------------------------------------------------
SendFailed(h) == \E i \in DOMAIN h : h[i].error = "SendError"

\* No send, in either execution, found its receiver gone.
SendsSucceed == \A t \in Id : ~SendFailed(hist[t]) /\ ~SendFailed(recorded[t])

\* In a replay each thread observes what it observed in the recording, step
\* for step: the same messages in the same order, the same errors.  Holds
\* until the program desyncs, whatever the scheduler does and however the
\* flush has cut the threads' logs; every message of a deterministic program
\* is a function of its sender's past, so this spans all the threads.  What is
\* not in the log, a join or execution_done, may succeed in the replay of a
\* thread that did not get past it before the recorded process ended.
ReplayIsFaithful ==
    mode = "Replay" /\ ~desynced /\ SendsSucceed =>
        \A t \in Id : \A i \in DOMAIN hist[t] :
            IF i \in DOMAIN recorded[t] THEN hist[t][i] = recorded[t][i]
            ELSE hist[t][i] \in {NoResult, Done}

\* How many of the first i results of t are logged; the results that its list
\* has an entry for.
Number(t, i) == Cardinality({j \in 1 .. i : recorded[t][j].op \in LoggedKind})
Kept(t) == {i \in DOMAIN recorded[t] :
    recorded[t][i].op \in LoggedKind /\ Number(t, i) <= Len(log[t])}

SendsKept(t, c) == {i \in Kept(t) : recorded[t][i].op = "send" /\ recorded[t][i].chan = c}
RecvsKept(c, t) == LET o == Owner[c] IN
    {i \in Kept(o) : /\ recorded[o][i].op \in RecvKind
                     /\ recorded[o][i].chan = c /\ recorded[o][i].from = t}

\* The thread exited, and all that it did is in its list.
RecordedToEnd(t) ==
    /\ Code(setup.program, t, recorded[t]).kind = "halt"
    /\ Number(t, Len(recorded[t])) = Len(log[t])

\* The log is a consistent cut of the recording: each list is what its thread
\* did first; each message that it says was received, it says was sent; no
\* channel was filled past its capacity; and a thread that has to get past a
\* join, because its list goes on or because it has itself to be joined, joins
\* a thread recorded to its end.  (A joined thread that was not may sleep at the
\* end of its list; and after a desync a recording thread sends without logging,
\* and logs what it receives.)
ConsistentCut ==
    /\ \A t \in Id : \A i \in Kept(t) : log[t][Number(t, i)] = EntryFor(recorded[t][i])
    /\ \A c \in Chan :
        /\ \A t \in Id : Cardinality(RecvsKept(c, t)) <= Cardinality(SendsKept(t, c))
        /\ c \in Bounded => \A t \in Senders[c] :
               Cardinality(SendsKept(t, c)) <= Cardinality(RecvsKept(c, t)) + Cap[c]
    /\ \E Ended \in SUBSET {t \in Id : RecordedToEnd(t)} :
        \A t \in Id : \A i \in DOMAIN recorded[t] :
            /\ recorded[t][i].op = "join"
            /\ t \in Ended \/ Number(t, i) < Len(log[t])
            => Code(setup.program, t, SubSeq(recorded[t], 1, i - 1)).thread \in Ended

\* A replay of a log that is a consistent cut, and has a list for each thread,
\* never desyncs when messages under way arrive within the timeout.
NoFalseDesync ==
    mode = "Replay" /\ Prompt /\ saved = Id /\ ConsistentCut /\ SendsSucceed =>
        ~desynced /\ \A t \in Id : status[t] # "panicked"

\* In such a replay the main thread does all that is in its log, and so does
\* every other thread unless the main thread ends the process.
ReplayCompletes ==
    (mode = "Replay" /\ Prompt /\ saved = Id /\ ConsistentCut) ~>
        \A t \in Id :
            \/ next[t] = Len(log[t]) /\ at[t] = "idle"
            \/ t # Main /\ status[Main] = "exited"

\* sleep_until_desync takes a thread that is off the end of its log not to
\* have come this far in the recording; so nobody can have received, in the
\* recording, the message that it sleeps on.
SleepersDidNotSend ==
    mode = "Replay" =>
        \A t \in Id : status[t] = "asleep" /\ Op(t).kind = "send" =>
            LET c == Op(t).chan IN
            Cardinality({i \in DOMAIN recorded[Owner[c]] :
                recorded[Owner[c]][i].chan = c /\ recorded[Owner[c]][i].from = t})
            <= Cardinality({i \in DOMAIN hist[t] :
                hist[t][i].op = "send" /\ hist[t][i].chan = c})

\* record_replay_send promises to record the result of a send; so a replayed
\* send returns what it returned in the recording, also when its receiver is
\* dropped at another moment.
SendResultsAreReplayed ==
    mode = "Replay" /\ ~desynced =>
        \A t \in Id : \A i \in DOMAIN hist[t] :
            hist[t][i].op = "send" => i \in DOMAIN recorded[t] /\ recorded[t][i] = hist[t][i]

\* The main thread gets to its end in every replay of a log that has a list for
\* each thread (KeepGoing): no desync keeps it waiting for a message, because
\* the desync that ends its wait also wakes up the thread that it waits for.
MainFinishes ==
    mode = "Replay" /\ KeepGoing /\ saved = Id ~> status[Main] = "exited"

-----------------------------------------------------------------------------
(* The channels as their users see them: a message is under way while it is in
   the queue underneath, in the buffer of early messages, or received and not
   yet recorded. *)

\* The elements of seq at the positions in P, in their order.
Picked(seq, P) ==
    [k \in 1 .. Cardinality(P) |->
        seq[CHOOSE i \in P : Cardinality({j \in P : j < i}) = k - 1]]

\* The values of the messages of s in a queue.
FromSender(msgs, s) ==
    Picked([i \in DOMAIN msgs |-> msgs[i].val], {i \in DOMAIN msgs : msgs[i].from = s})

BeingRecorded(c, s) ==
    LET t == Owner[c] IN
    IF at[t] = "log" /\ pending[t].chan = c /\ pending[t].from = s
    THEN <<pending[t].val>> ELSE <<>>

UnderWay ==
    [c \in Chan |-> [s \in Id |->
        IF ReceiverGone(c) THEN <<>>
        ELSE BeingRecorded(c, s) \o buffer[c][s] \o FromSender(wire[c], s)]]

\* The messages that the receives of a history on c have returned.
ReceivedOn(c, h) ==
    Picked([i \in DOMAIN h |-> [from |-> h[i].from, val |-> h[i].val]],
           {i \in DOMAIN h : h[i].chan = c /\ h[i].val # NoVal})

Received == [c \in Chan |-> ReceivedOn(c, hist[Owner[c]])]

Gone == {t \in Id : Dead(t)}
Refusing == {t \in Id : KeepGoing = TRUE /\ CannotWriteEvent(t)}

Fifo == INSTANCE SenderFifo
        WITH Thread <- Id, queue <- UnderWay, got <- Received, ended <- Gone, refused <- Refusing

\* Buffering, replaying out of order and falling back after a desync never
\* duplicate or reorder the messages of a sender, and lose none while the
\* thread that receives them lives; but for the one that RecordEventFails has
\* in hand when it goes on to handle_desync.
ImplementsSenderFifo == Fifo!Spec
=============================================================================
