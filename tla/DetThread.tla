------------------------------ MODULE DetThread ------------------------------
(***************************************************************************)
(* Deterministic ids for threads and channels (src/detthread.rs,           *)
(* DetChannelId of rr.rs, rr_channel_creation_event of lib.rs).            *)
(*                                                                         *)
(* A thread's id is its path in the tree of spawns: the parent's path and  *)
(* a counter that the parent keeps.  A channel's id is its creator's path  *)
(* and another such counter.  Creating either is recorded under the        *)
(* creator's id, and checked against the log in a replay.                  *)
(*                                                                         *)
(* The program is fixed: Prog[t] lists what thread t creates, in order.    *)
(* Threads run at any speed relative to each other.                        *)
(***************************************************************************)
EXTENDS RecordLog, SequencesExt

CONSTANTS
    Thread,       \* the threads of the program, by the name the text gives them
    Root,         \* the main thread
    Prog,         \* what each thread creates
    MAX_SIZE,     \* the longest path
    MaxChildren   \* bound on the children and on the channels of one thread

Creation == [kind : {"spawn", "foreign"}, child : Thread]
       \cup [kind : {"channel", "execution_done"}]

\* DetChannelId, and the two kinds of entries that creations leave in the log.
ChannelIds == [det_thread_id : Id, channel_id : 1 .. MaxChildren]
CreationEntry == [event : {"ThreadInitialized"}, child : Id]
            \cup [event : {"ChannelCreation"}, chan : ChannelIds]

Positions(t, kinds) == {i \in DOMAIN Prog[t] : Prog[t][i].kind \in kinds}
Spawns(t) == Positions(t, {"spawn", "foreign"})

\* The text names each thread that it creates, once.
ASSUME DetThreadAssumption ==
    /\ Root \in Thread
    /\ MAX_SIZE \in Nat
    /\ MaxChildren \in Nat
    /\ \A t \in Thread : Prog[t] \in Seq(Creation)
    /\ \A t, u \in Thread : \A i \in Spawns(t), j \in Spawns(u) :
          Prog[t][i].child = Prog[u][j].child => t = u /\ i = j
    /\ Id = UNION {[1 .. n -> 1 .. MaxChildren] : n \in 0 .. MAX_SIZE}
    /\ Entry = CreationEntry

VARIABLES
    status,      \* "unborn", "given" an id, "running", "done" or "panicked"
    det_id,      \* the id handed to each thread's closure, its DET_ID
    child_index, \* of each thread's DetIdSpawner
    channel_id,  \* each thread's CHANNEL_ID
    pos,         \* the position of each thread in its program
    channels,    \* the ids of the channels each thread has created
    recorded     \* det_id and channels at the end of the recorded execution

threadVars == <<status, det_id, child_index, channel_id, pos, channels>>
vars == <<logVars, threadVars, recorded>>

TypeOK ==
    /\ LogTypeOK
    /\ status \in [Thread -> {"unborn", "given", "running", "flushing", "done", "panicked"}]
    /\ det_id \in [Thread -> Id \cup {NoId}]
    /\ child_index \in [Thread -> 1 .. MaxChildren + 1]
    /\ channel_id \in [Thread -> 1 .. MaxChildren + 1]
    /\ pos \in [Thread -> Nat \ {0}]
    /\ channels \in [Thread -> Seq(ChannelIds)]
    /\ recorded \in [det_id : [Thread -> Id \cup {NoId}],
                     channels : [Thread -> Seq(ChannelIds)]]

\* Tivo::init_tivo_thread_root: the main thread has the empty path.
ProgramStart ==
    /\ status = [t \in Thread |-> IF t = Root THEN "running" ELSE "unborn"]
    /\ det_id = [t \in Thread |-> IF t = Root THEN <<>> ELSE NoId]
    /\ child_index = [t \in Thread |-> 1]
    /\ channel_id = [t \in Thread |-> 1]
    /\ pos = [t \in Thread |-> 1]
    /\ channels = [t \in Thread |-> <<>>]

NothingRecorded == [det_id |-> [t \in Thread |-> NoId],
                    channels |-> [t \in Thread |-> <<>>]]

Init == LogInit /\ ProgramStart /\ recorded = NothingRecorded

-----------------------------------------------------------------------------
Calls(t, kinds) ==
    /\ status[t] = "running"
    /\ pos[t] <= Len(Prog[t])
    /\ Prog[t][pos[t]].kind \in kinds

Child(t) == Prog[t][pos[t]].child
Become(t, s) == status' = [status EXCEPT ![t] = s]
Advance(t) == pos' = [pos EXCEPT ![t] = @ + 1]

\* Mutant: one counter for the whole program.
new_child_det_id_global(t) ==
    Append(det_id[t], 1 + (Cardinality({u \in Thread : status[u] # "unborn"}) % MaxChildren))

\* generate_new_child_id, up to extend_path's limit.
new_child_det_id(t) == Append(det_id[t], child_index[t])

TooDeep(t) == Len(det_id[t]) = MAX_SIZE

\* Mutant: one counter for the whole program.
new_channel_id_global(t) ==
    [det_thread_id |-> det_id[t],
     channel_id |-> 1 + (Cardinality({u \in Thread : channels[u] # <<>>}) % MaxChildren)]

\* DetChannelId::new
new_channel_id(t) == [det_thread_id |-> det_id[t], channel_id |-> channel_id[t]]

\* Mutant: the counter stands still.
HandIdAgain(t) ==
    /\ ~TooDeep(t)
    /\ status[Child(t)] = "unborn"
    /\ det_id' = [det_id EXCEPT ![Child(t)] = new_child_det_id(t)]
    /\ Become(Child(t), "given")
    /\ Advance(t)
    /\ UNCHANGED <<child_index, channel_id, channels>>

\* The new thread's closure takes its id along.
HandId(t) ==
    /\ ~TooDeep(t)
    /\ child_index[t] <= MaxChildren
    /\ status[Child(t)] = "unborn"
    /\ det_id' = [det_id EXCEPT ![Child(t)] = new_child_det_id(t)]
    /\ child_index' = [child_index EXCEPT ![t] = @ + 1]
    /\ Become(Child(t), "given")
    /\ Advance(t)
    /\ UNCHANGED <<channel_id, channels>>

\* Mutant: the counter stands still.
MakeChannelAgain(t) ==
    /\ channels' = [channels EXCEPT ![t] = Append(@, new_channel_id(t))]
    /\ Advance(t)
    /\ UNCHANGED <<status, det_id, child_index, channel_id>>

MakeChannel(t) ==
    /\ channel_id[t] <= MaxChildren
    /\ channel_id' = [channel_id EXCEPT ![t] = @ + 1]
    /\ channels' = [channels EXCEPT ![t] = Append(@, new_channel_id(t))]
    /\ Advance(t)
    /\ UNCHANGED <<status, det_id, child_index>>

Create(t) == \/ Calls(t, {"spawn"}) /\ HandId(t)
             \/ Calls(t, {"channel"}) /\ MakeChannel(t)

ThreadInitialized(id) == [event |-> "ThreadInitialized", child |-> id]
ChannelCreation(id) == [event |-> "ChannelCreation", chan |-> id]

Event(t) == IF Calls(t, {"spawn"}) THEN ThreadInitialized(new_child_det_id(t))
            ELSE ChannelCreation(new_channel_id(t))

LogsNext(t) == Calls(t, {"channel"}) \/ (Calls(t, {"spawn"}) /\ ~TooDeep(t))

-----------------------------------------------------------------------------
\* Builder::spawn and the channel constructors, recording.
RecordCreation(t) ==
    LET id == det_id[t] IN
    /\ LogsNext(t)
    /\ \/ InitEventSender(id) /\ UNCHANGED threadVars
       \/ WriteEvent(id, Event(t)) /\ Create(t)
       \/ /\ EventSenderPanics(id) \/ CannotWriteEvent(id)
          /\ Become(t, "panicked")
          /\ UNCHANGED <<logVars, det_id, child_index, channel_id, pos, channels>>
    /\ UNCHANGED recorded

\* The same, replaying: every disagreement with the log, and its end, panics.
ReplayCreation(t) ==
    LET id == det_id[t] IN
    /\ LogsNext(t)
    /\ \/ InitEventReceiver(id) /\ UNCHANGED threadVars
       \/ GetLogEntry(id) /\ NextEntry(id) = Event(t) /\ Create(t)
       \/ /\ \/ EventReceiverPanics(id)
             \/ GetLogEntry(id) /\ NextEntry(id) # Event(t)
             \/ NoEntryInLog(id) /\ UNCHANGED logVars
          /\ Become(t, "panicked")
          /\ UNCHANGED <<det_id, child_index, channel_id, pos, channels>>
    /\ UNCHANGED recorded

\* A foreign thread gets its id from generate_new_child_id directly; that is
\* not an event.
HandIdToForeign(t) ==
    /\ Calls(t, {"foreign"})
    /\ HandId(t)
    /\ UNCHANGED <<logVars, recorded>>

PanicTooDeep(t) ==
    /\ Calls(t, {"spawn", "foreign"})
    /\ TooDeep(t)
    /\ Become(t, "panicked")
    /\ UNCHANGED <<logVars, det_id, child_index, channel_id, pos, channels, recorded>>

\* initialize_new_thread, from Builder::spawn's closure or init_foreign_thread
InitializeNewThread(t) ==
    /\ status[t] = "given"
    /\ Become(t, "running")
    /\ UNCHANGED <<logVars, det_id, child_index, channel_id, pos, channels, recorded>>

Finish(t) ==
    /\ \/ status[t] = "running" /\ pos[t] > Len(Prog[t])
       \/ Calls(t, {"execution_done"}) /\ mode = "Replay"
    /\ Become(t, "done")
    /\ UNCHANGED <<logVars, det_id, child_index, channel_id, pos, channels, recorded>>

ExecutionDone(t) ==
    /\ Calls(t, {"execution_done"})
    /\ TakeRecorder
    /\ Become(t, "flushing")
    /\ UNCHANGED <<det_id, child_index, channel_id, pos, channels, recorded>>

FlushLog == Flush /\ UNCHANGED <<threadVars, recorded>>

\* The end of the process and its restart in replay mode.
Restart ==
    /\ StartReplay
    /\ recorded' = [det_id |-> det_id, channels |-> channels]
    /\ status' = [t \in Thread |-> IF t = Root THEN "running" ELSE "unborn"]
    /\ det_id' = [t \in Thread |-> IF t = Root THEN <<>> ELSE NoId]
    /\ child_index' = [t \in Thread |-> 1]
    /\ channel_id' = [t \in Thread |-> 1]
    /\ pos' = [t \in Thread |-> 1]
    /\ channels' = [t \in Thread |-> <<>>]

ThreadStep(t) ==
    \/ RecordCreation(t) \/ ReplayCreation(t) \/ HandIdToForeign(t) \/ PanicTooDeep(t)
    \/ InitializeNewThread(t) \/ ExecutionDone(t) \/ Finish(t)

Next == (\E t \in Thread : ThreadStep(t)) \/ FlushLog \/ Restart

\* Every thread that can run is scheduled.
Fairness == (\A t \in Thread : WF_vars(ThreadStep(t))) /\ WF_vars(FlushLog) /\ WF_vars(Restart)

Spec == Init /\ [][Next]_vars /\ Fairness

-----------------------------------------------------------------------------
\* No two threads of an execution have the same id, whoever spawned them and
\* whether they are our threads or foreign ones (GLOBAL_RECORDER is keyed by
\* the id, and add_receiver relies on this).
UniqueThreadIds ==
    \A t, u \in Thread : t # u /\ det_id[t] # NoId => det_id[t] # det_id[u]

\* Nor do two channels, of one creator or of two.
UniqueChannelIds ==
    \A t, u \in Thread : \A i \in DOMAIN channels[t], j \in DOMAIN channels[u] :
        channels[t][i] = channels[u][j] => t = u /\ i = j

Agree(s, r) == IsPrefix(s, r) \/ IsPrefix(r, s)

\* An id is a function of the program alone: a thread or a channel that exists
\* in both executions has the same id in both, whatever the scheduler did.
IdsAreDeterministic ==
    mode = "Replay" =>
        \A t \in Thread :
            /\ det_id[t] # NoId /\ recorded.det_id[t] # NoId => det_id[t] = recorded.det_id[t]
            /\ Agree(channels[t], recorded.channels[t])

\* The replay checks of spawn and of channel creation never find another
\* event than the one they are about to repeat.
CreationsMatchLog ==
    \A t \in Thread :
        LogsNext(t) /\ HasEntry(det_id[t]) => NextEntry(det_id[t]) = Event(t)

\* What thread t with a given id gets to log: its creations, up to the first
\* spawn that is too deep.
LoggedBy(t, id) ==
    {i \in DOMAIN Prog[t] :
        /\ Prog[t][i].kind \in {"spawn", "channel"}
        /\ \A j \in 1 .. i : Prog[t][j].kind \in {"spawn", "foreign"} => Len(id) < MAX_SIZE}

\* Every thread that ran in the recording left all of its events in the file.
FullLog ==
    \A t \in Thread :
        LET id == recorded.det_id[t] IN
        id # NoId =>
            LET events == Cardinality(LoggedBy(t, id)) IN
            Len(log[id]) = events /\ (events > 0 => id \in saved)

\* The replay of a full log recreates every thread and channel of the recording.
ThreadsAreRecreated ==
    (mode = "Replay" /\ FullLog) ~>
        \A t \in Thread : det_id[t] = recorded.det_id[t] /\ channels[t] = recorded.channels[t]
=============================================================================
