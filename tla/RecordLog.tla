------------------------------ MODULE RecordLog ------------------------------
(***************************************************************************)
(* The record log of Tivo (src/recordlog.rs and EventRecorder of lib.rs).  *)
(*                                                                         *)
(* Recording: each thread writes its events to an event channel of its own,*)
(* made on the thread's first write; the channel's receiving end goes into *)
(* GLOBAL_RECORDER, a map from thread ids.  At the end of the execution    *)
(* the main thread takes the map out, drains its channels one after the    *)
(* other, while the other threads still run, and writes the result to a    *)
(* file.  Replaying: each thread takes its own list of events out of       *)
(* GLOBAL_REPLAYER on its first read and consumes it front to back.        *)
(*                                                                         *)
(* The module holds the state of the log and its operations.  The threads  *)
(* that call them are in the modules that extend this one.                 *)
(***************************************************************************)
EXTENDS Naturals, Sequences

CONSTANTS Id,     \* the deterministic thread ids
          Entry,  \* the log entries
          NoId

ASSUME NoIdAssumption == NoId \notin Id

VARIABLES
    mode,      \* "Record" in the recorded execution, "Replay" in the next one
    recorder,  \* GLOBAL_RECORDER: "live", "flushing" (taken, lock held), "taken"
    sender,    \* the threads whose EVENT_SENDER is initialised
    channel,   \* the entries in each thread's event channel
    open,      \* the ids whose receiving end is still in the recorder's map
    draining,  \* the id whose receiver get_all_entries has in hand
    saved,     \* the keys of the map that is written to the file ...
    log,       \* ... and its values
    replayer,  \* the keys still in GLOBAL_REPLAYER
    reading,   \* the threads whose EVENT_RECEIVER is initialised
    next,      \* how many entries each thread has taken from its EVENT_RECEIVER
    poisoned   \* the mutex around GLOBAL_REPLAYER is poisoned

recordVars == <<recorder, sender, channel, open, draining, saved, log>>
replayVars == <<replayer, reading, next, poisoned>>
logVars == <<mode, recordVars, replayVars>>

LogTypeOK ==
    /\ mode \in {"Record", "Replay"}
    /\ recorder \in {"live", "flushing", "taken"}
    /\ sender \subseteq Id
    /\ channel \in [Id -> Seq(Entry)]
    /\ open \subseteq Id
    /\ draining \in Id \cup {NoId}
    /\ saved \subseteq Id
    /\ log \in [Id -> Seq(Entry)]
    /\ replayer \subseteq Id
    /\ reading \subseteq Id
    /\ next \in [Id -> Nat]
    /\ poisoned \in BOOLEAN

NoEntries == [id \in Id |-> <<>>]

LogInit ==
    /\ mode = "Record"
    /\ recorder = "live"
    /\ sender = {}
    /\ channel = NoEntries
    /\ open = {}
    /\ draining = NoId
    /\ saved = {}
    /\ log = NoEntries
    /\ replayer = {}
    /\ reading = {}
    /\ next = [id \in Id |-> 0]
    /\ poisoned = FALSE

-----------------------------------------------------------------------------
(* Recording.  Both operations below are part of write_event_to_record: the
   initialiser of the thread-local EVENT_SENDER, then the send on it. *)

\* The initialiser needs the lock, which flush holds from take to the end.
InitEventSender(id) ==
    /\ mode = "Record"
    /\ id \notin sender
    /\ recorder = "live"
    /\ sender' = sender \cup {id}
    /\ open' = open \cup {id}
    /\ UNCHANGED <<mode, recorder, channel, draining, saved, log, replayVars>>

\* `expect` on a recorder that was taken: the calling thread panics.
EventSenderPanics(id) ==
    /\ mode = "Record"
    /\ id \notin sender
    /\ recorder = "taken"

WriteEvent(id, entry) ==
    /\ mode = "Record"
    /\ id \in sender
    /\ id \in open
    /\ channel' = [channel EXCEPT ![id] = Append(@, entry)]
    /\ UNCHANGED <<mode, recorder, sender, open, draining, saved, log, replayVars>>

\* DesyncError::CannotWriteEventToLog: the receiving end has been dropped.
CannotWriteEvent(id) ==
    /\ mode = "Record"
    /\ id \in sender
    /\ id \notin open

-----------------------------------------------------------------------------
(* The end of the recorded execution, on the main thread. *)

TakeRecorder ==
    /\ mode = "Record"
    /\ recorder = "live"
    /\ recorder' = "flushing"
    /\ UNCHANGED <<mode, sender, channel, open, draining, saved, log, replayVars>>

\* try_iter gives get_all_entries the next entry of the receiver that it drains.
CollectEntry(id) ==
    /\ recorder = "flushing"
    /\ draining \in {NoId, id}
    /\ id \in open /\ id \notin saved
    /\ channel[id] # <<>>
    /\ draining' = id
    /\ log' = [log EXCEPT ![id] = Append(@, Head(channel[id]))]
    /\ channel' = [channel EXCEPT ![id] = Tail(@)]
    /\ UNCHANGED <<mode, recorder, sender, open, saved, replayVars>>

\* Mutant: waits for the thread to drop its sender, as iter() does.
CollectEntriesWait(id) ==
    /\ recorder = "flushing"
    /\ draining \in {NoId, id}
    /\ id \in open /\ id \notin saved
    /\ channel[id] = <<>>
    /\ id \notin sender
    /\ draining' = id
    /\ saved' = saved \cup {id}
    /\ UNCHANGED <<mode, recorder, sender, channel, open, log, replayVars>>

\* try_iter ends at the moment it finds the channel empty, collect with it.
CollectEntries(id) ==
    /\ recorder = "flushing"
    /\ draining \in {NoId, id}
    /\ id \in open /\ id \notin saved
    /\ channel[id] = <<>>
    /\ draining' = id
    /\ saved' = saved \cup {id}
    /\ UNCHANGED <<mode, recorder, sender, channel, open, log, replayVars>>

\* Mutant: the receiver stays in the map, and is drained once more, into a list
\* that takes the place of the first one.
DropReceiverAgain ==
    /\ draining \in saved
    /\ \/ channel[draining] = <<>> /\ open' = open \ {draining} /\ UNCHANGED <<saved, log>>
       \/ channel[draining] # <<>> /\ UNCHANGED open
            /\ saved' = saved \ {draining} /\ log' = [log EXCEPT ![draining] = <<>>]
    /\ draining' = NoId
    /\ UNCHANGED <<mode, recorder, sender, channel, replayVars>>

\* The receiver goes out of scope, with what was sent since it was emptied.
DropReceiver ==
    /\ draining \in saved
    /\ open' = open \ {draining}
    /\ channel' = [channel EXCEPT ![draining] = <<>>]
    /\ draining' = NoId
    /\ UNCHANGED <<mode, recorder, sender, saved, log, replayVars>>

\* Mutant: does not wait for the last receivers.
WriteFileEarly ==
    /\ recorder = "flushing"
    /\ draining = NoId
    /\ saved # {}
    /\ recorder' = "taken"
    /\ UNCHANGED <<mode, sender, channel, open, draining, saved, log, replayVars>>

\* Everything is drained: write the file (flush bails out on an empty map).
WriteFile ==
    /\ recorder = "flushing"
    /\ draining = NoId
    /\ open = {}
    /\ recorder' = "taken"
    /\ UNCHANGED <<mode, sender, channel, open, draining, saved, log, replayVars>>

Flush ==
    \/ \E id \in Id : CollectEntry(id) \/ CollectEntries(id)
    \/ DropReceiver
    \/ WriteFile

\* The process ends and a new one starts in replay mode with the file.
StartReplay ==
    /\ mode = "Record"
    /\ recorder = "taken"
    /\ saved # {}
    /\ mode' = "Replay"
    /\ sender' = {}
    /\ channel' = NoEntries
    /\ replayer' = saved
    /\ UNCHANGED <<recorder, open, draining, saved, log, reading, next, poisoned>>

-----------------------------------------------------------------------------
(* Replaying: get_log_entry. *)

\* Mutant: takes the whole map.
InitEventReceiverTakesAll(id) ==
    /\ mode = "Replay"
    /\ id \notin reading
    /\ ~poisoned
    /\ id \in replayer
    /\ replayer' = {}
    /\ reading' = reading \cup {id}
    /\ UNCHANGED <<mode, recordVars, next, poisoned>>

\* The initialiser of EVENT_RECEIVER takes the thread's list out of the map.
InitEventReceiver(id) ==
    /\ mode = "Replay"
    /\ id \notin reading
    /\ ~poisoned
    /\ id \in replayer
    /\ replayer' = replayer \ {id}
    /\ reading' = reading \cup {id}
    /\ UNCHANGED <<mode, recordVars, next, poisoned>>

\* No list for this thread: take_entry panics, with the lock in its hand; or
\* an earlier panic has poisoned the lock and `unwrap` panics.
EventReceiverPanics(id) ==
    /\ mode = "Replay"
    /\ id \notin reading
    /\ poisoned \/ id \notin replayer
    /\ poisoned' = TRUE
    /\ UNCHANGED <<mode, recordVars, replayer, reading, next>>

\* Mutant: stops before the last entry.
HasEntryBeforeLast(id) == mode = "Replay" /\ id \in reading /\ next[id] + 1 < Len(log[id])

HasEntry(id) == mode = "Replay" /\ id \in reading /\ next[id] < Len(log[id])

\* DesyncError::NoEntryInLog
NoEntryInLog(id) == mode = "Replay" /\ id \in reading /\ next[id] = Len(log[id])

\* Mutant: pops from the back.
NextEntryFromBack(id) == log[id][Len(log[id]) - next[id]]

NextEntry(id) == log[id][next[id] + 1]

\* Mutant: skips an entry.
GetLogEntrySkips(id) ==
    /\ HasEntry(id)
    /\ next' = [next EXCEPT ![id] = @ + 2]
    /\ UNCHANGED <<mode, recordVars, replayer, reading, poisoned>>

GetLogEntry(id) ==
    /\ HasEntry(id)
    /\ next' = [next EXCEPT ![id] = @ + 1]
    /\ UNCHANGED <<mode, recordVars, replayer, reading, poisoned>>
=============================================================================
