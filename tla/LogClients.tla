------------------------------ MODULE LogClients ------------------------------
(***************************************************************************)
(* Threads that use the record log and nothing else: in the recorded       *)
(* execution each writes a bounded number of entries and may exit, or be   *)
(* overtaken by the flush, at any point; in the replay each reads its own  *)
(* entries until it runs off their end, where it goes to sleep.            *)
(***************************************************************************)
EXTENDS RecordLog, SequencesExt

CONSTANT MaxEntries   \* how many entries a thread writes at most

ASSUME MaxEntriesAssumption == MaxEntries \in Nat /\ 1 .. MaxEntries \subseteq Entry

VARIABLES status,   \* "running", "exited", "panicked", or "asleep"
          written,  \* the entries for which write_event_to_record returned Ok
          flushAt,  \* how many entries each thread had written at TakeRecorder
          read      \* the entries each thread got back in the replay

vars == <<logVars, status, written, flushAt, read>>

TypeOK ==
    /\ LogTypeOK
    /\ status \in [Id -> {"running", "exited", "panicked", "asleep"}]
    /\ written \in [Id -> Seq(Entry)]
    /\ flushAt \in [Id -> Nat]
    /\ read \in [Id -> Seq(Entry)]

Init ==
    /\ LogInit
    /\ status = [id \in Id |-> "running"]
    /\ written = NoEntries
    /\ flushAt = [id \in Id |-> 0]
    /\ read = NoEntries

Become(id, s) == status' = [status EXCEPT ![id] = s]

\* A thread's n-th entry is n.
Write(id) ==
    LET entry == Len(written[id]) + 1 IN
    /\ status[id] = "running"
    /\ entry <= MaxEntries
    /\ \/ InitEventSender(id) /\ UNCHANGED <<status, written>>
       \/ EventSenderPanics(id) /\ Become(id, "panicked")
            /\ UNCHANGED <<logVars, written>>
       \/ /\ WriteEvent(id, entry)
          /\ written' = [written EXCEPT ![id] = Append(@, entry)]
          /\ UNCHANGED status
       \/ CannotWriteEvent(id) /\ Become(id, "panicked")
            /\ UNCHANGED <<logVars, written>>
    /\ UNCHANGED <<flushAt, read>>

Exit(id) ==
    /\ mode = "Record"
    /\ status[id] = "running"
    /\ Become(id, "exited")
    /\ UNCHANGED <<logVars, written, flushAt, read>>

ExecutionDone ==
    /\ TakeRecorder
    /\ flushAt' = [id \in Id |-> Len(written[id])]
    /\ UNCHANGED <<status, written, read>>

FlushStep == Flush /\ UNCHANGED <<status, written, flushAt, read>>

Restart ==
    /\ StartReplay
    /\ status' = [id \in Id |-> "running"]
    /\ UNCHANGED <<written, flushAt, read>>

Read(id) ==
    /\ status[id] = "running"
    /\ \/ InitEventReceiver(id) /\ UNCHANGED <<status, read>>
       \/ EventReceiverPanics(id) /\ Become(id, "panicked") /\ UNCHANGED read
       \/ /\ GetLogEntry(id)
          /\ read' = [read EXCEPT ![id] = Append(@, NextEntry(id))]
          /\ UNCHANGED status
       \/ NoEntryInLog(id) /\ Become(id, "asleep") /\ UNCHANGED <<logVars, read>>
    /\ UNCHANGED <<written, flushAt>>

Next ==
    \/ \E id \in Id : Write(id) \/ Exit(id) \/ Read(id)
    \/ ExecutionDone
    \/ FlushStep
    \/ Restart

\* The main thread runs its flush to the end, and replayed threads run on.
Fairness == WF_vars(FlushStep) /\ WF_vars(Restart) /\ \A id \in Id : WF_vars(Read(id))

Spec == Init /\ [][Next]_vars /\ Fairness

-----------------------------------------------------------------------------
\* The saved list of a thread is an initial part of what the thread wrote:
\* no entry is reordered, duplicated, or missing in the middle, whatever the
\* thread did while its channel was drained (get_all_entries).
SavedIsPrefix == \A id \in saved : IsPrefix(log[id], written[id])

\* Requirement 1 of EVENT_SENDER: every entry that was written before the
\* main thread took the recorder is in the file, also when its thread has
\* exited or panicked since (GlobalRecorder::flush).
NothingLostBeforeFlush ==
    recorder = "taken" =>
        \A id \in Id : flushAt[id] > 0 => id \in saved /\ flushAt[id] <= Len(log[id])

\* A replayed thread gets back what it wrote, in that order, across the
\* drain, the file and take_entry.
ReadsWhatItWrote == \A id \in Id : IsPrefix(read[id], written[id])

\* When every thread left a list in the file, no replayed thread panics on
\* its log (take_entry).
NoPanicOnFullLog == mode = "Replay" /\ saved = Id => ~poisoned

\* The main thread's flush ends although the threads write to the channels that
\* it takes entries from, none of them need come to its end, and whoever writes
\* for the first time waits for the lock that the flush holds (get_all_entries).
FlushEnds == recorder = "flushing" ~> recorder = "taken"

\* Each replayed thread whose list is in a full log reads all of it, then
\* sleeps.
LogIsReplayed ==
    (mode = "Replay" /\ saved = Id) ~>
        \A id \in Id : read[id] = log[id] /\ status[id] = "asleep"

\* PARK_THREADS says of a thread that runs off the end of the log that it
\* blocked forever in the recording, and is let to sleep; so no replayed
\* thread panics for want of entries.
OffLogThreadsSleep == mode = "Replay" => \A id \in Id : status[id] # "panicked"
=============================================================================
