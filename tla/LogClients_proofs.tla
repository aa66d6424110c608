--------------------------- MODULE LogClients_proofs ---------------------------
(***************************************************************************)
(* Proofs about LogClients: what the file and the replay of a log contain, *)
(* for any number of threads and entries.                                  *)
(***************************************************************************)
EXTENDS LogClients, RecordLog_proofs

-----------------------------------------------------------------------------
(* The inductive invariant *)

\* Until its list is saved, a thread's event channel holds all that it has
\* written, behind the entries that get_all_entries has taken out.
ChannelHoldsAll ==
    mode = "Record" =>
        \A id \in Id :
            /\ id \notin sender => /\ id \notin open /\ id \notin saved
                                  /\ Carried(id) = <<>> /\ written[id] = <<>>
            /\ id \in open /\ id \notin saved => Carried(id) = written[id]
            /\ recorder = "live" /\ id \in sender => id \in open

\* What was written before the flush is still to be drained, or saved.
FlushCovers ==
    recorder # "live" =>
        \A id \in Id :
            /\ flushAt[id] <= Len(written[id])
            /\ flushAt[id] > 0 => id \in open \/ id \in saved
            /\ id \in saved => flushAt[id] <= Len(log[id])

\* A replayed thread has read the first next[id] entries of its list; every
\* list is with its thread or still in GLOBAL_REPLAYER.
ReadsLog ==
    /\ mode = "Record" => reading = {} /\ replayer = {} /\ ~poisoned
    /\ mode = "Replay" => \A id \in Id : id \in saved <=> id \in replayer \/ id \in reading
    /\ poisoned => saved # Id
    /\ \A id \in Id :
          /\ Len(read[id]) = next[id]
          /\ id \in reading => IsPrefix(read[id], log[id])
          /\ id \notin reading => read[id] = <<>>

IInv == TypeOK /\ ChannelHoldsAll /\ DrainedOnce /\ FlushCovers /\ SavedIsPrefix /\ ReadsLog

LEMMA InvInit == Init => IInv
  <1> SUFFICES ASSUME Init PROVE IInv
    OBVIOUS
  <1>1. NoEntries \in [Id -> Seq(Entry)] /\ \A id \in Id : NoEntries[id] = <<>>
    BY DEF NoEntries
  <1>2. TypeOK
    BY <1>1, LogInitTyped DEF Init, TypeOK
  <1>3. DrainedOnce /\ FlushCovers /\ SavedIsPrefix
    BY <1>1, LogInitDrained DEF Init, LogInit, FlushCovers, SavedIsPrefix
  <1>5. ChannelHoldsAll
    <2>1. \A id \in Id : Carried(id) = <<>>
      BY <1>1, <1>2, NothingCarried DEF Init, LogInit, TypeOK
    <2> QED
      BY <1>1, <2>1 DEF Init, LogInit, ChannelHoldsAll
  <1>4. ReadsLog
    BY <1>1 DEF Init, LogInit, ReadsLog
  <1> QED
    BY <1>2, <1>3, <1>4, <1>5 DEF IInv

-----------------------------------------------------------------------------
(* Types *)

LEMMA StepTyped ==
    ASSUME TypeOK, [Next]_vars
    PROVE  TypeOK'
  <1> USE DEF TypeOK
  <1>1. ASSUME NEW id \in Id, Write(id) PROVE TypeOK'
    <2> DEFINE entry == Len(written[id]) + 1
    <2>1. entry \in Entry
      BY <1>1, MaxEntriesAssumption DEF Write
    <2>2. LogTypeOK'
      <3>1. CASE WriteEvent(id, entry)
        BY <2>1, <3>1, LogStepTyped DEF LogStep, ThreadLogStep
      <3>2. CASE InitEventSender(id)
        BY <3>2, LogStepTyped DEF LogStep, ThreadLogStep
      <3>3. CASE UNCHANGED <<logVars, written>>
        BY <3>3, LogStepTyped
      <3>4. InitEventSender(id) \/ WriteEvent(id, entry) \/ UNCHANGED <<logVars, written>>
        BY <1>1, Zenon DEF Write
      <3> QED
        BY <3>1, <3>2, <3>3, <3>4
    <2>3. written' \in [Id -> Seq(Entry)]
      <3>1. \/ UNCHANGED <<status, written>> \/ UNCHANGED <<logVars, written>>
            \/ written' = [written EXCEPT ![id] = Append(@, entry)]
        BY <1>1, Zenon DEF Write
      <3>2. written' = written \/ written' = [written EXCEPT ![id] = Append(@, entry)]
        BY <3>1
      <3>3. Append(written[id], entry) \in Seq(Entry)
        BY <2>1
      <3> HIDE DEF entry
      <3> QED
        BY <3>2, <3>3
    <2>4. status' \in [Id -> {"running", "exited", "panicked", "asleep"}]
      BY <1>1 DEF Write, Become
    <2> QED
      BY <1>1, <2>2, <2>3, <2>4 DEF Write
  <1>2. ASSUME NEW id \in Id, Exit(id) PROVE TypeOK'
    BY <1>2, LogStepTyped DEF Exit, Become
  <1>3. ASSUME NEW id \in Id, Read(id) PROVE TypeOK'
    <2>1. LogTypeOK'
      BY <1>3, LogStepTyped DEF Read, LogStep, ThreadLogStep
    <2>2. read' \in [Id -> Seq(Entry)]
      <3>1. CASE GetLogEntry(id) /\ read' = [read EXCEPT ![id] = Append(@, NextEntry(id))]
        <4>1. log[id] \in Seq(Entry) /\ next[id] \in Nat /\ next[id] < Len(log[id])
          BY <3>1 DEF GetLogEntry, HasEntry, LogTypeOK
        <4>2. NextEntry(id) \in Entry
          BY <4>1 DEF NextEntry
        <4> QED
          BY <3>1, <4>2
      <3> QED
        BY <1>3, <3>1 DEF Read
    <2>3. status' \in [Id -> {"running", "exited", "panicked", "asleep"}]
      BY <1>3 DEF Read, Become
    <2> QED
      BY <1>3, <2>1, <2>2, <2>3 DEF Read
  <1>4. CASE ExecutionDone
    <2>1. flushAt' \in [Id -> Nat]
      BY <1>4 DEF ExecutionDone
    <2> QED
      BY <1>4, <2>1, LogStepTyped DEF ExecutionDone, LogStep
  <1>5. CASE FlushStep
    BY <1>5, LogStepTyped DEF FlushStep, LogStep
  <1>6. CASE Restart
    BY <1>6, LogStepTyped DEF Restart, LogStep
  <1>7. CASE UNCHANGED vars
    BY <1>7, LogStepTyped DEF vars
  <1> QED
    BY <1>1, <1>2, <1>3, <1>4, <1>5, <1>6, <1>7 DEF Next

-----------------------------------------------------------------------------
(* Steps *)

LEMMA WriteInv ==
    ASSUME IInv, TypeOK', NEW t \in Id, Write(t)
    PROVE  IInv'
  <1> DEFINE entry == Len(written[t]) + 1
  <1>1. status[t] = "running" /\ UNCHANGED <<flushAt, read>>
    BY DEF Write
  <1>2. CASE UNCHANGED <<logVars, written>>
    BY <1>1, <1>2
    DEF IInv, ChannelHoldsAll, Carried, DrainedOnce, FlushCovers, SavedIsPrefix, ReadsLog,
        logVars, recordVars, replayVars
  <1>3. CASE InitEventSender(t) /\ UNCHANGED <<status, written>>
    <2> USE <1>1, <1>3 DEF InitEventSender, replayVars
    <2>1. ChannelHoldsAll'
      BY DEF IInv, ChannelHoldsAll, Carried
    <2>2. DrainedOnce' /\ FlushCovers'
      BY DEF IInv, ChannelHoldsAll, DrainedOnce, FlushCovers
    <2>3. SavedIsPrefix' /\ ReadsLog'
      BY DEF IInv, SavedIsPrefix, ReadsLog
    <2> QED
      BY <2>1, <2>2, <2>3 DEF IInv
  <1>4. CASE /\ WriteEvent(t, entry)
             /\ written' = [written EXCEPT ![t] = Append(@, entry)]
             /\ UNCHANGED status
    <2>1. /\ channel' = [channel EXCEPT ![t] = Append(@, entry)]
          /\ UNCHANGED <<mode, recorder, sender, open, draining, saved, log, replayVars>>
          /\ mode = "Record" /\ t \in sender
      BY <1>4 DEF WriteEvent
    <2>2. entry \in Entry
      BY MaxEntriesAssumption DEF IInv, TypeOK, Write
    <2>3. /\ written'[t] = Append(written[t], entry)
          /\ \A id \in Id : id # t => written'[id] = written[id] /\ channel'[id] = channel[id]
          /\ channel'[t] = Append(channel[t], entry)
      BY <1>4, <2>1 DEF IInv, TypeOK, LogTypeOK
    <2> HIDE DEF entry
    <2>8. /\ Carried(t)' = Append(Carried(t), entry)
          /\ \A id \in Id : id # t => Carried(id)' = Carried(id)
      BY <2>1, <2>2, <2>3, CarriedWrite DEF IInv, TypeOK, Carried
    <2>4. ChannelHoldsAll'
      BY <2>1, <2>3, <2>8 DEF IInv, ChannelHoldsAll
    <2>5. DrainedOnce' /\ ReadsLog'
      BY <1>1, <2>1 DEF IInv, DrainedOnce, ReadsLog, replayVars
    <2>6. FlushCovers'
      <3>1. Len(written'[t]) = Len(written[t]) + 1 /\ Len(written[t]) \in Nat
        BY <2>2, <2>3 DEF IInv, TypeOK
      <3>2. \A id \in Id : flushAt[id] \in Nat
        BY DEF IInv, TypeOK
      <3> QED
        BY <1>1, <2>1, <2>3, <3>1, <3>2 DEF IInv, FlushCovers
    <2>7. SavedIsPrefix'
      <3>1. \A id \in Id : log[id] \in Seq(Entry) /\ written[id] \in Seq(Entry)
        BY DEF IInv, TypeOK, LogTypeOK
      <3>2. t \in saved => IsPrefix(log[t], written'[t])
        BY <2>2, <2>3, <3>1, PrefixOfAppend DEF IInv, SavedIsPrefix
      <3> QED
        BY <2>1, <2>3, <3>2 DEF IInv, SavedIsPrefix, TypeOK, LogTypeOK
    <2> QED
      BY <2>4, <2>5, <2>6, <2>7 DEF IInv
  <1> QED
    BY <1>2, <1>3, <1>4 DEF Write

LEMMA ReadInv ==
    ASSUME IInv, TypeOK', NEW t \in Id, Read(t)
    PROVE  IInv'
  <1>1. UNCHANGED <<written, flushAt>> /\ UNCHANGED <<recordVars, mode>>
    BY DEF Read, InitEventReceiver, EventReceiverPanics, GetLogEntry, logVars
  <1>2. ChannelHoldsAll' /\ DrainedOnce' /\ FlushCovers' /\ SavedIsPrefix'
    BY <1>1 DEF IInv, ChannelHoldsAll, Carried, DrainedOnce, FlushCovers, SavedIsPrefix, recordVars
  <1>3. ReadsLog'
    <2>1. CASE InitEventReceiver(t) /\ UNCHANGED read
      <3>1. \A id \in Id : /\ Len(read'[id]) = next'[id]
                           /\ id \in reading' => IsPrefix(read'[id], log'[id])
                           /\ id \notin reading' => read'[id] = <<>>
        <4>1. IsPrefix(<<>>, log[t]) /\ read[t] = <<>>
          BY <2>1, PrefixEmpty DEF InitEventReceiver, IInv, TypeOK, LogTypeOK, ReadsLog
        <4> QED
          BY <1>1, <2>1, <4>1 DEF InitEventReceiver, IInv, ReadsLog, recordVars
      <3> QED
        BY <1>1, <2>1, <3>1 DEF InitEventReceiver, IInv, ReadsLog, recordVars
    <2>2. CASE EventReceiverPanics(t) /\ UNCHANGED read
      BY <1>1, <2>2 DEF EventReceiverPanics, IInv, ReadsLog, recordVars
    <2>3. CASE GetLogEntry(t) /\ read' = [read EXCEPT ![t] = Append(@, NextEntry(t))]
      <3>1. /\ log[t] \in Seq(Entry) /\ read[t] \in Seq(Entry) /\ next[t] \in Nat
            /\ mode = "Replay" /\ t \in reading /\ next[t] < Len(log[t])
            /\ Len(read[t]) = next[t] /\ IsPrefix(read[t], log[t])
        BY <2>3 DEF GetLogEntry, HasEntry, IInv, TypeOK, LogTypeOK, ReadsLog
      <3>2. IsPrefix(Append(read[t], log[t][Len(read[t]) + 1]), log[t])
        BY <3>1, PrefixTakesNext
      <3>3. /\ read'[t] = Append(read[t], log[t][Len(read[t]) + 1])
            /\ next'[t] = next[t] + 1
            /\ \A id \in Id : id # t => read'[id] = read[id] /\ next'[id] = next[id]
            /\ UNCHANGED <<replayer, reading, poisoned, saved, log, mode>>
        BY <2>3, <3>1 DEF GetLogEntry, NextEntry, IInv, TypeOK, LogTypeOK, recordVars
      <3>4. Len(read'[t]) = next'[t]
        BY <3>1, <3>3
      <3> QED
        BY <3>1, <3>2, <3>3, <3>4 DEF IInv, ReadsLog
    <2>4. CASE UNCHANGED <<logVars, read>>
      BY <2>4 DEF IInv, ReadsLog, logVars, recordVars, replayVars
    <2> QED
      BY <2>1, <2>2, <2>3, <2>4 DEF Read
  <1> QED
    BY <1>2, <1>3 DEF IInv

LEMMA ExecutionDoneInv ==
    ASSUME IInv, TypeOK', ExecutionDone
    PROVE  IInv'
  <1> USE DEF ExecutionDone, TakeRecorder, replayVars
  <1>1. ChannelHoldsAll' /\ DrainedOnce' /\ SavedIsPrefix' /\ ReadsLog'
    BY DEF IInv, ChannelHoldsAll, Carried, DrainedOnce, SavedIsPrefix, ReadsLog
  <1>2. FlushCovers'
    <2> SUFFICES ASSUME NEW id \in Id
                 PROVE  /\ flushAt'[id] <= Len(written'[id])
                        /\ flushAt'[id] > 0 => id \in open' \/ id \in saved'
                        /\ id \in saved' => flushAt'[id] <= Len(log'[id])
      BY DEF FlushCovers
    <2>1. flushAt'[id] = Len(written[id]) /\ Len(written[id]) \in Nat /\ saved = {}
      BY DEF IInv, TypeOK, DrainedOnce
    <2>2. Len(written[id]) > 0 => id \in open
      BY DEF IInv, ChannelHoldsAll
    <2> QED
      BY <2>1, <2>2
  <1> QED
    BY <1>1, <1>2 DEF IInv

LEMMA FlushInv ==
    ASSUME IInv, TypeOK', FlushStep
    PROVE  IInv'
  <1>1. mode = "Record"
    BY NoIdAssumption
    DEF IInv, DrainedOnce, FlushStep, Flush, CollectEntry, CollectEntries, DropReceiver,
        WriteFile, TypeOK, LogTypeOK
  <1>2. UNCHANGED <<written, flushAt, read, replayer, reading, next, poisoned, mode, sender>>
    BY DEF FlushStep, Flush, CollectEntry, CollectEntries, DropReceiver, WriteFile, replayVars
  <1>3. ReadsLog' /\ DrainedOnce'
    <2>1. ReadsLog'
      BY <1>1, <1>2 DEF IInv, ReadsLog
    <2> QED
      BY <2>1, LogStepDrained DEF IInv, TypeOK, FlushStep, LogStep
  <1>4. ASSUME NEW t \in Id, CollectEntry(t) PROVE IInv'
    <2>1. /\ t \in open /\ t \notin saved
          /\ \A id \in Id : id # t => log'[id] = log[id]
          /\ UNCHANGED <<saved, open, recorder>>
      BY <1>4 DEF CollectEntry, IInv, TypeOK, LogTypeOK
    <2>2. \A id \in Id : Carried(id)' = Carried(id)
      BY <1>4, CarriedCollect DEF IInv, TypeOK
    <2>3. ChannelHoldsAll'
      BY <1>2, <2>1, <2>2 DEF IInv, ChannelHoldsAll
    <2>4. FlushCovers' /\ SavedIsPrefix'
      BY <1>2, <2>1 DEF IInv, FlushCovers, SavedIsPrefix, TypeOK, LogTypeOK
    <2> QED
      BY <1>3, <2>3, <2>4 DEF IInv
  <1>5. ASSUME NEW t \in Id, CollectEntries(t) PROVE IInv'
    <2>1. /\ t \in open /\ t \notin saved /\ recorder # "live" /\ channel[t] = <<>>
          /\ saved' = saved \cup {t} /\ UNCHANGED <<log, channel, open, recorder>>
      BY <1>5 DEF CollectEntries
    <2>2. log[t] = written[t] /\ t \in sender
      BY <1>1, <2>1, NothingCarried DEF IInv, ChannelHoldsAll, TypeOK
    <2>3. ChannelHoldsAll'
      BY <1>2, <2>1, <2>2 DEF IInv, ChannelHoldsAll, Carried
    <2>4. FlushCovers'
      BY <1>2, <2>1, <2>2 DEF IInv, FlushCovers
    <2>5. SavedIsPrefix'
      BY <1>2, <2>1, <2>2, PrefixReflexive DEF IInv, SavedIsPrefix, TypeOK, LogTypeOK
    <2> QED
      BY <1>3, <2>3, <2>4, <2>5 DEF IInv
  <1>6. CASE DropReceiver
    <2>1. /\ draining \in saved /\ open' = open \ {draining}
          /\ \A id \in Id : id # draining => Carried(id)' = Carried(id)
          /\ UNCHANGED <<recorder, saved, log>>
          /\ draining # NoId /\ recorder # "live"
      BY <1>6, NoIdAssumption DEF DropReceiver, IInv, DrainedOnce, TypeOK, LogTypeOK, Carried
    <2>2. ChannelHoldsAll'
      BY <1>2, <2>1 DEF IInv, ChannelHoldsAll
    <2>3. FlushCovers' /\ SavedIsPrefix'
      BY <1>2, <2>1 DEF IInv, FlushCovers, SavedIsPrefix
    <2> QED
      BY <1>3, <2>2, <2>3 DEF IInv
  <1>7. CASE WriteFile
    BY <1>2, <1>3, <1>7
    DEF WriteFile, IInv, ChannelHoldsAll, Carried, FlushCovers, SavedIsPrefix
  <1> QED
    BY <1>4, <1>5, <1>6, <1>7 DEF FlushStep, Flush

LEMMA RestartInv ==
    ASSUME IInv, TypeOK', Restart
    PROVE  IInv'
  <1> USE DEF Restart, StartReplay
  <1>1. ChannelHoldsAll' /\ DrainedOnce' /\ FlushCovers' /\ SavedIsPrefix'
    BY DEF IInv, ChannelHoldsAll, DrainedOnce, FlushCovers, SavedIsPrefix
  <1>2. ReadsLog'
    BY DEF IInv, ReadsLog
  <1> QED
    BY <1>1, <1>2 DEF IInv

LEMMA InvStep == IInv /\ [Next]_vars => IInv'
  <1> SUFFICES ASSUME IInv, [Next]_vars PROVE IInv'
    OBVIOUS
  <1>1. TypeOK'
    BY StepTyped DEF IInv
  <1>2. CASE UNCHANGED <<logVars, written, flushAt, read>>
    BY <1>1, <1>2
    DEF IInv, ChannelHoldsAll, Carried, DrainedOnce, FlushCovers, SavedIsPrefix, ReadsLog,
        logVars, recordVars, replayVars
  <1>3. (\E id \in Id : Exit(id)) \/ UNCHANGED vars => UNCHANGED <<logVars, written, flushAt, read>>
    BY DEF Exit, vars
  <1> QED
    BY <1>1, <1>2, <1>3, WriteInv, ReadInv, ExecutionDoneInv, FlushInv, RestartInv DEF Next

LEMMA InvHolds == Spec => []IInv
  BY InvInit, InvStep, PTL DEF Spec

-----------------------------------------------------------------------------
(* Theorems *)

\* Types, for any number of threads and of entries.
THEOREM TypeCorrect == Spec => []TypeOK
  <1>1. IInv => TypeOK
    BY DEF IInv
  <1> QED
    BY InvHolds, <1>1, PTL

\* get_all_entries races with the threads it drains, and still saves for each
\* thread an initial part of what the thread wrote.
THEOREM SavedIsPrefixCorrect == Spec => []SavedIsPrefix
  <1>1. IInv => SavedIsPrefix
    BY DEF IInv
  <1> QED
    BY InvHolds, <1>1, PTL

\* What a thread had written when the main thread took the recorder is in the
\* file, whatever has become of the thread since.
THEOREM NothingLostBeforeFlushCorrect == Spec => []NothingLostBeforeFlush
  <1>1. IInv => NothingLostBeforeFlush
    BY DEF IInv, DrainedOnce, FlushCovers, NothingLostBeforeFlush
  <1> QED
    BY InvHolds, <1>1, PTL

\* From the program's write in one process to its read in the next: in order,
\* nothing added, nothing left out.
THEOREM ReadsWhatItWroteCorrect == Spec => []ReadsWhatItWrote
  <1>1. IInv => ReadsWhatItWrote
    <2> SUFFICES ASSUME IInv, NEW id \in Id PROVE IsPrefix(read[id], written[id])
      BY DEF ReadsWhatItWrote
    <2>1. /\ read[id] \in Seq(Entry) /\ log[id] \in Seq(Entry) /\ written[id] \in Seq(Entry)
          /\ mode \in {"Record", "Replay"}
      BY DEF IInv, TypeOK, LogTypeOK
    <2>2. CASE id \in reading
      <3>1. id \in saved
        BY <2>1, <2>2 DEF IInv, ReadsLog
      <3> QED
        BY <2>1, <2>2, <3>1, PrefixTransitive DEF IInv, ReadsLog, SavedIsPrefix
    <2>3. CASE id \notin reading
      BY <2>1, <2>3, PrefixEmpty DEF IInv, ReadsLog
    <2> QED
      BY <2>2, <2>3
  <1> QED
    BY InvHolds, <1>1, PTL

\* A log with a list for each thread never poisons GLOBAL_REPLAYER.
THEOREM NoPanicOnFullLogCorrect == Spec => []NoPanicOnFullLog
  <1>1. IInv => NoPanicOnFullLog
    BY DEF IInv, ReadsLog, NoPanicOnFullLog
  <1> QED
    BY InvHolds, <1>1, PTL
=============================================================================
