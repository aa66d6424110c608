---------------------------- MODULE CrossbeamSelect ----------------------------
(***************************************************************************)
(* Select over crossbeam channels (src/crossbeam_select.rs and the methods *)
(* of crossbeam_channel.rs that it uses).  A program makes a Select, adds  *)
(* receivers to it, calls select for the index of a receiver that is       *)
(* ready, and completes the operation by a receive on it.                  *)
(*                                                                         *)
(* The recording logs the index with the sender of the message once the    *)
(* operation is complete.  The replay takes the entry in select, polls     *)
(* until that sender's message is in the receiver's buffer, and takes it   *)
(* from there in the receive.  After a desync select looks into the        *)
(* buffers first and then asks crossbeam's own Select.                     *)
(*                                                                         *)
(* Indices count from 1; in the code from 0.                               *)
(***************************************************************************)
EXTENDS Reader, SequencesExt

VARIABLES
    added,  \* the channels added to the Select, by index
    chosen  \* the SelectedOperation that is to be completed

vars == <<readerVars, added, chosen>>

ReadyEntry == [op : {"ready"}, index : Index, chan : {NoChan}, from : {NoSender}, error : {"none"}]
SelectEntry == ReceiptOf({"select"}, Index)
Entry == ReadyEntry \cup AddEntry \cup RecvEntry \cup SelectEntry

\* How an operation was selected: by crossbeam, while recording or after a
\* desync, by the log, or by a buffer after a desync.
NoChoice == [how |-> "none", index |-> 0]
Choice == {NoChoice}
     \cup [how : {"Record", "Desync", "DesyncBufferEntry"}, index : Index]
     \cup [how : {"Replay"}, index : Index, entry : SelectEntry]

Init == ReaderInit /\ added = <<>> /\ chosen = NoChoice

Choose(choice) ==
    /\ chosen' = choice
    /\ at' = "selected"
    /\ want' = NoWant
    /\ UNCHANGED <<status, hist, desynced>>

\* The receivers that crossbeam's own Select finds ready.
ReadyIndices == {i \in DOMAIN added : CanReceive(added[i])}

-----------------------------------------------------------------------------
(* Building a Select. *)

New ==
    /\ Calls({"new"})
    /\ added' = <<>>
    /\ Return(Failure("new", 0, NoChan, "none"))
    /\ UNCHANGED <<logVars, chanVars, runVars, desynced, chosen>>

\* Mutant: the receiver that is added is not in the entry.
AddedFake == Failure("add", Len(added) + 1, NoChan, "none")

Added == Failure("add", Len(added) + 1, Op.chan, "none")

\* Select::recv: whatever is wrong with the log makes it panic, and it asks the
\* log after a desync, too.
Add ==
    /\ Calls({"add"})
    /\ added' = Append(added, Op.chan)
    /\ \/ WriteEntry(EntryFor(Added)) /\ Return(Added)
       \/ TakeEntry /\ NextEntry = EntryFor(Added) /\ Return(Added)
       \/ TakeEntry /\ NextEntry # EntryFor(Added) /\ Panic
       \/ (CannotWrite \/ NoEntryInLog) /\ Panic /\ UNCHANGED logVars
    /\ UNCHANGED <<chanVars, runVars, desynced, chosen>>

-----------------------------------------------------------------------------
(* select *)

SelectDesynced ==
    /\ Calls({"select", "ready"})
    /\ desynced
    /\ HandleDesync
    /\ UNCHANGED <<logVars, chanVars, runVars, added, chosen>>

RecordSelect ==
    /\ mode = "Record"
    /\ Calls({"select"})
    /\ ~desynced
    /\ \E i \in ReadyIndices : Choose([how |-> "Record", index |-> i])
    /\ UNCHANGED <<logVars, chanVars, runVars, added>>

SelectSleeps ==
    /\ ~desynced
    /\ FallAsleep({"select"})
    /\ UNCHANGED <<added, chosen>>

\* rr_select: another kind of event and a receiver that is missing are desyncs;
\* a message has to be there, an error is believed.
ReplaySelect ==
    /\ Calls({"select"})
    /\ ~desynced
    /\ TakeEntry
    /\ \/ /\ NextEntry.op # "select" \/ (NextEntry.error = "none" /\ NextEntry.index > Len(added))
          /\ HandleDesync
          /\ UNCHANGED chosen
       \/ /\ NextEntry.op = "select" /\ NextEntry.error # "none"
          /\ Choose([how |-> "Replay", index |-> NextEntry.index, entry |-> NextEntry])
       \/ /\ NextEntry.op = "select" /\ NextEntry.error = "none" /\ NextEntry.index <= Len(added)
          /\ want' = [chan |-> added[NextEntry.index], from |-> NextEntry.from]
          /\ chosen' = [how |-> "Replay", index |-> NextEntry.index, entry |-> NextEntry]
          /\ at' = "poll"
          /\ UNCHANGED <<status, hist, desynced>>
    /\ UNCHANGED <<chanVars, runVars, added>>

\* Mutant: any message will do.
PollTakesAny ==
    /\ At("poll")
    /\ \E s \in Sender : buffer[want.chan][s] # <<>>
    /\ Choose(chosen)
    /\ UNCHANGED <<logVars, chanVars, runVars, added>>

\* Mutant: fetches only the messages of the sender it looks for.
PollNextWanted ==
    /\ At("poll")
    /\ ~Wanted
    /\ Fetch(want.chan)
    /\ Head(wire[want.chan]).from = want.from
    /\ UNCHANGED <<logVars, threadVars, runVars, desynced, added, chosen>>

\* poll_entry: fetches messages until there is one of the sender's.
PollNext ==
    /\ At("poll")
    /\ ~Wanted
    /\ Fetch(want.chan)
    /\ UNCHANGED <<logVars, threadVars, runVars, desynced, added, chosen>>

Poll ==
    /\ At("poll")
    /\ Wanted
    /\ Choose(chosen)
    /\ UNCHANGED <<logVars, chanVars, runVars, added>>

PollFails ==
    /\ At("poll")
    /\ ~Wanted
    /\ TimesOut(want.chan)
    /\ HandleDesync
    /\ chosen' = NoChoice
    /\ UNCHANGED <<logVars, chanVars, runVars, added>>

\* unreachable!()
PollDisconnected ==
    /\ At("poll")
    /\ ~Wanted
    /\ Disconnected(want.chan)
    /\ Panic
    /\ UNCHANGED <<logVars, chanVars, runVars, desynced, added, chosen>>

BufferedValue(i) == \E s \in Sender : buffer[added[i]][s] # <<>>

\* Mutant: does not look into the buffers.
DesyncSelectOnWire ==
    /\ At("desync")
    /\ Op.kind = "select"
    /\ \E i \in ReadyIndices : Choose([how |-> "Desync", index |-> i])
    /\ UNCHANGED <<logVars, chanVars, runVars, added>>

\* The KeepGoing arm of select.
DesyncSelect ==
    /\ At("desync")
    /\ Op.kind = "select"
    /\ LET early == {i \in DOMAIN added : BufferedValue(i)} IN
       \/ \E i \in early : Choose([how |-> "DesyncBufferEntry", index |-> i])
       \/ early = {} /\ \E i \in ReadyIndices : Choose([how |-> "Desync", index |-> i])
    /\ UNCHANGED <<logVars, chanVars, runVars, added>>

-----------------------------------------------------------------------------
(* SelectedOperation::recv.  The program has a case, which is a receiver, for each
   index: Op.recvs.  They should be the receivers that it has added. *)

Passed == Op.recvs[chosen.index]

Accepted ==
    /\ chosen.index \in DOMAIN Op.recvs
    /\ chosen.how \in {"Record", "Desync"} => Passed = added[chosen.index]
    /\ chosen.how = "Replay" => Passed = chosen.entry.chan
    /\ chosen.how = "DesyncBufferEntry" => \E s \in Sender : buffer[Passed][s] # <<>>

Completes(how) == At("selected") /\ Accepted /\ chosen.how = how
Complete(obs) == Return(obs) /\ chosen' = NoChoice

\* The index fits no case, or its receiver is not the one that was selected.
CompleteWithWrongReceiver ==
    /\ At("selected")
    /\ ~Accepted
    /\ Panic
    /\ UNCHANGED <<logVars, chanVars, runVars, desynced, added, chosen>>

\* The message leaves the channel before its entry is written; without the
\* entry the thread panics, in either desync mode.
RecordComplete ==
    /\ Completes("Record")
    /\ \E obs \in Outcomes("select", chosen.index, Passed) :
          /\ TakeFromWire(obs)
          /\ \/ WriteEntry(EntryFor(obs)) /\ Complete(obs)
             \/ CannotWrite /\ Panic /\ UNCHANGED <<logVars, chosen>>
    /\ UNCHANGED <<runVars, desynced, added>>

DesyncComplete ==
    /\ Completes("Desync")
    /\ \E obs \in Outcomes("select", chosen.index, Passed) : TakeFromWire(obs) /\ Complete(obs)
    /\ UNCHANGED <<logVars, runVars, desynced, added>>

TakeBuffered(s) == TakeFromBuffer(Passed, s) /\ Complete(Buffered("select", chosen.index, Passed, s))

BufferComplete ==
    /\ Completes("DesyncBufferEntry")
    /\ \E s \in Sender : TakeBuffered(s)
    /\ UNCHANGED <<logVars, runVars, desynced, added>>

\* Mutant: takes whichever message is in the buffer.
ReplayCompleteAny ==
    /\ Completes("Replay")
    /\ \/ /\ chosen.entry.error # "none"
          /\ Complete(Failure("select", chosen.index, Passed, chosen.entry.error))
          /\ UNCHANGED chanVars
       \/ chosen.entry.error = "none" /\ \E s \in Sender : TakeBuffered(s)
    /\ UNCHANGED <<logVars, runVars, desynced, added>>

\* Mutant: empties the buffer.
ReplayCompleteDrops ==
    /\ Completes("Replay")
    /\ \/ /\ chosen.entry.error # "none"
          /\ Complete(Failure("select", chosen.index, Passed, chosen.entry.error))
          /\ UNCHANGED chanVars
       \/ /\ chosen.entry.error = "none"
          /\ buffer' = [buffer EXCEPT ![Passed] = [s \in Sender |-> <<>>]]
          /\ Complete(Buffered("select", chosen.index, Passed, chosen.entry.from))
          /\ UNCHANGED <<wire, sent, gone>>
    /\ UNCHANGED <<logVars, runVars, desynced, added>>

ReplayComplete ==
    /\ Completes("Replay")
    /\ \/ /\ chosen.entry.error # "none"
          /\ Complete(Failure("select", chosen.index, Passed, chosen.entry.error))
          /\ UNCHANGED chanVars
       \/ chosen.entry.error = "none" /\ TakeBuffered(chosen.entry.from)
    /\ UNCHANGED <<logVars, runVars, desynced, added>>

-----------------------------------------------------------------------------
(* ready: the index alone, without receiving. *)

IsReady(i) == Failure("ready", i, NoChan, "none")

RecordReady ==
    /\ mode = "Record"
    /\ Calls({"ready"})
    /\ ~desynced
    /\ \E i \in ReadyIndices :
          \/ WriteEntry(EntryFor(IsReady(i))) /\ Return(IsReady(i)) /\ UNCHANGED desynced
          \/ CannotWrite /\ HandleDesync /\ UNCHANGED logVars
    /\ UNCHANGED <<chanVars, runVars, added, chosen>>

\* The log is believed; there is no sleep at its end, but a desync.
ReplayReady ==
    /\ Calls({"ready"})
    /\ ~desynced
    /\ \/ TakeEntry /\ NextEntry.op = "ready" /\ Return(IsReady(NextEntry.index)) /\ UNCHANGED desynced
       \/ TakeEntry /\ NextEntry.op # "ready" /\ HandleDesync
       \/ NoEntryInLog /\ HandleDesync /\ UNCHANGED logVars
    /\ UNCHANGED <<chanVars, runVars, added, chosen>>

\* The KeepGoing arm of ready: crossbeam's own, which knows no buffers.
DesyncReady ==
    /\ At("desync")
    /\ Op.kind = "ready"
    /\ \E i \in ReadyIndices : Return(IsReady(i))
    /\ UNCHANGED <<logVars, chanVars, runVars, desynced, added, chosen>>

-----------------------------------------------------------------------------
Thread ==
    \/ New \/ Add
    \/ SelectDesynced \/ RecordSelect \/ SelectSleeps \/ ReplaySelect
    \/ PollNext \/ Poll \/ PollFails \/ PollDisconnected \/ DesyncSelect
    \/ CompleteWithWrongReceiver
    \/ RecordComplete \/ DesyncComplete \/ BufferComplete \/ ReplayComplete
    \/ RecordReady \/ ReplayReady \/ DesyncReady
    \/ Receive /\ UNCHANGED <<added, chosen>>

Environment == Others /\ UNCHANGED <<added, chosen>>

Restart == NewProcess /\ added' = <<>> /\ chosen' = NoChoice

Next == Thread \/ Environment \/ Restart

\* Threads that can run are scheduled, and the replay is started.  Nothing
\* obliges a sender to end.
Fairness ==
    /\ WF_vars(Thread)
    /\ WF_vars(Restart)
    /\ \A s \in Sender : WF_vars(Send(s) /\ UNCHANGED <<added, chosen>>)

Spec == Init /\ [][Next]_vars /\ Fairness
-----------------------------------------------------------------------------
Kinds == RecvKind \cup {"select", "ready", "add"}

ResultType ==
    [op : Kinds \cup {"new"}, index : Nat, chan : Chan \cup {NoChan}, from : Sender \cup {NoSender},
     val : Nat \cup {NoVal}, error : {"none", "Disconnected", "Empty"}]

TypeOK ==
    /\ ReaderTypeOK
    /\ log \in Seq(Entry)
    /\ at \in {"idle", "receive", "poll", "selected", "desync"}
    /\ hist \in Seq(ResultType)
    /\ recorded \in Seq(ResultType)
    /\ added \in Seq(Chan)
    /\ chosen \in Choice

\* rr_select looks for the message before it hands out the operation, because
\* the receive of a SelectedOperation cannot recover from a desync: a selected
\* operation that the log says has a message, and one selected for a buffered
\* message, has it in the receiver's buffer, and still has it in the receive.
PolledMessageIsThere ==
    At("selected") =>
        /\ chosen.how = "Replay" /\ chosen.entry.error = "none" =>
               buffer[added[chosen.index]][chosen.entry.from] # <<>>
        /\ chosen.how = "DesyncBufferEntry" => BufferedValue(chosen.index)

\* What repeats original, and goes on with operations that the log knows nothing of:
\* they make a Select.
Repeats(results, original) ==
    \A i \in DOMAIN results :
        IF i \in DOMAIN original THEN results[i] = original[i] ELSE results[i].op = "new"

\* The replay selects, receives and reports ready what the recording did, until
\* the program desyncs, wherever the log was cut off.
SelectIsFaithful ==
    mode = "Replay" /\ ~desynced /\ Deterministic => Repeats(hist, recorded)

\* In a replay, polls, receives, selects and the fall-back after a desync lose
\* no message, double none, and keep those of a sender in order.
NothingLost ==
    mode = "Replay" => \A c \in Chan, s \in Sender : AllThere(hist, c, s) /\ InOrder(hist, c, s)

Repeatable == mode = "Replay" /\ Prompt /\ ~Faulty /\ Deterministic

\* What the log knows of a history: all but the making of a Select.
Logged(results) == SelectSeq(results, LAMBDA obs : obs.op # "new")

\* All that the list holds was replayed, and what comes next does not sleep.
OffLog ==
    /\ next = Len(log)
    /\ Len(Logged(hist)) >= Len(log)
    /\ Op.kind \in {"add", "ready"}

\* The replay of a deterministic program with prompt messages gets through its list
\* without a desync, unless that is where the list ends, in an operation that does
\* not go to sleep there.
ReplayCompletes ==
    Repeatable ~>
        OffLog \/ (next = Len(log) /\ at = "idle" /\ status # "panicked" /\ ~desynced)

\* After a desync nobody waits in select with a message in a buffer, as they may do
\* in ready, which asks crossbeam's Select alone.
SelectSeesBuffers ==
    (At("desync") /\ Op.kind = "select" /\ \E i \in DOMAIN added : BufferedValue(i))
        ~> At("selected")
=============================================================================
