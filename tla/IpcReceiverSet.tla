---------------------------- MODULE IpcReceiverSet ----------------------------
(***************************************************************************)
(* IpcReceiver and IpcReceiverSet (src/ipc_channel/mod.rs).  A program     *)
(* adds receivers to a set and gets an index for each; select returns a    *)
(* list of events, each of which is a message of the receiver with an      *)
(* index or the news that its channel was closed.                          *)
(*                                                                         *)
(* The recording asks the operating system's set underneath.  The replay   *)
(* keeps the receivers in a vector and gets event after event of the entry *)
(* from the receiver itself, with a buffer for messages of other senders.  *)
(* After a desync the receivers are moved to the set underneath, a dummy   *)
(* in the place of each that was closed, and select returns what is in the *)
(* buffer before it asks the set.                                          *)
(*                                                                         *)
(* What a select returns is in the history one event after the other, and  *)
(* then Selected.  Indices count from 1; in the code from 0.  A channel is *)
(* added once, because add takes the receiver, so that buffer[c], the      *)
(* receiver's own buffer until then, is the set's buffer afterwards.       *)
(***************************************************************************)
EXTENDS Reader, SequencesExt

VARIABLES
    receivers,  \* the vector: channels and whether the replay has seen them closed
    real,       \* the set underneath, which reports a closed channel no more, by index
    moved,      \* IpcReceiverSet.desynced
    todo,       \* the recorded events that select has still to replay
    got,        \* the events that select has so far
    created     \* the channels created, which the program does not use

setVars == <<receivers, real, moved>>
selectVars == <<todo, got>>
vars == <<readerVars, setVars, selectVars, created>>

Received(i, c, s, n) == Result("event", i, c, s, n, "none")
Closed(i, c) == Failure("event", i, c, "Closed")
Selected == Failure("select", 0, NoChan, "none")

\* Mutant: records who was ready and not who sent.
SelectEntryOfIndices(events) ==
    [op |-> "select", events |-> [k \in DOMAIN events |-> [index |-> events[k].index]]]

SelectEntry(events) ==
    [op |-> "select", events |-> [k \in DOMAIN events |-> [index |-> events[k].index, from |-> events[k].from]]]

ReturnEvents ==
    /\ hist' = Append(hist \o got, Selected)
    /\ at' = "idle"
    /\ want' = NoWant
    /\ got' = <<>>
    /\ UNCHANGED status

Init ==
    /\ ReaderInit
    /\ receivers = <<>> /\ real = <<>> /\ moved = FALSE
    /\ todo = <<>> /\ got = <<>> /\ created = 0

-----------------------------------------------------------------------------
(* channel::<()>() *)

Created == Failure("channel", created + 1, NoChan, "none")

CreateChannel ==
    /\ Calls({"channel"})
    /\ created' = created + 1
    /\ \/ WriteEntry(EntryFor(Created)) /\ Return(Created)
       \/ TakeEntry /\ NextEntry = EntryFor(Created) /\ Return(Created)
       \/ TakeEntry /\ NextEntry # EntryFor(Created) /\ Panic
       \/ (CannotWrite \/ NoEntryInLog) /\ Panic /\ UNCHANGED logVars
    /\ UNCHANGED <<chanVars, runVars, desynced, setVars, selectVars>>

-----------------------------------------------------------------------------
(* The set underneath. *)

\* Its select reports some of what there is, in any order: at least one event.
SetMessage(i) ==
    /\ At("select")
    /\ ~real[i].closed
    /\ LET c == real[i].chan IN
       /\ wire[c] # <<>>
       /\ wire' = [wire EXCEPT ![c] = Tail(@)]
       /\ got' = Append(got, Received(i, c, Head(wire[c]).from, Head(wire[c]).val))
    /\ UNCHANGED <<buffer, sent, gone, logVars, threadVars, runVars, desynced, setVars, todo, created>>

SetClosed(i) ==
    /\ At("select")
    /\ ~real[i].closed
    /\ Disconnected(real[i].chan)
    /\ real' = [real EXCEPT ![i].closed = TRUE]
    /\ got' = Append(got, Closed(i, real[i].chan))
    /\ UNCHANGED <<chanVars, logVars, threadVars, runVars, desynced, receivers, moved, todo, created>>

-----------------------------------------------------------------------------
(* add *)

NewIndex == IF mode = "Replay" /\ ~moved THEN Len(receivers) + 1 ELSE Len(real) + 1
Added == Failure("add", NewIndex, Op.chan, "none")

\* to_opaque takes the receiver out of its wrapper.
ToOpaque ==
    /\ buffer' = [buffer EXCEPT ![Op.chan] = [s \in Sender |-> <<>>]]
    /\ UNCHANGED <<wire, sent, gone>>

RecordAdd ==
    /\ mode = "Record"
    /\ Calls({"add"})
    /\ ~desynced
    /\ ToOpaque
    /\ real' = Append(real, [chan |-> Op.chan, closed |-> FALSE])
    /\ \/ WriteEntry(EntryFor(Added)) /\ Return(Added)
       \/ CannotWrite /\ Panic /\ UNCHANGED logVars
    /\ UNCHANGED <<runVars, desynced, receivers, moved, selectVars, created>>

\* Whatever is wrong with the log makes it panic, in either desync mode.
ReplayAdd ==
    /\ mode = "Replay"
    /\ Calls({"add"})
    /\ ~desynced
    /\ ToOpaque
    /\ receivers' = Append(receivers, [chan |-> Op.chan, closed |-> FALSE])
    /\ \/ TakeEntry /\ NextEntry = EntryFor(Added) /\ Return(Added)
       \/ TakeEntry /\ NextEntry # EntryFor(Added) /\ Panic
       \/ NoEntryInLog /\ Panic /\ UNCHANGED logVars
    /\ UNCHANGED <<runVars, desynced, real, moved, selectVars, created>>

\* The KeepGoing arm of do_add, once the receivers have been moved.
DesyncAdd ==
    /\ At("desync")
    /\ Op.kind = "add"
    /\ moved
    /\ ToOpaque
    /\ real' = Append(real, [chan |-> Op.chan, closed |-> FALSE])
    /\ Return(Added)
    /\ UNCHANGED <<logVars, runVars, desynced, receivers, moved, selectVars, created>>

-----------------------------------------------------------------------------
(* select *)

Desynced ==
    /\ Calls({"select", "add"})
    /\ desynced
    /\ HandleDesync
    /\ UNCHANGED <<logVars, chanVars, runVars, setVars, selectVars, created>>

RecordSelect ==
    /\ mode = "Record"
    /\ Calls({"select"})
    /\ ~desynced
    /\ at' = "select"
    /\ UNCHANGED <<logVars, chanVars, status, want, hist, runVars, desynced, setVars, selectVars, created>>

RecordSelectReturns ==
    /\ At("select")
    /\ ~desynced
    /\ got # <<>>
    /\ \/ WriteEntry(SelectEntry(got)) /\ ReturnEvents
       \/ CannotWrite /\ Panic /\ got' = <<>> /\ UNCHANGED logVars
    /\ UNCHANGED <<chanVars, runVars, desynced, setVars, todo, created>>

SelectSleeps ==
    /\ ~desynced
    /\ FallAsleep({"select"})
    /\ UNCHANGED <<setVars, selectVars, created>>

ReplaySelect ==
    /\ Calls({"select"})
    /\ ~desynced
    /\ TakeEntry
    /\ \/ NextEntry.op # "select" /\ HandleDesync /\ UNCHANGED todo
       \/ /\ NextEntry.op = "select"
          /\ todo' = NextEntry.events
          /\ at' = "replay"
          /\ UNCHANGED <<status, want, hist, desynced>>
    /\ UNCHANGED <<chanVars, runVars, setVars, got, created>>

\* DesyncError::MissingReceiver cannot happen: see IndicesAgree.
Event == todo[1]
Replaying == At("replay") /\ todo # <<>>
Source == receivers[Event.index].chan
ExpectsMessage == Replaying /\ Event.from # NoSender
ExpectsClosed == Replaying /\ Event.from = NoSender

Replayed(event) ==
    /\ got' = Append(got, event)
    /\ todo' = Tail(todo)
    /\ UNCHANGED <<logVars, threadVars, runVars, desynced, real, moved, created>>

MarkClosed == receivers' = [receivers EXCEPT ![Event.index].closed = TRUE]

\* rr_select returns the events so far along with the error, and select ignores them.
SelectFails ==
    /\ HandleDesync
    /\ todo' = <<>>
    /\ got' = <<>>
    /\ UNCHANGED <<logVars, runVars, real, moved, created>>

\* Mutant: takes only the messages of the sender it looks for.
EventFetchWanted ==
    /\ ExpectsMessage
    /\ buffer[Source][Event.from] = <<>>
    /\ Fetch(Source)
    /\ Head(wire[Source]).from = Event.from
    /\ UNCHANGED <<logVars, threadVars, runVars, desynced, setVars, selectVars, created>>

\* Mutant: throws the messages of others away.
EventFetchDrops ==
    /\ ExpectsMessage
    /\ buffer[Source][Event.from] = <<>>
    /\ wire[Source] # <<>>
    /\ wire' = [wire EXCEPT ![Source] = Tail(@)]
    /\ buffer' = IF Head(wire[Source]).from = Event.from
                 THEN [buffer EXCEPT ![Source][Event.from] = <<Head(wire[Source]).val>>] ELSE buffer
    /\ UNCHANGED <<sent, gone, logVars, threadVars, runVars, desynced, setVars, selectVars, created>>

EventFetch ==
    /\ ExpectsMessage
    /\ buffer[Source][Event.from] = <<>>
    /\ Fetch(Source)
    /\ UNCHANGED <<logVars, threadVars, runVars, desynced, setVars, selectVars, created>>

\* Mutant: takes a message of anybody.
EventAnyMessage ==
    /\ ExpectsMessage
    /\ \E s \in Sender :
          /\ TakeFromBuffer(Source, s)
          /\ Replayed(Received(Event.index, Source, s, Head(buffer[Source][s])))
    /\ UNCHANGED receivers

EventMessage ==
    /\ ExpectsMessage
    /\ TakeFromBuffer(Source, Event.from)
    /\ Replayed(Received(Event.index, Source, Event.from, Head(buffer[Source][Event.from])))
    /\ UNCHANGED receivers

EventClosedUnexpected ==
    /\ ExpectsMessage
    /\ buffer[Source][Event.from] = <<>>
    /\ Disconnected(Source)
    /\ MarkClosed
    /\ SelectFails
    /\ UNCHANGED chanVars

\* Mutant: forgets that the channel was closed.
EventClosedForgets ==
    /\ ExpectsClosed
    /\ Disconnected(Source)
    /\ Replayed(Closed(Event.index, Source))
    /\ UNCHANGED <<chanVars, receivers>>

EventClosed ==
    /\ ExpectsClosed
    /\ Disconnected(Source)
    /\ MarkClosed
    /\ Replayed(Closed(Event.index, Source))
    /\ UNCHANGED chanVars

\* The message is among the events that select ignores.
EventClosedExpected ==
    /\ ExpectsClosed
    /\ wire[Source] # <<>>
    /\ wire' = [wire EXCEPT ![Source] = Tail(@)]
    /\ SelectFails
    /\ UNCHANGED <<buffer, sent, gone, receivers>>

EventTimesOut ==
    /\ \/ ExpectsMessage /\ buffer[Source][Event.from] = <<>> /\ TimesOut(Source)
       \/ ExpectsClosed /\ TimesOut(Source) /\ ~Prompt
    /\ SelectFails
    /\ UNCHANGED <<chanVars, receivers>>

SelectReturns ==
    /\ At("replay")
    /\ todo = <<>>
    /\ ReturnEvents
    /\ UNCHANGED <<logVars, chanVars, runVars, desynced, setVars, todo, created>>

-----------------------------------------------------------------------------
(* move_receivers_to_set, and select after a desync. *)

Moving == At("desync") /\ Op.kind \in {"select", "add"} /\ ~moved

\* Mutant: the receiver that was added last is moved first.
MoveLastReceiver ==
    /\ Moving
    /\ receivers # <<>>
    /\ ~Last(receivers).closed
    /\ real' = Append(real, Last(receivers))
    /\ receivers' = Front(receivers)
    /\ UNCHANGED <<logVars, chanVars, threadVars, runVars, desynced, moved, selectVars, created>>

MoveReceiver ==
    /\ Moving
    /\ receivers # <<>>
    /\ ~receivers[1].closed
    /\ real' = Append(real, receivers[1])
    /\ receivers' = Tail(receivers)
    /\ UNCHANGED <<logVars, chanVars, threadVars, runVars, desynced, moved, selectVars, created>>

\* The dummy is made by channel(), which looks for its own event in the log.
MoveDummy ==
    /\ Moving
    /\ receivers # <<>>
    /\ receivers[1].closed
    /\ created' = created + 1
    /\ receivers' = Tail(receivers)
    /\ \/ /\ TakeEntry /\ NextEntry = EntryFor(Created)
          /\ real' = Append(real, receivers[1])
          /\ UNCHANGED threadVars
       \/ TakeEntry /\ NextEntry # EntryFor(Created) /\ Panic /\ UNCHANGED real
       \/ NoEntryInLog /\ Panic /\ UNCHANGED <<logVars, real>>
    /\ UNCHANGED <<chanVars, runVars, desynced, moved, selectVars>>

MoveDone ==
    /\ Moving
    /\ receivers = <<>>
    /\ moved' = TRUE
    /\ UNCHANGED <<logVars, chanVars, threadVars, runVars, desynced, receivers, real, selectVars, created>>

BufferedOf(i) == \E s \in Sender : buffer[real[i].chan][s] # <<>>

\* Mutant: does not look into the buffer.
DesyncSelectReal ==
    /\ At("desync") /\ Op.kind = "select" /\ moved
    /\ at' = "select"
    /\ UNCHANGED <<logVars, chanVars, status, want, hist, runVars, desynced, setVars, selectVars, created>>

\* All that is in the buffer, or else the set.
DesyncSelect ==
    /\ At("desync") /\ Op.kind = "select" /\ moved
    /\ at' = IF \E i \in DOMAIN real : BufferedOf(i) THEN "drain" ELSE "select"
    /\ UNCHANGED <<logVars, chanVars, status, want, hist, runVars, desynced, setVars, selectVars, created>>

\* get_buffered_entries: one queue after the other, in any order.
Drains(i, s) ==
    got # <<>> =>
        LET e == Last(got) IN
        \/ e.index = i /\ (e.from = s \/ buffer[e.chan][e.from] = <<>>)
        \/ ~BufferedOf(e.index)

Drain(i, s) ==
    /\ At("drain")
    /\ Drains(i, s)
    /\ LET c == real[i].chan IN
       /\ TakeFromBuffer(c, s)
       /\ got' = Append(got, Received(i, c, s, Head(buffer[c][s])))
    /\ UNCHANGED <<logVars, threadVars, runVars, desynced, setVars, todo, created>>

DesyncSelectReturns ==
    /\ \/ At("select") /\ desynced /\ got # <<>>
       \/ At("drain") /\ \A i \in DOMAIN real : ~BufferedOf(i)
    /\ ReturnEvents
    /\ UNCHANGED <<logVars, chanVars, runVars, desynced, setVars, todo, created>>

-----------------------------------------------------------------------------
Thread ==
    \/ CreateChannel \/ RecordAdd \/ ReplayAdd \/ DesyncAdd
    \/ Desynced \/ RecordSelect \/ RecordSelectReturns \/ SelectSleeps \/ ReplaySelect
    \/ EventFetch \/ EventMessage \/ EventClosedUnexpected \/ EventClosed
    \/ EventClosedExpected \/ EventTimesOut \/ SelectReturns
    \/ MoveReceiver \/ MoveDummy \/ MoveDone \/ DesyncSelect \/ DesyncSelectReturns
    \/ \E i \in DOMAIN real : SetMessage(i) \/ SetClosed(i) \/ \E s \in Sender : Drain(i, s)
    \/ Receive /\ UNCHANGED <<setVars, selectVars, created>>

Environment == Others /\ UNCHANGED <<setVars, selectVars, created>>

Restart ==
    /\ NewProcess
    /\ receivers' = <<>> /\ real' = <<>> /\ moved' = FALSE
    /\ todo' = <<>> /\ got' = <<>> /\ created' = 0

Next == Thread \/ Environment \/ Restart

\* Threads that can run are scheduled, the replay is started, and the senders get
\* to the end of their scripts.
Fairness ==
    /\ WF_vars(Thread)
    /\ WF_vars(Restart)
    /\ \A s \in Sender : WF_vars((Send(s) \/ Leave(s)) /\ UNCHANGED <<setVars, selectVars, created>>)

Spec == Init /\ [][Next]_vars /\ Fairness
-----------------------------------------------------------------------------
ChannelEntry == [op : {"channel"}, index : Index, chan : {NoChan}, from : {NoSender}, error : {"none"}]
SelectEvent == [index : Index, from : Sender \cup {NoSender}]
Entry == ChannelEntry \cup AddEntry \cup RecvEntry \cup [op : {"select"}, events : Seq(SelectEvent)]

ResultType ==
    [op : RecvKind \cup {"channel", "add", "event", "select"}, index : Nat, chan : Chan \cup {NoChan},
     from : Sender \cup {NoSender}, val : Nat \cup {NoVal}, error : {"none", "Disconnected", "Empty", "Closed"}]

TypeOK ==
    /\ ReaderTypeOK
    /\ log \in Seq(Entry)
    /\ at \in {"idle", "receive", "replay", "desync", "select", "drain"}
    /\ hist \in Seq(ResultType)
    /\ recorded \in Seq(ResultType)
    /\ receivers \in Seq([chan : Chan, closed : BOOLEAN])
    /\ real \in Seq([chan : Chan, closed : BOOLEAN])
    /\ moved \in BOOLEAN
    /\ todo \in Seq(SelectEvent)
    /\ got \in Seq(ResultType)
    /\ created \in Nat

\* What the program has been told, and is about to be.
Seen == hist \o got

\* All receivers by their index; while they are moved some are in the set already.
InSet == real \o receivers
Adds == {i \in DOMAIN hist : hist[i].op = "add"}

\* The index that the program got for a receiver is its index in the vector and in the
\* set underneath, although the replay numbers receivers itself and moves them only after
\* a desync; each event is of the channel that the program added under its index; and
\* the receiver of each event that select replays has been added.
IndicesAgree ==
    /\ \A i, j \in Adds : i < j => hist[i].index < hist[j].index
    /\ status # "panicked" =>
          /\ {hist[i].index : i \in Adds} = DOMAIN InSet
          /\ \A i \in Adds : InSet[hist[i].index].chan = hist[i].chan
    /\ \A k \in DOMAIN Seen : Seen[k].op = "event" =>
          \E i \in Adds : hist[i].index = Seen[k].index /\ hist[i].chan = Seen[k].chan
    /\ \A k \in DOMAIN todo : todo[k].index \in DOMAIN receivers

\* Adding a receiver that was received from before drops what is in its buffer.
ReceivedFrom(c) == \E i \in DOMAIN hist : hist[i].op \in RecvKind /\ hist[i].chan = c
AddedToSet(c) == \E i \in Adds : hist[i].chan = c
Dropped(c) == ReceivedFrom(c) /\ AddedToSet(c)
BufferDropped == \E c \in Chan : Dropped(c)

\* The replay returns the same events from each select, and the same messages and
\* indices, until the program desyncs, wherever the log was cut off, unless it has
\* dropped a buffer.
SelectIsFaithful ==
    mode = "Replay" /\ ~desynced /\ Deterministic /\ ~BufferDropped =>
        \A i \in DOMAIN hist : i \in DOMAIN recorded /\ hist[i] = recorded[i]

\* Until it desyncs, the replay loses no message, on each channel whose buffer it has
\* not dropped.
NothingLost ==
    mode = "Replay" /\ status # "panicked" /\ ~desynced =>
        \A c \in Chan, s \in Sender : ~Dropped(c) => AllThere(Seen, c, s)

Closing(e) == e.op = "event" /\ e.from = NoSender

\* What the program sees of a channel, in spite of desyncs: no message twice or out
\* of order, and its end once, also when the replay has seen it closed and
\* the set underneath is asked then.
EventsInOrder ==
    /\ \A c \in Chan, s \in Sender : InOrder(Seen, c, s)
    /\ \A i, j \in DOMAIN Seen :
           i < j /\ Closing(Seen[i]) /\ Closing(Seen[j]) => Seen[i].index # Seen[j].index

Repeatable == mode = "Replay" /\ Prompt /\ ~Faulty /\ Deterministic

\* The replay of a deterministic program with prompt messages gets through its list
\* without a desync, unless it has dropped a buffer; and what comes next does not
\* panic, unless it is one of the two operations that do at the end of a list.
ReplayCompletes ==
    Repeatable ~>
        \/ BufferDropped
        \/ next = Len(log) /\ Op.kind \in {"add", "channel"}
        \/ next = Len(log) /\ at = "idle" /\ status # "panicked" /\ ~desynced

\* After a desync nobody waits in select with a message in the buffer.
SelectSeesBuffers ==
    (At("desync") /\ Op.kind = "select" /\ moved /\ \E i \in DOMAIN real : BufferedOf(i)) ~> At("idle")
=============================================================================
