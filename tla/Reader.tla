-------------------------------- MODULE Reader --------------------------------
(***************************************************************************)
(* One thread that receives, the threads that send to it, and the thread's *)
(* own list in the record log: what Select and IpcReceiverSet have in      *)
(* common.  RecordReplay tells how many threads observe one another; here  *)
(* the senders follow a script, so that the receiving thread can do more.  *)
(*                                                                         *)
(* There are two executions.  The first one is recorded; the flush of the  *)
(* main thread may cut the list off at any point of it.  The second one    *)
(* replays the list.  What the thread does next is a function Code of what *)
(* it has received, and of world: all the rest that a program might depend *)
(* on, which a deterministic program does not (World is a singleton).      *)
(*                                                                         *)
(* A setup is a program with the worlds it can be in, the senders' scripts *)
(* and the conditions that both executions run under.                      *)
(***************************************************************************)
EXTENDS Naturals, Sequences

CONSTANTS
    Chan, Sender, NoChan, NoSender, NoVal,
    Code(_, _, _), \* the next operation of a program's thread
    Setups,
    AnyRecv        \* the entry of a message does not tell recv from try_recv

ASSUME ReaderAssumption ==
    /\ \A s \in Setups :
          /\ s.sends \in [Sender -> Seq(Chan)]
          /\ {s.keepGoing, s.prompt, s.faulty} \subseteq BOOLEAN
    /\ NoChan \notin Chan
    /\ NoSender \notin Sender
    /\ AnyRecv \in BOOLEAN

VARIABLES
    setup,
    mode,     \* "Record", then "Replay"
    log,      \* the thread's list
    open,     \* events can be written to it
    next,     \* how many entries the replay has taken
    wire,     \* messages in each channel's real queue: (sender, value)
    buffer,   \* the buffer of each receiver: a queue for each sender
    sent,     \* how far each sender has come in its script
    gone,     \* the senders that have dropped their channel ends
    status,   \* of the thread: "running", "asleep" or "panicked"
    at,       \* where it is inside an operation
    want,     \* the channel and the sender it is receiving from
    world, hist,
    recorded, \* hist at the end of the recorded execution
    desynced  \* the global DESYNC

logVars == <<mode, log, open, next>>
chanVars == <<wire, buffer, sent, gone>>
threadVars == <<status, at, want, hist>>
runVars == <<setup, world, recorded>>
readerVars == <<logVars, chanVars, threadVars, runVars, desynced>>

World == setup.worlds
Deterministic == \A v, w \in World : v = w
Sends == setup.sends         \* the channels that each sender sends to, one after the other
KeepGoing == setup.keepGoing \* DESYNC_MODE: KeepGoing or, if FALSE, Panic
Prompt == setup.prompt       \* messages under way arrive before a receive times out
Faulty == setup.faulty       \* senders may panic, and other threads desync in the replay

Message == [from : Sender, val : Nat]
NoWant == [chan |-> NoChan, from |-> NoSender]
Want == [chan : Chan, from : Sender] \cup {NoWant}

ReaderTypeOK ==
    /\ setup \in Setups
    /\ mode \in {"Record", "Replay"}
    /\ open \in BOOLEAN
    /\ next \in Nat
    /\ wire \in [Chan -> Seq(Message)]
    /\ buffer \in [Chan -> [Sender -> Seq(Nat)]]
    /\ sent \in [Sender -> Nat]
    /\ gone \subseteq Sender
    /\ status \in {"running", "asleep", "panicked"}
    /\ want \in Want
    /\ world \in World
    /\ desynced \in BOOLEAN

EmptyWire == [c \in Chan |-> <<>>]
EmptyBuffer == [c \in Chan |-> [s \in Sender |-> <<>>]]

ReaderInit ==
    /\ setup \in Setups
    /\ mode = "Record" /\ log = <<>> /\ open = TRUE /\ next = 0
    /\ wire = EmptyWire /\ buffer = EmptyBuffer
    /\ sent = [s \in Sender |-> 0] /\ gone = {}
    /\ status = "running" /\ at = "idle" /\ want = NoWant /\ hist = <<>>
    /\ world \in World /\ recorded = <<>> /\ desynced = FALSE

-----------------------------------------------------------------------------
(* The thread and its list. *)

Op == Code(setup.program, world, hist)
At(place) == status = "running" /\ at = place
Calls(kinds) == At("idle") /\ Op.kind \in kinds

Return(obs) ==
    /\ hist' = Append(hist, obs)
    /\ at' = "idle"
    /\ want' = NoWant
    /\ UNCHANGED status

Panic ==
    /\ status' = "panicked"
    /\ UNCHANGED <<at, want, hist>>

\* Give up with a panic, or mark the program as desynced and go on at "desync".
HandleDesync ==
    \/ KeepGoing = FALSE /\ Panic /\ UNCHANGED desynced
    \/ /\ KeepGoing = TRUE
       /\ desynced' = TRUE
       /\ status' = "running"
       /\ at' = "desync"
       /\ want' = NoWant
       /\ UNCHANGED hist

\* write_event_to_record
WriteEntry(entry) ==
    /\ mode = "Record"
    /\ open
    /\ log' = Append(log, entry)
    /\ UNCHANGED <<mode, open, next>>

CannotWrite == mode = "Record" /\ ~open

\* get_log_entry, and DesyncError::NoEntryInLog
HasEntry == mode = "Replay" /\ next < Len(log)
NoEntryInLog == mode = "Replay" /\ next = Len(log)
NextEntry == log[next + 1]

TakeEntry ==
    /\ HasEntry
    /\ next' = next + 1
    /\ UNCHANGED <<mode, log, open>>

-----------------------------------------------------------------------------
(* The channels underneath, and the receives on them that both crossbeam's
   Receiver and IpcReceiver have. *)

RecvKind == {"recv", "try_recv"}

Result(op, index, c, from, val, error) ==
    [op |-> op, index |-> index, chan |-> c, from |-> from, val |-> val, error |-> error]
Failure(op, index, c, error) == Result(op, index, c, NoSender, NoVal, error)

\* The entry for a result has everything but the value.
EntryFor(obs) == [op |-> obs.op, index |-> obs.index, chan |-> obs.chan,
                  from |-> obs.from, error |-> obs.error]

NoSenders(c) == \A s \in Sender \ gone : \A i \in DOMAIN Sends[s] : Sends[s][i] # c
Disconnected(c) == wire[c] = <<>> /\ NoSenders(c)
CanReceive(c) == wire[c] # <<>> \/ Disconnected(c)

\* What a receive on the wire returns; none if it blocks.
Outcomes(op, index, c) ==
    IF wire[c] # <<>> THEN {Result(op, index, c, Head(wire[c]).from, Head(wire[c]).val, "none")}
    ELSE IF Disconnected(c) THEN {Failure(op, index, c, "Disconnected")}
    ELSE IF op = "try_recv" THEN {Failure(op, index, c, "Empty")}
    ELSE {}

TakeFromWire(obs) ==
    /\ wire' = IF obs.error = "none" THEN [wire EXCEPT ![obs.chan] = Tail(@)] ELSE wire
    /\ UNCHANGED <<buffer, sent, gone>>

TakeFromBuffer(c, s) ==
    /\ buffer[c][s] # <<>>
    /\ buffer' = [buffer EXCEPT ![c][s] = Tail(@)]
    /\ UNCHANGED <<wire, sent, gone>>

Buffered(op, index, c, s) == Result(op, index, c, s, Head(buffer[c][s]), "none")

\* A message on the wire is put into the buffer.  recv_expected_message returns
\* the message it looks for without this detour.
Fetch(c) ==
    /\ wire[c] # <<>>
    /\ wire' = [wire EXCEPT ![c] = Tail(@)]
    /\ buffer' = [buffer EXCEPT ![c][Head(wire[c]).from] = Append(@, Head(wire[c]).val)]
    /\ UNCHANGED <<sent, gone>>

Wanted == buffer[want.chan][want.from] # <<>>

\* Someone is still going to send on c.
StillToCome(c) ==
    \E s \in Sender \ gone : \E i \in DOMAIN Sends[s] : sent[s] < i /\ Sends[s][i] = c

TimesOut(c) == wire[c] = <<>> /\ ~Disconnected(c) /\ (Prompt => ~StillToCome(c))

RecordRecv ==
    /\ mode = "Record"
    /\ Calls(RecvKind)
    /\ \E obs \in Outcomes(Op.kind, 0, Op.chan) :
          /\ TakeFromWire(obs)
          /\ \/ WriteEntry(EntryFor(obs)) /\ Return(obs) /\ UNCHANGED desynced
             \/ CannotWrite /\ HandleDesync /\ UNCHANGED logVars
    /\ UNCHANGED runVars

FallAsleep(kinds) ==
    /\ Calls(kinds)
    /\ NoEntryInLog
    /\ status' = "asleep"
    /\ UNCHANGED <<logVars, chanVars, at, want, hist, runVars, desynced>>

WakeUp ==
    /\ status = "asleep"
    /\ desynced
    /\ HandleDesync
    /\ UNCHANGED <<logVars, chanVars, runVars>>

EntryFits ==
    /\ NextEntry.op \in RecvKind
    /\ NextEntry.op = Op.kind \/ (AnyRecv /\ NextEntry.error = "none")
    /\ NextEntry.chan = Op.chan

ReplayRecv ==
    /\ Calls(RecvKind)
    /\ TakeEntry
    /\ \/ ~EntryFits /\ HandleDesync
       \/ /\ EntryFits
          /\ NextEntry.error # "none"
          /\ Return(Failure(Op.kind, 0, Op.chan, NextEntry.error))
          /\ UNCHANGED desynced
       \/ /\ EntryFits
          /\ NextEntry.error = "none"
          /\ want' = [chan |-> Op.chan, from |-> NextEntry.from]
          /\ at' = "receive"
          /\ UNCHANGED <<status, hist, desynced>>
    /\ UNCHANGED <<chanVars, runVars>>

\* The loop of recv_expected_message.
ReceiveNext ==
    /\ At("receive")
    /\ ~Wanted
    /\ Fetch(want.chan)
    /\ UNCHANGED <<logVars, threadVars, runVars, desynced>>

ReceiveWanted ==
    /\ At("receive")
    /\ Wanted
    /\ TakeFromBuffer(want.chan, want.from)
    /\ Return(Buffered(Op.kind, 0, want.chan, want.from))
    /\ UNCHANGED <<logVars, runVars, desynced>>

ReceiveFails ==
    /\ At("receive")
    /\ ~Wanted
    /\ Disconnected(want.chan) \/ TimesOut(want.chan)
    /\ HandleDesync
    /\ UNCHANGED <<logVars, chanVars, runVars>>

\* handle_desync: anything in the buffer, else the wire.
ReceiveAny ==
    /\ At("desync")
    /\ Op.kind \in RecvKind
    /\ LET early == {s \in Sender : buffer[Op.chan][s] # <<>>} IN
       \/ \E s \in early :
             TakeFromBuffer(Op.chan, s) /\ Return(Buffered(Op.kind, 0, Op.chan, s))
       \/ early = {} /\ \E obs \in Outcomes(Op.kind, 0, Op.chan) : TakeFromWire(obs) /\ Return(obs)
    /\ UNCHANGED <<logVars, runVars, desynced>>

Receive ==
    \/ RecordRecv \/ FallAsleep(RecvKind) \/ WakeUp
    \/ ReplayRecv \/ ReceiveNext \/ ReceiveWanted \/ ReceiveFails \/ ReceiveAny

-----------------------------------------------------------------------------
(* The entries for an add and for a receive. *)

Index == Nat \ {0}
ReceiptOf(kinds, indices) ==
    [op : kinds, index : indices, chan : Chan, from : Sender, error : {"none"}]
    \cup [op : kinds, index : indices, chan : Chan, from : {NoSender}, error : {"Disconnected", "Empty"}]

AddEntry == [op : {"add"}, index : Index, chan : Chan, from : {NoSender}, error : {"none"}]
RecvEntry == ReceiptOf(RecvKind, {0})

-----------------------------------------------------------------------------
(* Everyone else. *)

Send(s) ==
    /\ s \notin gone
    /\ sent[s] < Len(Sends[s])
    /\ sent' = [sent EXCEPT ![s] = @ + 1]
    /\ wire' = [wire EXCEPT ![Sends[s][sent[s] + 1]] = Append(@, [from |-> s, val |-> sent[s] + 1])]
    /\ UNCHANGED <<buffer, gone, logVars, threadVars, runVars, desynced>>

\* A sender ends, perhaps early with a panic, and drops its channel ends.
Leave(s) ==
    /\ s \notin gone
    /\ sent[s] = Len(Sends[s]) \/ Faulty
    /\ gone' = gone \cup {s}
    /\ UNCHANGED <<wire, buffer, sent, logVars, threadVars, runVars, desynced>>

\* Another thread marks the program as desynced.
OtherDesync ==
    /\ Faulty /\ KeepGoing /\ mode = "Replay"
    /\ ~desynced
    /\ desynced' = TRUE
    /\ UNCHANGED <<logVars, chanVars, threadVars, runVars>>

\* The main thread flushes the log; what the thread writes later is lost.
Flush ==
    /\ mode = "Record"
    /\ open
    /\ open' = FALSE
    /\ UNCHANGED <<mode, log, next, chanVars, threadVars, runVars, desynced>>

Others == (\E s \in Sender : Send(s) \/ Leave(s)) \/ OtherDesync \/ Flush

\* The recorded process ends after the flush, and the replay is started.
NewProcess ==
    /\ mode = "Record"
    /\ ~open
    /\ mode' = "Replay"
    /\ recorded' = hist
    /\ wire' = EmptyWire /\ buffer' = EmptyBuffer
    /\ sent' = [s \in Sender |-> 0] /\ gone' = {}
    /\ status' = "running" /\ at' = "idle" /\ want' = NoWant /\ hist' = <<>>
    /\ world' \in World /\ desynced' = FALSE
    /\ UNCHANGED <<setup, log, open, next>>

-----------------------------------------------------------------------------
(* The messages that s sends on c. *)

\* Their places among what the thread has received, and on the wire.
Receipts(seen, c, s) == {i \in DOMAIN seen : seen[i].chan = c /\ seen[i].from = s}
OnWire(c, s) == {i \in DOMAIN wire[c] : wire[c][i].from = s}

\* All of them are somewhere: the thread has received them, or they are on their way.
AllThere(seen, c, s) ==
    {n \in 1 .. sent[s] : Sends[s][n] = c} =
        {seen[i].val : i \in Receipts(seen, c, s)}
        \cup {buffer[c][s][i] : i \in DOMAIN buffer[c][s]}
        \cup {wire[c][i].val : i \in OnWire(c, s)}

\* They are once, and in the order in which they were sent: what is received comes
\* before what is in the buffer, and this before what is on the wire.
InOrder(seen, c, s) ==
    LET Got(i) == seen[i].val
        Kept(i) == buffer[c][s][i]
        Coming(i) == wire[c][i].val
    IN  /\ \A i, j \in Receipts(seen, c, s) : i < j => Got(i) < Got(j)
        /\ \A i, j \in DOMAIN buffer[c][s] : i < j => Kept(i) < Kept(j)
        /\ \A i, j \in OnWire(c, s) : i < j => Coming(i) < Coming(j)
        /\ \A i \in Receipts(seen, c, s), j \in DOMAIN buffer[c][s] : Got(i) < Kept(j)
        /\ \A i \in Receipts(seen, c, s), j \in OnWire(c, s) : Got(i) < Coming(j)
        /\ \A i \in DOMAIN buffer[c][s], j \in OnWire(c, s) : Kept(i) < Coming(j)
=============================================================================
