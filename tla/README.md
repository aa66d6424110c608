# rr_channel in TLA+

`rr_channel` wraps the channels of `std::sync::mpsc`, `crossbeam_channel` and
`ipc_channel` so that a program's communication can be recorded once and
replayed as it was. In the recorded execution every receive writes down which
thread's message it returned, or which error; in the replay it waits for that
thread's message and sets the others aside. The rest of the program is taken to
be deterministic. This directory holds the specifications of the library, the
TLC runs that check them, and the proofs.

## 1. The system

| part | state | operations | source |
|---|---|---|---|
| record log | `GLOBAL_RECORDER` (thread id → receiving end of an event channel), `GLOBAL_REPLAYER` (thread id → list of entries), the thread-locals `EVENT_SENDER` and `EVENT_RECEIVER`, the file | write an event, take the next entry, flush at the end of the execution | `recordlog.rs`, `EventRecorder` and `execution_done` in `lib.rs` |
| record and replay | a buffer of early messages in each `Receiver` | `record_replay_send`, `record_replay_recv`, `recv_expected_message` | `rr.rs` |
| crossbeam and mpsc channels | the real queue, the buffer | `send`, `recv`, `try_recv`, `recv_timeout`, constructors | `crossbeam_channel.rs`, `mpsc.rs` |
| desynchronisation | `DESYNC`, `PARK_THREADS` | `handle_desync`, `sleep_until_desync`, `mark_program_as_desynced` | `desync.rs` |
| deterministic ids | `DET_ID`, `DET_ID_SPAWNER`, `CHANNEL_ID` of each thread | spawn a thread, create a channel, adopt a foreign thread | `detthread.rs`, `DetChannelId` in `rr.rs`, `rr_channel_creation_event` in `lib.rs` |
| select | the receivers added and their buffers | `select`, `ready`, `SelectedOperation::recv` | `crossbeam_select.rs` |
| `select!` | the lists that its arms pass on | parse, generate, select, complete | `crossbeam_select_macro.rs` |
| IPC channels, receiver sets | buffers, the dummy and the real `IpcReceiverSet`, the index of each receiver | `send`, `recv`, `add`, `select`, the fall-back after a desync | `ipc_channel/mod.rs` |
| router | the routes, the wake-up and the message channel, the shutdown flag | `add_route`, `shutdown`, the router's loop | `ipc_channel/router.rs` |

How they interact. A channel operation asks the record log for the calling
thread's next entry (replay) or writes one (recording), under the thread's
deterministic id; a message carries its sender's id. An operation that cannot
repeat its entry reports a desync. Depending on `RR_DESYNC_MODE` the thread then
panics, or marks the program as desynced and goes on without the log. A thread
at the end of its list sleeps until somebody does that. Select, IPC and the
router are built from the same pieces.

What is hard about it:

* the flush drains the threads' event channels one after the other, while the
  threads run; the file is a cut through the recording that nobody designed;
* an operation and its log entry are two steps, in the opposite order in the
  recording (operate, then log) and the replay (read the log, then operate);
* messages arrive in another order than in the recording, and some of them a
  second too late;
* after a desync each kind of operation treats the log differently: a send stops
  asking it, a receive does not;
* sleeping, waking and marking race with one another; a panic may hold a lock;
* select and receive are two calls in the program and one entry in the log; an
  index means something in the real set, in the vector of the replay, and to the
  program, and has to mean the same;
* the router's thread runs callbacks that call the router's own proxy, and each call
  makes two messages on two channels that have to be matched again;
* ids must come out the same whatever the order in which threads run.

What makes each part correct:

* record log: nothing is lost, reordered or duplicated; the flush ends, if each thread writes a finite number
  of entries, whether or not the threads end;
* record and replay: a replay repeats what each thread observed, does not desync
  for no reason, and does not hang; messages of a sender stay in order,
  and wait for as long as their receiver lives;
* desynchronisation: sleepers wake after a desync, and only then;
* ids: unique, and a function of the program alone;
* select, receiver sets, router: an operation returns what the log says, with the
  indices of the recording; after a desync no buffered message is forgotten; the
  router's shutdown ends.

`PROJECT.json` lists the hazards at their lines, with the properties that would
catch them going wrong.

## 2. Modules

| module | models | state and actions |
|---|---|---|
| `RecordLog` | the record log | the maps, the event channels and the lists; one operation for each step of another thread's interest. It has no threads of its own |
| `LogClients` | threads that write, exit, read | extends `RecordLog`; the properties of the log |
| `SenderFifo` | abstract | what a channel promises: FIFO for each sender, nothing duplicated, nothing lost while the receiver's thread lives; `Send`, `Receive`, `End` of a thread, `Refuse` (its log is closed) and `Lose`, the one loss |
| `RecordReplay` | `rr.rs`, both kinds of channels, `handle_desync` | extends `RecordLog`; `wire`, `buffer`, the threads' positions and what they have observed; implements `SenderFifo` |
| `Parking` | abstract | sleeping until a desync, atomically |
| `Desync` | `desync.rs`, an atomic operation a step | `DESYNC`, the mutex, its flag, the condition variable; implements `Parking` |
| `DetThread` | ids, spawns, channel creations | extends `RecordLog`; det ids and the two counters of each thread |
| `Reader` | one thread that receives, in a recorded and a replayed execution | a list, channels with scripted senders, buffers; no specification of its own |
| `CrossbeamSelect` | `crossbeam_select.rs`, `poll_entry` and `get_buffered_value` | extends `Reader`; `added`, `chosen` |
| `IpcReceiverSet` | `ipc_channel/mod.rs` | extends `Reader`; the vector, the set underneath, the events replayed so far |
| `Router` | `ipc_channel/router.rs` | the proxy's lock and flag, the two channels, the routes, the batch of a select |
| `SelectMacro` | `crossbeam_select_macro.rs` | the lists of cases, the labels, the selected index |
| `MC...` | instances for TLC | programs and small sets |
| `..._proofs` | theorems | see section 6 |

The log. `channel[id]` is the event channel of a thread, `open` the receiving ends
that are still in the recorder's map, `saved` and `log` the keys and the values of
the map in the file. `recorder = "flushing"` stands for the lock, which
`execution_done` holds until the file is written. `try_iter().collect()` is a step
`CollectEntry` for each entry, while the threads go on writing to the same channel,
and `CollectEntries` at the moment the channel is found empty; `draining` is the receiver
in hand. `DropReceiver` is a step of its own: an entry that is sent between the two is
accepted and thrown away.

A process ends and another one starts: `StartReplay`, and `Restart` in each client.
The replay starts from the file, the rest is initial.

The program in `RecordReplay` is the operator `Code(program, t, h)`: the next operation
of thread `t` is a function of what its operations have returned, `h`. That is the
determinism the library asks for; everything else is free. `setup`, which never
changes, names the program and the conditions that both executions run under: the
desync mode (`keepGoing`) and whether messages come in time (`prompt`). A run has a set
of them, `Setups`, and checks all of them; a theorem is about any such set. The
same holds for `Reader`, whose setups also have the senders' scripts, the worlds
and the faults. A recording thread goes
from `"idle"` through `RecordOp` (the operation takes place) to `"log"` and through
`RecordEvent` (the entry is written) back to the program. A replaying thread takes
its entry first, and then sends (`"deliver"`) or loops in `recv_expected_message`
(`"receive"`). `HandleDesync` leaves it in `"desync"`, where the operation takes
place on the buffer and the wire. When the main thread ends the process is over.

The crossbeam and the mpsc wrappers are the same code but for their types, and one
set of actions stands for both. The macros that write their methods are mapped
where they are defined. The channel underneath is external: a FIFO queue with a
capacity, disconnected when one side is gone.

`ReceiveTimesOut` has no clock. With `Prompt` the second passes only when no other
thread can move, which says that messages under way arrive within a second;
without it, at any moment.

`Desync` splits `mark_program_as_desynced` into its load, its store, and the three
steps of `wake_up_threads`. `Condvar::wait` releases the mutex and starts to wait in
one step, as documented, and may return for no reason.

`Reader` is `RecordReplay` seen by one thread. What it observes is decided by the order in
which the senders' messages come, so the senders follow a script, `Sends`, and the
thread has all of the calls. `at` says where it is inside a call, `want` the channel and
sender that it is receiving from, `hist` what its calls have returned. `Flush` cuts the list at
any point; after it `NewProcess` starts the replay. `Code(program, world, hist)` is the
next call. With one element in `World` the program is deterministic; with several, the replay
may be in another world than the recording, and desyncs. `Faulty` lets senders panic and other
threads mark the program as desynced.

`CrossbeamSelect`: `Select::recv`, `select` and `SelectedOperation::recv` are `Add`, the actions from
`RecordSelect` to `DesyncSelect`, and those from `CompleteWithWrongReceiver` to `ReplayComplete`;
`chosen` is the enum inside a `SelectedOperation`. Polling is a step for each message, so that
senders and other threads' desyncs come in between. The entry of a recorded select is written
in the receive, where the code writes it. A `select` operation of a program has its own list of
receivers, `recvs`: what it passes to `SelectedOperation::recv` is not always what it added.

`IpcReceiverSet`: `receivers` is the vector of the replay, `real` the set underneath. What a `select` of
that set reports is built event by event in `got`, at the place `"select"`: some of the messages that are there and
the channels that have ended, in any order, at least one. It reports no channel any more once it has reported its end; a
dummy is such an entry from the start. `todo` and `got` are the loop of `rr_select`; `MoveReceiver`,
`MoveDummy` and `MoveDone` the loop of `move_receivers_to_set`; `Drain` is `get_buffered_entries`, one queue after the
other in the order of a hash map, that is in any order. The buffer is keyed by index: messages for a receiver that was
seen closed are drained too. `created` counts channels because the dummy is one. A `select` is in `hist` as the events it has
returned, and `Selected`. An index starts from 1 here and from 0 in the code.

`Router`: `pc` says which call of the code a thread comes to next: the lock, the send to the
message channel, the send to the wake-up channel, the acknowledgement, the join. The router's own
thread goes through the first three of these in a handler that adds a route (`Adds`). `batch` is what `select` has
returned; a wake-up in it takes the router to `"recv"`, where it blocks until there is a
message. Senders of the routes are other processes.

`SelectMacro`: every step of the expansion is an arm of `rr_channel_internal` and moves the
first case of a list. The stages are the macro's: `list`, `case`, `init` (as the guards
of `InitRecv` and `InitSelect`), `add`, and then a run of the code generated. A case is what the arms look at:
the word it begins with, the number of arguments, the arrows, the braces, the separator.

In `DetThread` a path is a sequence, not an array of ten numbers with a length; its
limit is the constant `MAX_SIZE`. `Prog[t]` lists what a thread creates.

## 3. Runs

| run | shows |
|---|---|
| `record_log` | three threads write two entries each, exit at any point, and are overtaken by the flush at any point: what is saved is an initial part of what was written and contains what preceded the flush; the flush ends, although a thread writes while its channel is drained and none need drop its sender; the replay reads it all |
| `record_replay` | three threads, in five setups. A relay with a poll, a timeout and an answer, all joined before the flush; the same with messages only and no joins, so that the flush cuts the logs of running threads; channels of capacity 1, where sends block: with messages in time the replay is faithful for every cut, and for each cut that is consistent it never desyncs and gets to its end. In mode KeepGoing, with messages of any delay: a main thread that collects all messages and joins one of their senders; and a main thread that sends twice and ends the recording while the receiver is about to log what it has received, so that it finds its log closed. The main thread gets to its end after any desync. In all of them channels are FIFO for each sender and double nothing, and lose nothing while the receiver's thread lives but what that receive has in hand |
| `desync_keep_going` | three threads, two rounds each, spurious wake-ups |
| `det_thread` | six threads on three levels, one foreign, one spawn too deep |
| `select` | a thread with two channels and two senders, in four setups. A poll, three selects and a receive on two `Select`s; `ready` and the receive that it promises: for every cut of the log the replay selects the same receivers and messages, does not desync before the end of its list, and gets there. The first with late messages, and a program that depends on what is not recorded, with senders that panic and other threads' desyncs, in mode KeepGoing: a selected operation finds its message, no message is lost, and select does not wait while one is buffered |
| `receiver_set` | the same for a receiver set, in four setups. One receiver added between two selects, until both channels are closed: the same events with the same indices, nothing lost, no desync before the end of the list. Desyncs of every kind: the move keeps the indices, no message comes twice or out of order, an end once, buffers first |
| `router` | two threads each add a route and shut down; a handler adds a third route, another one panics, and the proxy may be dropped: calls do not mix, wake-ups match messages, handlers get each message once and in order, the router has a handler for all that it is told of, and what can stop a shutdown is a handler |
| `macro_blocks` | all blocks of up to three cases, malformed ones included, and long ones: what expands is well formed, receives expand, and the case that was selected runs |
| `missing_list`, `sleepers_sent`, `send_result`, `desync_panic` | where the code and its comments disagree (section 5) |

Bounds. Three threads are the least with two senders that race for a receiver, and
a replay that buffers; two more would repeat them. Two entries for each thread in
`record_log` let the flush cut before, between and after them, and let a thread write
the second while the first is taken out. No finite number of entries shows a thread that writes
for ever: it could keep `try_iter` going if it is never slower than the main thread, and
`FlushEnds` is about threads that write finitely often. Values are computed
from what the sender has received, so that one wrong delivery shows in all that
follows. The bounded channels have room for one message, so that their senders block.
Two rounds in `Desync` let a thread sleep after it has detected a desync, and the
other way round. In `DetThread` `MAX_SIZE` is 2 instead of 10, and `MaxChildren`, the
bound on a thread's children and channels, is 2: enough for siblings, cousins and a
spawn at the limit.

In `CrossbeamSelect` and `IpcReceiverSet` two channels with two senders that race for the first
are the least with an index that matters, a message for the buffer, and a second receiver that is
ready at the same time. `World` has an element for each way to leave the log: another receiver, another order, or another
kind of call. In `Router` two threads meet in all pairs of calls, a third would
wait for the same lock; two messages on one route and one on the others tell order
from number. In `SelectMacro` three cases put every pair of cases next to each other and
apart; 18 and 19 receives are at the label that is missing, 32 and 33 at the end of the labels.

Deadlock is not checked: programs end, and threads that sleep for ever are what the
code means to happen in a replay. That nothing stops too early is what the liveness
properties say.

Symmetry is not used: the programs tell the threads apart, and liveness is checked
in most runs.

## 4. Fairness

A thread that can go on is scheduled at some time: weak fairness of each thread's
steps, and of the flush. Nothing makes a thread of `LogClients` write or exit, and
nothing makes one desync. `LockToWake` has strong fairness: sleepers that wake up
spuriously take the mutex again and again, and the run needs a mutex that does not
starve the waker for ever. Message delay is not a matter of fairness; see `Prompt`.

In `CrossbeamSelect` the thread and the senders run, but a sender need not leave: a select may
wait. In `IpcReceiverSet` senders come to the end of their scripts and drop their ends, because a
replay waits for the closures that it has recorded. In `Router` the threads and the router run; nobody has to send
to a route or close it. `Repeatable` names the replays that ought to repeat the recording: prompt
messages, no faults, a deterministic program.

`MainFinishes`, `ReplayCompletes`, `LogIsReplayed` and `ThreadsAreRecreated` suppose a log
with a list for each thread that reads one. Without, a thread panics
(`missing_list`), and what waits for it waits for ever or ends the process.

## 5. Where the code and its comments disagree

A run shows each of these four.

* **A thread without a list** (`OffLogThreadsSleep`). The comments in `desync.rs` say that
  a thread off the end of the log is put to sleep. One that logged nothing at all
  panics instead, in `take_entry`, and poisons the lock of `GLOBAL_REPLAYER`: threads
  that have a list and have not opened it yet panic too.
* **A sleeper that made it that far** (`SleepersDidNotSend`). A send delivers before it
  logs. When the flush comes in between, the receiver's log has the message, and the
  sender's replay goes to sleep in front of the send.
* **The result of a send** (`SendResultsAreReplayed`) is not recorded, against the doc
  comment of `record_replay_send`.
* **Panic wakes nobody** (`SleepersWakeOnDesync`). In the default desync mode no thread
  marks the program as desynced, and sleepers sleep on.

The second is why `NoFalseDesync` and `ReplayCompletes` of `RecordReplay` ask for
`ConsistentCut`, and the third why `ReplayIsFaithful` asks for `SendsSucceed`. `ConsistentCut` is about joins,
too, which are not logged: when the list of a joined thread is cut before its end, the thread sleeps
at the end of its list in the replay, while whoever joined it in the recording waits for it
with entries left to replay. It is not enough that the joined thread was recorded to its end: if that thread
joined a third one, which was not, it never ends either, and its joiner waits for it with entries
left. So the threads that are joined form a set, `Ended`, that contains whatever its members join. This came out of
the proof of `NoFalseDesync`; with joins of one level only, TLC finds a desync of a program with five threads.

The others are in the models as the code has them. Where one stands in the way of
a property, the property names it as an exception, so that the run shows that
nothing else does.

* **Labels** (`ChosenCaseRuns` leaves out 18 and 20). The labels of `select!` go 17, 20, 19,
  20 (`crossbeam_select_macro.rs:789`). With 19 receives the last one, when it is selected, ends in the arm that
  "should never happen"; with 21, the last one is taken for the nineteenth.
* **default and send** (`BlocksExpand`, `ChosenCaseRuns`). A default case beside two operations does not
  compile, and a send panics in `Select::send`; the documentation of `select!` has both.
* **Select and the end of the log** (`OffLog` in `ReplayCompletes`). `Select::recv` and `ready` at the end of a
  list do not sleep: the first panics (`crossbeam_select.rs:116`), the second desyncs.
* **Select after a desync** (`Add`). `select` stops asking the log and `Select::recv` does not, so
  that it meets the wrong entry and panics, in mode KeepGoing too (`crossbeam_select.rs:109`).
* **ready after a desync** (`DesyncReady`) asks crossbeam alone and waits with a message in a buffer;
  `SelectSeesBuffers` is about `select` only (`crossbeam_select.rs:175`).
* **unreachable** (`PollDisconnected`). `poll_entry` gets to its `unreachable!()` when the senders have gone
  (`crossbeam_channel.rs:406`).
* **Entries of a failed select** (`SelectFails`). `rr_select` returns them "to avoid losing them", and `select`
  ignores them (`ipc_channel/mod.rs:599`); so `NothingLost` of `IpcReceiverSet` ends with a desync.
* **A message after the end** (`EventsInOrder` allows it). `rr_recv` tells that a channel is closed from the queue
  underneath, and the replay reports it (`ipc_channel/mod.rs:774`), also when messages of that channel are in the buffer. After a desync
  `get_buffered_entries` returns them, behind the end.
* **The dummy** (`MoveDummy`). The dummy for a closed receiver is made by `channel`, which
  panics when its creation is not the next entry of the log (`ipc_channel/mod.rs:1021`).
* **Buffered before the add** (`BufferDropped`, in the properties of `IpcReceiverSet` that suppose a faithful
  replay). `to_opaque` drops the buffer (`ipc_channel/mod.rs:137`): a receiver that was received from and is then added to
  a set has lost the messages that came early.
* **Shutdown and handlers** (`Deadlocked` in `ShutdownReturns`). `shutdown` holds the lock and waits for the router;
  a handler that adds a route waits for the lock. And when a handler panics after the shutdown message was sent, the
  acknowledgement never comes, and its channel is not disconnected either, because the message stays
  in the other one (`ipc_channel/router.rs:72`).
* **Idempotent** (`ShutdownReturns` allows the panic). An `add_route` after a shutdown panics with the lock in its
  hand; the next shutdown panics on it, although its comment calls it idempotent. When the router has panicked,
  `shutdown` panics before it gets to the join that would report it.
* **Wake-up first** (`Half` in `OneWakeupPerMessage`). `shutdown` sends the wake-up before the message, against its doc
  comment; the router waits for the message, and no harm is done.

## 6. Proofs

All for every value of the constants, under the assumptions of the modules
(`NoIdAssumption`, `MaxEntriesAssumption`, `DesyncAssumption`, `DetThreadAssumption`,
`ProgramAssumption`, `ReaderAssumption`, `RouterAssumption`), by TLAPS. Hypotheses about
the program stand in the theorems. For `RecordReplay`: `WellFormedProgram`, what `Code` returns is an
operation on the program's channels; `OwnReceivers` and `HoldsSenders`, a thread receives from and sends on the channels
whose ends it holds, which is how `Owner` and `Senders` are meant; and `OneProducer`, a bounded channel has
one sender.

* `RecordLog_proofs`: what the operations of the log do, as facts that the proofs of its three
  clients (`LogClients`, `DetThread`, `RecordReplay`) cite: types, `saved` grows by one thread that is drained
  once, and taking an entry out of a channel changes neither the list and the channel together (`Carried`) nor
  the order.
* `LogClients_proofs`: `TypeOK`, `SavedIsPrefix`, `NothingLostBeforeFlush`, `ReadsWhatItWrote`,
  `NoPanicOnFullLog`. The inductive invariant relates a list and its event channel to what the thread
  has written in each phase of the flush: the entries taken out so far and then those in the channel
  (`Carried`) are the whole of it until the channel is found empty, the list is an initial part afterwards; and, in a replay,
  what was read to the first `next` entries of the list. `SavedIsPrefix` alone is not
  inductive, because it says nothing of a channel before it is drained.
* `RecordReplay_proofs`: `TypeOK`, and `ReplayIsFaithful`, for any program, schedule and cut of the log. For
  the types the invariant adds that a thread inside an operation is inside the one its program
  calls next; types alone do not exclude a thread that is receiving inside a send. Faithfulness needs
  all the threads at once, because what a thread receives is a function of its sender's
  past. The conjuncts of `FInv`:
  - `Histories`: each thread did what its program says, in both executions;
  - `Lists`: the list of a thread has the entries of its history in order, up to the end or the first gap. A gap
    is a receive that was done and not written, because the log was closed; after one the list is of no use,
    and a thread that has one has desynced;
  - `Messages`: the n-th message of a sender on a channel is the n-th of what the receiver has got, the buffer and
    the queue, as long as the receiver follows the log or makes it;
  - `LoggedReceives`: each logged receive is the n-th send of the recorded sender's history;
  - `Replayed`: the histories agree, and the cursor is at the entry of the operation that
    the thread is in.

  A receive in the replay is then the n-th from its sender in both executions. The sender's histories agree
  so far, so it has sent the same value. `LoggedReceives` keeps this through the restart, where
  the messages themselves are gone.

  The same invariant gives the refinement of `SenderFifo` (`ImplementsSenderFifoCorrect`), in both executions, before
  and after a desync. `UnderWay` is what is being recorded, then the buffer, then the queue, for each
  channel and sender; `Received` is the receiver's history. Each step is first reduced to its effect
  on these (`EffectView`): a message goes onto the wire, from the wire to the buffer, from either to the
  thread, from the thread to its history, or it is forgotten (`OnlyItForgets`); or a thread ends and its receivers close. Two things need the
  invariant: the receiver whose history grows is the owner of the channel, and what a
  replayed receive takes is the first message of the expected sender, because the buffer is ahead of the wire.
  A message can be lost in two ways, which `SenderFifo` tells apart. With its receiver: `End` empties the
  channels of the thread that ends and no others, and afterwards nobody sends to them or receives. And in `Lose`: a
  recorded receive takes its message off the channel and then writes the entry (`rr.rs:120-125`); if the flush has
  dropped the receiving end of its log by then and the mode is KeepGoing, `handle_desync` receives another message and
  the first is gone. `Lose` asks for a thread that lives and whose log is closed (`refused`). In mode Panic nobody is in `refused`, because
  there the thread panics, and in a replay nobody is, because nothing is written. The theorem has no
  other condition than the two on the program, and `CutShortCode` of `MCRecordReplay` takes the step in
  the run.

  `NoFalseDesync`, for any program, schedule and consistent cut: a replay with a list for each thread, in which
  messages under way arrive in time and no send finds its receiver gone, neither desyncs nor panics. That an entry
  never disagrees with the operation follows from `Replayed` and the first conjunct of `ConsistentCut`. That no
  receive waits until it times out is an argument about the order in which things happened in the
  recording, which neither the log nor the histories keep, so that the invariant, `Order`, says that there is one:
  - `Timed`: each result of the recorded histories can be given a time, later for later results of a thread; later for a
    receive than for its send; on a bounded channel later for a send than for the receive that made room for it;
    later for a join than for all that the joined thread did. A step of the recording adds the latest time of all, which
    is later than what it depends on because of `Messages`, of `WireFits` (no queue is over its capacity)
    and of `JoinedDead` (who was joined is dead). A receive of a thread whose list is saved does
    not count: it is not in the log, and after a desync it may take any message;
  - `ReplayReady`: no thread finds the lock of the lists poisoned or its list gone;
  - `AllResting`: a thread exits where its program ends, and sleeps at the end of its list only.

  In a replay let a thread be `Behind` that has entries left, or is in `Ended` and has not come to its end. If one is, and
  nobody could move, the one whose next result has the earliest time (`Due`) would wait for another: a receive for
  the message (`ReceiveWaits`), a send for room (`SendWaits`), a join for an exit (`JoinWaits`). The recording did what
  it waits for before, and by `ConsistentCut` it is in the log of a thread that has not
  done it yet, so that this thread is behind too, with an earlier time (`EarlierBehind`). Hence while one is behind
  somebody can move (`SomeoneMoves`), and with `Prompt` no receive times out; nor does it find all senders gone,
  because the sender of its message is behind and runs.

  `OneProducer` is needed. The `Clone` of a bounded crossbeam `Sender` panics, and that of mpsc warns that "blocking semantics
  of bounded channels will not be preserved" (`mpsc.rs:267-275`). They are not: let `t1` send on a channel with
  room for one and then on a second channel, `t2` send on the first, and the main thread receive from the second
  and then twice from the first. When `t2` comes first in the replay, `t1` blocks, the main thread
  waits for `t1`, and TLC shows that it desyncs.
* `Desync_proofs`: `NoLostWakeup`, `WokenOnlyByDesync`, and that each step is a step of
  `Parking` or a stutter. The invariant says who holds the mutex at each position, that
  the flag is set after `DESYNC` only, and that whoever still waits when the flag is set
  is about to be notified.
* `DetThread_proofs`: `TypeOK`, `UniqueThreadIds`, `UniqueChannelIds`, `IdsAreDeterministic`, `CreationsMatchLog`. The first
  invariant, `IInv`, says that every id but the root's extends the id of another thread, by a number that this
  thread's counter has passed; uniqueness alone does not say that the next id is new. The second, `DetInv`, makes an
  id a function of the program's text: a counter is one more than the creations before the thread's position
  (`Before`), the id of a child is the parent's id with that number, in both executions
  (`FromRoot`), and the list under an id has what the thread with this id logs, in order (`Lists`, `Cursors`). That an id
  stands for one thread in both executions (`SameThreads`) is by the length of ids, and rests on the
  assumption that a thread is created at one place of the text, once.
* `CrossbeamSelect_proofs`: `TypeOK`, `PolledMessageIsThere`, `NothingLost`, `SelectIsFaithful`, in four layers:
  - `Inside`: where the thread is in its operation, and what it has found out by then;
  - `Place`: what the modes rule out (a recording has nothing buffered), that a message that crossbeam's select has chosen is
    on the wire, and one that the replay has polled is in the buffer, and that the entry being replayed is
    the last one taken;
  - `Flow`: for each channel and sender, what was received, is buffered and is on the wire is only what was sent, in order, and,
    while the log is open or in a replay, all of it. A recording whose log is
    closed may lose a message, in the receive that cannot be logged, so that `NothingLost` alone is not inductive;
  - `Written`, `Replayed`: there is a function from the entries of the list to the places of the results they
    were written for. Each such result is the first message of its sender that was not received before
    (`InTurn`). In the replay the entries taken are those of the results repeated.

  Each step of `Next` is first split into what it does to the log, to the channels and to the thread, so
  that a conjunct is proved for a few kinds of effect and not for twenty actions.
* `IpcReceiverSet_proofs`: `TypeOK`, `IndicesAgree`, `NothingLost`, `EventsInOrder` and `SelectIsFaithful`, for any
  program, number of receivers and cut of the log. The
  indices are inductive only with what the two executions have in common, the log: an add in it comes before the
  events of its receiver (`AddedFirst`), which holds because a recording logs each add (`AddsLogged`), and what the
  replay has taken from it is in its vector (`Repeated`). That the move keeps the indices rests on `Modes`: until a
  replay moves its receivers the set underneath is empty, and from the first to the last of them it is in the
  one operation that moves them. The other three add to it (`FlowInv`, `SightInv`, `FaithInv`):
  - `Flow`: for each channel and sender, what was seen, is buffered and is on the wire is only what was sent, in
    order, and all of it until a desync (`Lossless`), unless an `add` has dropped the buffer.
    Each step is one of a few effects on the three (`Effect`);
  - `Early`, `Adding`: nothing is buffered in a recording, nor for the receivers that the set underneath is asked for;
    a replay has messages in a buffer only of channels that the program has received from or added, and the history
    has an `add` for each that was added. So an `add` that drops messages is one that `Dropped` tells of;
  - `EndInv`: whoever has seen the end of a channel has a closed receiver at its index (`EndMarked`), which the move
    puts into the set as a dummy; the recording has logged what it has seen (`EndLogged`), each end once
    (`LogOnce`), and what the replay has still to see it has not seen yet (`EndsToCome`, `TodoOnce`);
  - `Written`: a function `pos` says for how many results the first entries of the log are, one for an operation and one
    for each event of a `select` and its return (`Span`). Each of these results is what the program asked for, of
    the channel of its index, and, if it is a message, the first of its sender that was not seen before (`InTurn`);
  - `Reading`, `Repetition`: in the replay what the program has seen is that many results of the recording, and, in
    the middle of a `select`, the events before those still in `todo`. The next result agrees with the
    entry in all but the value. The value is the same too because by `InTurn` it is a function of the results before it;
    that a message of a channel with a dropped buffer need not be in turn is why `BufferDropped` is excluded
    (`DroppedBefore`).

  Their hypothesis is `AddsOnce`: whatever a program has seen, it adds no channel that it has added before. In the
  code `add` takes the receiver by value (`ipc_channel/mod.rs:565`), so that no program can.
* `Router_proofs`: `TypeOK`, `LockHeld`, `NothingSkipped`, `OneWakeupPerMessage`,
  `RoutesAddedBeforeShutdown`, `HandlersKnown`, for any threads, calls, routes and handlers. `Inv` says where
  the lock, the router and each thread can be, and that the batch has one report for each channel, up to
  what the set has reported last. The count of wake-ups is inductive only together with the lock:
  two calls that each have sent one half would break it. `RouteInv` follows a route from
  the call through the message and the set to its handler, and says that a `Shutdown` is the last message
  of all; without that, a route sent before it could still be behind it. `HandlerInv` says that a route is in
  one place only, in a call that has not sent it, in a message, or with the router (`OnePlace`): added again
  while the report of its end is in the batch, it would be in the set without a handler. `HandlersKnown` supposes
  therefore that a program adds each route once (`AddsEachOnce`); `add_route` takes the receiver by value
  (`router.rs:89`). That a handler adds its route once, at its first message, is by `NothingSkipped`.

Model-checked only:

* liveness under fairness, for which the prover has no backend: `FlushEnds`, `LogIsReplayed`,
  `ReplayCompletes`, `MainFinishes`, `ThreadsAreRecreated`, `SelectSeesBuffers`, `ShutdownReturns` and the
  fairness part of `Parking`; `ENABLED`;
* `ChosenCaseRuns` and `BlocksExpand` of `SelectMacro`. They compare what an expansion registers with the operations of
  the block, which `OperationsOf` filters out of the list of cases: a computation over a list of any
  length, for which the induction theorems cannot be used. The run has all short blocks and the long
  ones at which the labels end.

Type invariants are theorems and not in the runs, but for those of `CrossbeamSelect` and `IpcReceiverSet`, where
the runs check the entry types as well.

## 7. Not modelled

* `NoRR`, in which the library does nothing, and the paths of `cfg(test)`.
* The text of the file, names of types, tracing, reading the environment.
* `after` and `never` channels but for their creation, rendezvous channels,
  `Sender::clone` (the programs name the holders of a channel's senders from the start).
* Threads that drop a channel end before they end.
* `error.rs`, `utils.rs`, the test support, and the examples.
* `recv_timeout` of a thread of `Reader`; `RecordReplay` has it.
* Sends as operations of a select, and `try_select` and `select_timeout`: the library's `Select` has none.
* `IpcSender::connect`, which is `todo!()`, opaque senders, bytes channels, shared memory, the
  encoding of messages, and errors of the operating system.
* Several receiver sets, and `DesyncError::MissingReceiver` of a set, which `IndicesAgree` shows to be out
  of reach for one. A receiver is added to one set once.
* The recording of the router's own channels, which is that of `IpcReceiverSet` and `RecordReplay`.

## 8. Plan

1. Done: `RecordLog`, `LogClients`, `RecordReplay` with `SenderFifo`, `Desync` with `Parking`,
   `DetThread`.
2. Done: `CrossbeamSelect` on `Reader`, and `SelectMacro`.
3. Done: `IpcReceiverSet` on `Reader`.
4. Done: `Router` and its proofs.
5. Done: proofs of ids and creations, of the faithful replay, of select, and of the indices and messages of
   a receiver set, and of its faithful replay. The step refinement of `SenderFifo`, from `Messages`.
   That a replay of a consistent cut does not desync, from the order of events.
6. The router over a replayed receiver set: `Router`'s `Select` refined by that of
   `IpcReceiverSet`, so that handlers run in the recorded order.
